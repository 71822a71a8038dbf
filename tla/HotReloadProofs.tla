-------------------------- MODULE HotReloadProofs --------------------------
(***************************************************************************)
(* Proofs about HotReload and the debouncers it contains, for any number   *)
(* of watchers, requests, components and configurations.                   *)
(***************************************************************************)
EXTENDS HotReload, TLAPS

-----------------------------------------------------------------------------
(* Debouncer.  A call of fn is under way exactly when d.running is set, the *)
(* loop owes a call only then, and a stopped debouncer has no timer.       *)

DebTypes ==
  /\ armed \in [Watchers -> BOOLEAN] /\ firing \in [Watchers -> Nat]
  /\ running \in [Watchers -> BOOLEAN] /\ pending \in [Watchers -> BOOLEAN]
  /\ stopped \in [Watchers -> BOOLEAN] /\ inFn \in [Watchers -> {0, 1}]
  /\ dirty \in [Watchers -> BOOLEAN]

CallIsRunning ==
  \A w \in Watchers : /\ inFn[w] = (IF running[w] THEN 1 ELSE 0)
                      /\ pending[w] => running[w]
                      /\ stopped[w] => ~ armed[w]

DebInv == DebTypes /\ CallIsRunning /\ NoTriggerLost

LEMMA DebStepInv ==
  ASSUME DebInv, NEW w \in Watchers, DebStep(w)
  PROVE  DebInv'
<1> USE DEF DebInv, DebTypes, CallIsRunning, NoTriggerLost
<1>1. CASE NewDebouncer(w)
  BY <1>1 DEF NewDebouncer, Idle
<1>2. CASE Trigger(w)
  BY <1>2 DEF Trigger
<1>3. CASE Expire(w)
  BY <1>3 DEF Expire
<1>4. CASE Fire(w)
  <2>1. CASE FireStopped(w)
    BY <1>4, <2>1 DEF Fire, FireStopped
  <2>2. CASE FireBusy(w)
    BY <1>4, <2>2 DEF Fire, FireBusy
  <2>3. CASE FireCalls(w)
    BY <1>4, <2>3 DEF Fire, FireCalls
  <2>4. QED
    BY <1>4, <2>1, <2>2, <2>3 DEF Fire
<1>5. CASE Return(w)
  <2>1. CASE Again(w)
    BY <1>5, <2>1, ZenonT(60) DEF Return, Again
  <2>2. CASE ~ Again(w)
    <3>1. /\ running' = [running EXCEPT ![w] = FALSE]
          /\ inFn' = [inFn EXCEPT ![w] = inFn[w] - 1]
          /\ pending' = [pending EXCEPT ![w] = FALSE]
          /\ UNCHANGED <<armed, firing, stopped, dirty>>
          /\ inFn[w] = 1
      BY <1>5, <2>2 DEF Return
    <3>2. DebTypes' /\ CallIsRunning'
      BY <3>1
    <3>3. NoTriggerLost'
      BY <2>2, <3>1 DEF Again
    <3>4. QED
      BY <3>2, <3>3
  <2>3. QED
    BY <2>1, <2>2
<1>6. CASE Stop(w)
  BY <1>6 DEF Stop
<1>7. QED
  BY <1>1, <1>2, <1>3, <1>4, <1>5, <1>6 DEF DebStep

LEMMA DebStutter ==
  ASSUME DebInv, UNCHANGED debVars
  PROVE  DebInv'
BY DEF DebInv, DebTypes, CallIsRunning, NoTriggerLost, debVars

\* Every step of HotReload is a step of one debouncer or leaves all alone:
\* the composition implements the component's specification.
THEOREM ImplementsDebouncer == Spec => DebSpec
<1>1. Init => DebInit
  BY DEF Init
<1>2. [Next]_vars => [\E w \in Watchers : DebStep(w)]_debVars
  <2> SUFFICES ASSUME [Next]_vars
               PROVE  (\E w \in Watchers : DebStep(w)) \/ UNCHANGED debVars
    OBVIOUS
  <2>1. CASE UserSaves \/ SyncOff
    BY <2>1 DEF UserSaves, SyncOff
  <2>2. CASE SyncOn
    BY <2>2 DEF SyncOn, DebStep
  <2>3. CASE ApplyStep
    BY <2>3 DEF ApplyStep, Begin, Prepare, PrepareFails, Publish, Commit, Applied
  <2>4. ASSUME NEW w \in Watchers, WatcherStep(w)
        PROVE  DebStep(w) \/ UNCHANGED debVars
    BY <2>4 DEF WatcherStep, Deliver, TimerExpires, TimerFires, Load, ReloadReturns,
                CloseWatcher, DebStep
  <2>5. ASSUME NEW r \in Requests, RequestStep(r)
        PROVE  UNCHANGED debVars
    BY <2>5 DEF RequestStep, Snapshot, Save, SaveFails
  <2>6. CASE UNCHANGED vars
    BY <2>6 DEF vars, debVars
  <2>7. QED
    BY <2>1, <2>2, <2>3, <2>4, <2>5, <2>6 DEF Next
<1>3. QED
  BY <1>1, <1>2, PTL DEF Spec, DebSpec

THEOREM DebouncerInvariant == DebSpec => []DebInv
<1>1. DebInit => DebInv
  BY DEF DebInit, DebInv, DebTypes, CallIsRunning, NoTriggerLost
<1>2. DebInv /\ [\E w \in Watchers : DebStep(w)]_debVars => DebInv'
  BY DebStepInv, DebStutter
<1>3. QED
  BY <1>1, <1>2, PTL DEF DebSpec

\* "fn never runs concurrently with itself" (debounce.go:13).
THEOREM ReloadNeverConcurrent == Spec => []NeverConcurrent
<1>1. DebInv => NeverConcurrent
  BY DEF DebInv, DebTypes, NeverConcurrent
<1>2. QED
  BY <1>1, ImplementsDebouncer, DebouncerInvariant, PTL

\* No change of the file is forgotten between the event and the reload that
\* begins after it (debounce.go:13-14).
THEOREM TriggerIsKept == Spec => []NoTriggerLost
<1>1. DebInv => NoTriggerLost
  BY DEF DebInv
<1>2. QED
  BY <1>1, ImplementsDebouncer, DebouncerInvariant, PTL

\* "Stop cancels any pending call" (debounce.go:79).
THEOREM StopIsFinal == Spec => NoCallAfterStop
<1> DEFINE Quieter == \A w \in Watchers :
             stopped[w] => /\ inFn'[w] <= inFn[w]
                           /\ pending[w] /\ ~ pending'[w] => inFn'[w] < inFn[w]
<1>1. ASSUME DebInv, NEW v \in Watchers, DebStep(v)
      PROVE  Quieter
  <2> USE DEF DebInv, DebTypes, CallIsRunning
  <2>1. CASE NewDebouncer(v) \/ Trigger(v) \/ Expire(v) \/ Stop(v)
    BY <1>1, <2>1 DEF NewDebouncer, Trigger, Expire, Stop
  <2>2. CASE Fire(v)
    BY <1>1, <2>2 DEF Fire, FireStopped, FireBusy, FireCalls
  <2>3. CASE Return(v)
    BY <1>1, <2>3 DEF Return, Again
  <2>4. QED
    BY <1>1, <2>1, <2>2, <2>3 DEF DebStep
<1>2. DebInv /\ [\E w \in Watchers : DebStep(w)]_debVars => [Quieter]_debVars
  BY <1>1
<1>3. QED
  BY <1>2, ImplementsDebouncer, DebouncerInvariant, PTL DEF DebSpec, NoCallAfterStop

-----------------------------------------------------------------------------
(* Apply.  Whoever holds r.mu holds a job; the components still to prepare  *)
(* and those prepared are all that differ from the live configuration.     *)

Jobs == [by : Procs \cup {None}, next : Configs, phase : {"prepare", "commit"},
         done : SUBSET Fields, todo : SUBSET Fields]

JobCovers ==
  /\ InPhase("prepare") =>
       \A c \in Fields : job.next[c] # live[c] => c \in job.todo \cup job.done
  /\ InPhase("commit") => live = job.next
  /\ job.todo \cap job.done = {}

ApplyInv == TypeOK /\ JobCovers /\ AllOrNothing /\ NoInstanceLeaks

LEMMA ApplyStepInv ==
  ASSUME ApplyInv, [Next]_vars
  PROVE  ApplyInv'
<1> USE ReloadAssumption
<1> USE DEF ApplyInv, TypeOK, JobCovers, AllOrNothing, NoInstanceLeaks, InPhase,
            Configs
<1> USE DEF Jobs
<1>1. ASSUME NEW p \in Procs, Begin(p) PROVE ApplyInv'
  <2>1. CASE UNCHANGED job
    BY <1>1, <2>1 DEF Begin, fileVars
  <2>2. CASE job' = [by |-> p, next |-> arg[p], phase |-> "prepare", done |-> {},
                     todo |-> Changed(Baseline(p), arg[p])]
    <3>1. job = NoJob /\ UNCHANGED <<live, run, open, file, arg, snap>>
      BY <1>1 DEF Begin, fileVars
    <3>2. /\ job' \in Jobs /\ job'.by # None
          /\ job'.done = {} /\ job'.phase = "prepare" /\ job'.next = arg[p]
          /\ job'.todo = {c \in Fields : arg[p][c] # live[c]}
      BY <2>2 DEF Baseline, Changed
    <3>3. QED
      BY <3>1, <3>2 DEF NoJob
  <2>3. QED
    BY <1>1, <2>1, <2>2 DEF Begin
<1>2. ASSUME NEW c \in Fields, Prepare(c) PROVE ApplyInv'
  <2>1. /\ job.by # None /\ job.phase = "prepare" /\ c \in job.todo
        /\ UNCHANGED <<live, run, file, arg, snap>>
        /\ open' = IF c = Hot THEN open ELSE [open EXCEPT ![c] = @ + 1]
    BY <1>2 DEF Prepare, NextOf, fileVars
  <2>2. /\ job'.by = job.by /\ job'.next = job.next /\ job'.phase = job.phase
        /\ job'.todo = job.todo \ {c} /\ job'.done = job.done \cup {c}
        /\ job' \in Jobs
    BY <1>2, <2>1 DEF Prepare
  <2>3. open' \in [Fields -> Nat] /\ NoInstanceLeaks'
    BY <2>1, <2>2
  <2>4. QED
    BY <2>1, <2>2, <2>3
<1>3. ASSUME NEW c \in Fields, PrepareFails(c) PROVE ApplyInv'
  <2>1. /\ job.by # None /\ job.phase = "prepare" /\ job' = NoJob
        /\ UNCHANGED <<live, run, file, arg, snap>>
        /\ open' = [d \in Fields |-> IF d \in job.done \ {Hot} THEN open[d] - 1 ELSE open[d]]
    BY <1>3 DEF PrepareFails, Aborted, fileVars
  <2>2. open' \in [Fields -> Nat] /\ \A d \in Fields \ {Hot} : open'[d] = 1
    BY <2>1
  <2>3. QED
    BY <2>1, <2>2 DEF NoJob
<1>4. CASE Publish
  <2>1. /\ job.by # None /\ job.phase = "prepare" /\ job.todo = {}
        /\ UNCHANGED <<run, open, file, arg, snap>> /\ live' = job.next
    BY <1>4 DEF Publish, fileVars
  <2>2. /\ job'.by = job.by /\ job'.next = job.next /\ job'.phase = "commit"
        /\ job'.todo = job.todo /\ job'.done = job.done /\ job' \in Jobs
    BY <1>4, <2>1 DEF Publish
  <2>3. QED
    BY <2>1, <2>2
<1>5. ASSUME NEW c \in Fields, Commit(c) PROVE ApplyInv'
  <2>1. /\ job.by # None /\ job.phase = "commit" /\ c \in job.done
        /\ UNCHANGED <<live, file, arg, snap>>
        /\ run' = [run EXCEPT ![c] = job.next[c]]
        /\ open' = IF c = Hot THEN open ELSE [open EXCEPT ![c] = @ - 1]
    BY <1>5 DEF Commit, NextOf, fileVars
  <2>2. /\ job'.by = job.by /\ job'.next = job.next /\ job'.phase = job.phase
        /\ job'.todo = job.todo /\ job'.done = job.done \ {c} /\ job' \in Jobs
    BY <1>5, <2>1 DEF Commit
  <2>3. open' \in [Fields -> Nat] /\ NoInstanceLeaks'
    BY <2>1, <2>2
  <2>4. QED
    BY <2>1, <2>2, <2>3
<1>6. CASE Applied
  BY <1>6 DEF Applied, NoJob, fileVars
<1>7. ASSUME NEW w \in Watchers, WatcherStep(w) PROVE ApplyInv'
  <2>1. w \in Procs /\ UNCHANGED <<live, run, open, job, file, snap>>
    BY <1>7 DEF WatcherStep, Deliver, TimerExpires, TimerFires, Load, ReloadReturns,
                CloseWatcher, reloadVars, fileVars, Procs
  <2>2. UNCHANGED arg \/ (file \in Configs /\ arg' = [arg EXCEPT ![w] = file])
    BY <1>7 DEF WatcherStep, Deliver, TimerExpires, TimerFires, Load, ReloadReturns,
                CloseWatcher
  <2>3. arg' \in [Procs -> Configs]
    BY <2>1, <2>2
  <2>4. QED
    BY <2>1, <2>3
<1>8. ASSUME NEW r \in Requests, RequestStep(r) PROVE ApplyInv'
  <2>1. r \in Procs /\ UNCHANGED <<live, run, open, job>>
    BY <1>8 DEF RequestStep, Snapshot, Save, SaveFails, reloadVars, Procs
  <2>2. /\ arg' \in [Procs -> Configs] /\ snap' \in [Requests -> Configs]
        /\ file' \in Configs \cup {Broken}
    <3>1. CASE Snapshot(r)
      BY <2>1, <3>1 DEF Snapshot, fileVars
    <3>2. CASE Save(r)
      BY <2>1, <3>2 DEF Save, Written
    <3>3. CASE SaveFails(r)
      BY <2>1, <3>3 DEF SaveFails, Written
    <3>4. QED
      BY <1>8, <3>1, <3>2, <3>3 DEF RequestStep
  <2>3. QED
    BY <2>1, <2>2
<1>9. CASE UserSaves
  BY <1>9 DEF UserSaves, Written, reloadVars
<1>10. CASE SyncOff \/ SyncOn \/ UNCHANGED vars
  BY <1>10 DEF SyncOff, SyncOn, reloadVars, fileVars, vars
<1>11. QED
  BY <1>1, <1>2, <1>3, <1>4, <1>5, <1>6, <1>7, <1>8, <1>9, <1>10 DEF Next, ApplyStep

THEOREM ApplyInvariant == Spec => []ApplyInv
<1>1. Init => ApplyInv
  BY ReloadAssumption DEF Init, ApplyInv, TypeOK, JobCovers, AllOrNothing,
     NoInstanceLeaks, InPhase, Configs, Procs, NoJob
<1>2. QED
  BY <1>1, ApplyStepInv, PTL DEF Spec

\* "a reload must see the config the previous one committed" and publishes
\* first (reloader.go:63-64, 153-154): no component is ever left behind.
THEOREM ReloadIsAtomic == Spec => []AllOrNothing
<1>1. ApplyInv => AllOrNothing
  BY DEF ApplyInv
<1>2. QED
  BY <1>1, ApplyInvariant, PTL

\* "Exactly one of the two is called" (reloader.go:16-18).
THEOREM CommittedOrAborted == Spec => []NoInstanceLeaks
<1>1. ApplyInv => NoInstanceLeaks
  BY DEF ApplyInv
<1>2. QED
  BY <1>1, ApplyInvariant, PTL
=============================================================================
