----------------------------- MODULE HotReload -----------------------------
(***************************************************************************)
(* Configuration reload: hotreload.Reloader (internal/hotreload), the file *)
(* watchers it starts (internal/filewatch) and the dashboard requests that *)
(* save the configuration (internal/web).                                  *)
(*                                                                         *)
(* A configuration maps every field to a BOOLEAN; Hot is hot_reload.enabled.*)
(* Every other field belongs to one component, which runs with the value   *)
(* its last commit gave it.  Apply is two-phase under r.mu: prepare the    *)
(* components whose field changed, publish, commit them in order.          *)
(***************************************************************************)
EXTENDS Debouncer

CONSTANTS
  Fields, Rank, \* the fields, the order in which their components are registered
  Hot,          \* operations.runtime.hot_reload.enabled
  Requests,     \* dashboard requests that change the configuration
  FormRequests, \* those of the /config page, serialised by its configMu
  EditOf,       \* the field a request edits
  Broken,       \* file content that does not load or validate
  None,
  UserFiles,    \* bound: what the user may save
  MaxWrites,    \* bound: how often the user saves the file
  WatchMayFail, \* whether fsnotify may refuse a new watcher
  Start         \* the configuration the program starts with

Configs == [Fields -> BOOLEAN]
Procs   == Watchers \cup Requests

ASSUME ReloadAssumption ==
  /\ Hot \in Fields /\ Rank \in [Fields -> Nat]
  /\ \A c, d \in Fields : Rank[c] = Rank[d] => c = d
  /\ FormRequests \subseteq Requests
  /\ EditOf \in [Requests -> Fields \ {Hot}]
  /\ Watchers \cap Requests = {}
  /\ Broken \notin Configs /\ None \notin Configs \cup Procs
  /\ UserFiles \subseteq Configs \cup {Broken}
  /\ MaxWrites \in Nat /\ WatchMayFail \in BOOLEAN
  /\ Start \in Configs

VARIABLES
  live,       \* the published *config.Config
  file,       \* the content of the config file
  run,        \* the value each component runs with
  open,       \* instances of each component that are open
  job,        \* the Apply that holds r.mu, or NoJob
  pc, arg,    \* where each goroutine is, the configuration it applies
  snap,       \* the live config a request read before its edit
  rolling,    \* the request applies its snapshot again
  watcher,    \* r.watcher
  closing,    \* watchers taken out of r.watcher, Close not called yet
  events,     \* fsnotify has an event for the watcher
  syncs,      \* how many syncWatcher goroutines are to run for each value of Hot
  refused,    \* history: what the last reload from the file rejected
  seenBy,     \* history: r.watcher when the file was last written
  excused,    \* history: see Watched
  writes      \* bound: saves by the user so far

reloadVars == <<live, run, open, job>>
watchVars  == <<watcher, closing, events, syncs>>
fileVars   == <<file, events, seenBy, writes>>
vars == <<debVars, live, file, run, open, job, pc, arg, snap, rolling, watcher,
          closing, events, syncs, refused, seenBy, excused, writes>>

NoJob == [by |-> None, next |-> Start, phase |-> "prepare", done |-> {}, todo |-> {}]

Init ==
  /\ DebInit
  /\ live = Start /\ file = Start /\ run = Start
  /\ open = [c \in Fields |-> 1]
  /\ job = NoJob
  /\ pc = [p \in Procs |-> IF p \in Watchers THEN "idle" ELSE "new"]
  /\ arg = [p \in Procs |-> Start] /\ snap = [r \in Requests |-> Start]
  /\ rolling = [r \in Requests |-> FALSE]
  /\ watcher = None /\ closing = {}
  /\ events = [w \in Watchers |-> FALSE]
  /\ syncs = [h \in BOOLEAN |-> IF h = Start[Hot] THEN 1 ELSE 0]  \* Reloader.Start
  /\ refused = None /\ seenBy = None /\ excused = FALSE /\ writes = 0

-----------------------------------------------------------------------------
(* The file and its watchers.                                              *)

\* Writing the file raises an event at every watcher that is not closed.
Written(content) ==
  /\ file' = content
  /\ events' = [w \in Watchers |-> events[w] \/ ~ stopped[w]]
  /\ seenBy' = watcher

UserSaves ==
  /\ writes < MaxWrites
  /\ writes' = writes + 1
  /\ \E content \in UserFiles : content # file /\ Written(content)
  /\ UNCHANGED <<debVars, reloadVars, pc, arg, snap, rolling, watcher, closing,
                 syncs, refused, excused>>

\* Watcher.loop
Deliver(w) ==
  /\ events[w]
  /\ events' = [events EXCEPT ![w] = FALSE]
  /\ Trigger(w)
  /\ UNCHANGED <<reloadVars, file, pc, arg, snap, rolling, watcher, closing,
                 syncs, refused, seenBy, excused, writes>>

TimerExpires(w) ==
  /\ Expire(w)
  /\ UNCHANGED <<reloadVars, fileVars, pc, arg, snap, rolling, watcher, closing,
                 syncs, refused, excused>>

\* fire begins ReloadFile, unless it finds the debouncer stopped or busy.
TimerFires(w) ==
  /\ Fire(w)
  /\ pc' = [pc EXCEPT ![w] = IF inFn'[w] > inFn[w] THEN "load" ELSE @]
  /\ UNCHANGED <<reloadVars, fileVars, arg, snap, rolling, watcher, closing,
                 syncs, refused, excused>>

\* ReloadFile reads the file before Apply takes r.mu.
Load(w) ==
  /\ pc[w] = "load"
  /\ \/ /\ file = Broken
        /\ refused' = Broken
        /\ pc' = [pc EXCEPT ![w] = "return"]
        /\ UNCHANGED arg
     \/ /\ file # Broken
        /\ refused' = None
        /\ arg' = [arg EXCEPT ![w] = file]
        /\ pc' = [pc EXCEPT ![w] = "lock"]
  /\ UNCHANGED <<debVars, reloadVars, fileVars, snap, rolling, watcher, closing,
                 syncs, excused>>

ReloadReturns(w) ==
  /\ pc[w] = "return"
  /\ Return(w)
  /\ pc' = [pc EXCEPT ![w] = IF inFn'[w] < inFn[w] THEN "idle" ELSE "load"]
  /\ UNCHANGED <<reloadVars, fileVars, arg, snap, rolling, watcher, closing,
                 syncs, refused, excused>>

\* syncWatcher for a configuration with hot reload off: Reloader.Stop takes
\* the watcher under watchMu and closes it afterwards.
SyncOff ==
  /\ syncs[FALSE] > 0
  /\ syncs' = [syncs EXCEPT ![FALSE] = @ - 1]
  /\ watcher' = None
  /\ closing' = closing \cup {w \in Watchers : w = watcher}
  /\ UNCHANGED <<debVars, reloadVars, fileVars, pc, arg, snap, rolling, refused,
                 excused>>

CloseWatcher(w) ==
  /\ w \in closing
  /\ Stop(w)
  /\ closing' = closing \ {w}
  /\ events' = [events EXCEPT ![w] = FALSE]
  /\ seenBy' = IF seenBy = w THEN None ELSE seenBy
  /\ UNCHANGED <<reloadVars, file, pc, arg, snap, rolling, watcher, syncs,
                 refused, excused, writes>>

\* syncWatcher with hot reload on: a running watcher only gets the new
\* debounce; otherwise a new one starts.
SyncOn ==
  /\ syncs[TRUE] > 0
  /\ syncs' = [syncs EXCEPT ![TRUE] = @ - 1]
  /\ \/ /\ watcher # None \/ WatchMayFail
        /\ UNCHANGED <<debVars, watcher, excused>>
     \/ /\ watcher = None
        /\ \E w \in Watchers : NewDebouncer(w) /\ watcher' = w
        /\ excused' = (excused \/ \E w \in Watchers : ~ Idle(w))
  /\ UNCHANGED <<reloadVars, fileVars, pc, arg, snap, rolling, closing, refused>>


-----------------------------------------------------------------------------
(* Apply.                                                                  *)

\* A request goes on to write the file after a successful Apply, unless that
\* was the Apply of its snapshot; ReloadFile returns.
Returned(p, ok) ==
  pc' = [pc EXCEPT ![p] =
           IF p \in Watchers THEN "return"
           ELSE IF ok /\ ~ rolling[p] THEN "save" ELSE "done"]

\* Mutant: the difference is taken from the configuration that was live when
\* the request was made.
BaselineSnapshot(p) == IF p \in Requests THEN snap[p] ELSE live

Baseline(p) == live

\* Diff
Changed(old, next) == {c \in Fields : old[c] # next[c]}

\* Under r.mu: compare with the live configuration.  ErrNoChange is success.
Begin(p) ==
  /\ pc[p] = "lock" /\ job = NoJob
  /\ \/ /\ arg[p] = Baseline(p)
        /\ Returned(p, TRUE)
        /\ UNCHANGED job
     \/ /\ arg[p] # Baseline(p)
        /\ job' = [by |-> p, next |-> arg[p], phase |-> "prepare", done |-> {},
                   todo |-> Changed(Baseline(p), arg[p])]
        /\ pc' = [pc EXCEPT ![p] = "apply"]
  /\ UNCHANGED <<debVars, live, run, open, fileVars, arg, snap, rolling, watcher,
                 closing, syncs, refused, excused>>

InPhase(phase) == job.by # None /\ job.phase = phase

\* Components are prepared, and committed, in the order of registration.
NextOf(S, c) == c \in S /\ \A d \in S : Rank[c] <= Rank[d]

\* The next component concerned builds its new instance next to the running
\* one; the watcher component builds nothing.
Prepare(c) ==
  /\ InPhase("prepare") /\ NextOf(job.todo, c)
  /\ job' = [job EXCEPT !.todo = @ \ {c}, !.done = @ \cup {c}]
  /\ open' = IF c = Hot THEN open ELSE [open EXCEPT ![c] = @ + 1]
  /\ UNCHANGED <<debVars, live, run, fileVars, pc, arg, snap, rolling, watcher,
                 closing, syncs, refused, excused>>

\* Mutant: the loop of abortAll stops one short.
AbortAllButFirst == {c \in job.done : ~ NextOf(job.done, c)}

Aborted == job.done

\* A component cannot be prepared (or panics, or the phase times out): what
\* was built is released and the live configuration stays.
PrepareFails(c) ==
  /\ InPhase("prepare") /\ NextOf(job.todo, c) /\ c # Hot
  /\ open' = [d \in Fields |-> IF d \in Aborted \ {Hot} THEN open[d] - 1 ELSE open[d]]
  /\ job' = NoJob
  /\ Returned(job.by, FALSE)
  /\ refused' = IF job.by \in Watchers THEN job.next ELSE refused
  /\ UNCHANGED <<debVars, live, run, fileVars, arg, snap, rolling, watcher,
                 closing, syncs, excused>>

Publish ==
  /\ InPhase("prepare") /\ job.todo = {}
  /\ live' = job.next
  /\ job' = [job EXCEPT !.phase = "commit"]
  /\ UNCHANGED <<debVars, run, open, fileVars, pc, arg, snap, rolling, watcher,
                 closing, syncs, refused, excused>>

\* The component switches over and its old instance is closed; the watcher
\* component leaves the switch to a goroutine.
Commit(c) ==
  /\ InPhase("commit") /\ NextOf(job.done, c)
  /\ job' = [job EXCEPT !.done = @ \ {c}]
  /\ run' = [run EXCEPT ![c] = job.next[c]]
  /\ open' = IF c = Hot THEN open ELSE [open EXCEPT ![c] = @ - 1]
  /\ syncs' = IF c = Hot THEN [syncs EXCEPT ![job.next[Hot]] = @ + 1] ELSE syncs
  /\ UNCHANGED <<debVars, live, fileVars, pc, arg, snap, rolling, watcher,
                 closing, refused, excused>>

Applied ==
  /\ InPhase("commit") /\ job.done = {}
  /\ job' = NoJob
  /\ Returned(job.by, TRUE)
  /\ UNCHANGED <<debVars, live, run, open, fileVars, arg, snap, rolling, watcher,
                 closing, syncs, refused, excused>>

-----------------------------------------------------------------------------
(* Dashboard requests.                                                     *)

\* The handler copies the live configuration and edits the copy, before and
\* outside r.mu; only requests of the /config page exclude each other.
Snapshot(r) ==
  /\ pc[r] = "new"
  /\ r \in FormRequests =>
       \A q \in FormRequests \ {r} : pc[q] \in {"new", "done"}
  /\ snap' = [snap EXCEPT ![r] = live]
  /\ \E v \in BOOLEAN : arg' = [arg EXCEPT ![r] = [live EXCEPT ![EditOf[r]] = v]]
  /\ pc' = [pc EXCEPT ![r] = "lock"]
  /\ UNCHANGED <<debVars, reloadVars, fileVars, rolling, watcher, closing, syncs,
                 refused, excused>>

Save(r) ==
  /\ pc[r] = "save"
  /\ Written(arg[r])
  /\ pc' = [pc EXCEPT ![r] = "done"]
  /\ UNCHANGED <<debVars, reloadVars, arg, snap, rolling, watcher, closing, syncs,
                 refused, excused, writes>>

\* os.WriteFile fails, before or after truncating the file: the request
\* applies its snapshot again.
SaveFails(r) ==
  /\ pc[r] = "save"
  /\ Written(Broken) \/ UNCHANGED <<file, events, seenBy>>
  /\ excused' = TRUE
  /\ rolling' = [rolling EXCEPT ![r] = TRUE]
  /\ arg' = [arg EXCEPT ![r] = snap[r]]
  /\ pc' = [pc EXCEPT ![r] = "lock"]
  /\ UNCHANGED <<debVars, reloadVars, snap, watcher, closing, syncs, refused, writes>>

-----------------------------------------------------------------------------
WatcherStep(w) ==
  \/ Deliver(w) \/ TimerExpires(w) \/ TimerFires(w) \/ Load(w)
  \/ ReloadReturns(w) \/ CloseWatcher(w)

ApplyStep ==
  \/ \E p \in Procs : Begin(p)
  \/ \E c \in Fields : Prepare(c) \/ PrepareFails(c) \/ Commit(c)
  \/ Publish \/ Applied

RequestStep(r) == Snapshot(r) \/ Save(r) \/ SaveFails(r)

Next ==
  \/ UserSaves \/ SyncOff \/ SyncOn \/ ApplyStep
  \/ \E w \in Watchers : WatcherStep(w)
  \/ \E r \in Requests : RequestStep(r)

Spec == Init /\ [][Next]_vars

\* Goroutines, timers and mutexes of the Go runtime: every step that is due
\* is taken.  The user need not save, and a request need not come.
Fairness ==
  /\ WF_vars(SyncOff) /\ WF_vars(SyncOn)
  /\ \A p \in Procs : WF_vars(Begin(p))
  /\ WF_vars(\E c \in Fields : Prepare(c) \/ PrepareFails(c) \/ Commit(c))
  /\ WF_vars(Publish) /\ WF_vars(Applied)
  /\ \A w \in Watchers :
       /\ WF_vars(Deliver(w)) /\ WF_vars(TimerExpires(w)) /\ WF_vars(TimerFires(w))
       /\ WF_vars(Load(w)) /\ WF_vars(ReloadReturns(w)) /\ WF_vars(CloseWatcher(w))
  /\ \A r \in Requests : WF_vars(Save(r) \/ SaveFails(r))

FairSpec == Spec /\ Fairness

-----------------------------------------------------------------------------
(* Properties.                                                             *)

TypeOK ==
  /\ live \in Configs /\ run \in Configs /\ file \in Configs \cup {Broken}
  /\ open \in [Fields -> Nat]
  /\ arg \in [Procs -> Configs] /\ snap \in [Requests -> Configs]
  /\ job \in [by : Procs \cup {None}, next : Configs, phase : {"prepare", "commit"},
             done : SUBSET Fields, todo : SUBSET Fields]
  /\ job.by = None => job = NoJob

\* A reload applies as a whole or not at all, and in the order "publish first"
\* (reloader.go:153-154): a component runs with its part of the live
\* configuration, or the Apply under way is about to commit it.  Each reload
\* prepares only what differs from the one before, and the file watcher and
\* the dashboard apply configurations they read at different times
\* (reloader.go:63-64).
AllOrNothing ==
  \A c \in Fields : run[c] # live[c] => InPhase("commit") /\ c \in job.done

\* Every prepared instance is committed or aborted exactly once
\* (reloader.go:16-22): besides the running instance only those of the Apply
\* under way are open.
NoInstanceLeaks ==
  \A c \in Fields \ {Hot} :
    open[c] = IF c \in job.done THEN 2 ELSE 1

\* "applies every change on save" (docs/CONFIGURATION.md:41): when the last
\* write of the file happened under a watcher that stays, the live
\* configuration becomes that of the file, unless the file or one of the
\* components refuses it.  Two histories are excused: a failed write, after which the
\* snapshot is applied over whatever was reloaded meanwhile, and a watcher
\* started before the one switched off has come to rest: its reload may still
\* wait for r.mu with what it read earlier.
Watched  == watcher # None /\ seenBy = watcher /\ ~ excused
Converged == live = file \/ refused = file
Converges == <>[]Watched => <>[]Converged

==============================================================================
