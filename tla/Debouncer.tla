----------------------------- MODULE Debouncer -----------------------------
(***************************************************************************)
(* filewatch.Debouncer (internal/filewatch/debounce.go): bursts of Trigger *)
(* calls become one call of fn.  Timers are goroutines: a timer that has   *)
(* expired but whose goroutine does not hold the mutex yet can no longer   *)
(* be stopped, so several `fire` calls may be under way for one debouncer. *)
(*                                                                         *)
(* A debouncer occupies a slot of Watchers; an unused slot is like a       *)
(* stopped debouncer.  The delay itself is not modelled: an armed timer    *)
(* may expire at any time.                                                 *)
(***************************************************************************)
EXTENDS Naturals

CONSTANT Watchers       \* slots for debouncers

VARIABLES
  armed,    \* d.timer is set and has not expired
  firing,   \* fire goroutines that have not taken d.mu yet
  running,  \* d.running
  pending,  \* d.pending
  stopped,  \* d.stopped
  inFn,     \* history: calls of d.fn that have begun and not returned
  dirty     \* history: a Trigger came after the last call of d.fn began

debVars == <<armed, firing, running, pending, stopped, inFn, dirty>>

DebInit ==
  /\ armed   = [w \in Watchers |-> FALSE]
  /\ firing  = [w \in Watchers |-> 0]
  /\ running = [w \in Watchers |-> FALSE]
  /\ pending = [w \in Watchers |-> FALSE]
  /\ stopped = [w \in Watchers |-> TRUE]
  /\ inFn    = [w \in Watchers |-> 0]
  /\ dirty   = [w \in Watchers |-> FALSE]

Idle(w) == stopped[w] /\ firing[w] = 0 /\ inFn[w] = 0

\* A new debouncer takes a slot whose last one has come to rest.
NewDebouncer(w) ==
  /\ Idle(w)
  /\ stopped' = [stopped EXCEPT ![w] = FALSE]
  /\ dirty'   = [dirty EXCEPT ![w] = FALSE]
  /\ UNCHANGED <<armed, firing, running, pending, inFn>>

\* Mutant: a trigger during a call of fn is taken to be covered by that call.
TriggerUnlessRunning(w) ==
  /\ ~ stopped[w]
  /\ armed' = [armed EXCEPT ![w] = ~ running[w]]
  /\ dirty' = [dirty EXCEPT ![w] = TRUE]
  /\ UNCHANGED <<firing, running, pending, stopped, inFn>>

\* Stop the timer if it has not expired, arm a new one.
Trigger(w) ==
  /\ ~ stopped[w]
  /\ armed' = [armed EXCEPT ![w] = TRUE]
  /\ dirty' = [dirty EXCEPT ![w] = TRUE]
  /\ UNCHANGED <<firing, running, pending, stopped, inFn>>

Expire(w) ==
  /\ armed[w]
  /\ armed'  = [armed EXCEPT ![w] = FALSE]
  /\ firing' = [firing EXCEPT ![w] = @ + 1]
  /\ UNCHANGED <<running, pending, stopped, inFn, dirty>>

FireStopped(w) ==
  /\ stopped[w]
  /\ UNCHANGED <<running, pending, inFn, dirty>>

\* Mutants: a fire during a call is dropped; it does not look at d.running.
FireBusyDropped(w) ==
  /\ ~ stopped[w] /\ running[w]
  /\ UNCHANGED <<running, pending, inFn, dirty>>

FireBusy(w) ==
  /\ ~ stopped[w] /\ running[w]
  /\ pending' = [pending EXCEPT ![w] = TRUE]
  /\ UNCHANGED <<running, inFn, dirty>>

FireCalls(w) ==
  /\ ~ stopped[w] /\ ~ running[w]
  /\ running' = [running EXCEPT ![w] = TRUE]
  /\ inFn'    = [inFn EXCEPT ![w] = @ + 1]
  /\ dirty'   = [dirty EXCEPT ![w] = FALSE]
  /\ UNCHANGED pending

Fire(w) ==
  /\ firing[w] > 0
  /\ firing' = [firing EXCEPT ![w] = @ - 1]
  /\ FireStopped(w) \/ FireBusy(w) \/ FireCalls(w)
  /\ UNCHANGED <<armed, stopped>>

\* Mutant: the loop does not look at d.stopped.
AgainDespiteStop(w) == pending[w]

Again(w) == pending[w] /\ ~ stopped[w]

\* fn returns; the loop of fire calls it once more or leaves.
Return(w) ==
  /\ inFn[w] > 0
  /\ pending' = [pending EXCEPT ![w] = FALSE]
  /\ \/ /\ Again(w)
        /\ dirty' = [dirty EXCEPT ![w] = FALSE]
        /\ UNCHANGED <<running, inFn>>
     \/ /\ ~ Again(w)
        /\ running' = [running EXCEPT ![w] = FALSE]
        /\ inFn'    = [inFn EXCEPT ![w] = @ - 1]
        /\ UNCHANGED dirty
  /\ UNCHANGED <<armed, firing, stopped>>

Stop(w) ==
  /\ ~ stopped[w]
  /\ stopped' = [stopped EXCEPT ![w] = TRUE]
  /\ armed'   = [armed EXCEPT ![w] = FALSE]
  /\ UNCHANGED <<firing, running, pending, inFn, dirty>>

DebStep(w) ==
  NewDebouncer(w) \/ Trigger(w) \/ Expire(w) \/ Fire(w) \/ Return(w) \/ Stop(w)

DebSpec == DebInit /\ [][\E w \in Watchers : DebStep(w)]_debVars

-----------------------------------------------------------------------------
\* "fn never runs concurrently with itself" (debounce.go:13).
NeverConcurrent == \A w \in Watchers : inFn[w] <= 1

\* Every trigger is followed by a call of fn that begins after it: until then
\* a timer, a fire goroutine or the loop of the running call owes one
\* (debounce.go:13-14), whatever the order of expiry, call and return.
NoTriggerLost ==
  \A w \in Watchers :
    dirty[w] /\ ~ stopped[w] => armed[w] \/ firing[w] > 0 \/ (inFn[w] > 0 /\ pending[w])

\* "Stop cancels any pending call" (debounce.go:79): no call of fn begins on a
\* stopped debouncer, neither from a timer that had already expired nor from
\* the loop of the call that was running.  A step of a stopped debouncer that
\* consumes `pending` or a fire must not begin a call.
NoCallAfterStop ==
  [][\A w \in Watchers :
       stopped[w] => /\ inFn'[w] <= inFn[w]
                     /\ pending[w] /\ ~ pending'[w] => inFn'[w] < inFn[w]]_debVars
=============================================================================
