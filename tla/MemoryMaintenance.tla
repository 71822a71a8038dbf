--------------------------- MODULE MemoryMaintenance ---------------------------
(***************************************************************************)
(* internal/memory: the background workers of one memory service, the      *)
(* maintenance worker, which merges and prunes what it scanned, and the    *)
(* access worker, which counts what searches returned, with Close.  A      *)
(* record's worth is base + accesses; near holds the pairs whose cosine    *)
(* similarity reaches the threshold; the scan returns ids in order.        *)
(***************************************************************************)
EXTENDS Naturals, FiniteSets, Sequences, SequencesExt

CONSTANTS
  N,             \* records are 1..N
  Groups,        \* user and type of a record
  MaxBase,       \* bound: worth of a record that was never accessed
  Limit,         \* records a scan returns
  QueueSize,     \* capacity of accessQueue
  BatchSize,     \* accesses a flush takes at once
  MaxAccesses,   \* bound: accesses of a behaviour
  MaxTicks       \* bound: ticks with work

Ids == 1..N

ASSUME MaintenanceAssumption ==
  /\ N \in Nat /\ MaxBase \in Nat \ {0} /\ Limit \in Nat /\ QueueSize \in Nat
  /\ BatchSize \in Nat \ {0} /\ MaxAccesses \in Nat /\ MaxTicks \in Nat

VARIABLES
  group, base, near, expired, \* of the records, not changed here
  present, access,  \* the records there are, and access_count
  worker,           \* the maintenance worker: "wait", "run", "ended"
  plan,             \* jobs it has yet to do in this tick
  slots, pos,       \* what it scanned, as [id, of, worth]; where it is in it
  merged,           \* history: records the merge under way deleted
  queue, accessBatch,     \* accessQueue; what the access worker took from it
  flush,            \* the counts its flush writes; "none" outside, "ended"
  closing,          \* Close: "no", "maintenance", "workers", "closed"
  accesses, ticks   \* for the bounds

recVars == <<group, base, near, expired>>
jobVars == <<worker, plan, slots, pos, merged>>
accVars == <<queue, accessBatch, flush>>
maintenanceVars == <<recVars, present, access, jobVars, accVars, closing, accesses, ticks>>

RecordPairs == {p \in Ids \X Ids : p[1] < p[2]}
NoCounts == [r \in {} |-> 0]

MaintenanceInit ==
  /\ group \in [Ids -> Groups] /\ base \in [Ids -> 1..MaxBase]
  /\ near \in SUBSET RecordPairs /\ expired = {1}
  /\ present = Ids /\ access = [r \in Ids |-> 0]
  /\ worker = "wait" /\ plan = <<>> /\ slots = <<>> /\ pos = <<0, 0>> /\ merged = {}
  /\ queue = <<>> /\ accessBatch = <<>> /\ flush = [step |-> "none", counts |-> NoCounts]
  /\ closing = "no" /\ accesses = 0 /\ ticks = 0

Worth(r) == base[r] + access[r]
Near(r, s) == <<r, s>> \in near \/ <<s, r>> \in near

-----------------------------------------------------------------------------
(* The maintenance worker *)

\* runScheduled: at the merge hour, with the summary on its weekday; the two
\* prunes follow on the first of the month.
Plans == {<<"merge">>, <<"merge", "summarize">>, <<"merge", "expired">>,
          <<"merge", "summarize", "expired">>}

Tick ==
  /\ worker = "wait" /\ ticks < MaxTicks /\ ticks' = ticks + 1
  /\ plan' \in Plans
  /\ worker' = "run"
  /\ UNCHANGED <<recVars, present, access, slots, pos, merged, accVars, closing, accesses>>

Rank(r, S) == Cardinality({q \in S : q <= r})

\* The first records in order.
Scanned == {r \in present : Rank(r, present) <= Limit}

Slot(r) == [id |-> r, of |-> r, worth |-> Worth(r)]
Slots(S) == [k \in 1..Cardinality(S) |-> Slot(CHOOSE r \in S : Rank(r, S) = k)]

\* The scroll, and what the job makes of it: the merge keeps all of them, the
\* prunes those they will delete.
Selected ==
  CASE Head(plan) = "merge"     -> Scanned
    [] Head(plan) = "summarize" -> {r \in Scanned : Worth(r) = 1}
    [] Head(plan) = "expired"   -> Scanned \cap expired

Scan ==
  /\ worker = "run" /\ plan # <<>> /\ slots = <<>>
  /\ IF Selected = {}
     THEN plan' = Tail(plan) /\ UNCHANGED <<slots, pos>>
     ELSE slots' = Slots(Selected) /\ pos' = <<1, 2>> /\ UNCHANGED plan
  /\ merged' = {}
  /\ UNCHANGED <<recVars, present, access, worker, accVars, closing, accesses, ticks>>

\* The scroll fails, and the job with it.
ScanFail ==
  /\ worker = "run" /\ plan # <<>> /\ slots = <<>>
  /\ plan' = Tail(plan)
  /\ UNCHANGED <<recVars, present, access, worker, slots, pos, merged, accVars, closing, accesses, ticks>>

JobEnd == plan' = Tail(plan) /\ slots' = <<>> /\ pos' = <<0, 0>>

\* DeletePoint, which may fail.
DeletePoint(r) == present' \in {present, present \ {r}}

\* Mutant: the group is not part of the key.
DuplicatesOfAnyone(a, b) == a.id # b.id /\ Near(a.of, b.of) /\ group[a.of] \in Groups

\* The records of two slots are compared with what the scan read of them; the
\* loser's slot takes the id of the winner.
Duplicates(a, b) == a.id # b.id /\ group[a.of] = group[b.of] /\ Near(a.of, b.of)

MergePair ==
  LET i == pos[1]
      j == pos[2]
      a == slots[i]
      b == slots[j]
      loser  == IF a.worth >= b.worth THEN j ELSE i
      winner == IF a.worth >= b.worth THEN i ELSE j IN
  /\ worker = "run" /\ slots # <<>> /\ Head(plan) = "merge" /\ j <= Len(slots)
  /\ IF Duplicates(a, b)
     THEN /\ DeletePoint(slots[loser].id)
          /\ slots' = [slots EXCEPT ![loser].id = slots[winner].id]
          /\ merged' = merged \cup (present \ present')
     ELSE UNCHANGED <<present, slots, merged>>
  /\ pos' = IF j < Len(slots) THEN <<i, j + 1>> ELSE <<i + 1, i + 2>>
  /\ UNCHANGED <<recVars, access, worker, plan, accVars, closing, accesses, ticks>>

MergeEnd ==
  /\ worker = "run" /\ slots # <<>> /\ Head(plan) = "merge" /\ pos[2] > Len(slots)
  /\ JobEnd
  /\ UNCHANGED <<recVars, present, access, worker, merged, accVars, closing, accesses, ticks>>

\* A prune deletes what it selected, whatever became of it meanwhile.
Prune ==
  /\ worker = "run" /\ slots # <<>> /\ Head(plan) # "merge"
  /\ DeletePoint(Head(slots).id)
  /\ slots' = Tail(slots)
  /\ IF Len(slots) = 1 THEN plan' = Tail(plan) /\ pos' = <<0, 0>> ELSE UNCHANGED <<plan, pos>>
  /\ UNCHANGED <<recVars, access, worker, merged, accVars, closing, accesses, ticks>>

TickEnd ==
  /\ worker = "run" /\ plan = <<>>
  /\ worker' = "wait" /\ merged' = {}
  /\ UNCHANGED <<recVars, present, access, plan, slots, pos, accVars, closing, accesses, ticks>>

\* done is looked at between two ticks only.
WorkerEnds ==
  /\ worker = "wait" /\ closing # "no"
  /\ worker' = "ended"
  /\ UNCHANGED <<recVars, present, access, plan, slots, pos, merged, accVars, closing, accesses, ticks>>

-----------------------------------------------------------------------------
(* The access worker *)

\* A search returns r; a full queue drops the access.
Search(r) ==
  /\ closing # "closed" /\ r \in present /\ accesses < MaxAccesses
  /\ accesses' = accesses + 1
  /\ queue' = IF Len(queue) < QueueSize THEN Append(queue, r) ELSE queue
  /\ UNCHANGED <<recVars, present, access, jobVars, accessBatch, flush, closing, ticks>>

Take ==
  /\ flush.step = "none" /\ queue # <<>> /\ Len(accessBatch) < BatchSize
  /\ accessBatch' = Append(accessBatch, Head(queue)) /\ queue' = Tail(queue)
  /\ UNCHANGED <<recVars, present, access, jobVars, flush, closing, accesses, ticks>>

\* A full batch, the ticker, or the end: the counts are read, and a failure
\* loses the batch.  An id that is not there counts as zero.
FlushRead ==
  /\ flush.step = "none" /\ accessBatch # <<>>
  /\ \/ flush' = [step |-> "write", counts |-> [r \in ToSet(accessBatch) |->
                   1 + (IF r \in present THEN access[r] ELSE 0)]]
     \/ UNCHANGED flush
  /\ accessBatch' = <<>>
  /\ UNCHANGED <<recVars, present, access, jobVars, queue, closing, accesses, ticks>>

\* SetPayload changes the records that are still there.
FlushWrite ==
  /\ flush.step = "write"
  /\ \/ access' = [r \in Ids |-> IF r \in DOMAIN flush.counts \cap present
                                  THEN flush.counts[r] ELSE access[r]]
     \/ UNCHANGED access
  /\ flush' = [step |-> "none", counts |-> NoCounts]
  /\ UNCHANGED <<recVars, present, jobVars, queue, accessBatch, closing, accesses, ticks>>

\* After done the queue is drained before the worker ends.
AccessEnds ==
  /\ closing = "workers" /\ flush.step = "none" /\ accessBatch = <<>> /\ queue = <<>>
  /\ flush' = [step |-> "ended", counts |-> NoCounts]
  /\ UNCHANGED <<recVars, present, access, jobVars, queue, accessBatch, closing, accesses, ticks>>

-----------------------------------------------------------------------------
(* Close: the maintenance worker is waited for, then the others *)

Close ==
  /\ closing = "no" /\ closing' = "maintenance"
  /\ UNCHANGED <<recVars, present, access, jobVars, accVars, accesses, ticks>>

\* Mutant: done is closed and the worker not waited for.
CloseNext(from) == from = "maintenance" \/ (from = "workers" /\ flush.step = "ended")

\* Mutant: one WaitGroup for both, and the access worker is told afterwards.
CloseOfBoth(from) ==
  worker = "ended" /\ flush.step = "ended" /\ from \in {"maintenance", "workers"}

CloseStep(from) ==
  \/ from = "maintenance" /\ worker = "ended"
  \/ from = "workers" /\ flush.step = "ended"

CloseContinues ==
  /\ CloseStep(closing)
  /\ closing' = IF closing = "maintenance" THEN "workers" ELSE "closed"
  /\ UNCHANGED <<recVars, present, access, jobVars, accVars, accesses, ticks>>

MaintenanceNext ==
  \/ Tick \/ Scan \/ ScanFail \/ MergePair \/ MergeEnd \/ Prune \/ TickEnd \/ WorkerEnds
  \/ \E r \in Ids : Search(r)
  \/ Take \/ FlushRead \/ FlushWrite \/ AccessEnds
  \/ Close \/ CloseContinues

MaintenanceSpec == MaintenanceInit /\ [][MaintenanceNext]_maintenanceVars

\* Both workers go on (their database calls time out), and so does Close.  Go's
\* select takes a closed done in the end, whatever ticks are there as well.
Fairness ==
  /\ WF_maintenanceVars(Scan) /\ WF_maintenanceVars(MergePair) /\ WF_maintenanceVars(MergeEnd)
  /\ WF_maintenanceVars(Prune) /\ WF_maintenanceVars(TickEnd) /\ WF_maintenanceVars(WorkerEnds)
  /\ WF_maintenanceVars(Take) /\ WF_maintenanceVars(FlushRead) /\ WF_maintenanceVars(FlushWrite)
  /\ WF_maintenanceVars(AccessEnds)
  /\ WF_maintenanceVars(CloseContinues)

FairMaintenanceSpec == MaintenanceSpec /\ Fairness

-----------------------------------------------------------------------------
(* Properties *)

\* What the merge deletes was near another record of the same user and type,
\* whichever slots the deleted id had been copied to.
OnlyDuplicatesMerged ==
  \A r \in merged : \E s \in Ids \ {r} : group[s] = group[r] /\ Near(r, s)

\* Once Close has returned nobody writes to the database, whose connection is
\* closed: no deletion of a running job, no count.
QuietOnceClosed ==
  [][closing = "closed" => UNCHANGED <<present, access>>]_maintenanceVars

\* Close returns, whatever the workers are at when it is called.
CloseReturns == (closing = "maintenance") ~> (closing = "closed")

\* Of records that are all near each other, the merge keeps the best
\* (maintenance.go:113-114: "keeps only the higher-scored one").
MergeKeepsBest ==
  LET S == {slots[k].of : k \in DOMAIN slots}
      slotOf(r) == (CHOOSE k \in DOMAIN slots : slots[k].of = r) IN
  (slots # <<>> /\ Head(plan) = "merge" /\ \A r, s \in S : r # s => group[r] = group[s] /\ Near(r, s))
    => \A r \in S : (\A s \in S \ {r} : slots[slotOf(s)].worth < slots[slotOf(r)].worth) => r \notin merged
=============================================================================
