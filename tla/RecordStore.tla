----------------------------- MODULE RecordStore -----------------------------
(***************************************************************************)
(* What the memory subsystem promises about the records it keeps, whatever *)
(* collections, services and restarts are behind them: the records of the  *)
(* pre-split collection come in once, all of them, before anything is      *)
(* served; afterwards a record appears and disappears only by request.     *)
(***************************************************************************)
EXTENDS Naturals

CONSTANTS Ids, Legacy, Damaged

VARIABLES
  store,    \* the version of each record: 0 none, 1 the one of the old collection
  import,   \* the import of Legacy: "", "in_progress", "done"
  skipped,  \* it was declined: the store held records of its own
  open      \* requests are served

storeVars == <<store, import, skipped, open>>

StoreInit ==
  /\ store \in [Ids -> {0, 2}]
  /\ import = "" /\ skipped = FALSE /\ open = FALSE

Present == {r \in Ids : store[r] # 0}

Complete == Legacy = {} \/ import = "done" \/ skipped

BeginImport ==
  /\ import = "" /\ Legacy # {}
  /\ Present = {} \/ skipped
  /\ import' = "in_progress"
  /\ UNCHANGED <<store, skipped, open>>

\* Nothing is served while records come in, and records written in the
\* meantime are not overwritten, unless the import was declined before.
Import(S) ==
  /\ import = "in_progress" /\ (~open \/ skipped)
  /\ store' = [r \in Ids |-> IF r \in S THEN 1 ELSE store[r]]
  /\ UNCHANGED <<import, skipped, open>>

FinishImport ==
  /\ import = "in_progress"
  /\ Legacy \subseteq Present \/ skipped
  /\ import' = "done"
  /\ UNCHANGED <<store, skipped, open>>

Decline ==
  /\ import = "" /\ Legacy # {} /\ Present # {}
  /\ skipped' = TRUE
  /\ UNCHANGED <<store, import, open>>

Open ==
  /\ Complete
  /\ open' = TRUE
  /\ UNCHANGED <<store, import, skipped>>

Close ==
  /\ open' = FALSE
  /\ UNCHANGED <<store, import, skipped>>

Put(r) ==
  /\ open
  /\ store'[r] \in Nat \ {0, 1}
  /\ store' = [store EXCEPT ![r] = store'[r]]
  /\ UNCHANGED <<import, skipped, open>>

\* By request, or the repair of damaged records at the start of a service.
Remove(S) ==
  /\ open \/ (Complete /\ \A r \in S : r \in Damaged /\ store[r] = 1)
  /\ store' = [r \in Ids |-> IF r \in S THEN 0 ELSE store[r]]
  /\ UNCHANGED <<import, skipped, open>>

StoreNext ==
  \/ BeginImport \/ FinishImport \/ Decline \/ Open \/ Close
  \/ \E S \in SUBSET Legacy : Import(S)
  \/ \E r \in Ids : Put(r)
  \/ \E S \in SUBSET Ids : Remove(S)

StoreSpec == StoreInit /\ [][StoreNext]_storeVars
=============================================================================
