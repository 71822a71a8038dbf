----------------------------- MODULE MemoryTiers -----------------------------
(***************************************************************************)
(* internal/memory: the two tiers that hold the memory records.  The       *)
(* source collection has the records, one vector collection per embedding  *)
(* model what semantic search looks at.  A service is built in steps: plan *)
(* and copy the old single collection, mark the copy done, repair, sync    *)
(* the vectors in the background; it serves once the proxy installs it,    *)
(* and the one it replaces serves on for a while.  Every call to the       *)
(* database is a step of its own.  The content of a record is its version. *)
(***************************************************************************)
EXTENDS Naturals, FiniteSets

CONSTANTS
  Ids,          \* record ids
  Legacy,       \* those of the old "memories" collection
  Damaged,      \* those without a schema_version there
  Foreign,      \* those the source tier may hold before the first start
  Models,       \* embedding models, each with its vector collection
  LegacyModel,  \* the model of the old collection's vectors
  Services, Clients,
  PageSize,     \* tierSyncBatchSize
  MaxVersion,   \* bound: stores of a behaviour
  MaxBuilds     \* bound: services built in a behaviour

ASSUME TiersAssumption ==
  /\ Legacy \subseteq Ids /\ Damaged \subseteq Legacy
  /\ Foreign \subseteq Ids \ Legacy
  /\ LegacyModel \in Models /\ Services # {}
  /\ PageSize \in Nat \ {0} /\ MaxVersion \in Nat /\ MaxBuilds \in Nat

VARIABLES
  source,         \* the source tier: version of each record, 0 none
  vec,            \* the vector tiers: version the vector was made from
  marker,         \* legacy_migration of the source collection's metadata
  phase, model,   \* of a service
  todo, copied,   \* records to copy; the page whose vectors are to follow
  reuse,          \* the old vectors are copied as well
  sync, left, page, \* its vector sync: where it is, the records it has not
                  \* read, the versions of the page it embeds
  op,             \* a client's call: its step, service, records, version
  version, builds, \* for the bounds
  skipped,        \* history: a plan found records that are not of a migration
  excused         \* history: for a model, records whose vector was not
                  \* written or was removed by a step that overlapped a store

tierVars  == <<source, vec, marker>>
buildVars == <<phase, model, todo, copied, reuse>>
syncVars  == <<sync, left, page>>
histVars  == <<version, builds, skipped, excused>>
vars == <<tierVars, buildVars, syncVars, op, histVars>>

NoPage == [r \in Ids |-> 0]
SomeModel == CHOOSE m \in Models : TRUE
Idle == [step |-> "idle", svc |-> CHOOSE s \in Services : TRUE, ids |-> {}, ver |-> 0]

Init ==
  /\ \E F \in {{}, Foreign} : source = [r \in Ids |-> IF r \in F THEN 2 ELSE 0]
  /\ vec = [m \in Models |-> NoPage]
  /\ marker = ""
  /\ phase = [s \in Services |-> "off"]
  /\ model = [s \in Services |-> SomeModel]
  /\ todo = [s \in Services |-> {}] /\ copied = [s \in Services |-> {}]
  /\ reuse = [s \in Services |-> FALSE]
  /\ sync = [s \in Services |-> "off"]
  /\ left = [s \in Services |-> {}] /\ page = [s \in Services |-> NoPage]
  /\ op = [c \in Clients |-> Idle]
  /\ version = 2 /\ builds = 0 /\ skipped = FALSE
  /\ excused = [m \in Models |-> {}]

Records == {r \in Ids : source[r] # 0}
Pages(S) == {P \in SUBSET S : P # {} /\ Cardinality(P) <= PageSize}

\* What an upsert of the versions f of the records S makes of a collection.
Upsert(coll, S, f) == [r \in Ids |-> IF r \in S THEN f[r] ELSE coll[r]]
Erase(coll, S)     == [r \in Ids |-> IF r \in S THEN 0 ELSE coll[r]]
One == [r \in Ids |-> 1]

Building(s) == phase[s] \in {"planned", "copying", "repairing", "built"}
Serving(s)  == phase[s] \in {"current", "replaced"}

-----------------------------------------------------------------------------
(* Building a service *)

\* Mutant: an interrupted copy is judged by the number of records.
PlanByCount ==
  IF Legacy = {} \/ marker = "done" THEN "none"
  ELSE IF Records = {} THEN "start" ELSE "skip"

PlanLegacyMigration ==
  IF Legacy = {} \/ marker = "done" THEN "none"
  ELSE IF marker = "in_progress" THEN "resume"
  ELSE IF Records = {} THEN "start" ELSE "skip"

\* The start of the program, or of a reload while another service serves.
Plan(s, m) ==
  /\ phase[s] = "off" /\ \A t \in Services : ~Building(t)
  /\ builds < MaxBuilds /\ builds' = builds + 1
  /\ model' = [model EXCEPT ![s] = m]
  /\ phase' = [phase EXCEPT ![s] = IF PlanLegacyMigration \in {"start", "resume"}
                                     THEN "planned" ELSE "repairing"]
  /\ skipped' = (skipped \/ PlanLegacyMigration = "skip")
  /\ UNCHANGED <<tierVars, todo, copied, reuse, syncVars, op, version, excused>>

\* Equal dimensions are not enough unless no probe could be embedded.
DecideVectorReuse(m) == IF m = LegacyModel THEN {TRUE} ELSE BOOLEAN

MarkInProgress(s) ==
  /\ phase[s] = "planned"
  /\ marker' = "in_progress"
  /\ phase' = [phase EXCEPT ![s] = "copying"]
  /\ todo' = [todo EXCEPT ![s] = Legacy] /\ copied' = [copied EXCEPT ![s] = {}]
  /\ \E u \in DecideVectorReuse(model[s]) : reuse' = [reuse EXCEPT ![s] = u]
  /\ UNCHANGED <<source, vec, model, syncVars, op, histVars>>

CopySource(s, P) ==
  /\ phase[s] = "copying" /\ copied[s] = {} /\ P \in Pages(todo[s])
  /\ source' = Upsert(source, P, One)
  /\ todo' = [todo EXCEPT ![s] = @ \ P]
  /\ copied' = [copied EXCEPT ![s] = IF reuse[s] THEN P ELSE {}]
  /\ excused' = [m \in Models |-> excused[m] \cup P]
  /\ UNCHANGED <<vec, marker, phase, model, reuse, syncVars, op, version, builds, skipped>>

CopyVectors(s) ==
  /\ phase[s] = "copying" /\ copied[s] # {}
  /\ vec' = [vec EXCEPT ![model[s]] = Upsert(@, copied[s], One)]
  /\ copied' = [copied EXCEPT ![s] = {}]
  /\ UNCHANGED <<source, marker, phase, model, todo, reuse, syncVars, op, histVars>>

MarkDone(s) ==
  /\ phase[s] = "copying" /\ todo[s] = {} /\ copied[s] = {}
  /\ marker' = "done"
  /\ phase' = [phase EXCEPT ![s] = "repairing"]
  /\ reuse' = [reuse EXCEPT ![s] = FALSE]
  /\ UNCHANGED <<source, vec, model, todo, copied, syncVars, op, histVars>>

\* A damaged record converts to no Record, so no search returns it and no
\* store takes its id.  The vector may be left.
IsDamaged(r) == r \in Damaged /\ source[r] = 1

Repair(s, r) ==
  /\ phase[s] = "repairing" /\ IsDamaged(r)
  /\ source' = Erase(source, {r})
  /\ \E V \in {{}, {r}} : vec' = [vec EXCEPT ![model[s]] = Erase(@, V)]
  /\ UNCHANGED <<marker, buildVars, syncVars, op, histVars>>

\* The repair is best-effort; then the vector sync starts in the background.
FinishBuild(s) ==
  /\ phase[s] = "repairing"
  /\ phase' = [phase EXCEPT ![s] = "built"]
  /\ sync' = [sync EXCEPT ![s] = "scan"]
  /\ left' = [left EXCEPT ![s] = Ids] /\ page' = [page EXCEPT ![s] = NoPage]
  /\ UNCHANGED <<tierVars, model, todo, copied, reuse, op, histVars>>

\* Nothing of a service is left.
Reset(S) ==
  /\ phase' = [s \in Services |-> IF s \in S THEN "off" ELSE phase[s]]
  /\ model' = [s \in Services |-> IF s \in S THEN SomeModel ELSE model[s]]
  /\ todo' = [s \in Services |-> IF s \in S THEN {} ELSE todo[s]]
  /\ copied' = [s \in Services |-> IF s \in S THEN {} ELSE copied[s]]
  /\ reuse' = [s \in Services |-> reuse[s] /\ s \notin S]
  /\ sync' = [s \in Services |-> IF s \in S THEN "off" ELSE sync[s]]
  /\ left' = [s \in Services |-> IF s \in S THEN {} ELSE left[s]]
  /\ page' = [s \in Services |-> IF s \in S THEN NoPage ELSE page[s]]

\* A failed build, a rejected reload, or the end of the grace period: the
\* service is closed.  A call that reached a replaced service ends first: a
\* connection closed under it is the failure of its next step.
CloseService(s) ==
  /\ Building(s) \/ (phase[s] = "replaced" /\ \A c \in Clients : op[c] # Idle => op[c].svc # s)
  /\ Reset({s})
  /\ UNCHANGED <<tierVars, op, histVars>>

\* Swappable.Replace, or the end of the start.
Replace(s) ==
  /\ phase[s] = "built"
  /\ phase' = [t \in Services |-> IF t = s THEN "current"
                                  ELSE IF phase[t] = "current" THEN "replaced" ELSE phase[t]]
  /\ UNCHANGED <<tierVars, model, todo, copied, reuse, syncVars, op, histVars>>

\* The process ends at any point.
Crash ==
  /\ \E s \in Services : phase[s] # "off"
  /\ Reset(Services)
  /\ op' = [c \in Clients |-> Idle]
  /\ UNCHANGED <<tierVars, histVars>>

-----------------------------------------------------------------------------
(* The vector sync *)

SyncPage(s, P) ==
  /\ sync[s] = "scan" /\ P \in Pages(left[s])
  /\ left' = [left EXCEPT ![s] = @ \ P]
  /\ LET have == {r \in P : vec[model[s]][r] # 0}
         missing == (P \cap Records) \ have IN
     /\ page' = [page EXCEPT ![s] = Upsert(NoPage, missing, source)]
     /\ sync' = [sync EXCEPT ![s] = IF missing = {} THEN "scan" ELSE "embed"]
     /\ excused' = [excused EXCEPT ![model[s]] = @ \ have]
  /\ UNCHANGED <<tierVars, buildVars, op, version, builds, skipped>>

\* Some records of the page may fail to embed: they are left for the next start.
SyncWrite(s, E) ==
  LET missing == {r \in Ids : page[s][r] # 0} IN
  /\ sync[s] = "embed" /\ E \subseteq missing
  /\ vec' = [vec EXCEPT ![model[s]] = Upsert(@, E, page[s])]
  /\ excused' = [excused EXCEPT ![model[s]] = (@ \ E) \cup (missing \ E)]
  /\ sync' = [sync EXCEPT ![s] = "scan"]
  /\ page' = [page EXCEPT ![s] = NoPage]
  /\ UNCHANGED <<source, marker, buildVars, left, op, version, builds, skipped>>

SyncEnd(s) ==
  /\ sync[s] = "scan" /\ left[s] = {}
  /\ sync' = [sync EXCEPT ![s] = "done"]
  /\ UNCHANGED <<tierVars, buildVars, left, page, op, histVars>>

\* A page cannot be read or written: the sync ends until the next start.
SyncFail(s) ==
  /\ sync[s] \in {"scan", "embed"}
  /\ sync' = [sync EXCEPT ![s] = "failed"]
  /\ left' = [left EXCEPT ![s] = {}] /\ page' = [page EXCEPT ![s] = NoPage]
  /\ UNCHANGED <<tierVars, buildVars, op, histVars>>

-----------------------------------------------------------------------------
(* Calls of the current service *)

Begin(c, s, step, S) ==
  /\ op[c] = Idle /\ phase[s] = "current"
  /\ op' = [op EXCEPT ![c] = [step |-> step, svc |-> s, ids |-> S, ver |-> 0]]

End(c) == op' = [op EXCEPT ![c] = Idle]

\* A uuid, or the id of the similar record a search finds.
Unused(r) ==
  /\ r \notin Legacy /\ source[r] = 0
  /\ \A m \in Models : vec[m][r] = 0
  /\ \A s \in Services : page[s][r] = 0
  /\ \A c \in Clients : r \notin op[c].ids
Similar(s, r) == source[r] # 0 /\ ~IsDamaged(r) /\ vec[model[s]][r] # 0

BeginStore(c, s, r) ==
  /\ Unused(r) \/ Similar(s, r)
  /\ Begin(c, s, "writeSource", {r})
  /\ UNCHANGED <<tierVars, buildVars, syncVars, histVars>>

\* UpsertMemory: the source tier first.
WriteSource(c) ==
  /\ op[c].step = "writeSource" /\ version < MaxVersion
  /\ version' = version + 1
  /\ source' = Upsert(source, op[c].ids, [r \in Ids |-> version + 1])
  /\ op' = [op EXCEPT ![c].step = "writeVector", ![c].ver = version + 1]
  /\ excused' = [m \in Models |-> IF m = model[op[c].svc] THEN excused[m]
                                  ELSE excused[m] \cup op[c].ids]
  /\ UNCHANGED <<vec, marker, buildVars, syncVars, builds, skipped>>

WriteVector(c) ==
  LET m == model[op[c].svc] IN
  /\ op[c].step = "writeVector"
  /\ vec' = [vec EXCEPT ![m] = Upsert(@, op[c].ids, [r \in Ids |-> op[c].ver])]
  /\ excused' = [excused EXCEPT ![m] = @ \ op[c].ids]
  /\ End(c)
  /\ UNCHANGED <<source, marker, buildVars, syncVars, version, builds, skipped>>

\* deleteRecords of one record, or DeleteUserMemories with its filter (all
\* records are of one user here): the source tier first.
BeginDelete(c, s, S) ==
  /\ S = Ids \/ \E r \in Records : S = {r}
  /\ Begin(c, s, "deleteSource", S)
  /\ UNCHANGED <<tierVars, buildVars, syncVars, histVars>>

\* Mutant: the vectors are removed first, and the records may then stay.
DeleteVectorsFirst(c) ==
  /\ op[c].step = "deleteSource"
  /\ vec' = [vec EXCEPT ![model[op[c].svc]] = Erase(@, op[c].ids)]
  /\ End(c)
  /\ \E S \in {{}, op[c].ids} : source' = Erase(source, S)
  /\ UNCHANGED <<marker, buildVars, syncVars, histVars>>

DeleteSource(c) ==
  /\ op[c].step = "deleteSource"
  /\ source' = Erase(source, op[c].ids)
  /\ op' = [op EXCEPT ![c].step = "removeVectors"]
  /\ UNCHANGED <<vec, marker, buildVars, syncVars, histVars>>

\* searchAndHydrate: any vectors, then their records; a vector that has none
\* is removed.
Query(c, s, H) ==
  /\ H # {} /\ H \subseteq {r \in Ids : vec[model[s]][r] # 0}
  /\ Begin(c, s, "hydrate", H)
  /\ UNCHANGED <<tierVars, buildVars, syncVars, histVars>>

Hydrate(c) ==
  LET orphans == op[c].ids \ Records IN
  /\ op[c].step = "hydrate"
  /\ IF orphans = {} THEN End(c)
     ELSE op' = [op EXCEPT ![c].step = "removeVectors", ![c].ids = orphans]
  /\ UNCHANGED <<tierVars, buildVars, syncVars, histVars>>

\* The second half of a delete, and the orphans of a search.
RemoveVectors(c) ==
  LET m == model[op[c].svc] IN
  /\ op[c].step = "removeVectors"
  /\ vec' = [vec EXCEPT ![m] = Erase(@, op[c].ids)]
  /\ excused' = [excused EXCEPT ![m] = @ \cup (op[c].ids \cap Records)]
  /\ End(c)
  /\ UNCHANGED <<source, marker, buildVars, syncVars, version, builds, skipped>>

\* A call to the database fails for good; of a store that wrote the source
\* tier the record stays without a new vector.
Fail(c) ==
  /\ op[c] # Idle
  /\ excused' = [excused EXCEPT ![model[op[c].svc]] =
                   IF op[c].step = "writeVector" THEN @ \cup op[c].ids ELSE @]
  /\ End(c)
  /\ UNCHANGED <<tierVars, buildVars, syncVars, version, builds, skipped>>

BuildStep(s) ==
  \/ \E m \in Models : Plan(s, m)
  \/ MarkInProgress(s) \/ CopyVectors(s) \/ MarkDone(s) \/ FinishBuild(s)
  \/ \E P \in SUBSET Ids : CopySource(s, P)
  \/ \E r \in Ids : Repair(s, r)
  \/ CloseService(s) \/ Replace(s)

SyncStep(s) ==
  \/ \E P \in SUBSET Ids : SyncPage(s, P) \/ SyncWrite(s, P)
  \/ SyncEnd(s) \/ SyncFail(s)

ClientStep(c) ==
  \/ \E s \in Services :
       \/ \E r \in Ids : BeginStore(c, s, r)
       \/ \E S \in SUBSET Ids : BeginDelete(c, s, S) \/ Query(c, s, S)
  \/ WriteSource(c) \/ WriteVector(c) \/ DeleteSource(c) \/ RemoveVectors(c)
  \/ Hydrate(c) \/ Fail(c)

Next ==
  \/ \E s \in Services : BuildStep(s) \/ SyncStep(s)
  \/ \E c \in Clients : ClientStep(c)
  \/ Crash

Spec == Init /\ [][Next]_vars

-----------------------------------------------------------------------------
(* Properties *)

\* The tiers, with their services, restarts and reloads, are a record store:
\* the old collection is copied in whole before anything is served and never
\* again, and no other step makes a record appear or vanish.
Store == INSTANCE RecordStore WITH
           store <- source, import <- marker, skipped <- skipped,
           open <- \E s \in Services : Serving(s)

IsRecordStore == Store!StoreSpec

\* Once the current service has synced, semantic search sees every record,
\* except those whose vector could not be written or was removed by a delete
\* or a search that overlapped a store of the same record, and those stored
\* through a service of another model.
SearchableAfterSync ==
  \A s \in Services, r \in Ids :
    (phase[s] = "current" /\ sync[s] = "done" /\ source[r] # 0) =>
      \/ vec[model[s]][r] # 0
      \/ r \in excused[model[s]]
      \/ \E c \in Clients : op[c].step = "writeVector" /\ r \in op[c].ids

=============================================================================
