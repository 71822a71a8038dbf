--------------------------- MODULE MemoryTiersProofs ---------------------------
(* The tiers implement the record store, and a synced service finds every    *)
(* record, for any records, models, services and clients.                    *)
EXTENDS MemoryTiers, TLAPS

Phases == {"off", "planned", "copying", "repairing", "built", "current", "replaced"}
Calls  == {"idle", "writeSource", "writeVector", "deleteSource", "hydrate", "removeVectors"}

VectorTypes ==
  /\ vec \in [Models -> [Ids -> Nat]] /\ excused \in [Models -> SUBSET Ids]
  /\ sync \in [Services -> {"off", "scan", "embed", "done", "failed"}]
  /\ left \in [Services -> SUBSET Ids] /\ page \in [Services -> [Ids -> Nat]]

TiersTypes ==
  /\ VectorTypes /\ source \in [Ids -> Nat]
  /\ marker \in {"", "in_progress", "done"}
  /\ phase \in [Services -> Phases] /\ model \in [Services -> Models]
  /\ todo \in [Services -> SUBSET Ids] /\ copied \in [Services -> SUBSET Ids]
  /\ op \in [Clients -> [step : Calls, svc : Services, ids : SUBSET Ids, ver : Nat]]
  /\ version \in Nat /\ version >= 2 /\ skipped \in BOOLEAN

\* A call is one of a service that serves, and a store is of one record.
CallsServed ==
  \A c \in Clients :
    /\ op[c] = Idle \/ (op[c].step # "idle" /\ Serving(op[c].svc))
    /\ op[c].step = "writeSource" => \E r \in Ids : op[c].ids = {r}
    /\ op[c].step = "writeVector" => op[c].ver # 0

\* One service is built at a time; what it has left of the import.
ImportOfPhase ==
  /\ \A s, t \in Services : Building(s) /\ Building(t) => s = t
  /\ \A s \in Services :
       /\ phase[s] = "planned" =>
            /\ Legacy # {} /\ marker # "done"
            /\ marker = "" => Records = {} \/ skipped
       /\ phase[s] = "copying" =>
            /\ Legacy # {} /\ marker = "in_progress" /\ todo[s] \subseteq Legacy
            /\ skipped \/ Legacy \ todo[s] \subseteq Records
       /\ phase[s] \in {"repairing", "built", "current", "replaced"} => Store!Complete

ImportInv == TiersTypes /\ CallsServed /\ ImportOfPhase

\* The vector of a record for a model is to be written by a call under way.
Due(m, r) == \E c \in Clients : /\ op[c].step = "writeVector" /\ r \in op[c].ids
                                /\ model[op[c].svc] = m

Found(m, r) == vec[m][r] # 0 \/ r \in excused[m] \/ Due(m, r)

\* A record the sync of s has gone past is found, or in the page that is being
\* embedded.
SyncedAt(s) ==
  /\ sync[s] # "off" => phase[s] \in {"built", "current", "replaced"}
  /\ sync[s] \in {"scan", "embed", "done"} =>
       \A r \in Ids \ left[s] :
         source[r] # 0 => (sync[s] = "embed" /\ page[s][r] # 0) \/ Found(model[s], r)
  /\ sync[s] = "done" => left[s] = {}

SyncedOrDue == \A s \in Services : SyncedAt(s)

-----------------------------------------------------------------------------
(* Types                                                                     *)

CallRecords == [step : Calls, svc : Services, ids : SUBSET Ids, ver : Nat]

LEMMA Typed ==
  /\ Legacy \subseteq Ids /\ Idle \in CallRecords /\ Idle.step = "idle"
  /\ NoPage \in [Ids -> Nat] /\ One \in [Ids -> Nat] /\ SomeModel \in Models
  /\ \A f, g \in [Ids -> Nat], S \in SUBSET Ids :
       /\ Upsert(f, S, g) \in [Ids -> Nat] /\ Erase(f, S) \in [Ids -> Nat]
       /\ \A r \in Ids : /\ Upsert(f, S, g)[r] = IF r \in S THEN g[r] ELSE f[r]
                         /\ Erase(f, S)[r] = IF r \in S THEN 0 ELSE f[r]
BY TiersAssumption DEF TiersAssumption, Idle, CallRecords, Calls, NoPage, One, SomeModel, Upsert, Erase

\* A call goes on, and nothing is built or closed.
LEMMA CallGoesOn ==
  ASSUME TiersTypes, CallsServed, UNCHANGED phase,
         NEW c \in Clients, NEW o \in CallRecords, op' = [op EXCEPT ![c] = o],
         o = Idle \/ (o.step # "idle" /\ Serving(o.svc)),
         o.step = "writeSource" => \E r \in Ids : o.ids = {r},
         o.step = "writeVector" => o.ver # 0
  PROVE  CallsServed' /\ op' \in [Clients -> CallRecords]
BY DEF TiersTypes, CallsServed, Serving, CallRecords

\* A call under way has the step it says, at a service that serves.
LEMMA CallUnderWay ==
  ASSUME TiersTypes, CallsServed, NEW c \in Clients, op[c] # Idle
  PROVE  /\ op[c] \in CallRecords /\ op[c].step # "idle" /\ Serving(op[c].svc)
         /\ op[c].svc \in Services /\ op[c].ids \subseteq Ids /\ op[c].ver \in Nat
BY DEF TiersTypes, CallsServed, CallRecords

\* A call begins, ends or takes a step that writes no record.
LEMMA CallSteps ==
  ASSUME ImportInv, NEW c \in Clients,
         \/ \E s \in Services :
              \/ \E r \in Ids : BeginStore(c, s, r)
              \/ \E S \in SUBSET Ids : BeginDelete(c, s, S) \/ Query(c, s, S)
         \/ WriteVector(c) \/ RemoveVectors(c) \/ Hydrate(c) \/ Fail(c)
  PROVE  /\ TiersTypes' /\ CallsServed'
         /\ UNCHANGED <<source, marker, skipped, phase, todo>>
<1>0. TiersTypes /\ CallsServed
  BY DEF ImportInv
<1>1. UNCHANGED <<source, marker, skipped, phase, model, todo, copied, sync, left, page, version>>
  BY DEF BeginStore, BeginDelete, Query, WriteVector, RemoveVectors, Hydrate, Fail,
         tierVars, buildVars, syncVars, histVars
<1>2. CallsServed' /\ op' \in [Clients -> CallRecords]
  <2>1. ASSUME NEW s \in Services, NEW S \in SUBSET Ids, NEW step \in Calls \ {"idle", "writeVector"},
               Begin(c, s, step, S), step = "writeSource" => \E r \in Ids : S = {r}
        PROVE  CallsServed' /\ op' \in [Clients -> CallRecords]
    <3> DEFINE o == [step |-> step, svc |-> s, ids |-> S, ver |-> 0]
    <3>1. op' = [op EXCEPT ![c] = o] /\ phase[s] = "current"
      BY <2>1 DEF Begin
    <3>2. /\ o \in CallRecords /\ o.step # "idle" /\ Serving(o.svc)
          /\ o.step = "writeSource" => \E r \in Ids : o.ids = {r}
          /\ o.step # "writeVector"
      BY <2>1, <3>1 DEF CallRecords, Serving
    <3> HIDE DEF o
    <3>3. QED
      BY <1>0, <1>1, <3>1, <3>2, CallGoesOn
  <2>2. ASSUME End(c) PROVE CallsServed' /\ op' \in [Clients -> CallRecords]
    BY <1>0, <1>1, <2>2, Typed, CallGoesOn DEF End
  <2>3. ASSUME NEW s \in Services, NEW r \in Ids, BeginStore(c, s, r)
        PROVE  CallsServed' /\ op' \in [Clients -> CallRecords]
    BY <2>1, <2>3 DEF BeginStore, Calls
  <2>4. ASSUME NEW s \in Services, NEW S \in SUBSET Ids, BeginDelete(c, s, S) \/ Query(c, s, S)
        PROVE  CallsServed' /\ op' \in [Clients -> CallRecords]
    BY <2>1, <2>4 DEF BeginDelete, Query, Calls
  <2>5. CASE Hydrate(c)
    <3> DEFINE orphans == op[c].ids \ Records
    <3>1. op[c].step = "hydrate"
      BY <2>5 DEF Hydrate
    <3>2. op[c] # Idle
      BY <3>1, Typed
    <3>3. CASE End(c)
      BY <2>2, <3>3
    <3>4. CASE ~ End(c)
      <4> DEFINE o == [op[c] EXCEPT !.step = "removeVectors", !.ids = orphans]
      <4>1. op' = [op EXCEPT ![c] = o]
        BY <2>5, <3>4 DEF Hydrate
      <4>2. o \in CallRecords /\ o.step = "removeVectors" /\ o.svc = op[c].svc
        BY <1>0, <3>2, CallUnderWay DEF CallRecords, Calls
      <4>3. Serving(o.svc)
        BY <1>0, <3>2, <4>2, CallUnderWay
      <4> HIDE DEF o
      <4>4. QED
        BY <1>0, <1>1, <4>1, <4>2, <4>3, CallGoesOn
    <3>5. QED
      BY <3>3, <3>4
  <2>6. CASE WriteVector(c) \/ RemoveVectors(c) \/ Fail(c)
    BY <2>2, <2>6 DEF WriteVector, RemoveVectors, Fail
  <2>7. QED
    BY <2>3, <2>4, <2>5, <2>6
<1>3. VectorTypes'
  <2>0. VectorTypes
    BY <1>0 DEF TiersTypes
  <2>1. CASE UNCHANGED <<vec, excused>>
    BY <1>1, <2>0, <2>1 DEF VectorTypes
  <2>2. ASSUME op[c] # Idle PROVE model[op[c].svc] \in Models /\ op[c].ids \subseteq Ids
    BY <1>0, <2>2, CallUnderWay DEF TiersTypes
  <2>3. CASE WriteVector(c)
    <3> DEFINE m == model[op[c].svc]
               f == [r \in Ids |-> op[c].ver]
    <3>1. op[c] # Idle
      BY <2>3, Typed DEF WriteVector
    <3>2. f \in [Ids -> Nat]
      BY <1>0, <3>1, CallUnderWay
    <3>3. /\ vec' = [vec EXCEPT ![m] = Upsert(vec[m], op[c].ids, f)]
          /\ excused' = [excused EXCEPT ![m] = @ \ op[c].ids]
      BY <2>3 DEF WriteVector
    <3> HIDE DEF f, m
    <3>4. m \in Models => Upsert(vec[m], op[c].ids, f) \in [Ids -> Nat]
      BY <2>0, <3>2 DEF VectorTypes, Upsert
    <3>5. QED
      BY <1>1, <2>0, <3>3, <3>4 DEF VectorTypes
  <2>4. CASE RemoveVectors(c)
    <3> DEFINE m == model[op[c].svc]
    <3>1. op[c] # Idle
      BY <2>4, Typed DEF RemoveVectors
    <3>2. /\ vec' = [vec EXCEPT ![m] = Erase(vec[m], op[c].ids)]
          /\ excused' = [excused EXCEPT ![m] = @ \cup (op[c].ids \cap Records)]
      BY <2>4 DEF RemoveVectors
    <3>3. m \in Models /\ op[c].ids \subseteq Ids
      BY <2>2, <3>1
    <3> HIDE DEF m
    <3>4. Erase(vec[m], op[c].ids) \in [Ids -> Nat]
      BY <2>0, <3>3, Typed DEF VectorTypes
    <3>5. QED
      BY <1>1, <2>0, <3>2, <3>3, <3>4 DEF VectorTypes
  <2>5. CASE Fail(c)
    <3>1. op[c] # Idle /\ UNCHANGED vec
      BY <2>5 DEF Fail, tierVars
    <3>2. excused' = [excused EXCEPT ![model[op[c].svc]] =
                        IF op[c].step = "writeVector" THEN @ \cup op[c].ids ELSE @]
      BY <2>5 DEF Fail
    <3>3. QED
      BY <1>1, <2>0, <2>2, <3>1, <3>2 DEF VectorTypes
  <2>6. QED
    BY <2>1, <2>3, <2>4, <2>5 DEF BeginStore, BeginDelete, Query, Hydrate, tierVars, histVars
<1>4. TiersTypes'
  BY <1>0, <1>1, <1>2, <1>3 DEF TiersTypes, CallRecords
<1>5. QED
  BY <1>1, <1>2, <1>4

\* The vector sync writes vectors and notes.
LEMMA SyncSteps ==
  ASSUME ImportInv, NEW s \in Services, SyncStep(s)
  PROVE  /\ TiersTypes' /\ CallsServed'
         /\ UNCHANGED <<source, marker, skipped, phase, todo, model, op>>
<1>0. TiersTypes /\ CallsServed
  BY DEF ImportInv
<1>1. UNCHANGED <<source, marker, skipped, phase, model, todo, copied, op, version>>
  BY DEF SyncStep, SyncPage, SyncWrite, SyncEnd, SyncFail, tierVars, buildVars, syncVars, histVars
<1>2. CallsServed'
  BY <1>0, <1>1 DEF CallsServed, Serving
<1>3. VectorTypes'
  <2>0. VectorTypes /\ model[s] \in Models /\ source \in [Ids -> Nat]
    BY <1>0 DEF TiersTypes
  <2>1. ASSUME NEW P \in SUBSET Ids, SyncPage(s, P) PROVE VectorTypes'
    <3> DEFINE have == {r \in P : vec[model[s]][r] # 0}
               missing == (P \cap Records) \ have
    <3>1. /\ left' = [left EXCEPT ![s] = @ \ P]
          /\ page' = [page EXCEPT ![s] = Upsert(NoPage, missing, source)]
          /\ sync' = [sync EXCEPT ![s] = IF missing = {} THEN "scan" ELSE "embed"]
          /\ excused' = [excused EXCEPT ![model[s]] = @ \ have]
          /\ UNCHANGED vec
      BY <2>1 DEF SyncPage, tierVars
    <3>2. have \subseteq Ids /\ missing \subseteq Ids
      OBVIOUS
    <3> HIDE DEF have, missing
    <3>3. Upsert(NoPage, missing, source) \in [Ids -> Nat]
      BY <2>0, <3>2, Typed
    <3>4. QED
      BY <2>0, <3>1, <3>2, <3>3 DEF VectorTypes
  <2>2. ASSUME NEW E \in SUBSET Ids, SyncWrite(s, E) PROVE VectorTypes'
    <3> DEFINE missing == {r \in Ids : page[s][r] # 0}
    <3>1. /\ vec' = [vec EXCEPT ![model[s]] = Upsert(vec[model[s]], E, page[s])]
          /\ excused' = [excused EXCEPT ![model[s]] = (@ \ E) \cup (missing \ E)]
          /\ sync' = [sync EXCEPT ![s] = "scan"] /\ page' = [page EXCEPT ![s] = NoPage]
          /\ UNCHANGED left
      BY <2>2 DEF SyncWrite
    <3>2. missing \subseteq Ids
      OBVIOUS
    <3> HIDE DEF missing
    <3>3. Upsert(vec[model[s]], E, page[s]) \in [Ids -> Nat]
      BY <2>0 DEF VectorTypes, Upsert
    <3>4. QED
      BY <2>0, <3>1, <3>2, <3>3, Typed DEF VectorTypes
  <2>3. CASE SyncEnd(s) \/ SyncFail(s)
    <3>1. UNCHANGED <<vec, excused>>
      BY <2>3 DEF SyncEnd, SyncFail, tierVars, histVars
    <3>2. CASE SyncEnd(s)
      BY <2>0, <3>1, <3>2 DEF SyncEnd, VectorTypes
    <3>3. CASE SyncFail(s)
      BY <2>0, <3>1, <3>3, Typed DEF SyncFail, VectorTypes
    <3>4. QED
      BY <2>3, <3>2, <3>3
  <2>4. QED
    BY <2>1, <2>2, <2>3 DEF SyncStep
<1>4. TiersTypes'
  BY <1>0, <1>1, <1>3 DEF TiersTypes
<1>5. QED
  BY <1>1, <1>2, <1>4

-----------------------------------------------------------------------------
(* The steps of the record store                                             *)

\* A step of RecordStore, seen through the tiers, or none of its steps.
Mapped == Store!StoreNext \/ UNCHANGED Store!storeVars

\* While a service serves, the import is over or was declined.
LEMMA ServedIsComplete ==
  ASSUME ImportInv, NEW s \in Services, Serving(s)
  PROVE  /\ Store!Complete
         /\ \A t \in Services : phase[t] \in {"planned", "copying"} => skipped
BY DEF ImportInv, TiersTypes, ImportOfPhase, Serving, Store!Complete

\* Steps that touch neither a record nor the import nor a service's phase.
LEMMA StutterSteps ==
  ASSUME ImportInv, TiersTypes', CallsServed', UNCHANGED <<source, marker, skipped, phase, todo>>
  PROVE  ImportInv' /\ Mapped
<1>1. UNCHANGED Store!storeVars
  BY DEF Store!storeVars, Serving
<1>2. ImportOfPhase'
  BY DEF ImportInv, ImportOfPhase, Building, Records, Store!Complete
<1>3. QED
  BY <1>1, <1>2 DEF ImportInv, Mapped

\* A store writes its record, a delete removes records.
LEMMA WriteSteps ==
  ASSUME ImportInv, NEW c \in Clients, WriteSource(c) \/ DeleteSource(c)
  PROVE  ImportInv' /\ Mapped
<1>0. TiersTypes /\ CallsServed /\ ImportOfPhase
  BY DEF ImportInv
<1>1. UNCHANGED <<vec, marker, phase, model, todo, copied, sync, left, page, skipped>>
  BY DEF WriteSource, DeleteSource, buildVars, syncVars, histVars
<1>2. op[c] # Idle
  BY Typed DEF WriteSource, DeleteSource
<1>3. /\ op[c] \in CallRecords /\ op[c].svc \in Services /\ Serving(op[c].svc)
      /\ op[c].ids \in SUBSET Ids
  BY <1>0, <1>2, CallUnderWay
<1>4. /\ Store!Complete /\ \E s \in Services : Serving(s)
      /\ \A t \in Services : phase[t] \in {"planned", "copying"} => skipped
  BY <1>3, ServedIsComplete
<1>5. ImportOfPhase'
  BY <1>0, <1>1, <1>4 DEF ImportOfPhase, Building, Store!Complete
<1>6. (\E s \in Services : Serving(s))' = (\E s \in Services : Serving(s))
  BY <1>1 DEF Serving
<1>7. CASE WriteSource(c)
  <2>1. PICK r \in Ids : op[c].ids = {r}
    BY <1>0, <1>7 DEF CallsServed, WriteSource
  <2> DEFINE f == [i \in Ids |-> version + 1]
             o == [op[c] EXCEPT !.step = "writeVector", !.ver = version + 1]
  <2>2. /\ source' = Upsert(source, {r}, f) /\ op' = [op EXCEPT ![c] = o] /\ version' = version + 1
        /\ excused' = [m \in Models |-> IF m = model[op[c].svc] THEN excused[m]
                                        ELSE excused[m] \cup op[c].ids]
    BY <1>7, <2>1 DEF WriteSource
  <2>3. source \in [Ids -> Nat] /\ version + 1 \in Nat \ {0, 1}
    <3>1. source \in [Ids -> Nat] /\ version \in Nat /\ version >= 2
      BY <1>0 DEF TiersTypes
    <3> HIDE DEF f, o
    <3>2. version + 1 \in Nat \ {0, 1}
      BY <3>1
    <3>3. QED
      BY <3>1, <3>2
  <2>4. o \in CallRecords /\ o.step = "writeVector" /\ o.svc = op[c].svc /\ o.ver # 0
    BY <1>3, <2>3 DEF CallRecords, Calls
  <2> HIDE DEF o
  <2>5. CallsServed' /\ op' \in [Clients -> CallRecords]
    BY <1>0, <1>1, <1>3, <2>2, <2>4, CallGoesOn
  <2>6. source' \in [Ids -> Nat] /\ source' = [source EXCEPT ![r] = version + 1]
    BY <2>2, <2>3 DEF Upsert
  <2>7. VectorTypes'
    BY <1>0, <1>1, <1>3, <2>2 DEF TiersTypes, VectorTypes
  <2>8. TiersTypes'
    <3>1. version' \in Nat /\ version' >= 2
      <4> HIDE DEF f
      <4>1. version \in Nat /\ version >= 2
        BY <1>0 DEF TiersTypes
      <4>2. version' = version + 1
        BY <2>2
      <4>3. QED
        BY <4>1, <4>2
    <3>2. op' \in [Clients -> [step : Calls, svc : Services, ids : SUBSET Ids, ver : Nat]]
      BY <2>5 DEF CallRecords
    <3>3. /\ marker' \in {"", "in_progress", "done"} /\ skipped' \in BOOLEAN
          /\ phase' \in [Services -> Phases] /\ model' \in [Services -> Models]
          /\ todo' \in [Services -> SUBSET Ids] /\ copied' \in [Services -> SUBSET Ids]
      BY <1>0, <1>1 DEF TiersTypes
    <3>4. source' \in [Ids -> Nat]
      BY <2>6
    <3>5. QED
      BY <2>7, <3>1, <3>2, <3>3, <3>4, Zenon DEF TiersTypes
  <2>9. Store!Put(r)
    BY <1>1, <1>4, <1>6, <2>3, <2>6 DEF Store!Put
  <2>10. QED
    BY <1>5, <2>5, <2>8, <2>9 DEF ImportInv, Mapped, Store!StoreNext
<1>8. CASE DeleteSource(c)
  <2> DEFINE o == [op[c] EXCEPT !.step = "removeVectors"]
  <2>1. /\ source' = Erase(source, op[c].ids) /\ op' = [op EXCEPT ![c] = o]
        /\ UNCHANGED <<version, excused>>
    BY <1>8 DEF DeleteSource, histVars
  <2>2. o \in CallRecords /\ o.step = "removeVectors" /\ o.svc = op[c].svc
    BY <1>3 DEF CallRecords, Calls
  <2> HIDE DEF o
  <2>3. CallsServed' /\ op' \in [Clients -> CallRecords]
    BY <1>0, <1>1, <1>3, <2>1, <2>2, CallGoesOn
  <2>4. source' \in [Ids -> Nat]
    BY <1>0, <2>1 DEF TiersTypes, Erase
  <2>5. VectorTypes'
    BY <1>0, <1>1, <2>1 DEF TiersTypes, VectorTypes
  <2>6. TiersTypes'
    BY <1>0, <1>1, <2>1, <2>3, <2>4, <2>5 DEF TiersTypes, CallRecords
  <2>7. Store!Remove(op[c].ids)
    BY <1>1, <1>4, <1>6, <2>1 DEF Store!Remove, Erase
  <2>8. QED
    BY <1>3, <1>5, <2>3, <2>6, <2>7 DEF ImportInv, Mapped, Store!StoreNext
<1>9. QED
  BY <1>7, <1>8

\* The calls that write nothing, and the sync.
LEMMA QuietSteps ==
  ASSUME ImportInv,
         \/ \E s \in Services : SyncStep(s)
         \/ \E c \in Clients :
              \/ \E s \in Services :
                   \/ \E r \in Ids : BeginStore(c, s, r)
                   \/ \E S \in SUBSET Ids : BeginDelete(c, s, S) \/ Query(c, s, S)
              \/ WriteVector(c) \/ RemoveVectors(c) \/ Hydrate(c) \/ Fail(c)
  PROVE  ImportInv' /\ Mapped
<1>1. TiersTypes' /\ CallsServed' /\ UNCHANGED <<source, marker, skipped, phase, todo>>
  BY CallSteps, SyncSteps
<1>2. QED
  BY <1>1, StutterSteps

-----------------------------------------------------------------------------
(* Building a service                                                        *)

\* The phases of one service change; no other is built then.
LEMMA BuildingIsAlone ==
  ASSUME ImportInv, NEW s \in Services, Building(s)
  PROVE  \A t \in Services \ {s} :
           /\ ~ Building(t) /\ phase[t] \in {"off", "current", "replaced"}
           /\ Serving(t) => Store!Complete
BY DEF ImportInv, TiersTypes, ImportOfPhase, Building, Serving, Phases

\* Types of the steps that only move a service on: p is its next phase.
LEMMA PhaseSteps ==
  ASSUME ImportInv, NEW s \in Services, NEW p \in Phases, phase' = [phase EXCEPT ![s] = p],
         Building(s) \/ phase[s] = "off",
         UNCHANGED <<op, version>>,
         VectorTypes', source' \in [Ids -> Nat], marker' \in {"", "in_progress", "done"},
         model' \in [Services -> Models], skipped' \in BOOLEAN,
         todo' \in [Services -> SUBSET Ids], copied' \in [Services -> SUBSET Ids]
  PROVE  /\ TiersTypes' /\ CallsServed'
         /\ \A t \in Services \ {s} : phase'[t] = phase[t]
         /\ phase'[s] = p
<1>1. TiersTypes /\ CallsServed
  BY DEF ImportInv
<1>2. phase' \in [Services -> Phases]
  BY <1>1 DEF TiersTypes
<1>3. \A t \in Services : phase'[t] = IF t = s THEN p ELSE phase[t]
  BY <1>1 DEF TiersTypes
<1>4. TiersTypes'
  BY <1>1, <1>2 DEF TiersTypes
<1>5. \A t \in Services : Serving(t) => Serving(t)'
  BY <1>3 DEF Serving, Building
<1>6. CallsServed'
  <2>1. \A c \in Clients : op[c].svc \in Services
    BY <1>1 DEF TiersTypes
  <2>2. QED
    BY <1>1, <1>5, <2>1 DEF CallsServed
<1>7. QED
  BY <1>3, <1>4, <1>6

LEMMA PlanStep ==
  ASSUME ImportInv, NEW s \in Services, NEW m \in Models, Plan(s, m)
  PROVE  ImportInv' /\ Mapped
<1>0. TiersTypes /\ CallsServed /\ ImportOfPhase
  BY DEF ImportInv
<1> DEFINE plan == PlanLegacyMigration
           p == IF plan \in {"start", "resume"} THEN "planned" ELSE "repairing"
<1>1. /\ phase[s] = "off" /\ \A t \in Services : ~ Building(t)
      /\ phase' = [phase EXCEPT ![s] = p] /\ model' = [model EXCEPT ![s] = m]
      /\ skipped' = (skipped \/ plan = "skip")
      /\ UNCHANGED <<source, marker, vec, todo, copied, sync, left, page, op, version, excused>>
  BY DEF Plan, tierVars, syncVars
<1>2. /\ plan = "none" => Store!Complete
      /\ plan = "start" => Legacy # {} /\ marker = "" /\ Records = {}
      /\ plan = "resume" => Legacy # {} /\ marker = "in_progress"
      /\ plan = "skip" => Legacy # {} /\ marker = "" /\ Records # {}
      /\ plan \in {"none", "start", "resume", "skip"}
  BY <1>0 DEF TiersTypes, PlanLegacyMigration, Store!Complete
<1>3. p \in Phases /\ VectorTypes'
  BY <1>0, <1>1 DEF Phases, TiersTypes, VectorTypes
<1> HIDE DEF plan
<1>4. model' \in [Services -> Models] /\ skipped' \in BOOLEAN
  BY <1>0, <1>1 DEF TiersTypes
<1>5. /\ source' \in [Ids -> Nat] /\ marker' \in {"", "in_progress", "done"}
      /\ todo' \in [Services -> SUBSET Ids] /\ copied' \in [Services -> SUBSET Ids]
  BY <1>0, <1>1 DEF TiersTypes
<1>6. /\ TiersTypes' /\ CallsServed' /\ phase'[s] = p
      /\ \A t \in Services \ {s} : phase'[t] = phase[t]
  <2> HIDE DEF p
  <2>1. QED
    BY <1>1, <1>3, <1>4, <1>5, PhaseSteps
<1>7. Store!Complete => Store!Complete'
  BY <1>1 DEF Store!Complete
<1>8. ImportOfPhase'
  <2>1. \A t \in Services \ {s} : phase'[t] \in {"off", "current", "replaced"}
    <3>1. \A t \in Services : phase[t] \in Phases
      BY <1>0 DEF TiersTypes
    <3> HIDE DEF p
    <3>2. QED
      BY <1>1, <1>6, <3>1 DEF Phases, Building
  <2>2. \A t \in Services \ {s} : phase'[t] \in {"current", "replaced"} => Store!Complete'
    BY <1>0, <1>1, <1>6, <1>7 DEF ImportOfPhase
  <2>3. p = "repairing" => Store!Complete'
    BY <1>1, <1>2, <1>7 DEF Store!Complete
  <2>4. p = "planned" => Legacy # {} /\ marker' # "done" /\ (marker' = "" => Records' = {})
    BY <1>1, <1>2 DEF Records
  <2>5. p \in {"planned", "repairing"}
    OBVIOUS
  <2> HIDE DEF p
  <2>6. \A t \in Services : /\ t # s => phase'[t] \in {"off", "current", "replaced"}
                            /\ phase'[s] = p
    BY <1>6, <2>1
  <2>7. \A t \in Services : Building(t)' => t = s
    BY <2>6 DEF Building
  <2>8. QED
    BY <2>2, <2>3, <2>4, <2>5, <2>6, <2>7 DEF ImportOfPhase
<1>9. (\E t \in Services : Serving(t))' = (\E t \in Services : Serving(t))
  BY <1>1, <1>6 DEF Serving
<1>10. CASE plan = "skip"
  <2>1. Store!Decline
    BY <1>1, <1>2, <1>9, <1>10 DEF Store!Decline, Store!Present, Records
  <2>2. QED
    BY <1>6, <1>8, <2>1 DEF ImportInv, Mapped, Store!StoreNext
<1>11. CASE plan # "skip"
  <2>1. skipped' = skipped
    BY <1>0, <1>1, <1>11 DEF TiersTypes
  <2>2. UNCHANGED Store!storeVars
    BY <1>1, <1>9, <2>1 DEF Store!storeVars
  <2>3. QED
    BY <1>6, <1>8, <2>2 DEF ImportInv, Mapped
<1>12. QED
  BY <1>10, <1>11

\* The mark of a copy under way: the import begins, or goes on.
LEMMA MarkInProgressStep ==
  ASSUME ImportInv, NEW s \in Services, MarkInProgress(s)
  PROVE  ImportInv' /\ Mapped
<1>0. TiersTypes /\ CallsServed /\ ImportOfPhase
  BY DEF ImportInv
<1>1. /\ phase[s] = "planned" /\ marker' = "in_progress"
      /\ phase' = [phase EXCEPT ![s] = "copying"]
      /\ todo' = [todo EXCEPT ![s] = Legacy] /\ copied' = [copied EXCEPT ![s] = {}]
      /\ UNCHANGED <<source, vec, model, sync, left, page, op, version, skipped, excused>>
  BY DEF MarkInProgress, syncVars, histVars
<1>2. /\ Legacy # {} /\ marker \in {"", "in_progress"}
      /\ marker = "" => Records = {} \/ skipped
  BY <1>0, <1>1 DEF ImportOfPhase, TiersTypes
<1>3. Building(s)
  BY <1>1 DEF Building
<1>4. VectorTypes' /\ skipped' \in BOOLEAN /\ model' \in [Services -> Models] /\ source' \in [Ids -> Nat]
  BY <1>0, <1>1 DEF TiersTypes, VectorTypes
<1>5. todo' \in [Services -> SUBSET Ids] /\ copied' \in [Services -> SUBSET Ids] /\ todo'[s] = Legacy
  <2>1. todo \in [Services -> SUBSET Ids] /\ copied \in [Services -> SUBSET Ids]
    BY <1>0 DEF TiersTypes
  <2>2. Legacy \in SUBSET Ids
    BY Typed
  <2>3. QED
    BY <1>1, <2>1, <2>2
<1>6. /\ TiersTypes' /\ CallsServed' /\ phase'[s] = "copying"
      /\ \A t \in Services \ {s} : phase'[t] = phase[t]
  <2>1. "copying" \in Phases /\ marker' \in {"", "in_progress", "done"}
    BY <1>1 DEF Phases
  <2>2. QED
    BY <1>1, <1>3, <1>4, <1>5, <2>1, PhaseSteps
<1>7. ImportOfPhase'
  <2>1. \A t \in Services \ {s} : phase'[t] \in {"off", "current", "replaced"}
    BY <1>3, <1>6, BuildingIsAlone
  <2>2. Store!Complete => Store!Complete'
    BY <1>1, <1>2 DEF Store!Complete
  <2>3. \A t \in Services \ {s} : phase'[t] \in {"current", "replaced"} => Store!Complete'
    BY <1>0, <1>6, <2>2 DEF ImportOfPhase
  <2>4. QED
    BY <1>1, <1>2, <1>5, <1>6, <2>1, <2>3 DEF ImportOfPhase, Building
<1>8. (\E t \in Services : Serving(t))' = (\E t \in Services : Serving(t))
  BY <1>1, <1>6 DEF Serving
<1>9. CASE marker = ""
  <2>1. Store!BeginImport
    BY <1>1, <1>2, <1>8, <1>9 DEF Store!BeginImport, Store!Present, Records
  <2>2. QED
    BY <1>6, <1>7, <2>1 DEF ImportInv, Mapped, Store!StoreNext
<1>10. CASE marker = "in_progress"
  <2>1. UNCHANGED Store!storeVars
    BY <1>1, <1>8, <1>10 DEF Store!storeVars
  <2>2. QED
    BY <1>6, <1>7, <2>1 DEF ImportInv, Mapped
<1>11. QED
  BY <1>2, <1>9, <1>10

\* A page of old records comes in: nothing is served, or the import was
\* declined before.
LEMMA CopySourceStep ==
  ASSUME ImportInv, NEW s \in Services, NEW P \in SUBSET Ids, CopySource(s, P)
  PROVE  ImportInv' /\ Mapped
<1>0. TiersTypes /\ CallsServed /\ ImportOfPhase
  BY DEF ImportInv
<1>1. /\ phase[s] = "copying" /\ P \subseteq todo[s]
      /\ source' = Upsert(source, P, One) /\ todo' = [todo EXCEPT ![s] = @ \ P]
      /\ copied' = [copied EXCEPT ![s] = IF reuse[s] THEN P ELSE {}]
      /\ excused' = [m \in Models |-> excused[m] \cup P]
      /\ UNCHANGED <<vec, marker, phase, model, sync, left, page, op, version, skipped>>
  BY DEF CopySource, Pages, syncVars
<1>2. /\ Legacy # {} /\ marker = "in_progress" /\ todo[s] \subseteq Legacy
      /\ skipped \/ Legacy \ todo[s] \subseteq Records
  BY <1>0, <1>1 DEF ImportOfPhase
<1>3. Building(s)
  BY <1>1 DEF Building
<1>4. source' \in [Ids -> Nat] /\ source' = [r \in Ids |-> IF r \in P THEN 1 ELSE source[r]]
  BY <1>0, <1>1 DEF TiersTypes, Upsert, One
<1>5. TiersTypes' /\ CallsServed' /\ UNCHANGED phase
  <2>1. VectorTypes'
    BY <1>0, <1>1 DEF TiersTypes, VectorTypes
  <2>2. todo' \in [Services -> SUBSET Ids] /\ copied' \in [Services -> SUBSET Ids]
    BY <1>0, <1>1 DEF TiersTypes
  <2>3. /\ marker' \in {"", "in_progress", "done"} /\ skipped' \in BOOLEAN
        /\ phase' \in [Services -> Phases] /\ model' \in [Services -> Models]
        /\ op' \in [Clients -> [step : Calls, svc : Services, ids : SUBSET Ids, ver : Nat]]
        /\ version' \in Nat /\ version' >= 2
    BY <1>0, <1>1 DEF TiersTypes
  <2>4. CallsServed'
    BY <1>0, <1>1 DEF CallsServed, Serving
  <2>5. QED
    BY <1>1, <1>4, <2>1, <2>2, <2>3, <2>4 DEF TiersTypes
<1>6. \A t \in Services \ {s} : /\ phase[t] \in {"off", "current", "replaced"}
                                /\ Serving(t) => skipped
  BY <1>2, <1>3, BuildingIsAlone DEF Store!Complete
<1>7. ImportOfPhase'
  <2>1. todo'[s] = todo[s] \ P
    BY <1>0, <1>1 DEF TiersTypes
  <2>2. Legacy \ todo'[s] \subseteq Records' \/ skipped'
    BY <1>1, <1>2, <1>4, <2>1, Typed DEF Records
  <2>3. \A t \in Services \ {s} : phase'[t] \in {"current", "replaced"} => Store!Complete'
    BY <1>1, <1>6 DEF Serving, Store!Complete
  <2>4. QED
    BY <1>1, <1>2, <1>6, <2>1, <2>2, <2>3 DEF ImportOfPhase, Building
<1>8. (\E t \in Services : Serving(t))' = (\E t \in Services : Serving(t))
  BY <1>1 DEF Serving
<1>9. (\E t \in Services : Serving(t)) => skipped
  BY <1>1, <1>6 DEF Serving
<1>10. Store!Import(P)
  BY <1>1, <1>2, <1>4, <1>8, <1>9 DEF Store!Import
<1>11. P \in SUBSET Legacy
  BY <1>1, <1>2
<1>12. QED
  BY <1>5, <1>7, <1>10, <1>11 DEF ImportInv, Mapped, Store!StoreNext

\* All the old records are there when the copy is marked done.
LEMMA MarkDoneStep ==
  ASSUME ImportInv, NEW s \in Services, MarkDone(s)
  PROVE  ImportInv' /\ Mapped
<1>0. TiersTypes /\ CallsServed /\ ImportOfPhase
  BY DEF ImportInv
<1>1. /\ phase[s] = "copying" /\ todo[s] = {} /\ marker' = "done"
      /\ phase' = [phase EXCEPT ![s] = "repairing"]
      /\ UNCHANGED <<source, vec, model, todo, copied, sync, left, page, op, version, skipped, excused>>
  BY DEF MarkDone, syncVars, histVars
<1>2. marker = "in_progress" /\ (skipped \/ Legacy \subseteq Records)
  BY <1>0, <1>1 DEF ImportOfPhase
<1>3. Building(s)
  BY <1>1 DEF Building
<1>4. /\ TiersTypes' /\ CallsServed' /\ phase'[s] = "repairing"
      /\ \A t \in Services \ {s} : phase'[t] = phase[t]
  <2>1. "repairing" \in Phases /\ marker' \in {"", "in_progress", "done"} /\ VectorTypes'
    BY <1>0, <1>1 DEF Phases, TiersTypes, VectorTypes
  <2>2. /\ skipped' \in BOOLEAN /\ model' \in [Services -> Models] /\ source' \in [Ids -> Nat]
        /\ todo' \in [Services -> SUBSET Ids] /\ copied' \in [Services -> SUBSET Ids]
    BY <1>0, <1>1 DEF TiersTypes
  <2>3. QED
    BY <1>1, <1>3, <2>1, <2>2, PhaseSteps
<1>5. ImportOfPhase'
  <2>1. \A t \in Services \ {s} : phase'[t] \in {"off", "current", "replaced"}
    BY <1>3, <1>4, BuildingIsAlone
  <2>2. Store!Complete'
    BY <1>1 DEF Store!Complete
  <2>3. \A t \in Services : /\ phase'[t] \notin {"planned", "copying"}
                            /\ Building(t)' => t = s
    BY <1>4, <2>1 DEF Building
  <2>4. QED
    BY <2>2, <2>3 DEF ImportOfPhase
<1>6. (\E t \in Services : Serving(t))' = (\E t \in Services : Serving(t))
  BY <1>1, <1>4 DEF Serving
<1>7. Store!FinishImport
  BY <1>1, <1>2, <1>6 DEF Store!FinishImport, Store!Present, Records
<1>8. QED
  BY <1>4, <1>5, <1>7 DEF ImportInv, Mapped, Store!StoreNext

\* The repair removes a damaged record of the import.
LEMMA RepairStep ==
  ASSUME ImportInv, NEW s \in Services, NEW r \in Ids, Repair(s, r)
  PROVE  ImportInv' /\ Mapped
<1>0. TiersTypes /\ CallsServed /\ ImportOfPhase
  BY DEF ImportInv
<1>1. /\ phase[s] = "repairing" /\ IsDamaged(r) /\ source' = Erase(source, {r})
      /\ UNCHANGED <<marker, phase, model, todo, copied, sync, left, page, op, version, skipped, excused>>
  BY DEF Repair, buildVars, syncVars, histVars
<1>2. PICK V \in {{}, {r}} : vec' = [vec EXCEPT ![model[s]] = Erase(vec[model[s]], V)]
  BY DEF Repair
<1>3. source' \in [Ids -> Nat] /\ source' = [i \in Ids |-> IF i \in {r} THEN 0 ELSE source[i]]
  BY <1>0, <1>1 DEF TiersTypes, Erase
<1>4. VectorTypes'
  <2>1. VectorTypes /\ model[s] \in Models
    BY <1>0 DEF TiersTypes
  <2>2. Erase(vec[model[s]], V) \in [Ids -> Nat]
    <3>1. vec[model[s]] \in [Ids -> Nat] /\ V \in SUBSET Ids
      BY <2>1 DEF VectorTypes
    <3>2. QED
      BY <3>1 DEF Erase
  <2>3. QED
    BY <1>1, <1>2, <2>1, <2>2 DEF VectorTypes
<1>5. TiersTypes' /\ CallsServed'
  <2>1. /\ marker' \in {"", "in_progress", "done"} /\ skipped' \in BOOLEAN
        /\ phase' \in [Services -> Phases] /\ model' \in [Services -> Models]
        /\ op' \in [Clients -> [step : Calls, svc : Services, ids : SUBSET Ids, ver : Nat]]
        /\ version' \in Nat /\ version' >= 2
        /\ todo' \in [Services -> SUBSET Ids] /\ copied' \in [Services -> SUBSET Ids]
    BY <1>0, <1>1 DEF TiersTypes
  <2>2. CallsServed'
    BY <1>0, <1>1 DEF CallsServed, Serving
  <2>3. QED
    BY <1>3, <1>4, <2>1, <2>2 DEF TiersTypes
<1>6. Store!Complete /\ Store!Complete' /\ Building(s)
  BY <1>0, <1>1 DEF ImportOfPhase, Store!Complete, Building
<1>7. ImportOfPhase'
  <2>1. \A t \in Services \ {s} : phase'[t] \in {"off", "current", "replaced"}
    BY <1>1, <1>6, BuildingIsAlone
  <2>2. \A t \in Services : /\ phase'[t] \notin {"planned", "copying"}
                            /\ Building(t)' => t = s
    BY <1>1, <2>1 DEF Building
  <2>3. QED
    BY <1>6, <2>2 DEF ImportOfPhase
<1>8. (\E t \in Services : Serving(t))' = (\E t \in Services : Serving(t))
  BY <1>1 DEF Serving
<1>9. Store!Remove({r})
  BY <1>1, <1>3, <1>6, <1>8 DEF Store!Remove, IsDamaged
<1>10. QED
  BY <1>5, <1>7, <1>9 DEF ImportInv, Mapped, Store!StoreNext

LEMMA FinishBuildStep ==
  ASSUME ImportInv, NEW s \in Services, FinishBuild(s)
  PROVE  ImportInv' /\ Mapped
<1>0. TiersTypes /\ CallsServed /\ ImportOfPhase
  BY DEF ImportInv
<1>1. /\ phase[s] = "repairing" /\ phase' = [phase EXCEPT ![s] = "built"]
      /\ sync' = [sync EXCEPT ![s] = "scan"]
      /\ left' = [left EXCEPT ![s] = Ids] /\ page' = [page EXCEPT ![s] = NoPage]
      /\ UNCHANGED <<source, vec, marker, model, todo, copied, op, version, skipped, excused>>
  BY DEF FinishBuild, tierVars, histVars
<1>2. Store!Complete /\ Store!Complete' /\ Building(s)
  BY <1>0, <1>1 DEF ImportOfPhase, Store!Complete, Building
<1>3. /\ TiersTypes' /\ CallsServed' /\ phase'[s] = "built"
      /\ \A t \in Services \ {s} : phase'[t] = phase[t]
  <2>1. "built" \in Phases /\ marker' \in {"", "in_progress", "done"}
    BY <1>0, <1>1 DEF Phases, TiersTypes
  <2>2. VectorTypes'
    BY <1>0, <1>1, Typed DEF TiersTypes, VectorTypes
  <2>3. /\ skipped' \in BOOLEAN /\ model' \in [Services -> Models] /\ source' \in [Ids -> Nat]
        /\ todo' \in [Services -> SUBSET Ids] /\ copied' \in [Services -> SUBSET Ids]
    BY <1>0, <1>1 DEF TiersTypes
  <2>4. QED
    BY <1>1, <1>2, <2>1, <2>2, <2>3, PhaseSteps
<1>4. ImportOfPhase'
  <2>1. \A t \in Services \ {s} : phase'[t] \in {"off", "current", "replaced"}
    BY <1>2, <1>3, BuildingIsAlone
  <2>2. QED
    BY <1>2, <1>3, <2>1 DEF ImportOfPhase, Building
<1>5. (\E t \in Services : Serving(t))' = (\E t \in Services : Serving(t))
  BY <1>1, <1>3 DEF Serving
<1>6. UNCHANGED Store!storeVars
  BY <1>1, <1>5 DEF Store!storeVars
<1>7. QED
  BY <1>3, <1>4, <1>6 DEF ImportInv, Mapped

\* The vectors of a copied page.
LEMMA CopyVectorsStep ==
  ASSUME ImportInv, NEW s \in Services, CopyVectors(s)
  PROVE  ImportInv' /\ Mapped
<1>0. TiersTypes /\ CallsServed
  BY DEF ImportInv
<1>1. /\ vec' = [vec EXCEPT ![model[s]] = Upsert(vec[model[s]], copied[s], One)]
      /\ copied' = [copied EXCEPT ![s] = {}]
      /\ UNCHANGED <<source, marker, phase, model, todo, sync, left, page, op, version, skipped, excused>>
  BY DEF CopyVectors, syncVars, histVars
<1>2. VectorTypes /\ model[s] \in Models /\ copied[s] \in SUBSET Ids
  BY <1>0 DEF TiersTypes
<1>3. VectorTypes'
  <2>1. Upsert(vec[model[s]], copied[s], One) \in [Ids -> Nat]
    <3>1. vec[model[s]] \in [Ids -> Nat]
      BY <1>2 DEF VectorTypes
    <3>2. QED
      BY <3>1 DEF Upsert, One
  <2>2. QED
    BY <1>1, <1>2, <2>1 DEF VectorTypes
<1>4. TiersTypes'
  BY <1>0, <1>1, <1>3 DEF TiersTypes
<1>5. CallsServed'
  BY <1>0, <1>1 DEF CallsServed, Serving
<1>6. QED
  BY <1>1, <1>4, <1>5, StutterSteps

LEMMA ReplaceStep ==
  ASSUME ImportInv, NEW s \in Services, Replace(s)
  PROVE  ImportInv' /\ Mapped
<1>0. TiersTypes /\ CallsServed /\ ImportOfPhase
  BY DEF ImportInv
<1>1. /\ phase[s] = "built"
      /\ phase' = [t \in Services |-> IF t = s THEN "current"
                                      ELSE IF phase[t] = "current" THEN "replaced" ELSE phase[t]]
      /\ UNCHANGED <<source, vec, marker, model, todo, copied, sync, left, page, op,
                     version, skipped, excused>>
  BY DEF Replace, tierVars, syncVars, histVars
<1>2. Store!Complete /\ Store!Complete' /\ Building(s)
  BY <1>0, <1>1 DEF ImportOfPhase, Store!Complete, Building
<1>3. \A t \in Services \ {s} : phase'[t] \in {"off", "current", "replaced"}
  BY <1>1, <1>2, BuildingIsAlone
<1>4. ImportOfPhase'
  BY <1>1, <1>2, <1>3 DEF ImportOfPhase, Building
<1>5. TiersTypes'
  <2>1. phase' \in [Services -> Phases]
    BY <1>0, <1>1 DEF TiersTypes, Phases
  <2>2. VectorTypes'
    BY <1>0, <1>1 DEF TiersTypes, VectorTypes
  <2>3. QED
    BY <1>0, <1>1, <2>1, <2>2 DEF TiersTypes
<1>6. CallsServed'
  <2>1. \A t \in Services : Serving(t) => Serving(t)'
    BY <1>1 DEF Serving
  <2>2. \A c \in Clients : op[c].svc \in Services
    BY <1>0 DEF TiersTypes
  <2>3. QED
    BY <1>0, <1>1, <2>1, <2>2 DEF CallsServed
<1>7. (\E t \in Services : Serving(t))' = TRUE
  BY <1>1 DEF Serving
<1>8. Store!Open
  BY <1>1, <1>2, <1>7 DEF Store!Open
<1>9. QED
  BY <1>4, <1>5, <1>6, <1>8 DEF ImportInv, Mapped, Store!StoreNext

\* A service is closed, or all end with the process: what is left serves, or
\* nothing does.
LEMMA ClosingSteps ==
  ASSUME ImportInv, (\E s \in Services : CloseService(s)) \/ Crash
  PROVE  ImportInv' /\ Mapped
<1>0. TiersTypes /\ CallsServed /\ ImportOfPhase
  BY DEF ImportInv
<1>1. PICK S \in SUBSET Services :
        /\ Reset(S) /\ UNCHANGED <<source, vec, marker, version, skipped, excused>>
        /\ \/ UNCHANGED op /\ \E s \in Services :
                /\ S = {s}
                /\ \/ Building(s)
                   \/ phase[s] = "replaced" /\ \A c \in Clients : op[c] # Idle => op[c].svc # s
           \/ S = Services /\ op' = [c \in Clients |-> Idle]
  <2>1. ASSUME NEW s \in Services, CloseService(s) PROVE {s} \in SUBSET Services
    OBVIOUS
  <2>2. CASE Crash
    BY <2>2 DEF Crash, tierVars, histVars
  <2>3. CASE \E s \in Services : CloseService(s)
    BY <2>3, <2>1 DEF CloseService, tierVars, histVars
  <2>4. QED
    BY <2>2, <2>3
<1>2. /\ \A s \in Services : phase'[s] = IF s \in S THEN "off" ELSE phase[s]
      /\ \A s \in Services : todo'[s] = IF s \in S THEN {} ELSE todo[s]
  BY <1>1 DEF Reset
<1>3. TiersTypes'
  <2>1. /\ phase' \in [Services -> Phases] /\ model' \in [Services -> Models]
        /\ todo' \in [Services -> SUBSET Ids] /\ copied' \in [Services -> SUBSET Ids]
    BY <1>0, <1>1, Typed DEF Reset, TiersTypes, Phases
  <2>2. VectorTypes'
    <3>1. VectorTypes
      BY <1>0 DEF TiersTypes
    <3>2. sync' \in [Services -> {"off", "scan", "embed", "done", "failed"}]
      BY <1>1, <3>1 DEF Reset, VectorTypes
    <3>3. left' \in [Services -> SUBSET Ids]
      BY <1>1, <3>1 DEF Reset, VectorTypes
    <3>4. page' \in [Services -> [Ids -> Nat]]
      BY <1>1, <3>1, Typed DEF Reset, VectorTypes
    <3>5. QED
      BY <1>1, <3>1, <3>2, <3>3, <3>4 DEF VectorTypes
  <2>3. op' \in [Clients -> [step : Calls, svc : Services, ids : SUBSET Ids, ver : Nat]]
    <3>1. op' = op \/ op' = [c \in Clients |-> Idle]
      BY <1>1
    <3>2. Idle \in [step : Calls, svc : Services, ids : SUBSET Ids, ver : Nat]
      BY Typed DEF CallRecords
    <3>3. op \in [Clients -> [step : Calls, svc : Services, ids : SUBSET Ids, ver : Nat]]
      BY <1>0 DEF TiersTypes
    <3>4. QED
      BY <3>1, <3>2, <3>3
  <2>4. QED
    BY <1>0, <1>1, <2>1, <2>2, <2>3 DEF TiersTypes
<1>4. CallsServed'
  <2>1. CASE op' = [c \in Clients |-> Idle]
    BY <2>1, Typed DEF CallsServed, Idle
  <2>2. CASE UNCHANGED op /\ \E s \in Services :
                /\ S = {s}
                /\ \/ Building(s)
                   \/ phase[s] = "replaced" /\ \A c \in Clients : op[c] # Idle => op[c].svc # s
    <3>1. \A c \in Clients : op[c] # Idle => op[c].svc \in Services \ S
      BY <1>0, <2>2, CallUnderWay DEF Building, Serving
    <3>2. \A c \in Clients : op[c] # Idle => Serving(op[c].svc)'
      BY <1>0, <1>2, <2>2, <3>1 DEF CallsServed, Serving
    <3>3. QED
      BY <1>0, <2>2, <3>2 DEF CallsServed
  <2>3. QED
    BY <1>1, <2>1, <2>2
<1>5. ImportOfPhase'
  BY <1>0, <1>1, <1>2 DEF ImportOfPhase, Building, Records, Store!Complete
<1>6. CASE (\E t \in Services : Serving(t))' = (\E t \in Services : Serving(t))
  <2>1. UNCHANGED Store!storeVars
    BY <1>1, <1>6 DEF Store!storeVars
  <2>2. QED
    BY <1>3, <1>4, <1>5, <2>1 DEF ImportInv, Mapped
<1>7. CASE (\E t \in Services : Serving(t))' = FALSE
  <2>1. Store!Close
    BY <1>1, <1>7 DEF Store!Close
  <2>2. QED
    BY <1>3, <1>4, <1>5, <2>1 DEF ImportInv, Mapped, Store!StoreNext
<1>8. (\E t \in Services : Serving(t))' => (\E t \in Services : Serving(t))
  BY <1>2 DEF Serving
<1>9. QED
  BY <1>6, <1>7, <1>8

-----------------------------------------------------------------------------

LEMMA ImportStep ==
  ASSUME ImportInv, [Next]_vars
  PROVE  ImportInv' /\ Mapped
<1>1. CASE UNCHANGED vars
  <2>1. /\ UNCHANGED <<source, marker, skipped, phase, todo, vec, excused, sync, left, page,
                       model, copied, op, version>>
    BY <1>1 DEF vars, tierVars, buildVars, syncVars, histVars
  <2>2. TiersTypes' /\ CallsServed'
    BY <2>1 DEF ImportInv, TiersTypes, VectorTypes, CallsServed, Serving
  <2>3. QED
    BY <2>1, <2>2, StutterSteps
<1>2. ASSUME NEW s \in Services, BuildStep(s) PROVE ImportInv' /\ Mapped
  BY <1>2, PlanStep, MarkInProgressStep, CopyVectorsStep, MarkDoneStep, FinishBuildStep,
     CopySourceStep, RepairStep, ClosingSteps, ReplaceStep DEF BuildStep
<1>3. CASE Crash
  BY <1>3, ClosingSteps
<1>4. ASSUME NEW c \in Clients, ClientStep(c) PROVE ImportInv' /\ Mapped
  BY <1>4, WriteSteps, QuietSteps DEF ClientStep
<1>5. QED
  BY <1>1, <1>2, <1>3, <1>4, QuietSteps DEF Next

LEMMA ImportStart == Init => ImportInv /\ Store!StoreInit
<1> SUFFICES ASSUME Init PROVE ImportInv /\ Store!StoreInit
  OBVIOUS
<1>1. /\ source \in [Ids -> {0, 2}] /\ vec = [m \in Models |-> NoPage] /\ marker = ""
      /\ phase = [s \in Services |-> "off"] /\ model = [s \in Services |-> SomeModel]
      /\ todo = [s \in Services |-> {}] /\ copied = [s \in Services |-> {}]
      /\ sync = [s \in Services |-> "off"]
      /\ left = [s \in Services |-> {}] /\ page = [s \in Services |-> NoPage]
      /\ op = [c \in Clients |-> Idle]
      /\ version = 2 /\ skipped = FALSE /\ excused = [m \in Models |-> {}]
  BY DEF Init
<1>2. VectorTypes
  BY <1>1, Typed DEF VectorTypes
<1>3. op \in [Clients -> [step : Calls, svc : Services, ids : SUBSET Ids, ver : Nat]]
  BY <1>1, Typed DEF CallRecords
<1>4. phase \in [Services -> Phases] /\ model \in [Services -> Models]
  BY <1>1, Typed DEF Phases
<1>5. source \in [Ids -> Nat] /\ version \in Nat /\ version >= 2
  <2>1. source \in [Ids -> {0, 2}] /\ version = 2
    BY <1>1
  <2>2. QED
    BY <2>1
<1>6. TiersTypes
  <2>1. /\ marker \in {"", "in_progress", "done"} /\ skipped \in BOOLEAN
        /\ todo \in [Services -> SUBSET Ids] /\ copied \in [Services -> SUBSET Ids]
    BY <1>1
  <2>2. QED
    BY <1>2, <1>3, <1>4, <1>5, <2>1 DEF TiersTypes
<1>7. CallsServed
  BY <1>1, Typed DEF CallsServed
<1>8. ImportOfPhase /\ (\E s \in Services : Serving(s)) = FALSE
  BY <1>1 DEF ImportOfPhase, Building, Serving
<1>9. Store!StoreInit
  BY <1>1, <1>8 DEF Store!StoreInit
<1>10. QED
  BY <1>6, <1>7, <1>8, <1>9 DEF ImportInv

\* The invariant of the import: what of it is left to the one service that is
\* built, and that the calls under way are of services that serve.
THEOREM ImportInvariant == Spec => []ImportInv
<1>1. Init => ImportInv
  BY ImportStart
<1>2. ImportInv /\ [Next]_vars => ImportInv'
  BY ImportStep
<1>3. QED
  BY <1>1, <1>2, PTL DEF Spec

\* The tiers implement the record store: the old collection is copied in whole
\* before anything is served and not again (PlanLegacyMigration and
\* executeMigration of internal/memory), and no other step of a build, a sync,
\* a store, a delete or a search makes a record appear or vanish.
THEOREM TiersAreARecordStore == Spec => IsRecordStore
<1>1. Init => Store!StoreInit
  BY ImportStart
<1>2. ImportInv /\ [Next]_vars => [Store!StoreNext]_(Store!storeVars)
  BY ImportStep DEF Mapped
<1>3. QED
  BY <1>1, <1>2, ImportInvariant, PTL DEF Spec, IsRecordStore, Store!StoreSpec

-----------------------------------------------------------------------------
(* What the sync leaves findable                                             *)

\* Every record that is there after a step is found for m if it was, or if it
\* is new.
FoundStays ==
  \A m \in Models, r \in Ids :
    source'[r] # 0 /\ (Found(m, r) \/ source[r] = 0) => Found(m, r)'

LEMMA DueStays ==
  ASSUME UNCHANGED op, \A c \in Clients : op[c] # Idle => model'[op[c].svc] = model[op[c].svc],
         NEW m \in Models, NEW r \in Ids, Due(m, r)
  PROVE  Due(m, r)'
<1>1. PICK c \in Clients : op[c].step = "writeVector" /\ r \in op[c].ids /\ model[op[c].svc] = m
  BY DEF Due
<1>2. op[c] # Idle
  BY <1>1, Typed
<1>3. QED
  BY <1>1, <1>2 DEF Due

\* The calls of others stay due.
LEMMA DueOfOthers ==
  ASSUME ImportInv, UNCHANGED model, NEW c \in Clients, NEW o, op' = [op EXCEPT ![c] = o],
         NEW m \in Models, NEW r \in Ids, Due(m, r)
  PROVE  Due(m, r)' \/ (op[c].step = "writeVector" /\ r \in op[c].ids /\ model[op[c].svc] = m)
BY DEF Due, ImportInv, TiersTypes

\* Steps that write no record and no vector.
LEMMA FoundIfQuiet ==
  ASSUME UNCHANGED <<source, vec, excused, op>>,
         \A c \in Clients : op[c] # Idle => model'[op[c].svc] = model[op[c].svc]
  PROVE  FoundStays
<1> SUFFICES ASSUME NEW m \in Models, NEW r \in Ids, source'[r] # 0, Found(m, r)
             PROVE  Found(m, r)'
  BY DEF FoundStays
<1>1. QED
  BY DueStays DEF Found

\* A page of the old collection: its records are excused for every model, and
\* a copied vector is one.
LEMMA FoundAfterCopy ==
  ASSUME ImportInv, NEW s \in Services,
         CopyVectors(s) \/ (\E P \in SUBSET Ids : CopySource(s, P)) \/ (\E r \in Ids : Repair(s, r))
  PROVE  FoundStays
<1>0. /\ VectorTypes /\ model[s] \in Models /\ copied[s] \in SUBSET Ids
      /\ vec[model[s]] \in [Ids -> Nat] /\ source \in [Ids -> Nat]
  BY DEF ImportInv, TiersTypes, VectorTypes
<1>1. UNCHANGED <<op, model>>
  BY DEF CopyVectors, CopySource, Repair, buildVars
<1> SUFFICES ASSUME NEW m \in Models, NEW r \in Ids, source'[r] # 0, Found(m, r) \/ source[r] = 0
             PROVE  Found(m, r)'
  BY DEF FoundStays
<1>2. Due(m, r) => Due(m, r)'
  BY <1>1, DueStays
<1>3. CASE CopyVectors(s)
  <2>1. /\ vec' = [vec EXCEPT ![model[s]] = Upsert(vec[model[s]], copied[s], One)]
        /\ UNCHANGED <<source, excused>>
    BY <1>3 DEF CopyVectors, histVars
  <2>2. vec'[m][r] = IF m = model[s] /\ r \in copied[s] THEN 1 ELSE vec[m][r]
    BY <1>0, <2>1 DEF VectorTypes, Upsert, One
  <2>3. QED
    BY <1>2, <2>1, <2>2 DEF Found
<1>4. ASSUME NEW P \in SUBSET Ids, CopySource(s, P) PROVE Found(m, r)'
  <2>1. /\ source' = Upsert(source, P, One) /\ excused' = [i \in Models |-> excused[i] \cup P]
        /\ UNCHANGED vec
    BY <1>4 DEF CopySource
  <2>2. r \in P \/ source'[r] = source[r]
    BY <2>1 DEF Upsert
  <2>3. excused'[m] = excused[m] \cup P
    BY <2>1
  <2>4. QED
    BY <1>2, <2>1, <2>2, <2>3 DEF Found
<1>5. ASSUME NEW q \in Ids, Repair(s, q) PROVE Found(m, r)'
  <2>1. PICK V \in {{}, {q}} : vec' = [vec EXCEPT ![model[s]] = Erase(vec[model[s]], V)]
    BY <1>5 DEF Repair
  <2>2. source' = Erase(source, {q}) /\ UNCHANGED excused
    BY <1>5 DEF Repair, histVars
  <2>3. r # q /\ source'[r] = source[r]
    BY <2>2 DEF Erase
  <2>4. vec'[m][r] = vec[m][r]
    BY <1>0, <2>1, <2>3 DEF VectorTypes, Erase
  <2>5. QED
    BY <1>2, <2>2, <2>3, <2>4 DEF Found
<1>6. QED
  BY <1>3, <1>4, <1>5

\* A page is read: what has a vector needs no excuse.
LEMMA FoundAfterPage ==
  ASSUME ImportInv, NEW s \in Services, NEW P \in SUBSET Ids, SyncPage(s, P)
  PROVE  FoundStays
<1> DEFINE have == {r \in P : vec[model[s]][r] # 0}
<1>1. /\ excused' = [excused EXCEPT ![model[s]] = @ \ have]
      /\ UNCHANGED <<source, vec, op, model>>
  BY DEF SyncPage, tierVars, buildVars
<1>2. model[s] \in Models /\ VectorTypes
  BY DEF ImportInv, TiersTypes
<1> SUFFICES ASSUME NEW m \in Models, NEW r \in Ids, source'[r] # 0, Found(m, r)
             PROVE  Found(m, r)'
  BY <1>1 DEF FoundStays
<1>3. Due(m, r) => Due(m, r)'
  BY <1>1, DueStays
<1>4. r \in excused[m] => r \in excused'[m] \/ vec[m][r] # 0
  BY <1>1, <1>2 DEF VectorTypes
<1>5. QED
  BY <1>1, <1>3, <1>4 DEF Found

\* A page is written: what did not embed is excused.
LEMMA FoundAfterEmbed ==
  ASSUME ImportInv, NEW s \in Services, NEW E \in SUBSET Ids, SyncWrite(s, E)
  PROVE  /\ FoundStays
         /\ \A r \in Ids : page[s][r] # 0 => Found(model[s], r)'
<1> DEFINE missing == {r \in Ids : page[s][r] # 0}
<1>1. /\ vec' = [vec EXCEPT ![model[s]] = Upsert(vec[model[s]], E, page[s])]
      /\ excused' = [excused EXCEPT ![model[s]] = (@ \ E) \cup (missing \ E)]
      /\ E \subseteq missing
      /\ UNCHANGED <<source, op, model>>
  BY DEF SyncWrite, buildVars
<1>2. model[s] \in Models /\ VectorTypes
  BY DEF ImportInv, TiersTypes
<1>3. \A m \in Models, r \in Ids :
        vec'[m][r] = IF m = model[s] /\ r \in E THEN page[s][r] ELSE vec[m][r]
  BY <1>1, <1>2 DEF VectorTypes, Upsert
<1>4. \A r \in E : page[s][r] # 0
  BY <1>1
<1> HIDE DEF missing
<1>5. \A m \in Models, r \in Ids :
        r \in excused'[m] <=> IF m = model[s] THEN r \notin E /\ r \in excused[m] \cup missing
                              ELSE r \in excused[m]
  BY <1>1, <1>2 DEF VectorTypes
<1>6. FoundStays
  <2> SUFFICES ASSUME NEW m \in Models, NEW r \in Ids, source'[r] # 0, Found(m, r)
               PROVE  Found(m, r)'
    BY <1>1 DEF FoundStays
  <2>1. Due(m, r) => Due(m, r)'
    BY <1>1, DueStays
  <2>2. QED
    BY <1>3, <1>4, <1>5, <2>1 DEF Found
<1>7. ASSUME NEW r \in Ids, page[s][r] # 0 PROVE Found(model[s], r)'
  <2>1. r \in missing /\ model'[s] = model[s]
    BY <1>1, <1>7 DEF missing
  <2>2. vec'[model[s]][r] # 0 \/ r \in excused'[model[s]]
    BY <1>2, <1>3, <1>4, <1>5, <2>1
  <2>3. QED
    BY <2>1, <2>2 DEF Found
<1>8. QED
  BY <1>6, <1>7

\* A call that was to write a vector writes it, or leaves an excuse; a new
\* version is due for the model of its service and excused for the others.
LEMMA FoundAfterCall ==
  ASSUME ImportInv, NEW c \in Clients, ClientStep(c)
  PROVE  FoundStays
<1>0. /\ VectorTypes /\ source \in [Ids -> Nat] /\ op \in [Clients -> CallRecords]
      /\ op[c] \in CallRecords /\ model[op[c].svc] \in Models
  BY DEF ImportInv, TiersTypes, CallRecords
<1>1. UNCHANGED model
  BY DEF ClientStep, BeginStore, BeginDelete, Query, WriteSource, WriteVector, DeleteSource,
         RemoveVectors, Hydrate, Fail, buildVars
<1>2. PICK o : op' = [op EXCEPT ![c] = o]
  <2>1. CASE Hydrate(c)
    BY <2>1 DEF Hydrate, End
  <2>2. CASE WriteSource(c) \/ DeleteSource(c)
    BY <2>2 DEF WriteSource, DeleteSource
  <2>3. CASE WriteVector(c) \/ RemoveVectors(c) \/ Fail(c)
    BY <2>3 DEF WriteVector, RemoveVectors, Fail, End
  <2>4. QED
    BY <2>1, <2>2, <2>3 DEF ClientStep, BeginStore, BeginDelete, Query, Begin
<1> SUFFICES ASSUME NEW m \in Models, NEW r \in Ids, source'[r] # 0, Found(m, r) \/ source[r] = 0
             PROVE  Found(m, r)'
  BY DEF FoundStays
<1> DEFINE own == op[c].step = "writeVector" /\ r \in op[c].ids /\ model[op[c].svc] = m
<1>3. Due(m, r) => Due(m, r)' \/ own
  BY <1>1, <1>2, DueOfOthers
<1>4. CASE \E s \in Services : \/ \E i \in Ids : BeginStore(c, s, i)
                               \/ \E S \in SUBSET Ids : BeginDelete(c, s, S) \/ Query(c, s, S)
  <2>1. UNCHANGED <<source, vec, excused>> /\ op[c] = Idle
    BY <1>4 DEF BeginStore, BeginDelete, Query, Begin, tierVars, histVars
  <2>2. QED
    BY <1>3, <2>1, Typed DEF Found
<1>5. CASE Hydrate(c)
  <2>1. UNCHANGED <<source, vec, excused>> /\ op[c].step = "hydrate"
    BY <1>5 DEF Hydrate, tierVars, histVars
  <2>2. QED
    BY <1>3, <2>1 DEF Found
<1>6. CASE DeleteSource(c)
  <2>1. UNCHANGED <<vec, excused>> /\ op[c].step = "deleteSource" /\ source' = Erase(source, op[c].ids)
    BY <1>6 DEF DeleteSource, histVars
  <2>2. source'[r] = source[r]
    BY <2>1 DEF Erase
  <2>3. QED
    BY <1>3, <2>1, <2>2 DEF Found
<1>7. CASE WriteSource(c)
  <2>1. /\ UNCHANGED vec /\ op[c].step = "writeSource"
        /\ source' = Upsert(source, op[c].ids, [i \in Ids |-> version + 1])
        /\ op' = [op EXCEPT ![c] = [op[c] EXCEPT !.step = "writeVector", !.ver = version + 1]]
        /\ excused' = [i \in Models |-> IF i = model[op[c].svc] THEN excused[i]
                                        ELSE excused[i] \cup op[c].ids]
    BY <1>7 DEF WriteSource
  <2>2. CASE r \in op[c].ids
    <3>1. op'[c].step = "writeVector" /\ op'[c].ids = op[c].ids /\ op'[c].svc = op[c].svc
      BY <1>0, <2>1 DEF CallRecords
    <3>2. CASE m = model[op[c].svc]
      BY <1>1, <2>2, <3>1, <3>2 DEF Found, Due
    <3>3. CASE m # model[op[c].svc]
      BY <2>1, <2>2, <3>3 DEF Found
    <3>4. QED
      BY <3>2, <3>3
  <2>3. CASE r \notin op[c].ids
    <3>1. source'[r] = source[r] /\ (r \in excused[m] => r \in excused'[m])
      BY <2>1, <2>3 DEF Upsert
    <3>2. QED
      BY <1>3, <2>1, <3>1 DEF Found
  <2>4. QED
    BY <2>2, <2>3
<1>8. CASE WriteVector(c)
  <2> DEFINE k == model[op[c].svc]
             f == [i \in Ids |-> op[c].ver]
  <2>1. /\ vec' = [vec EXCEPT ![k] = Upsert(vec[k], op[c].ids, f)]
        /\ excused' = [excused EXCEPT ![k] = @ \ op[c].ids]
        /\ op[c].step = "writeVector" /\ UNCHANGED source
    BY <1>8 DEF WriteVector
  <2>2. op[c].ver # 0
    BY <2>1 DEF ImportInv, CallsServed
  <2>3. f[r] # 0
    BY <2>2
  <2> HIDE DEF f
  <2>4. vec'[m][r] = IF m = k /\ r \in op[c].ids THEN f[r] ELSE vec[m][r]
    BY <1>0, <2>1 DEF VectorTypes, Upsert
  <2>5. r \in excused[m] => r \in excused'[m] \/ (m = k /\ r \in op[c].ids)
    BY <1>0, <2>1 DEF VectorTypes
  <2>6. QED
    BY <1>3, <2>1, <2>3, <2>4, <2>5 DEF Found
<1>9. CASE RemoveVectors(c)
  <2> DEFINE k == model[op[c].svc]
  <2>1. /\ vec' = [vec EXCEPT ![k] = Erase(vec[k], op[c].ids)]
        /\ excused' = [excused EXCEPT ![k] = @ \cup (op[c].ids \cap Records)]
        /\ op[c].step = "removeVectors" /\ UNCHANGED source
    BY <1>9 DEF RemoveVectors
  <2>2. vec'[m][r] = IF m = k /\ r \in op[c].ids THEN 0 ELSE vec[m][r]
    BY <1>0, <2>1 DEF VectorTypes, Erase
  <2>3. /\ r \in excused[m] => r \in excused'[m]
        /\ m = k /\ r \in op[c].ids => r \in excused'[m]
    BY <1>0, <2>1 DEF VectorTypes, Records
  <2>4. QED
    BY <1>3, <2>1, <2>2, <2>3 DEF Found
<1>10. CASE Fail(c)
  <2> DEFINE k == model[op[c].svc]
  <2>1. /\ excused' = [excused EXCEPT ![k] = IF op[c].step = "writeVector" THEN @ \cup op[c].ids ELSE @]
        /\ UNCHANGED <<source, vec>>
    BY <1>10 DEF Fail, tierVars
  <2>2. /\ r \in excused[m] => r \in excused'[m]
        /\ own => r \in excused'[m]
    BY <1>0, <2>1 DEF VectorTypes
  <2>3. QED
    BY <1>3, <2>1, <2>2 DEF Found
<1>11. QED
  BY <1>4, <1>5, <1>6, <1>7, <1>8, <1>9, <1>10 DEF ClientStep

\* A sync goes on, or waits for its start, while others move.
LEMMA SyncedIfKept ==
  ASSUME ImportInv, SyncedOrDue, FoundStays, NEW s \in Services,
         sync'[s] = sync[s], left'[s] = left[s], page'[s] = page[s],
         sync[s] # "off" => /\ phase'[s] \in {"built", "current", "replaced"}
                            /\ model'[s] = model[s]
  PROVE  SyncedAt(s)'
<1>1. model[s] \in Models /\ SyncedAt(s)
  BY DEF ImportInv, TiersTypes, SyncedOrDue
<1>2. CASE sync[s] = "off"
  BY <1>2 DEF SyncedAt
<1>3. CASE sync[s] # "off"
  <2>1. model'[s] = model[s] /\ phase'[s] \in {"built", "current", "replaced"}
    BY <1>3
  <2>2. ASSUME NEW r \in Ids, source'[r] # 0, Found(model[s], r) \/ source[r] = 0
        PROVE  Found(model[s], r)'
    BY <1>1, <2>1, <2>2 DEF FoundStays
  <2>3. ASSUME sync'[s] \in {"scan", "embed", "done"}, NEW r \in Ids \ left'[s], source'[r] # 0
        PROVE  (sync'[s] = "embed" /\ page'[s][r] # 0) \/ Found(model[s], r)'
    <3>1. source[r] = 0 \/ (sync[s] = "embed" /\ page[s][r] # 0) \/ Found(model[s], r)
      BY <1>1, <2>3 DEF SyncedAt
    <3>2. QED
      BY <2>2, <2>3, <3>1
  <2>4. sync'[s] = "done" => left'[s] = {}
    BY <1>1 DEF SyncedAt
  <2>5. QED
    BY <2>1, <2>3, <2>4 DEF SyncedAt
<1>4. QED
  BY <1>2, <1>3

LEMMA SyncedAfterBuild ==
  ASSUME ImportInv, SyncedOrDue, NEW s \in Services, BuildStep(s)
  PROVE  SyncedOrDue'
<1>0. TiersTypes /\ CallsServed
  BY DEF ImportInv
<1>1. \A t \in Services : sync[t] # "off" => phase[t] \in {"built", "current", "replaced"}
  BY DEF SyncedOrDue, SyncedAt
<1>2. \A c \in Clients : op[c] # Idle => op[c].svc \in Services /\ Serving(op[c].svc)
  BY <1>0, CallUnderWay
<1>3. CASE \E m \in Models : Plan(s, m)
  <2>1. PICK m \in Models : Plan(s, m)
    BY <1>3
  <2>2. /\ phase[s] = "off" /\ model' = [model EXCEPT ![s] = m]
        /\ UNCHANGED <<source, vec, excused, op, sync, left, page>>
    BY <2>1 DEF Plan, tierVars, syncVars
  <2>3. \A t \in Services \ {s} : phase'[t] = phase[t]
    BY <1>0, <2>1 DEF Plan, TiersTypes
  <2>4. \A t \in Services \ {s} : model'[t] = model[t]
    BY <1>0, <2>2 DEF TiersTypes
  <2>5. FoundStays
    BY <1>2, <2>2, <2>4, FoundIfQuiet DEF Serving
  <2>6. sync[s] = "off"
    BY <1>1, <2>2
  <2>7. QED
    BY <1>1, <2>2, <2>3, <2>4, <2>5, <2>6, SyncedIfKept DEF SyncedOrDue
<1>4. CASE MarkInProgress(s) \/ MarkDone(s)
  <2>1. /\ phase[s] \in {"planned", "copying"}
        /\ UNCHANGED <<source, vec, excused, op, sync, left, page, model>>
    BY <1>4 DEF MarkInProgress, MarkDone, syncVars, histVars
  <2>2. \A t \in Services \ {s} : phase'[t] = phase[t]
    BY <1>0, <1>4 DEF MarkInProgress, MarkDone, TiersTypes
  <2>3. FoundStays
    BY <2>1, FoundIfQuiet
  <2>4. sync[s] = "off"
    BY <1>1, <2>1
  <2>5. QED
    BY <1>1, <2>1, <2>2, <2>3, <2>4, SyncedIfKept DEF SyncedOrDue
<1>5. CASE CopyVectors(s) \/ (\E P \in SUBSET Ids : CopySource(s, P)) \/ (\E r \in Ids : Repair(s, r))
  <2>1. UNCHANGED <<phase, model, sync, left, page>>
    BY <1>5 DEF CopyVectors, CopySource, Repair, buildVars, syncVars
  <2>2. FoundStays
    BY <1>5, FoundAfterCopy
  <2>3. QED
    BY <1>1, <2>1, <2>2, SyncedIfKept DEF SyncedOrDue
<1>6. CASE FinishBuild(s)
  <2>1. /\ phase' = [phase EXCEPT ![s] = "built"] /\ sync' = [sync EXCEPT ![s] = "scan"]
        /\ left' = [left EXCEPT ![s] = Ids] /\ page' = [page EXCEPT ![s] = NoPage]
        /\ UNCHANGED <<source, vec, excused, op, model>>
    BY <1>6 DEF FinishBuild, tierVars, histVars
  <2>2. FoundStays
    BY <2>1, FoundIfQuiet
  <2>3. phase'[s] = "built" /\ sync'[s] = "scan" /\ left'[s] = Ids
    BY <1>0, <2>1 DEF TiersTypes, VectorTypes
  <2>4. SyncedAt(s)'
    BY <2>3 DEF SyncedAt
  <2>5. \A t \in Services \ {s} : /\ phase'[t] = phase[t] /\ sync'[t] = sync[t]
                                  /\ left'[t] = left[t] /\ page'[t] = page[t]
    BY <1>0, <2>1 DEF TiersTypes, VectorTypes
  <2>6. QED
    BY <1>1, <2>1, <2>2, <2>4, <2>5, SyncedIfKept DEF SyncedOrDue
<1>7. CASE CloseService(s)
  <2>1. /\ Reset({s}) /\ UNCHANGED <<source, vec, excused, op>>
        /\ Building(s) \/ (\A c \in Clients : op[c] # Idle => op[c].svc # s)
    BY <1>7 DEF CloseService, tierVars, histVars
  <2>2. \A t \in Services \ {s} : /\ phase'[t] = phase[t] /\ sync'[t] = sync[t] /\ model'[t] = model[t]
                                  /\ left'[t] = left[t] /\ page'[t] = page[t]
    BY <2>1 DEF Reset
  <2>3. \A c \in Clients : op[c] # Idle => op[c].svc \in Services \ {s}
    BY <1>2, <2>1 DEF Building, Serving
  <2>4. FoundStays
    BY <2>1, <2>2, <2>3, FoundIfQuiet
  <2>5. sync'[s] = "off"
    BY <2>1 DEF Reset
  <2>6. SyncedAt(s)'
    BY <2>5 DEF SyncedAt
  <2>7. QED
    BY <1>1, <2>2, <2>4, <2>6, SyncedIfKept DEF SyncedOrDue
<1>8. CASE Replace(s)
  <2>1. UNCHANGED <<source, vec, excused, op, model, sync, left, page>>
    BY <1>8 DEF Replace, tierVars, syncVars, histVars
  <2>2. \A t \in Services : phase[t] \in {"built", "current", "replaced"}
                              => phase'[t] \in {"built", "current", "replaced"}
    BY <1>8 DEF Replace
  <2>3. FoundStays
    BY <2>1, FoundIfQuiet
  <2>4. QED
    BY <1>1, <2>1, <2>2, <2>3, SyncedIfKept DEF SyncedOrDue
<1>9. QED
  BY <1>3, <1>4, <1>5, <1>6, <1>7, <1>8 DEF BuildStep

LEMMA SyncedAfterSync ==
  ASSUME ImportInv, SyncedOrDue, NEW s \in Services, SyncStep(s)
  PROVE  SyncedOrDue'
<1>0. TiersTypes /\ VectorTypes /\ model[s] \in Models /\ SyncedAt(s)
  BY DEF ImportInv, TiersTypes, SyncedOrDue
<1>1. UNCHANGED <<phase, model, op, source>>
  BY DEF SyncStep, SyncPage, SyncWrite, SyncEnd, SyncFail, tierVars, buildVars
<1>2. \A t \in Services \ {s} : sync'[t] = sync[t] /\ left'[t] = left[t] /\ page'[t] = page[t]
  <2>1. ASSUME NEW P \in SUBSET Ids, SyncPage(s, P)
        PROVE  \A t \in Services \ {s} : sync'[t] = sync[t] /\ left'[t] = left[t] /\ page'[t] = page[t]
    BY <1>0, <2>1 DEF SyncPage, VectorTypes
  <2>2. ASSUME NEW E \in SUBSET Ids, SyncWrite(s, E)
        PROVE  \A t \in Services \ {s} : sync'[t] = sync[t] /\ left'[t] = left[t] /\ page'[t] = page[t]
    BY <1>0, <2>2 DEF SyncWrite, VectorTypes
  <2>3. CASE SyncEnd(s) \/ SyncFail(s)
    BY <1>0, <2>3 DEF SyncEnd, SyncFail, VectorTypes
  <2>4. QED
    BY <2>1, <2>2, <2>3 DEF SyncStep
<1>3. \A t \in Services : sync[t] # "off" => phase[t] \in {"built", "current", "replaced"}
  BY DEF SyncedOrDue, SyncedAt
<1>4. ASSUME FoundStays, SyncedAt(s)' PROVE SyncedOrDue'
  BY <1>1, <1>2, <1>3, <1>4, SyncedIfKept DEF SyncedOrDue
<1>5. \A t \in Services : sync[t] # "off" => phase'[t] \in {"built", "current", "replaced"}
  BY <1>1, <1>3
<1>6. ASSUME NEW P \in SUBSET Ids, SyncPage(s, P) PROVE SyncedOrDue'
  <2> DEFINE have == {r \in P : vec[model[s]][r] # 0}
             missing == (P \cap Records) \ have
  <2>1. /\ sync[s] = "scan" /\ left' = [left EXCEPT ![s] = @ \ P]
        /\ page' = [page EXCEPT ![s] = Upsert(NoPage, missing, source)]
        /\ sync' = [sync EXCEPT ![s] = IF missing = {} THEN "scan" ELSE "embed"]
        /\ UNCHANGED vec
    BY <1>6 DEF SyncPage, tierVars
  <2>2. \A r \in P : source[r] # 0 => r \in missing \/ vec[model[s]][r] # 0
    BY DEF Records
  <2>3. FoundStays
    BY <1>6, FoundAfterPage
  <2> HIDE DEF missing
  <2>4. /\ left'[s] = left[s] \ P /\ page'[s] = Upsert(NoPage, missing, source)
        /\ sync'[s] = IF missing = {} THEN "scan" ELSE "embed"
    BY <1>0, <2>1 DEF VectorTypes
  <2>5. ASSUME NEW r \in Ids \ left'[s], source'[r] # 0
        PROVE  (sync'[s] = "embed" /\ page'[s][r] # 0) \/ Found(model[s], r)'
    <3>1. CASE r \in left[s]
      <4>1. r \in missing \/ vec[model[s]][r] # 0
        BY <1>1, <2>2, <2>4, <2>5, <3>1
      <4>2. r \in missing => sync'[s] = "embed" /\ page'[s][r] = source[r]
        BY <2>4 DEF Upsert
      <4>3. QED
        BY <1>1, <2>1, <2>5, <4>1, <4>2 DEF Found
    <3>2. CASE r \notin left[s]
      <4>1. Found(model[s], r)
        BY <1>0, <1>1, <2>1, <2>5, <3>2 DEF SyncedAt
      <4>2. QED
        BY <1>0, <1>1, <2>3, <2>5, <4>1 DEF FoundStays
    <3>3. QED
      BY <3>1, <3>2
  <2>6. sync'[s] # "done" /\ phase'[s] \in {"built", "current", "replaced"}
    BY <1>5, <2>1, <2>4
  <2>7. SyncedAt(s)'
    BY <2>5, <2>6 DEF SyncedAt
  <2>8. QED
    BY <1>4, <2>3, <2>7
<1>7. ASSUME NEW E \in SUBSET Ids, SyncWrite(s, E) PROVE SyncedOrDue'
  <2>1. sync[s] = "embed" /\ sync' = [sync EXCEPT ![s] = "scan"] /\ UNCHANGED left
    BY <1>7 DEF SyncWrite
  <2>2. FoundStays /\ \A r \in Ids : page[s][r] # 0 => Found(model[s], r)'
    BY <1>7, FoundAfterEmbed
  <2>3. sync'[s] = "scan"
    BY <1>0, <2>1 DEF VectorTypes
  <2>4. ASSUME NEW r \in Ids \ left'[s], source'[r] # 0 PROVE Found(model[s], r)'
    <3>1. page[s][r] # 0 \/ Found(model[s], r)
      BY <1>0, <1>1, <2>1, <2>4 DEF SyncedAt
    <3>2. QED
      BY <1>0, <1>1, <2>2, <2>4, <3>1 DEF FoundStays
  <2>5. phase'[s] \in {"built", "current", "replaced"}
    BY <1>5, <2>1
  <2>6. SyncedAt(s)'
    BY <2>3, <2>4, <2>5 DEF SyncedAt
  <2>7. QED
    BY <1>4, <2>2, <2>6
<1>8. CASE SyncEnd(s)
  <2>1. /\ sync[s] = "scan" /\ left[s] = {} /\ sync' = [sync EXCEPT ![s] = "done"]
        /\ UNCHANGED <<left, page, vec, excused>>
    BY <1>8 DEF SyncEnd, tierVars, histVars
  <2>2. FoundStays
    BY <1>1, <2>1, FoundIfQuiet
  <2>3. sync'[s] = "done"
    BY <1>0, <2>1 DEF VectorTypes
  <2>4. ASSUME NEW r \in Ids \ left'[s], source'[r] # 0 PROVE Found(model[s], r)'
    BY <1>0, <1>1, <2>1, <2>2, <2>4 DEF SyncedAt, FoundStays
  <2>5. phase'[s] \in {"built", "current", "replaced"}
    BY <1>5, <2>1
  <2>6. SyncedAt(s)'
    BY <2>1, <2>3, <2>4, <2>5 DEF SyncedAt
  <2>7. QED
    BY <1>4, <2>2, <2>6
<1>9. CASE SyncFail(s)
  <2>1. /\ sync[s] # "off" /\ sync' = [sync EXCEPT ![s] = "failed"] /\ UNCHANGED <<vec, excused>>
    BY <1>9 DEF SyncFail, tierVars, histVars
  <2>2. FoundStays
    BY <1>1, <2>1, FoundIfQuiet
  <2>3. sync'[s] = "failed" /\ phase'[s] \in {"built", "current", "replaced"}
    BY <1>0, <1>5, <2>1 DEF VectorTypes
  <2>4. SyncedAt(s)'
    BY <2>3 DEF SyncedAt
  <2>5. QED
    BY <1>4, <2>2, <2>4
<1>10. QED
  BY <1>6, <1>7, <1>8, <1>9 DEF SyncStep

LEMMA SyncedStep ==
  ASSUME ImportInv, SyncedOrDue, [Next]_vars
  PROVE  SyncedOrDue'
<1>1. \A t \in Services : sync[t] # "off" => phase[t] \in {"built", "current", "replaced"}
  BY DEF SyncedOrDue, SyncedAt
<1>2. CASE UNCHANGED vars
  <2>1. UNCHANGED <<source, vec, excused, op, phase, model, sync, left, page>>
    BY <1>2 DEF vars, tierVars, buildVars, syncVars, histVars
  <2>2. FoundStays
    BY <2>1, FoundIfQuiet
  <2>3. QED
    BY <1>1, <2>1, <2>2, SyncedIfKept DEF SyncedOrDue
<1>3. ASSUME NEW c \in Clients, ClientStep(c) PROVE SyncedOrDue'
  <2>1. UNCHANGED <<phase, model, sync, left, page>>
    BY <1>3 DEF ClientStep, BeginStore, BeginDelete, Query, WriteSource, WriteVector, DeleteSource,
           RemoveVectors, Hydrate, Fail, buildVars, syncVars
  <2>2. FoundStays
    BY <1>3, FoundAfterCall
  <2>3. QED
    BY <1>1, <2>1, <2>2, SyncedIfKept DEF SyncedOrDue
<1>4. CASE Crash
  <2>1. \A s \in Services : sync'[s] = "off"
    BY <1>4 DEF Crash, Reset
  <2>2. QED
    BY <2>1 DEF SyncedOrDue, SyncedAt
<1>5. QED
  BY <1>2, <1>3, <1>4, SyncedAfterBuild, SyncedAfterSync DEF Next

\* A service that has synced finds every record by its vector, but those whose
\* vector was not written or was removed by a step that overlapped a store, and
\* those stored through a service of another model (syncVectorTier, UpsertMemory
\* and searchAndHydrate of internal/memory).
THEOREM SyncedServiceFindsAll == Spec => []SearchableAfterSync
<1>1. Init => SyncedOrDue
  BY DEF Init, SyncedOrDue, SyncedAt
<1>2. ImportInv /\ SyncedOrDue /\ [Next]_vars => SyncedOrDue'
  BY SyncedStep
<1>3. ImportInv /\ SyncedOrDue => SearchableAfterSync
  BY DEF ImportInv, SyncedOrDue, SyncedAt, Found, Due, SearchableAfterSync
<1>4. QED
  BY <1>1, <1>2, <1>3, ImportInvariant, PTL DEF Spec
=============================================================================
