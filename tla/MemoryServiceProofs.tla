------------------------- MODULE MemoryServiceProofs -------------------------
(* What holds of a memory service for any number of users, batches, records   *)
(* and calls: of the profiles and relationships, and of the background         *)
(* workers.                                                                    *)
EXTENDS MemoryProfiles, MemoryMaintenance, FiniteSetTheorems, TLAPS

-----------------------------------------------------------------------------
(* Profiles and relationships                                                *)

Steps ==
  {"idle", "read", "write", "profile", "counter", "next", "memories", "again", "link", "done"}
Profiles == [exists : BOOLEAN, msgs : Nat, facts : SUBSET Batches]
Links == [id : SUBSET Users, between : SUBSET Users, count : Nat]
Calls == [step : Steps, user : Users, copy : Profiles]
BatchCalls ==
  [step : Steps, user : Users, copy : Profiles, msgs : [Users -> Nat], todo : SUBSET Users,
   order : {"profile", "memories"}, mentions : Seq(Users \X Users), link : Links]

Types ==
  /\ profile \in [Users -> Profiles]
  /\ links \subseteq Links
  /\ counter \in [Users -> Nat] /\ counted \in [Users -> Nat] /\ buffered \in [Users -> Nat]
  /\ batch \in [Batches -> BatchCalls]
  /\ count \in [Counters -> Calls]
  /\ del \in [Deleters -> Calls]
  /\ erased \in [Users -> SUBSET Batches]
  /\ overlapped \subseteq Users

\* A batch that writes a relationship has the mention it stands for.
Mentioned == \A b \in Batches : batch[b].step = "link" => batch[b].mentions # <<>>

\* The id of a link is its pair, in the collection and in a copy that will be
\* written; so a write replaces the link there is.
LinksById ==
  /\ \A k \in links : k.id = k.between
  /\ \A b \in Batches : batch[b].link.id = batch[b].link.between
  /\ OneLinkPerPair

Holding == {"profile", "memories", "again"}

\* The facts of u that there are: in the profile, and in the copies of it that
\* calls hold and will write.
Held(u) ==
  {batch[b].copy.facts : b \in {b \in Batches : batch[b].step \in Holding /\ batch[b].user = u}}
    \cup {count[g].copy.facts : g \in {g \in Counters : count[g].step = "write" /\ count[g].user = u}}
Known(u) == {profile[u].facts} \cup Held(u)

\* What a batch is yet to learn of u is nowhere.
ToLearn(b, u) == batch[b].step = "idle" \/ u \in batch[b].todo
Fresh ==
  \A b \in Batches, u \in Users :
    ToLearn(b, u) => b \notin erased[u] /\ \A F \in Known(u) : b \notin F

\* What was erased is known again only of users deleted while a copy was held.
ErasedKept ==
  \A u \in Users \ overlapped : \A F \in Known(u) : F \cap erased[u] = {}

PInv == Types /\ Mentioned /\ LinksById /\ Fresh /\ ErasedKept

-----------------------------------------------------------------------------
\* The empty values of the model have their types.
LEMMA EmptyTypes ==
  ASSUME ProfilesAssumption
  PROVE  /\ AnyUser \in Users /\ NoProfile \in Profiles /\ NoLink \in Links
         /\ IdleCall \in Calls
         /\ \A s \in Steps : At(s) \in BatchCalls
<1>1. AnyUser \in Users BY DEF AnyUser, ProfilesAssumption
<1>2. NoProfile \in Profiles /\ NoLink \in Links BY DEF NoProfile, NoLink, Profiles, Links
<1>3. IdleCall \in Calls BY <1>1, <1>2 DEF IdleCall, Calls, Steps
<1>4. <<>> \in Seq(Users \X Users) OBVIOUS
<1>5. ASSUME NEW s \in Steps PROVE At(s) \in BatchCalls
  BY <1>1, <1>2, <1>4 DEF At, BatchCalls, Steps
<1> QED BY <1>1, <1>2, <1>3, <1>5

LEMMA InitInv == ASSUME ProfilesAssumption PROVE Init => PInv
<1> SUFFICES ASSUME Init PROVE PInv OBVIOUS
<1> USE EmptyTypes DEF Init
<1>1. Types
  <2>1. At("idle") \in BatchCalls BY DEF Steps
  <2> QED BY <2>1 DEF Types
<1>2. LinksById BY DEF LinksById, OneLinkPerPair, At, NoLink
<1>3. \A u \in Users : Known(u) = {{}} BY DEF Known, Held, Holding, At, IdleCall, NoProfile
<1>4. Fresh BY <1>3 DEF Fresh
<1>5. ErasedKept BY <1>3 DEF ErasedKept
<1>6. Mentioned BY DEF Mentioned, At
<1> QED BY <1>1, <1>2, <1>4, <1>5, <1>6 DEF PInv

-----------------------------------------------------------------------------
\* Types, action by action.
LEMMA CountTypes ==
  ASSUME ProfilesAssumption, Types, NEW g \in Counters,
         (\E u \in Users : Count(g, u)) \/ CountRead(g) \/ CountWrite(g) \/ CountFail(g)
  PROVE  Types'
<1> USE EmptyTypes DEF Types, Calls, Profiles, Steps
<1>1. ASSUME NEW u \in Users, Count(g, u) PROVE Types'
  <2> DEFINE call == [step |-> "read", user |-> u, copy |-> [NoProfile EXCEPT !.msgs = counter[u] + 1]]
  <2>1. counter[u] + 1 \in Nat /\ counted[u] + 1 \in Nat /\ buffered[u] + 1 \in Nat OBVIOUS
  <2>2. call \in Calls BY <2>1 DEF NoProfile
  <2>3. count' \in [Counters -> Calls] BY <1>1, <2>2, ZenonT(60) DEF Count
  <2> QED BY <1>1, <2>1, <2>3 DEF Count
<1>2. CASE CountRead(g)
  <2> DEFINE p == profile[count[g].user]
             n == count[g].copy.msgs
             c == [exists |-> TRUE, facts |-> p.facts, msgs |-> IF n > p.msgs THEN n ELSE p.msgs]
  <2>1. p \in Profiles /\ n \in Nat OBVIOUS
  <2>2. c \in Profiles BY <2>1
  <2>3. [count[g] EXCEPT !.step = "write", !.copy = c] \in Calls BY <2>2
  <2>4. count' = [count EXCEPT ![g] = [@ EXCEPT !.step = "write", !.copy = c]] BY <1>2 DEF CountRead
  <2>5. count' \in [Counters -> Calls] BY <2>3, <2>4
  <2> QED BY <1>2, <2>5 DEF CountRead
<1>3. CASE CountWrite(g) BY <1>3 DEF CountWrite
<1>4. CASE CountFail(g) BY <1>4 DEF CountFail
<1> QED BY <1>1, <1>2, <1>3, <1>4

\* The copies a batch makes of its own state.
LEMMA LeftType ==
  ASSUME ProfilesAssumption, Types, NEW b \in Batches
  PROVE  Left(b) \in BatchCalls
<1>1. batch[b] \in BatchCalls BY DEF Types
<1> QED BY <1>1, EmptyTypes DEF Left, BatchCalls, Steps

\* The relationship that a batch will write: one of the collection or a new
\* one, whose id is its pair in either case.
LEMMA ReadLinkWrites ==
  ASSUME Types, NEW b \in Batches, ReadLink(b)
  PROVE  \E k \in Links :
           /\ batch' = [batch EXCEPT ![b] = [@ EXCEPT !.step = "link", !.link = k]]
           /\ (\A l \in links : l.id = l.between) => k.id = k.between
<1> DEFINE p == Head(batch[b].mentions)
           known == {k \in links : k.between = {p[1], p[2]}}
           new == [id |-> RelationshipID(p[1], p[2]), between |-> {p[1], p[2]}, count |-> 0]
<1>1. batch[b].mentions \in Seq(Users \X Users) /\ batch[b].mentions # <<>>
  BY DEF Types, BatchCalls, ReadLink
<1>2. p \in Users \X Users BY <1>1
<1>3. new \in Links /\ new.id = new.between BY <1>2 DEF Links, RelationshipID
<1>4. PICK k \in IF known # {} THEN known ELSE {new} :
        batch' = [batch EXCEPT ![b].step = "link", ![b].link = [k EXCEPT !.count = @ + 1]]
  BY DEF ReadLink
<1>5. k \in Links BY <1>3, <1>4 DEF Types
<1>6. (\A l \in links : l.id = l.between) => k.id = k.between BY <1>3, <1>4
<1> HIDE DEF p, known, new
<1> DEFINE n == [k EXCEPT !.count = @ + 1]
<1>7. n \in Links /\ n.id = k.id /\ n.between = k.between BY <1>5 DEF Links
<1>8. batch' = [batch EXCEPT ![b] = [@ EXCEPT !.step = "link", !.link = n]] BY <1>4
<1> QED BY <1>6, <1>7, <1>8

\* Types, for the steps of a batch.
LEMMA BatchTypes ==
  ASSUME ProfilesAssumption, Types, Mentioned, NEW b \in Batches,
         \/ \E m \in [Users -> 0..MaxMessages], E \in SUBSET Users, n \in Mentions,
               order \in {"profile", "memories"} : BeginBatch(b, m, E, n, order)
         \/ \E u \in Users : ReadProfile(b, u) \/ SkipUser(b, u)
         \/ WriteProfile(b) \/ StoreMemories(b) \/ ReadLink(b) \/ WriteLink(b) \/ EndBatch(b)
  PROVE  Types'
<1>0. batch[b] \in BatchCalls /\ Left(b) \in BatchCalls /\ At("done") \in BatchCalls
  BY LeftType, EmptyTypes DEF Types, Steps
<1>1. ASSUME NEW m \in [Users -> 0..MaxMessages], NEW E \in SUBSET Users, NEW n \in Mentions,
             NEW order \in {"profile", "memories"}, BeginBatch(b, m, E, n, order)
      PROVE  Types'
  <2>1. n \in Seq(Users \X Users)
    <3>1. CASE n = <<>> BY <3>1
    <3>2. ASSUME NEW p \in Pairs, n = <<p>> PROVE n \in Seq(Users \X Users)
      <4>1. p \in Users \X Users BY DEF Pairs
      <4> QED BY <3>2, <4>1
    <3> QED BY <3>1, <3>2 DEF Mentions
  <2>2. m \in [Users -> Nat] BY ProfilesAssumption DEF ProfilesAssumption
  <2>3. [batch[b] EXCEPT !.step = "next", !.msgs = m, !.todo = E, !.mentions = n, !.order = order]
          \in BatchCalls
    BY <1>0, <2>1, <2>2 DEF BatchCalls, Steps
  <2>4. batch' \in [Batches -> BatchCalls] BY <1>1, <2>3 DEF BeginBatch, Types
  <2>5. \A u \in Users : m[u] \in Nat /\ m[u] <= buffered[u] BY <1>1, <2>2 DEF BeginBatch
  <2>6. buffered' \in [Users -> Nat]
    <3>1. buffered' = [u \in Users |-> buffered[u] - m[u]] BY <1>1 DEF BeginBatch
    <3>2. \A u \in Users : buffered[u] - m[u] \in Nat BY <2>5 DEF Types
    <3> QED BY <3>1, <3>2
  <2> QED BY <1>1, <2>4, <2>6 DEF BeginBatch, Others, Types
<1>2. ASSUME NEW u \in Users, ReadProfile(b, u) PROVE Types'
  <2>1. profile[u] \in Profiles BY DEF Types
  <2>2. Learned(b, u) \in Profiles
    <3>1. batch[b].msgs[u] \in Nat BY <1>0 DEF BatchCalls
    <3>2. profile[u].msgs \in Nat /\ profile[u].facts \in SUBSET Batches BY <2>1 DEF Profiles
    <3>3. profile[u].msgs + (IF batch[b].order = "profile" THEN batch[b].msgs[u] ELSE 0) \in Nat
      BY <3>1, <3>2
    <3> QED BY <3>2, <3>3 DEF Learned, Profiles
  <2>3. [batch[b] EXCEPT !.user = u, !.copy = Learned(b, u), !.todo = @ \ {u},
           !.step = IF batch[b].order = "profile" THEN "profile" ELSE "memories"] \in BatchCalls
    BY <1>0, <2>2 DEF BatchCalls, Steps
  <2>4. batch' \in [Batches -> BatchCalls] BY <1>2, <2>3 DEF ReadProfile, Types
  <2> QED BY <1>2, <2>4 DEF ReadProfile, Others, Types
<1>3. ASSUME NEW u \in Users, SkipUser(b, u) PROVE Types'
  <2>1. [Left(b) EXCEPT !.todo = @ \ {u}] \in BatchCalls BY <1>0 DEF BatchCalls
  <2>2. batch' \in [Batches -> BatchCalls] BY <1>0, <1>3, <2>1 DEF SkipUser, Types
  <2> QED BY <1>3, <2>2 DEF SkipUser, Others, Types
<1>4. CASE WriteProfile(b)
  <2>1. [batch[b] EXCEPT !.step = "memories"] \in BatchCalls BY <1>0 DEF BatchCalls, Steps
  <2>2. batch' \in [Batches -> BatchCalls] BY <1>0, <1>4, <2>1 DEF WriteProfile, Types
  <2>3. batch[b].user \in Users /\ batch[b].copy \in Profiles BY <1>0 DEF BatchCalls
  <2>4. profile' \in [Users -> Profiles] BY <1>4, <2>3 DEF WriteProfile, Types
  <2> QED BY <1>4, <2>2, <2>4 DEF WriteProfile, Others, Types
<1>5. CASE StoreMemories(b)
  <2>1. [batch[b] EXCEPT !.step = "again"] \in BatchCalls BY <1>0 DEF BatchCalls, Steps
  <2> QED BY <1>5, <2>1 DEF StoreMemories, Others, Types
<1>6. CASE ReadLink(b)
  <2>1. PICK k \in Links :
          batch' = [batch EXCEPT ![b] = [@ EXCEPT !.step = "link", !.link = k]]
    BY <1>6, ReadLinkWrites
  <2>2. [batch[b] EXCEPT !.step = "link", !.link = k] \in BatchCalls
    BY <1>0, <2>1 DEF BatchCalls, Steps
  <2>3. batch' \in [Batches -> BatchCalls] BY <2>1, <2>2 DEF Types
  <2> QED BY <1>6, <2>3 DEF ReadLink, Others, Types
<1>7. CASE WriteLink(b)
  <2>1. batch[b].link \in Links /\ batch[b].mentions \in Seq(Users \X Users) BY <1>0 DEF BatchCalls
  <2>2. batch' = [batch EXCEPT ![b] =
                     [@ EXCEPT !.step = "next", !.mentions = Tail(batch[b].mentions), !.link = NoLink]]
    BY <1>7 DEF WriteLink
  <2>3. batch[b].mentions # <<>> BY <1>7 DEF WriteLink, Mentioned
  <2>4. Tail(batch[b].mentions) \in Seq(Users \X Users) BY <2>1, <2>3
  <2>5. [batch[b] EXCEPT !.step = "next", !.mentions = Tail(batch[b].mentions), !.link = NoLink]
          \in BatchCalls
    <3> DEFINE t == Tail(batch[b].mentions)
               l == NoLink
    <3>1. t \in Seq(Users \X Users) /\ l \in Links BY <2>4, EmptyTypes
    <3> HIDE DEF t, l
    <3>2. [batch[b] EXCEPT !.step = "next", !.mentions = t, !.link = l] \in BatchCalls
      BY <1>0, <3>1 DEF BatchCalls, Steps
    <3> QED BY <3>2 DEF t, l
  <2>6. batch' \in [Batches -> BatchCalls] BY <2>2, <2>5 DEF Types
  <2>7. links' \subseteq Links
    <3>1. links' \subseteq links \cup {batch[b].link} BY <1>7 DEF WriteLink
    <3> QED BY <2>1, <3>1 DEF Types
  <2> QED BY <1>7, <2>6, <2>7 DEF WriteLink, Others, Types
<1>8. CASE EndBatch(b) BY <1>0, <1>8 DEF EndBatch, Others, Types, At
<1> QED BY <1>1, <1>2, <1>3, <1>4, <1>5, <1>6, <1>7, <1>8

\* Types, for the steps of a deletion and the restart.
LEMMA OtherTypes ==
  ASSUME ProfilesAssumption, Types,
         \/ \E d \in Deleters : (\E u \in Users : BeginDelete(d, u)) \/ DeleteProfile(d)
                                \/ DeleteCounter(d) \/ DeleteFail(d)
         \/ Restart
  PROVE  Types'
<1> USE EmptyTypes DEF Types
<1>1. ASSUME NEW d \in Deleters, NEW u \in Users, BeginDelete(d, u) PROVE Types'
  <2>1. [del[d] EXCEPT !.step = "profile", !.user = u] \in Calls BY DEF Calls, Steps
  <2>2. del' = [del EXCEPT ![d] = [@ EXCEPT !.step = "profile", !.user = u]] BY <1>1 DEF BeginDelete
  <2> QED BY <1>1, <2>1, <2>2 DEF BeginDelete
<1>2. ASSUME NEW d \in Deleters, DeleteProfile(d) PROVE Types'
  <2>1. del[d].user \in Users BY DEF Calls
  <2>2. [del[d] EXCEPT !.step = "counter"] \in Calls BY DEF Calls, Steps
  <2>3. del' = [del EXCEPT ![d] = [@ EXCEPT !.step = "counter"]] BY <1>2 DEF DeleteProfile
  <2>4. profile' \in [Users -> Profiles] BY <1>2, <2>1 DEF DeleteProfile
  <2>5. erased' \in [Users -> SUBSET Batches]
    <3>1. profile[del[d].user].facts \in SUBSET Batches BY <2>1 DEF Profiles
    <3> QED BY <1>2, <2>1, <3>1 DEF DeleteProfile
  <2>6. overlapped' \subseteq Users BY <1>2, <2>1 DEF DeleteProfile
  <2> QED BY <1>2, <2>2, <2>3, <2>4, <2>5, <2>6 DEF DeleteProfile
<1>3. ASSUME NEW d \in Deleters, DeleteCounter(d) PROVE Types' BY <1>3 DEF DeleteCounter
<1>4. ASSUME NEW d \in Deleters, DeleteFail(d) PROVE Types' BY <1>4 DEF DeleteFail
<1>5. CASE Restart
  <2>1. At("done") \in BatchCalls BY DEF Steps
  <2> QED BY <1>5, <2>1 DEF Restart
<1> QED BY <1>1, <1>2, <1>3, <1>4, <1>5

-----------------------------------------------------------------------------
\* A step of a batch changes the state of that batch only, and what it may be
\* afterwards.
BatchStep(b) ==
  \/ \E m \in [Users -> 0..MaxMessages], E \in SUBSET Users, n \in Mentions,
        order \in {"profile", "memories"} : BeginBatch(b, m, E, n, order)
  \/ \E u \in Users : ReadProfile(b, u) \/ SkipUser(b, u)
  \/ WriteProfile(b) \/ StoreMemories(b) \/ ReadLink(b) \/ WriteLink(b) \/ EndBatch(b)

CountStep(g) ==
  (\E u \in Users : Count(g, u)) \/ CountRead(g) \/ CountWrite(g) \/ CountFail(g)

DeleteStep(d) ==
  (\E u \in Users : BeginDelete(d, u)) \/ DeleteProfile(d) \/ DeleteCounter(d) \/ DeleteFail(d)

\* The mention of a relationship, and its id, through every step of a batch.
LEMMA BatchLinks ==
  ASSUME ProfilesAssumption, Types, Mentioned, LinksById, NEW b \in Batches, BatchStep(b)
  PROVE  Mentioned' /\ LinksById'
<1>0. batch \in [Batches -> BatchCalls] /\ batch[b] \in BatchCalls BY DEF Types
<1>1. CASE ReadLink(b)
  <2>1. PICK k \in Links :
          /\ batch' = [batch EXCEPT ![b] = [@ EXCEPT !.step = "link", !.link = k]]
          /\ (\A l \in links : l.id = l.between) => k.id = k.between
    BY <1>1, ReadLinkWrites
  <2>2. batch'[b].link = k /\ batch'[b].mentions = batch[b].mentions
    BY <1>0, <2>1 DEF BatchCalls
  <2>3. links' = links BY <1>1 DEF ReadLink
  <2>4. batch[b].mentions # <<>> BY <1>1 DEF ReadLink
  <2>5. \A c \in Batches \ {b} : batch'[c] = batch[c] BY <1>0, <2>1
  <2>6. k.id = k.between BY <2>1 DEF LinksById
  <2> QED BY <2>2, <2>3, <2>4, <2>5, <2>6 DEF Mentioned, LinksById, OneLinkPerPair
<1>2. CASE WriteLink(b)
  <2>1. /\ batch'[b].step = "next" /\ batch'[b].link = NoLink
        /\ \A c \in Batches \ {b} : batch'[c] = batch[c]
    BY <1>0, <1>2 DEF WriteLink, BatchCalls
  <2>2. batch[b].link.id = batch[b].link.between BY DEF LinksById
  <2>3. links' = links \/ links' = {k \in links : k.id # batch[b].link.id} \cup {batch[b].link}
    BY <1>2 DEF WriteLink
  <2>4. (\A k \in links' : k.id = k.between) /\ OneLinkPerPair'
    BY <2>2, <2>3 DEF LinksById, OneLinkPerPair
  <2>5. NoLink.id = NoLink.between BY DEF NoLink
  <2> QED BY <2>1, <2>4, <2>5 DEF Mentioned, LinksById
<1>3. CASE ~ReadLink(b) /\ ~WriteLink(b)
  <2>1. links' = links
    BY <1>3, ZenonT(60) DEF BatchStep, BeginBatch, ReadProfile, SkipUser, WriteProfile, StoreMemories, EndBatch
  <2>2. /\ batch'[b].step # "link"
        /\ batch'[b].link \in {batch[b].link, NoLink}
        /\ \A c \in Batches \ {b} : batch'[c] = batch[c]
    <3>1. ASSUME NEW m, NEW E, NEW n, NEW order, BeginBatch(b, m, E, n, order) PROVE <2>2
      BY <1>0, <3>1 DEF BeginBatch, BatchCalls
    <3>2. ASSUME NEW u, ReadProfile(b, u) PROVE <2>2 BY <1>0, <3>2 DEF ReadProfile, BatchCalls
    <3>3. ASSUME NEW u, SkipUser(b, u) PROVE <2>2
      BY <1>0, <3>3 DEF SkipUser, BatchCalls, Left, At
    <3>4. CASE WriteProfile(b) BY <1>0, <3>4 DEF WriteProfile, BatchCalls, Left
    <3>5. CASE StoreMemories(b) BY <1>0, <3>5 DEF StoreMemories, BatchCalls
    <3>6. CASE EndBatch(b) BY <1>0, <3>6 DEF EndBatch, BatchCalls, At
    <3> QED BY <1>3, <3>1, <3>2, <3>3, <3>4, <3>5, <3>6 DEF BatchStep
  <2>3. NoLink.id = NoLink.between BY DEF NoLink
  <2> QED BY <2>1, <2>2, <2>3 DEF Mentioned, LinksById, OneLinkPerPair
<1> QED BY <1>1, <1>2, <1>3

-----------------------------------------------------------------------------
\* A step after which nothing new is known or to be learned keeps both.
LEMMA NothingNew ==
  ASSUME Fresh, ErasedKept, erased' = erased, overlapped' = overlapped,
         \A u \in Users : Known(u)' \subseteq Known(u),
         \A b \in Batches, u \in Users : ToLearn(b, u)' => ToLearn(b, u)
  PROVE  Fresh' /\ ErasedKept'
BY DEF Fresh, ErasedKept

\* Counting a message reads and writes a profile without a change of its facts.
LEMMA CountFacts ==
  ASSUME Types, Fresh, ErasedKept, NEW g \in Counters, CountStep(g)
  PROVE  Fresh' /\ ErasedKept'
<1>0. count \in [Counters -> Calls] /\ count[g] \in Calls /\ profile \in [Users -> Profiles]
  BY DEF Types
<1>1. batch' = batch /\ erased' = erased /\ overlapped' = overlapped
  BY DEF CountStep, Count, CountRead, CountWrite, CountFail
<1>2. \A h \in Counters \ {g} : count'[h] = count[h]
  BY <1>0 DEF CountStep, Count, CountRead, CountWrite, CountFail
<1>3. CASE CountWrite(g)
  <2>1. count'[g].step = "idle" BY <1>0, <1>3 DEF CountWrite, IdleCall
  <2>2. profile' = [profile EXCEPT ![count[g].user] = count[g].copy] /\ count[g].step = "write"
    BY <1>3 DEF CountWrite
  <2>3. count[g].user \in Users BY <1>0 DEF Calls
  <2>4. \A u \in Users : Known(u)' \subseteq Known(u)
    BY <1>0, <1>1, <1>2, <2>1, <2>2, <2>3 DEF Known, Held
  <2> QED BY <1>1, <2>4, NothingNew DEF ToLearn
<1>4. CASE CountRead(g)
  <2>1. /\ count'[g].step = "write" /\ count'[g].user = count[g].user
        /\ count'[g].copy.facts = profile[count[g].user].facts
    BY <1>0, <1>4 DEF CountRead, Calls
  <2>2. profile' = profile BY <1>4 DEF CountRead
  <2>3. \A u \in Users : Known(u)' \subseteq Known(u) BY <1>1, <1>2, <2>1, <2>2 DEF Known, Held
  <2> QED BY <1>1, <2>3, NothingNew DEF ToLearn
<1>5. CASE ~CountWrite(g) /\ ~CountRead(g)
  <2>1. count'[g].step # "write" \/ count'[g] = count[g]
    BY <1>0, <1>5 DEF CountStep, Count, CountFail, IdleCall
  <2>2. profile' = profile BY <1>5 DEF CountStep, Count, CountFail
  <2>3. \A u \in Users : Known(u)' \subseteq Known(u) BY <1>1, <1>2, <2>1, <2>2 DEF Known, Held
  <2> QED BY <1>1, <2>3, NothingNew DEF ToLearn
<1> QED BY <1>3, <1>4, <1>5

\* A batch knows one fact more of the user whose profile it read, the one it was
\* yet to learn; its other steps add none.
LEMMA BatchFacts ==
  ASSUME Types, Fresh, ErasedKept, NEW b \in Batches, BatchStep(b)
  PROVE  Fresh' /\ ErasedKept'
<1>0. batch \in [Batches -> BatchCalls] /\ batch[b] \in BatchCalls /\ profile \in [Users -> Profiles]
  BY DEF Types
<1>1. count' = count /\ erased' = erased /\ overlapped' = overlapped
  BY ZenonT(60) DEF BatchStep, BeginBatch, ReadProfile, SkipUser, WriteProfile, StoreMemories, ReadLink,
         WriteLink, EndBatch, Others
<1>2. \A c \in Batches \ {b} : batch'[c] = batch[c]
  BY <1>0, ZenonT(60) DEF BatchStep, BeginBatch, ReadProfile, SkipUser, WriteProfile, StoreMemories, ReadLink,
              WriteLink, EndBatch
<1>3. ASSUME NEW u \in Users, ReadProfile(b, u) PROVE Fresh' /\ ErasedKept'
  <2>1. /\ batch'[b].step \in Holding /\ batch'[b].user = u
        /\ batch'[b].copy.facts = profile[u].facts \cup {b}
        /\ batch'[b].todo = batch[b].todo \ {u}
    BY <1>0, <1>3 DEF ReadProfile, Learned, Holding, BatchCalls
  <2>2. profile' = profile /\ u \in batch[b].todo BY <1>3 DEF ReadProfile
  <2>3. \A v \in Users : Known(v)' \subseteq
          Known(v) \cup IF v = u THEN {profile[u].facts \cup {b}} ELSE {}
    BY <1>1, <1>2, <2>1, <2>2 DEF Known, Held
  <2>4. b \notin erased[u] BY <2>2 DEF Fresh, ToLearn
  <2>5. profile[u].facts \in Known(u) BY DEF Known
  <2>6. ErasedKept' BY <1>1, <2>3, <2>4, <2>5 DEF ErasedKept
  <2>7. \A c \in Batches, v \in Users :
          ToLearn(c, v)' => ToLearn(c, v) /\ (v = u => c # b)
    BY <1>2, <2>1 DEF ToLearn, Holding
  <2>8. Fresh' BY <1>1, <2>3, <2>5, <2>7 DEF Fresh
  <2> QED BY <2>6, <2>8
<1>4. CASE WriteProfile(b)
  <2>1. /\ profile' = [profile EXCEPT ![batch[b].user] = batch[b].copy]
        /\ batch[b].step \in Holding /\ batch[b].user \in Users
    BY <1>0, <1>4 DEF WriteProfile, Holding, BatchCalls
  <2>2. /\ batch'[b].step # "idle" /\ batch'[b].todo = batch[b].todo
        /\ batch'[b].step \in Holding =>
             batch'[b].user = batch[b].user /\ batch'[b].copy = batch[b].copy
    BY <1>0, <1>4 DEF WriteProfile, Left, Holding, BatchCalls
  <2>3. \A u \in Users : Known(u)' \subseteq Known(u)
    BY <1>0, <1>1, <1>2, <2>1, <2>2 DEF Known, Held
  <2>4. \A c \in Batches, u \in Users : ToLearn(c, u)' => ToLearn(c, u)
    BY <1>2, <2>2 DEF ToLearn
  <2> QED BY <1>1, <2>3, <2>4, NothingNew
<1>5. CASE ~WriteProfile(b) /\ ~(\E u \in Users : ReadProfile(b, u))
  <2>0. profile' = profile
    BY <1>5, ZenonT(60) DEF BatchStep, BeginBatch, SkipUser, StoreMemories, ReadLink, WriteLink, EndBatch
  <2>1. /\ batch'[b].step # "idle"
        /\ batch[b].step = "idle" \/ batch'[b].todo \subseteq batch[b].todo
        /\ batch'[b].step \in Holding =>
             /\ batch[b].step \in Holding
             /\ batch'[b].user = batch[b].user /\ batch'[b].copy = batch[b].copy
    <3> DEFINE P == batch'[b].step # "idle" /\
                    (batch[b].step = "idle" \/ batch'[b].todo \subseteq batch[b].todo) /\
                    (batch'[b].step \in Holding =>
                       /\ batch[b].step \in Holding
                       /\ batch'[b].user = batch[b].user /\ batch'[b].copy = batch[b].copy)
    <3>1. ASSUME NEW m, NEW E, NEW n, NEW order, BeginBatch(b, m, E, n, order) PROVE P
      BY <1>0, <3>1 DEF BeginBatch, BatchCalls, Holding
    <3>2. ASSUME NEW u, SkipUser(b, u) PROVE P
      BY <1>0, <3>2 DEF SkipUser, BatchCalls, Left, At, Holding
    <3>3. CASE StoreMemories(b) BY <1>0, <3>3 DEF StoreMemories, BatchCalls, Holding
    <3>4. CASE ReadLink(b) BY <1>0, <3>4 DEF ReadLink, BatchCalls, Holding
    <3>5. CASE WriteLink(b) BY <1>0, <3>5 DEF WriteLink, BatchCalls, Holding
    <3>6. CASE EndBatch(b) BY <1>0, <3>6 DEF EndBatch, BatchCalls, At, Holding
    <3> QED BY <1>5, <3>1, <3>2, <3>3, <3>4, <3>5, <3>6 DEF BatchStep
  <2>2. \A u \in Users : Known(u)' \subseteq Known(u) BY <1>1, <1>2, <2>0, <2>1 DEF Known, Held
  <2>3. \A c \in Batches, u \in Users : ToLearn(c, u)' => ToLearn(c, u)
    BY <1>2, <2>1 DEF ToLearn
  <2> QED BY <1>1, <2>2, <2>3, NothingNew
<1> QED BY <1>3, <1>4, <1>5

\* A deletion forgets the facts of a profile; who still holds a copy of it is
\* noted in overlapped.
LEMMA DeleteFacts ==
  ASSUME Types, Fresh, ErasedKept, NEW d \in Deleters, DeleteStep(d)
  PROVE  Fresh' /\ ErasedKept'
<1>0. del[d].user \in Users /\ profile \in [Users -> Profiles] /\ erased \in [Users -> SUBSET Batches]
  BY DEF Types, Calls
<1>1. CASE DeleteProfile(d)
  <2> DEFINE u == del[d].user
  <2>1. /\ profile' = [profile EXCEPT ![u] = NoProfile]
        /\ erased' = [erased EXCEPT ![u] = @ \cup profile[u].facts]
        /\ overlapped' = IF Holds(u) THEN overlapped \cup {u} ELSE overlapped
        /\ batch' = batch /\ count' = count
    BY <1>1 DEF DeleteProfile
  <2> HIDE DEF u
  <2>2. u \in Users BY <1>0 DEF u
  <2>3. ~Holds(u) => Held(u) = {} BY DEF Holds, Held, Holding
  <2>4. \A v \in Users : Held(v)' = Held(v) BY <2>1 DEF Held
  <2>5. profile'[u].facts = {} /\ \A v \in Users \ {u} : profile'[v] = profile[v]
    BY <1>0, <2>1, <2>2 DEF NoProfile
  <2>6. erased'[u] = erased[u] \cup profile[u].facts /\ \A v \in Users \ {u} : erased'[v] = erased[v]
    BY <1>0, <2>1, <2>2
  <2>7. profile[u].facts \in Known(u) BY DEF Known
  <2>8. \A v \in Users : Known(v)' \subseteq Known(v) \cup {{}}
    BY <2>4, <2>5 DEF Known
  <2>9. \A b \in Batches, v \in Users : ToLearn(b, v)' => ToLearn(b, v) BY <2>1 DEF ToLearn
  <2>10. Fresh' BY <2>2, <2>6, <2>7, <2>8, <2>9 DEF Fresh
  <2>11. ErasedKept'
    <3> SUFFICES ASSUME NEW v \in Users \ overlapped', NEW F \in Known(v)'
                 PROVE  F \cap erased'[v] = {}
      BY DEF ErasedKept
    <3>1. CASE v = u
      <4>1. Held(u) = {} BY <2>1, <2>3, <3>1
      <4>2. F = {} BY <2>4, <2>5, <3>1, <4>1 DEF Known
      <4> QED BY <4>2
    <3>2. CASE v # u
      <4>1. v \notin overlapped /\ erased'[v] = erased[v] BY <2>1, <2>6, <3>2
      <4> QED BY <2>8, <4>1 DEF ErasedKept
    <3> QED BY <3>1, <3>2
  <2> QED BY <2>10, <2>11
<1>2. CASE ~DeleteProfile(d)
  <2>1. UNCHANGED <<profile, batch, count, erased, overlapped>>
    BY <1>2 DEF DeleteStep, BeginDelete, DeleteCounter, DeleteFail
  <2>2. \A u \in Users : Known(u)' = Known(u) BY <2>1 DEF Known, Held
  <2> QED BY <2>1, <2>2, NothingNew DEF ToLearn
<1> QED BY <1>1, <1>2

\* A restart ends every call: no copy is held, and no batch that had begun
\* goes on.
LEMMA RestartInv ==
  ASSUME Types, Mentioned, LinksById, Fresh, ErasedKept, Restart
  PROVE  Mentioned' /\ LinksById' /\ Fresh' /\ ErasedKept'
<1>1. UNCHANGED <<profile, links, erased, overlapped>> BY DEF Restart
<1>2. \A b \in Batches : batch'[b] = IF batch[b].step = "idle" THEN batch[b] ELSE At("done")
  BY DEF Restart
<1>3. \A g \in Counters : count'[g] = IdleCall BY DEF Restart
<1>4. /\ At("done").step = "done" /\ At("done").todo = {} /\ At("done").link = NoLink
      /\ NoLink.id = NoLink.between
  BY DEF At, NoLink
<1>5. Mentioned' BY <1>2, <1>4 DEF Mentioned
<1>6. LinksById' BY <1>1, <1>2, <1>4 DEF LinksById, OneLinkPerPair
<1>7. \A u \in Users : Known(u)' \subseteq Known(u)
  BY <1>1, <1>2, <1>3, <1>4 DEF Known, Held, Holding, IdleCall
<1>8. \A b \in Batches, u \in Users : ToLearn(b, u)' => ToLearn(b, u)
  BY <1>2, <1>4 DEF ToLearn
<1> QED BY <1>1, <1>5, <1>6, <1>7, <1>8, NothingNew

-----------------------------------------------------------------------------
\* A call that is no batch leaves links and batches alone.
LEMMA LinksKept ==
  ASSUME Mentioned, LinksById, UNCHANGED <<links, batch>>
  PROVE  Mentioned' /\ LinksById'
BY DEF Mentioned, LinksById, OneLinkPerPair

LEMMA NextInv == ASSUME ProfilesAssumption, PInv, [Next]_vars PROVE PInv'
<1> USE DEF PInv
<1>1. ASSUME NEW g \in Counters, CountStep(g) PROVE PInv'
  <2>1. UNCHANGED <<links, batch>> BY <1>1 DEF CountStep, Count, CountRead, CountWrite, CountFail
  <2> QED BY <1>1, <2>1, CountTypes, CountFacts, LinksKept DEF CountStep
<1>2. ASSUME NEW b \in Batches, BatchStep(b) PROVE PInv'
  BY <1>2, BatchTypes, BatchLinks, BatchFacts DEF BatchStep
<1>3. ASSUME NEW d \in Deleters, DeleteStep(d) PROVE PInv'
  <2>1. UNCHANGED <<links, batch>>
    BY <1>3 DEF DeleteStep, BeginDelete, DeleteProfile, DeleteCounter, DeleteFail
  <2> QED BY <1>3, <2>1, OtherTypes, DeleteFacts, LinksKept DEF DeleteStep
<1>4. CASE Restart BY <1>4, OtherTypes, RestartInv
<1>5. CASE UNCHANGED vars
  <2>1. Types' BY <1>5 DEF Types, vars
  <2>2. \A u \in Users : Known(u)' = Known(u) BY <1>5 DEF Known, Held, vars
  <2>3. Fresh' /\ ErasedKept' BY <1>5, <2>2, NothingNew DEF ToLearn, vars
  <2> QED BY <1>5, <2>1, <2>3, LinksKept DEF vars
<1> QED BY <1>1, <1>2, <1>3, <1>4, <1>5 DEF Next, CountStep, BatchStep, DeleteStep

\* Of every reachable state: the calls under way, the links by their ids, and
\* where the facts of each user are.
THEOREM ProfilesInvariant == Spec => []PInv
<1>1. Init => PInv BY InitInv, ProfilesAssumption
<1>2. PInv /\ [Next]_vars => PInv' BY NextInv, ProfilesAssumption
<1> QED BY <1>1, <1>2, PTL DEF Spec

\* Batches that create the relationship of a pair at the same time create one
\* (relationshipID, UpsertRelationship).
THEOREM OneLink == Spec => []OneLinkPerPair
<1>1. PInv => OneLinkPerPair BY DEF PInv, LinksById
<1> QED BY <1>1, ProfilesInvariant, PTL

\* Deleted facts return only through a call that held the profile when it was
\* deleted (DeleteUserData, UpsertProfile).
THEOREM ErasedStays == Spec => []ErasedStaysErased
<1>1. PInv => ErasedStaysErased
  <2> SUFFICES ASSUME PInv, NEW u \in Users, u \notin overlapped
               PROVE  profile[u].facts \cap erased[u] = {}
    BY DEF ErasedStaysErased
  <2>1. profile[u].facts \in Known(u) BY DEF Known
  <2> QED BY <2>1 DEF PInv, ErasedKept
<1> QED BY <1>1, ProfilesInvariant, PTL

-----------------------------------------------------------------------------
(* The background workers                                                    *)

\* What Close has waited for has ended.
WaitedFor ==
  /\ closing \in {"no", "maintenance", "workers", "closed"}
  /\ closing \in {"workers", "closed"} => worker = "ended"
  /\ closing = "closed" => flush.step = "ended"

\* A record of the same user and type is near it.
Duplicated(r) == \E s \in Ids \ {r} : group[s] = group[r] /\ Near(r, s)

IsSlot(s) == s = [id |-> s.id, of |-> s.of, worth |-> s.worth]
Explained(s) == s.id = s.of \/ Duplicated(s.id)

\* There are slots within a job only.  A merge looks at the slots in pairs, and
\* a slot has the id it was read with or that of a record with a duplicate.
JobSlots ==
  /\ slots \in Seq(Range(slots))
  /\ slots # <<>> => worker = "run" /\ plan # <<>>
  /\ (slots # <<>> /\ Head(plan) = "merge") =>
       /\ pos[1] \in Nat /\ pos[2] \in Nat /\ 1 <= pos[1] /\ pos[1] < pos[2]
       /\ \A k \in DOMAIN slots : IsSlot(slots[k]) /\ Explained(slots[k])

Jobs == {"merge", "summarize", "expired"}
WorkTypes == near \in SUBSET RecordPairs /\ present \in SUBSET Ids /\ plan \in Seq(Jobs)

WorkersInv == WorkTypes /\ JobSlots /\ OnlyDuplicatesMerged

-----------------------------------------------------------------------------
LEMMA FunctionIsSequence ==
  ASSUME NEW n \in Nat, NEW f, f = [k \in 1..n |-> f[k]]
  PROVE  f \in Seq(Range(f)) /\ Len(f) = n /\ DOMAIN f = 1..n
<1>1. DOMAIN f = 1..n
  OBVIOUS
<1>2. f \in [1..n -> Range(f)]
  BY <1>1 DEF Range
<1>3. QED
  BY <1>1, <1>2

LEMMA EmptyIsSequence == <<>> \in Seq(Range(<<>>))
OBVIOUS

\* The tail of a sequence is one.
LEMMA TailIsSequence ==
  ASSUME NEW s, s \in Seq(Range(s)), s # <<>>
  PROVE  Tail(s) \in Seq(Range(Tail(s))) /\ (Len(s) = 1 => Tail(s) = <<>>)
<1> DEFINE A == Range(s)
           t == Tail(s)
<1>1. t \in Seq(A) /\ Len(t) = Len(s) - 1 /\ Len(t) \in Nat
  <2>1. s \in Seq(A)
    OBVIOUS
  <2> HIDE DEF A
  <2>2. QED
    BY <2>1
<1>2. t = [k \in 1..Len(t) |-> t[k]]
  <2> HIDE DEF A, t
  <2>1. QED
    BY <1>1
<1>3. Len(s) = 1 => t = <<>>
  <2> HIDE DEF A, t
  <2>1. QED
    BY <1>1
<1> HIDE DEF A, t
<1>4. t \in Seq(Range(t))
  BY <1>1, <1>2, FunctionIsSequence
<1>5. QED
  BY <1>3, <1>4 DEF t

-----------------------------------------------------------------------------
(* Close and the workers *)

LEMMA WaitedForStep ==
  ASSUME WaitedFor, [MaintenanceNext]_maintenanceVars
  PROVE  WaitedFor'
<1>1. CASE Tick \/ TickEnd \/ WorkerEnds
  BY <1>1 DEF Tick, TickEnd, WorkerEnds, accVars, WaitedFor
<1>2. CASE Scan \/ ScanFail \/ MergePair \/ MergeEnd \/ Prune
  BY <1>2 DEF Scan, ScanFail, MergePair, MergeEnd, Prune, accVars, WaitedFor
<1>3. CASE (\E r \in Ids : Search(r)) \/ Take \/ FlushRead \/ FlushWrite \/ AccessEnds
  BY <1>3 DEF Search, Take, FlushRead, FlushWrite, AccessEnds, jobVars, WaitedFor
<1>4. CASE Close \/ CloseContinues
  BY <1>4 DEF Close, CloseContinues, CloseStep, jobVars, accVars, WaitedFor
<1>5. CASE UNCHANGED maintenanceVars
  BY <1>5 DEF maintenanceVars, jobVars, accVars, WaitedFor
<1>6. QED
  BY <1>1, <1>2, <1>3, <1>4, <1>5 DEF MaintenanceNext

LEMMA WaitedForInvariant == MaintenanceSpec => []WaitedFor
<1>1. MaintenanceInit => WaitedFor
  BY DEF MaintenanceInit, WaitedFor
<1>2. QED
  BY <1>1, WaitedForStep, PTL DEF MaintenanceSpec

\* Once Close has returned no worker writes to the database, for any number of
\* records and accesses (MemoryService.Close waits for the maintenance worker,
\* then for the access worker).
THEOREM ClosedIsQuiet == MaintenanceSpec => QuietOnceClosed
<1>1. ASSUME WaitedFor, [MaintenanceNext]_maintenanceVars, closing = "closed"
      PROVE  UNCHANGED <<present, access>>
  <2>1. worker = "ended" /\ flush.step = "ended"
    BY <1>1 DEF WaitedFor
  <2>2. CASE Tick \/ TickEnd \/ WorkerEnds \/ Scan \/ ScanFail \/ MergePair \/ MergeEnd \/ Prune
    BY <2>1, <2>2 DEF Tick, TickEnd, WorkerEnds, Scan, ScanFail, MergePair, MergeEnd, Prune
  <2>3. CASE (\E r \in Ids : Search(r)) \/ Take \/ FlushRead \/ FlushWrite \/ AccessEnds
    BY <2>1, <2>3 DEF Search, Take, FlushRead, FlushWrite, AccessEnds
  <2>4. CASE Close \/ CloseContinues
    BY <2>4 DEF Close, CloseContinues
  <2>5. CASE UNCHANGED maintenanceVars
    BY <2>5 DEF maintenanceVars
  <2>6. QED
    BY <1>1, <2>2, <2>3, <2>4, <2>5 DEF MaintenanceNext
<1>2. QED
  BY <1>1, WaitedForInvariant, PTL DEF MaintenanceSpec, QuietOnceClosed

-----------------------------------------------------------------------------
(* The merge *)

\* Two near records are two.
LEMMA NearIsAnother ==
  ASSUME near \in SUBSET RecordPairs, NEW r, NEW s, Near(r, s)
  PROVE  r \in Ids /\ s \in Ids /\ r # s /\ Near(s, r)
<1>1. <<r, s>> \in RecordPairs \/ <<s, r>> \in RecordPairs
  BY DEF Near
<1>2. r \in Ids /\ s \in Ids /\ (r < s \/ s < r)
  BY <1>1 DEF RecordPairs
<1>3. r # s
  BY <1>2, MaintenanceAssumption DEF Ids
<1>4. QED
  BY <1>2, <1>3 DEF Near

LEMMA WorkTypesStep ==
  ASSUME WorkersInv, [MaintenanceNext]_maintenanceVars
  PROVE  WorkTypes'
<1>0. WorkTypes /\ (slots # <<>> => plan # <<>>)
  BY DEF WorkersInv, JobSlots
<1>1. near' = near
  BY DEF MaintenanceNext, maintenanceVars, recVars, Tick, TickEnd, WorkerEnds, Scan, ScanFail,
     MergePair, MergeEnd, Prune, Search, Take, FlushRead, FlushWrite, AccessEnds, Close, CloseContinues
<1>2. present' \subseteq present
  BY DEF MaintenanceNext, maintenanceVars, Tick, TickEnd, WorkerEnds, Scan, ScanFail,
     MergePair, MergeEnd, Prune, DeletePoint, Search, Take, FlushRead, FlushWrite, AccessEnds,
     Close, CloseContinues
<1>3. plan' \in Seq(Jobs)
  <2>1. plan' \in Plans \/ plan' = plan \/ (plan # <<>> /\ plan' = Tail(plan))
    BY <1>0 DEF MaintenanceNext, maintenanceVars, jobVars, Tick, TickEnd, WorkerEnds, Scan, ScanFail,
       MergePair, MergeEnd, JobEnd, Prune, Search, Take, FlushRead, FlushWrite, AccessEnds,
       Close, CloseContinues
  <2>2. QED
    <3>1. CASE plan' \in Plans
      <4>1. "merge" \in Jobs /\ "summarize" \in Jobs /\ "expired" \in Jobs
        BY DEF Jobs
      <4> HIDE DEF Jobs
      <4>2. \A x, y, z \in Jobs : {<<x>>, <<x, y>>, <<x, y, z>>} \subseteq Seq(Jobs)
        OBVIOUS
      <4>3. QED
        BY <3>1, <4>1, <4>2 DEF Plans
    <3>2. CASE plan # <<>> /\ plan' = Tail(plan)
      <4>1. plan \in Seq(Jobs)
        BY <1>0 DEF WorkTypes
      <4> HIDE DEF Jobs
      <4>2. QED
        BY <3>2, <4>1
    <3>3. QED
      BY <1>0, <2>1, <3>1, <3>2 DEF WorkTypes
<1>4. QED
  BY <1>0, <1>1, <1>2, <1>3 DEF WorkTypes

\* A step that leaves the job alone, or has no slots after it.
LEMMA NoSlotsKeep ==
  ASSUME WorkersInv, WorkTypes', UNCHANGED recVars, merged' \in {merged, {}},
         slots' = <<>> \/ UNCHANGED <<worker, plan, slots, pos>>
  PROVE  WorkersInv'
<1>1. UNCHANGED <<group, base, near, expired>>
  BY DEF recVars
<1>2. OnlyDuplicatesMerged'
  BY <1>1 DEF WorkersInv, OnlyDuplicatesMerged, Near
<1>3. CASE slots' = <<>>
  BY <1>2, <1>3, EmptyIsSequence DEF WorkersInv, JobSlots
<1>4. CASE UNCHANGED <<worker, plan, slots, pos>>
  BY <1>1, <1>2, <1>4 DEF WorkersInv, JobSlots, IsSlot, Explained, Duplicated, Near
<1>5. QED
  BY <1>3, <1>4

LEMMA ScanKeeps ==
  ASSUME WorkersInv, WorkTypes', Scan
  PROVE  WorkersInv'
<1>1. /\ UNCHANGED recVars /\ worker = "run" /\ plan # <<>> /\ slots = <<>> /\ merged' = {}
      /\ worker' = worker
  BY DEF Scan
<1>2. CASE slots' = slots
  BY <1>1, <1>2, NoSlotsKeep
<1>3. CASE slots' = Slots(Selected) /\ pos' = <<1, 2>> /\ plan' = plan
  <2> DEFINE n == Cardinality(Selected)
  <2>1. n \in Nat
    <3>1. Head(plan) \in Jobs
      BY <1>1 DEF WorkersInv, WorkTypes
    <3>2. Selected \subseteq 1..N
      BY <3>1 DEF WorkersInv, WorkTypes, Jobs, Selected, Scanned, Ids
    <3>3. N \in Int
      BY MaintenanceAssumption
    <3>4. IsFiniteSet(1..N)
      BY <3>3, FS_Interval
    <3> HIDE DEF n
    <3>5. IsFiniteSet(Selected)
      BY <3>2, <3>4, FS_Subset
    <3>6. QED
      BY <3>5, FS_CardinalityType DEF n
  <2> DEFINE F(k) == CHOOSE r \in Selected : Rank(r, Selected) = k
  <2>0. slots' = [k \in 1..n |-> [id |-> F(k), of |-> F(k), worth |-> Worth(F(k))]]
    BY <1>3 DEF Slots, Slot
  <2> HIDE DEF n, F
  <2>2. /\ slots' = [k \in 1..n |-> slots'[k]]
        /\ \A k \in 1..n : IsSlot(slots'[k]) /\ slots'[k].id = slots'[k].of
    BY <2>0 DEF IsSlot
  <2>3. slots' \in Seq(Range(slots')) /\ DOMAIN slots' = 1..n
    BY <2>1, <2>2, FunctionIsSequence
  <2>4. JobSlots'
    BY <1>1, <1>3, <2>2, <2>3 DEF JobSlots, IsSlot, Explained
  <2>5. OnlyDuplicatesMerged'
    BY <1>1 DEF OnlyDuplicatesMerged
  <2>6. QED
    BY <2>4, <2>5 DEF WorkersInv
<1>4. QED
  BY <1>2, <1>3 DEF Scan

\* Of two duplicates one is deleted, whatever id its slot has, and its slot
\* takes the id of the other: both ids have a duplicate.
LEMMA MergeKeeps ==
  ASSUME WorkersInv, WorkTypes', MergePair
  PROVE  WorkersInv'
<1> DEFINE i == pos[1]
           j == pos[2]
           a == slots[i]
           b == slots[j]
           loser  == IF a.worth >= b.worth THEN j ELSE i
           winner == IF a.worth >= b.worth THEN i ELSE j
<1>1. /\ worker = "run" /\ slots # <<>> /\ Head(plan) = "merge" /\ j <= Len(slots)
      /\ \/ /\ Duplicates(a, b) /\ present' \in {present, present \ {slots[loser].id}}
            /\ slots' = [slots EXCEPT ![loser].id = slots[winner].id]
            /\ merged' = merged \cup (present \ present')
         \/ UNCHANGED <<slots, merged>>
      /\ pos' = IF j < Len(slots) THEN <<i, j + 1>> ELSE <<i + 1, i + 2>>
      /\ UNCHANGED recVars /\ UNCHANGED <<worker, plan>>
  BY DEF MergePair, DeletePoint
<1>2. UNCHANGED <<group, base, near, expired>>
  BY <1>1 DEF recVars
<1>3. /\ slots \in Seq(Range(slots)) /\ plan # <<>>
      /\ i \in Nat /\ j \in Nat /\ 1 <= i /\ i < j
      /\ \A k \in DOMAIN slots : IsSlot(slots[k]) /\ Explained(slots[k])
  BY <1>1 DEF WorkersInv, JobSlots
<1>4. i \in DOMAIN slots /\ j \in DOMAIN slots /\ DOMAIN slots = 1..Len(slots) /\ Len(slots) \in Nat
  <2> DEFINE A == Range(slots)
  <2> HIDE DEF A
  <2>1. slots \in Seq(A) /\ i \in Nat /\ j \in Nat /\ 1 <= i /\ i < j /\ j <= Len(slots)
    BY <1>1, <1>3 DEF A
  <2> HIDE DEF i, j
  <2>2. QED
    BY <2>1
<1>5. pos'[1] \in Nat /\ pos'[2] \in Nat /\ 1 <= pos'[1] /\ pos'[1] < pos'[2]
  BY <1>1, <1>3
<1>6. CASE UNCHANGED <<slots, merged>>
  <2>1. JobSlots'
    BY <1>1, <1>2, <1>3, <1>5, <1>6 DEF JobSlots, IsSlot, Explained, Duplicated, Near
  <2>2. OnlyDuplicatesMerged'
    BY <1>2, <1>6 DEF WorkersInv, OnlyDuplicatesMerged, Near
  <2>3. QED
    BY <2>1, <2>2 DEF WorkersInv
<1>7. CASE /\ Duplicates(a, b) /\ present' \in {present, present \ {slots[loser].id}}
           /\ slots' = [slots EXCEPT ![loser].id = slots[winner].id]
           /\ merged' = merged \cup (present \ present')
  <2>1. group[a.of] = group[b.of] /\ Near(a.of, b.of)
    BY <1>7 DEF Duplicates
  <2>2. a.of \in Ids /\ b.of \in Ids /\ a.of # b.of /\ Near(b.of, a.of)
    BY <2>1, NearIsAnother DEF WorkersInv, WorkTypes
  <2>3. Duplicated(a.of) /\ Duplicated(b.of)
    BY <2>1, <2>2 DEF Duplicated
  <2>4. Duplicated(a.id) /\ Duplicated(b.id)
    BY <1>3, <1>4, <2>3 DEF Explained
  <2>5. loser \in {i, j} /\ winner \in {i, j}
    OBVIOUS
  <2>6. Duplicated(slots[loser].id) /\ Duplicated(slots[winner].id)
    BY <2>4, <2>5
  <2> DEFINE l == loser
             w == slots[winner].id
  <2>7. l \in DOMAIN slots /\ slots' = [slots EXCEPT ![l].id = w] /\ Duplicated(w)
    BY <1>4, <1>7, <2>5, <2>6
  <2> HIDE DEF loser, winner, l, w
  <2>8. /\ slots' = [k \in 1..Len(slots) |-> slots'[k]] /\ DOMAIN slots' = DOMAIN slots
        /\ \A k \in DOMAIN slots : k # l => slots'[k] = slots[k]
    BY <1>4, <2>7
  <2>9. slots' \in Seq(Range(slots'))
    BY <1>4, <2>8, FunctionIsSequence
  <2>10. slots'[l] = [id |-> w, of |-> slots[l].of, worth |-> slots[l].worth]
    <3>1. slots[l] = [id |-> slots[l].id, of |-> slots[l].of, worth |-> slots[l].worth]
      BY <1>3, <2>7 DEF IsSlot
    <3>2. slots'[l] = [slots[l] EXCEPT !.id = w]
      BY <2>7
    <3>3. QED
      BY <3>1, <3>2
  <2>11. IsSlot(slots'[l]) /\ Explained(slots'[l])
    BY <2>7, <2>10 DEF IsSlot, Explained
  <2>12. \A k \in DOMAIN slots' : IsSlot(slots'[k]) /\ Explained(slots'[k])
    BY <1>3, <2>8, <2>11
  <2>13. JobSlots'
    BY <1>1, <1>2, <1>3, <1>5, <2>9, <2>12 DEF JobSlots, IsSlot, Explained, Duplicated, Near
  <2>14. \A r \in merged' : Duplicated(r)
    <3>1. \A r \in merged : Duplicated(r)
      BY DEF WorkersInv, OnlyDuplicatesMerged, Duplicated
    <3>2. merged' \subseteq merged \cup {slots[loser].id}
      BY <1>7
    <3>3. QED
      BY <2>6, <3>1, <3>2
  <2>15. OnlyDuplicatesMerged'
    BY <1>2, <2>14 DEF OnlyDuplicatesMerged, Duplicated, Near
  <2>16. QED
    BY <2>13, <2>15 DEF WorkersInv
<1>8. QED
  BY <1>1, <1>6, <1>7

LEMMA PruneKeeps ==
  ASSUME WorkersInv, WorkTypes', Prune
  PROVE  WorkersInv'
<1>1. /\ slots # <<>> /\ Head(plan) # "merge" /\ slots' = Tail(slots) /\ worker' = worker
      /\ Len(slots) = 1 \/ plan' = plan
      /\ UNCHANGED recVars /\ merged' = merged
  BY DEF Prune
<1>2. slots \in Seq(Range(slots)) /\ worker = "run" /\ plan # <<>>
  BY <1>1 DEF WorkersInv, JobSlots
<1>3. slots' \in Seq(Range(slots')) /\ (Len(slots) = 1 => slots' = <<>>)
  BY <1>1, <1>2, TailIsSequence
<1>4. JobSlots'
  BY <1>1, <1>2, <1>3 DEF JobSlots
<1>5. OnlyDuplicatesMerged'
  BY <1>1 DEF WorkersInv, OnlyDuplicatesMerged, recVars, Near
<1>6. QED
  BY <1>4, <1>5 DEF WorkersInv

LEMMA WorkersStep ==
  ASSUME WorkersInv, [MaintenanceNext]_maintenanceVars
  PROVE  WorkersInv'
<1>1. WorkTypes'
  BY WorkTypesStep DEF WorkersInv
<1>2. CASE Tick \/ TickEnd \/ WorkerEnds \/ ScanFail \/ MergeEnd
  <2>1. UNCHANGED recVars /\ merged' \in {merged, {}}
    BY <1>2 DEF Tick, TickEnd, WorkerEnds, ScanFail, MergeEnd
  <2>2. slots' = <<>>
    BY <1>2 DEF Tick, TickEnd, WorkerEnds, ScanFail, MergeEnd, JobEnd, WorkersInv, JobSlots
  <2>3. QED
    BY <1>1, <2>1, <2>2, NoSlotsKeep
<1>3. CASE UNCHANGED <<recVars, jobVars>>
  BY <1>1, <1>3, NoSlotsKeep DEF jobVars
<1>4. CASE (\E r \in Ids : Search(r)) \/ Take \/ FlushRead \/ FlushWrite \/ AccessEnds
             \/ Close \/ CloseContinues \/ UNCHANGED maintenanceVars
  <2>1. UNCHANGED <<recVars, jobVars>>
    BY <1>4 DEF Search, Take, FlushRead, FlushWrite, AccessEnds, Close, CloseContinues, maintenanceVars
  <2>2. QED
    BY <1>3, <2>1
<1>5. QED
  BY <1>1, <1>2, <1>4, ScanKeeps, MergeKeeps, PruneKeeps DEF MaintenanceNext

LEMMA WorkersInvariant == MaintenanceSpec => []WorkersInv
<1>1. ASSUME MaintenanceInit PROVE WorkersInv
  <2>1. WorkTypes
    BY <1>1 DEF MaintenanceInit, WorkTypes
  <2>2. JobSlots
    BY <1>1, EmptyIsSequence DEF MaintenanceInit, JobSlots
  <2>3. QED
    BY <1>1, <2>1, <2>2 DEF MaintenanceInit, WorkersInv, OnlyDuplicatesMerged
<1>2. QED
  BY <1>1, WorkersStep, PTL DEF MaintenanceSpec

\* What a merge deletes was near another record of the same user and type, for
\* any records and similarities (mergeDuplicates), although a slot it compares
\* may have the id of another record.
THEOREM MergedWereDuplicates == MaintenanceSpec => []OnlyDuplicatesMerged
<1>1. WorkersInv => OnlyDuplicatesMerged
  BY DEF WorkersInv
<1>2. QED
  BY <1>1, WorkersInvariant, PTL
==============================================================================
