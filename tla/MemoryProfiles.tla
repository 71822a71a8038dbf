---------------------------- MODULE MemoryProfiles ----------------------------
(***************************************************************************)
(* internal/memory: user profiles, mention relationships and message       *)
(* counters.  Batch consolidations of channels, message counting and the   *)
(* deletion of a user's data run concurrently; each reads a point, changes *)
(* its copy and writes the copy back.  A batch is one ProcessChannelMessages*)
(* or ProcessWithMessages call; what it learns of a user is one fact, the   *)
(* batch itself.                                                           *)
(***************************************************************************)
EXTENDS Naturals, FiniteSets, Sequences

CONSTANTS
  Users,
  Batches,     \* consolidations, each takes place once
  Counters,    \* goroutines that count a message
  Deleters,    \* goroutines that delete a user's data
  Interval,    \* consolidation_interval
  MaxMessages  \* bound: messages of a user

ASSUME ProfilesAssumption ==
  /\ Interval \in Nat \ {0} /\ MaxMessages \in Nat
  /\ IsFiniteSet(Users) /\ Users # {}

VARIABLES
  profile,     \* the profiles collection: exists, msgs (MessageCount), facts
  links,       \* the relationships collection: points [id, between, count]
  counter,     \* messageCounters
  counted,     \* history: messages of a user; buffered: those not in a batch
  buffered,
  batch, count, del, \* the calls under way
  erased,      \* history: facts of a user that were in a deleted profile
  overlapped   \* history: users deleted while a call held their profile

vars == <<profile, links, counter, counted, buffered, batch, count, del, erased, overlapped>>

NoProfile == [exists |-> FALSE, msgs |-> 0, facts |-> {}]
AnyUser == CHOOSE u \in Users : TRUE
IdleCall == [step |-> "idle", user |-> AnyUser, copy |-> NoProfile]
NoLink == [id |-> {}, between |-> {}, count |-> 0]
At(step) ==
  [step |-> step, user |-> AnyUser, copy |-> NoProfile, msgs |-> [u \in Users |-> 0],
   todo |-> {}, order |-> "profile", mentions |-> <<>>, link |-> NoLink]

Init ==
  /\ profile = [u \in Users |-> NoProfile]
  /\ links = {}
  /\ counter = [u \in Users |-> 0]
  /\ counted = counter /\ buffered = counter
  /\ batch = [b \in Batches |-> At("idle")]
  /\ count = [g \in Counters |-> IdleCall]
  /\ del = [d \in Deleters |-> IdleCall]
  /\ erased = [u \in Users |-> {}] /\ overlapped = {}

-----------------------------------------------------------------------------
(* IncrementMessageCount *)

Count(g, u) ==
  /\ count[g].step = "idle" /\ counted[u] < MaxMessages
  /\ counter' = [counter EXCEPT ![u] = @ + 1]
  /\ counted' = [counted EXCEPT ![u] = @ + 1]
  /\ buffered' = [buffered EXCEPT ![u] = @ + 1]
  /\ count' = [count EXCEPT ![g] =
       IF (counter[u] + 1) % Interval = 0
       THEN [step |-> "read", user |-> u, copy |-> [NoProfile EXCEPT !.msgs = counter[u] + 1]]
       ELSE @]
  /\ UNCHANGED <<profile, links, batch, del, erased, overlapped>>

\* A missing profile is read as an empty one; the count only raises msgs.
CountRead(g) ==
  LET p == profile[count[g].user]
      n == count[g].copy.msgs IN
  /\ count[g].step = "read"
  /\ count' = [count EXCEPT ![g].step = "write",
       ![g].copy = [exists |-> TRUE, facts |-> p.facts, msgs |-> IF n > p.msgs THEN n ELSE p.msgs]]
  /\ UNCHANGED <<profile, links, counter, counted, buffered, batch, del, erased, overlapped>>

\* The write, or the failure of a read or write, ends the call.
CountWrite(g) ==
  /\ count[g].step = "write"
  /\ profile' = [profile EXCEPT ![count[g].user] = count[g].copy]
  /\ count' = [count EXCEPT ![g] = IdleCall]
  /\ UNCHANGED <<links, counter, counted, buffered, batch, del, erased, overlapped>>

CountFail(g) ==
  /\ count[g].step # "idle"
  /\ count' = [count EXCEPT ![g] = IdleCall]
  /\ UNCHANGED <<profile, links, counter, counted, buffered, batch, del, erased, overlapped>>

-----------------------------------------------------------------------------
(* A batch *)

Others == <<counter, counted, count, del, erased, overlapped>>

Authors(m) == {u \in Users : m[u] > 0}

\* The analysis may learn something of any of the authors.
Analysis(m) == SUBSET Authors(m) \ {{}}

\* The messages, after the entropy gate and analysis: the users something was
\* learned of, and the mentions of other users; who gives neither is left out.
\* A batch of which nothing is learned ends here.
BeginBatch(b, m, E, mentions, order) ==
  /\ batch[b].step = "idle" /\ E \in Analysis(m)
  /\ \A u \in Users : m[u] <= buffered[u]
  /\ Authors(m) = E \cup {mentions[i][1] : i \in DOMAIN mentions}
  /\ order = "memories" => Cardinality(E) = 1
  /\ batch' = [batch EXCEPT ![b].step = "next", ![b].msgs = m, ![b].todo = E,
                            ![b].mentions = mentions, ![b].order = order]
  /\ buffered' = [u \in Users |-> buffered[u] - m[u]]
  /\ UNCHANGED <<profile, links, Others>>

\* updateProfileFromExtraction on the profile read, which is created when it
\* does not exist.  Only the batch of a channel counts its messages.
Learned(b, u) ==
  [exists |-> TRUE, facts |-> profile[u].facts \cup {b},
   msgs |-> profile[u].msgs + (IF batch[b].order = "profile" THEN batch[b].msgs[u] ELSE 0)]

ReadProfile(b, u) ==
  /\ batch[b].step = "next" /\ u \in batch[b].todo
  /\ batch' = [batch EXCEPT ![b].user = u, ![b].copy = Learned(b, u), ![b].todo = @ \ {u},
       ![b].step = IF batch[b].order = "profile" THEN "profile" ELSE "memories"]
  /\ UNCHANGED <<profile, links, buffered, Others>>

\* The batch goes to the next user, and after the last to the relationships.
Left(b) == [batch[b] EXCEPT !.step = "next", !.user = AnyUser, !.copy = NoProfile]

\* UpsertProfile of the copy: before the memories are stored, and again after
\* (MemoryCount) in the batch of a channel; only after them in the other.
WriteProfile(b) ==
  /\ batch[b].step \in {"profile", "again"}
  /\ profile' = [profile EXCEPT ![batch[b].user] = batch[b].copy]
  /\ batch' = [batch EXCEPT ![b] = IF @.step = "profile" THEN [@ EXCEPT !.step = "memories"] ELSE Left(b)]
  /\ UNCHANGED <<links, buffered, Others>>

StoreMemories(b) ==
  /\ batch[b].step = "memories"
  /\ batch' = [batch EXCEPT ![b].step = "again"]
  /\ UNCHANGED <<profile, links, buffered, Others>>

\* A profile cannot be read or written, or no memory is stored: the user is
\* left.  The call for a single user returns.
SkipUser(b, u) ==
  /\ \/ batch[b].step = "next" /\ u \in batch[b].todo
     \/ batch[b].step \in {"profile", "memories", "again"} /\ u = batch[b].user
  /\ batch' = [batch EXCEPT ![b] = IF @.order = "memories" THEN At("done")
                                  ELSE [Left(b) EXCEPT !.todo = @ \ {u}]]
  /\ UNCHANGED <<profile, links, buffered, Others>>

\* Mutant: the two users are not put in order first.
RelationshipIDDirected(a, b) == <<a, b>>

\* relationshipID: the same for both directions.
RelationshipID(a, b) == {a, b}

\* GetRelationshipBetween finds a point of the two users, whoever mentioned.
ReadLink(b) ==
  /\ batch[b].step = "next" /\ batch[b].todo = {} /\ batch[b].mentions # <<>>
  /\ LET p == Head(batch[b].mentions)
         known == {k \in links : k.between = {p[1], p[2]}} IN
     \E k \in IF known # {} THEN known
              ELSE {[id |-> RelationshipID(p[1], p[2]), between |-> {p[1], p[2]}, count |-> 0]} :
       batch' = [batch EXCEPT ![b].step = "link", ![b].link = [k EXCEPT !.count = @ + 1]]
  /\ UNCHANGED <<profile, links, buffered, Others>>

\* UpsertRelationship writes the point of that id; a failure is only logged.
WriteLink(b) ==
  /\ batch[b].step = "link"
  /\ \/ links' = {k \in links : k.id # batch[b].link.id} \cup {batch[b].link}
     \/ links' = links
  /\ batch' = [batch EXCEPT ![b].step = "next", ![b].mentions = Tail(@), ![b].link = NoLink]
  /\ UNCHANGED <<profile, buffered, Others>>

EndBatch(b) ==
  /\ batch[b].step = "next" /\ batch[b].todo = {} /\ batch[b].mentions = <<>>
  /\ batch' = [batch EXCEPT ![b] = At("done")]
  /\ UNCHANGED <<profile, links, buffered, Others>>

-----------------------------------------------------------------------------
(* DeleteUserData: the memories (not seen here), the profile, the counter;  *)
(* a failure ends it                                                       *)

BeginDelete(d, u) ==
  /\ del[d].step = "idle"
  /\ del' = [del EXCEPT ![d].step = "profile", ![d].user = u]
  /\ UNCHANGED <<profile, links, counter, counted, buffered, batch, count, erased, overlapped>>

Holds(u) ==
  \/ \E b \in Batches : batch[b].step \in {"profile", "memories", "again"} /\ batch[b].user = u
  \/ \E g \in Counters : count[g].step = "write" /\ count[g].user = u

\* Mutant: the point of the profile is only marked.
DeleteProfileMarked(d) ==
  LET u == del[d].user IN
  /\ del[d].step = "profile"
  /\ profile' = [profile EXCEPT ![u].exists = FALSE]
  /\ erased' = [erased EXCEPT ![u] = @ \cup profile[u].facts]
  /\ overlapped' = IF Holds(u) THEN overlapped \cup {u} ELSE overlapped
  /\ del' = [del EXCEPT ![d].step = "counter"]
  /\ UNCHANGED <<links, counter, counted, buffered, batch, count>>

DeleteProfile(d) ==
  LET u == del[d].user IN
  /\ del[d].step = "profile"
  /\ profile' = [profile EXCEPT ![u] = NoProfile]
  /\ erased' = [erased EXCEPT ![u] = @ \cup profile[u].facts]
  /\ overlapped' = IF Holds(u) THEN overlapped \cup {u} ELSE overlapped
  /\ del' = [del EXCEPT ![d].step = "counter"]
  /\ UNCHANGED <<links, counter, counted, buffered, batch, count>>

DeleteCounter(d) ==
  /\ del[d].step = "counter"
  /\ counter' = [counter EXCEPT ![del[d].user] = 0]
  /\ del' = [del EXCEPT ![d] = IdleCall]
  /\ UNCHANGED <<profile, links, counted, buffered, batch, count, erased, overlapped>>

DeleteFail(d) ==
  /\ del[d].step # "idle"
  /\ del' = [del EXCEPT ![d] = IdleCall]
  /\ UNCHANGED <<profile, links, counter, counted, buffered, batch, count, erased, overlapped>>

\* A restart: the calls, the counters and the buffers are gone.
Restart ==
  /\ counter' = [u \in Users |-> 0] /\ buffered' = [u \in Users |-> 0]
  /\ batch' = [b \in Batches |-> IF batch[b].step = "idle" THEN batch[b] ELSE At("done")]
  /\ count' = [g \in Counters |-> IdleCall] /\ del' = [d \in Deleters |-> IdleCall]
  /\ UNCHANGED <<profile, links, counted, erased, overlapped>>

Pairs == {p \in Users \X Users : p[1] # p[2]}
Mentions == {<<>>} \cup {<<p>> : p \in Pairs}

Next ==
  \/ \E g \in Counters : (\E u \in Users : Count(g, u)) \/ CountRead(g) \/ CountWrite(g) \/ CountFail(g)
  \/ \E b \in Batches :
       \/ \E m \in [Users -> 0..MaxMessages], E \in SUBSET Users, n \in Mentions,
             order \in {"profile", "memories"} : BeginBatch(b, m, E, n, order)
       \/ \E u \in Users : ReadProfile(b, u) \/ SkipUser(b, u)
       \/ WriteProfile(b) \/ StoreMemories(b) \/ ReadLink(b) \/ WriteLink(b) \/ EndBatch(b)
  \/ \E d \in Deleters : (\E u \in Users : BeginDelete(d, u)) \/ DeleteProfile(d) \/ DeleteCounter(d) \/ DeleteFail(d)
  \/ Restart

Spec == Init /\ [][Next]_vars

-----------------------------------------------------------------------------
(* Properties *)

\* Two users have one mention relationship at most, although two batches may
\* find none and both create it, each for its own direction.
OneLinkPerPair ==
  \A k, l \in links : k.between = l.between => k = l

\* What was deleted with a user's profile is in a profile again only when a
\* call held a copy of it, or wrote it after, while it was deleted.
ErasedStaysErased ==
  \A u \in Users : profile[u].facts \cap erased[u] # {} => u \in overlapped

=============================================================================
