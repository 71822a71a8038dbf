---------------------------- MODULE MemoryRetrieval ----------------------------
(***************************************************************************)
(* The memories in the prompt of one reply: three searches run next to     *)
(* each other over the vector tier, load what they hit from the source     *)
(* tier, and are merged into the blocks of the prompt, while records are   *)
(* deleted and stored.                                                     *)
(***************************************************************************)
EXTENDS Naturals, FiniteSets

CONSTANTS
  Records,       \* numbers: the smaller, the nearer to any query and the better
  Owner,         \* whose memory a record is
  Place,         \* the channel it comes from
  Facts,         \* records that are facts of importance 0.5 and more
  MentionsOf,    \* the users a record mentions
  Channelled,    \* records that mention a channel
  Author, Channel, Mentions, \* of the message that is answered
  TopK, MentionedLimit, ChannelLimit, \* retrieval.*
  IncludeChannel,
  MaxWrites      \* bound: deletions and stores

\* Assumed of the constants.
RetrievalAssumption ==
  /\ Records \subseteq Nat
  /\ {TopK, MentionedLimit, ChannelLimit, MaxWrites} \subseteq Nat
  /\ Facts \subseteq Records /\ Channelled \subseteq Records
  /\ IncludeChannel \in BOOLEAN

Searches == {"user", "mentioned", "channel"}
None == 0

VARIABLES
  source, vectors,  \* records of each tier
  deleting, storing,\* the record whose vector a delete, a store has yet to do
  at,               \* a search: "idle", "query", "hydrate", "orphans", "done"
  hits,             \* records its query hit, then the orphans among them
  found,            \* what it found
  asked,            \* mentioned users that are still to be searched for
  reply,            \* "idle", "search", "shown"
  shown,            \* the records in each block of the prompt
  gone,             \* history: records that were not in the source tier when the reply
                    \* began, nor stored since
  writes

searchVars == <<at, hits, found, asked>>
replyVars == <<reply, shown, gone>>
vars == <<source, vectors, deleting, storing, searchVars, replyVars, writes>>

NoBlocks == [facts |-> {}, recent |-> {}, mentioned |-> {}, channel |-> {}]

Init ==
  /\ source = Records /\ vectors = Records /\ deleting = None /\ storing = None
  /\ at = [s \in Searches |-> "idle"] /\ hits = [s \in Searches |-> {}]
  /\ found = [s \in Searches |-> {}] /\ asked = {}
  /\ reply = "idle" /\ shown = NoBlocks /\ gone = {}
  /\ writes = 0

Best(n, S) == {r \in S : Cardinality({q \in S : q < r}) < n}

-----------------------------------------------------------------------------
(* Other requests: a delete and a store are two writes each, and the second *)
(* may fail                                                                *)

Delete(r) ==
  /\ deleting = None /\ r \in source /\ writes < MaxWrites
  /\ writes' = writes + 1
  /\ source' = source \ {r} /\ deleting' = r
  /\ UNCHANGED <<vectors, storing, searchVars, replyVars>>

DeleteVector ==
  /\ deleting # None /\ deleting' = None
  /\ vectors' \in {vectors, vectors \ {deleting}}
  /\ UNCHANGED <<source, storing, searchVars, replyVars, writes>>

Store(r) ==
  /\ storing = None /\ r \notin source /\ writes < MaxWrites
  /\ writes' = writes + 1
  /\ source' = source \cup {r} /\ storing' = r /\ gone' = gone \ {r}
  /\ UNCHANGED <<vectors, deleting, searchVars, reply, shown>>

StoreVector ==
  /\ storing # None /\ storing' = None
  /\ vectors' \in {vectors, vectors \cup {storing}}
  /\ UNCHANGED <<source, deleting, searchVars, replyVars, writes>>

-----------------------------------------------------------------------------
(* searchMemories: which searches run, and what they ask for *)

\* A message without words and without media text searches no memories of its
\* author; the other searches have texts of their own.
Begin ==
  /\ reply = "idle" /\ reply' = "search"
  /\ gone' = Records \ source
  /\ asked' = IF MentionedLimit > 0 THEN Mentions \ {Author} ELSE {}
  /\ \E hasQuery \in BOOLEAN :
       at' = [s \in Searches |->
         IF TopK > 0 /\ CASE s = "user"      -> hasQuery
                          [] s = "mentioned" -> asked' # {}
                          [] s = "channel"   -> IncludeChannel /\ ChannelLimit > 0
         THEN "query" ELSE "done"]
  /\ UNCHANGED <<source, vectors, deleting, storing, hits, found, shown, writes>>

LimitOf(s) ==
  CASE s = "user" -> TopK [] s = "mentioned" -> MentionedLimit [] s = "channel" -> ChannelLimit

\* The memories of the author, those of them that mention u, and those of
\* anybody from the channel.
Matches(s, u) ==
  CASE s = "user"      -> {r \in vectors : Owner[r] = Author}
    [] s = "mentioned" -> {r \in vectors : Owner[r] = Author /\ u \in MentionsOf[r]}
    [] s = "channel"   -> {r \in vectors : Place[r] = Channel}

\* A search ends, but the one for mentioned users goes on with the next.
End(s, left) ==
  at' = [at EXCEPT ![s] = IF s = "mentioned" /\ left # {} THEN "query" ELSE "done"]

\* An error of the embedding or of the query leaves the search without results.
Query(s) ==
  /\ at[s] = "query"
  /\ \E u \in IF s = "mentioned" THEN asked ELSE {Author} :
       /\ asked' = IF s = "mentioned" THEN asked \ {u} ELSE asked
       /\ \/ /\ hits' = [hits EXCEPT ![s] = Best(LimitOf(s), Matches(s, u))]
             /\ at' = [at EXCEPT ![s] = "hydrate"]
          \/ End(s, asked \ {u}) /\ UNCHANGED hits
  /\ UNCHANGED <<source, vectors, deleting, storing, found, replyVars, writes>>

\* Mutant: the vector tier is asked for the records as well.
InEitherTier(S) == S \cap (source \cup vectors)

InSource(S) == S \cap source

\* The records come from the source tier only.
Hydrate(s) ==
  /\ at[s] = "hydrate"
  /\ LET loaded == InSource(hits[s]) IN
     \/ /\ found' = [found EXCEPT ![s] = @ \cup loaded]
        /\ hits' = [hits EXCEPT ![s] = @ \ loaded]
        /\ IF hits[s] = loaded THEN End(s, asked) ELSE at' = [at EXCEPT ![s] = "orphans"]
     \/ hits' = [hits EXCEPT ![s] = {}] /\ End(s, asked) /\ UNCHANGED found
  /\ UNCHANGED <<source, vectors, deleting, storing, asked, replyVars, writes>>

\* A vector without its record is left over from a delete.
DeleteOrphans(s) ==
  /\ at[s] = "orphans"
  /\ vectors' \in {vectors, vectors \ hits[s]}
  /\ hits' = [hits EXCEPT ![s] = {}]
  /\ End(s, asked)
  /\ UNCHANGED <<source, deleting, storing, found, asked, replyVars, writes>>

-----------------------------------------------------------------------------
(* The merge and FormatMemoriesForContext *)

\* The results of the three, each record once.
Merged == UNION {found[s] : s \in Searches}

\* The blocks go by the record, not by the search that found it.  Ordering
\* and the diversity of types change no block: nothing is dropped for them.
Blocks ==
  LET others    == Merged \ Facts
      mentioned == {r \in others : MentionsOf[r] # {}}
      channel   == (others \ mentioned) \cap Channelled
  IN [facts |-> Merged \cap Facts, recent |-> (others \ mentioned) \ channel,
      mentioned |-> Best(MentionedLimit, mentioned), channel |-> Best(ChannelLimit, channel)]

Show ==
  /\ reply = "search" /\ \A s \in Searches : at[s] = "done"
  /\ reply' = "shown" /\ shown' = Blocks
  /\ UNCHANGED <<source, vectors, deleting, storing, searchVars, gone, writes>>

Next ==
  \/ \E r \in Records : Delete(r) \/ Store(r)
  \/ DeleteVector \/ StoreVector
  \/ Begin \/ Show
  \/ \E s \in Searches : Query(s) \/ Hydrate(s) \/ DeleteOrphans(s)

Spec == Init /\ [][Next]_vars

-----------------------------------------------------------------------------
(* Properties *)

Shown == UNION {shown[b] : b \in DOMAIN shown}

\* A memory that was deleted before the reply began, and was not stored again,
\* is not in its prompt, whichever search still hits the vector that the
\* delete left behind; and whatever block a record ends in, it is its
\* author's or comes from its channel.
PromptShowsLiving ==
  /\ Shown \cap gone = {}
  /\ \A r \in Shown : Owner[r] = Author \/ Place[r] = Channel
=============================================================================
