---------------------------- MODULE ContextHistory ----------------------------
(***************************************************************************)
(* The history of one channel that a reply is generated from: messages are *)
(* fetched from Discord page by page, those before a /clear-context are    *)
(* hidden, and the anchored window keeps the first one fixed, so that each *)
(* prompt starts as the one before did, until it grows too long.           *)
(***************************************************************************)
EXTENDS Naturals, FiniteSets

CONSTANTS
  Replies,           \* goroutines of replies to messages of the channel
  Limit, Flush,      \* short_term_limit, context_flush_window
  PageLimit,         \* discordAPIMaxLimit
  RateLimitRetries,  \* maxRateLimitRetries
  MaxMessages,       \* bound: messages posted
  MaxDeleted,        \* bound: of those, deleted
  MaxFaults,         \* bound: failed requests and pages that overlap
  MaxClears          \* bound: uses of /clear-context

\* Assumed of the constants.
HistoryAssumption ==
  /\ Limit \in Nat \ {0} /\ Flush \in Nat /\ PageLimit \in Nat \ {0}
  /\ {RateLimitRetries, MaxMessages, MaxDeleted, MaxFaults, MaxClears} \subseteq Nat

VARIABLES
  posted,   \* messages are numbered as they are posted: IDs and times agree
  deleted,
  at,       \* a reply: "idle", "fetch", "cut", "apply"
  got,      \* the messages it fetched
  before,   \* its cursor: the messages below it are still to be fetched
  attempt,  \* requests for this page that were rate limited
  cutoff,   \* the newest message that /clear-context hides
  anchor,   \* the oldest message of the window, 0 when there is none
  clear,    \* clearChannelContext: "idle", "reset"
  given,    \* history: the window of the last reply that had the history to itself,
            \* and whose fetch was unbroken or that started the window over
  broken,   \* history: the fetch of the reply ended with an error, or stalled
  shared,   \* history: another reply or a clear ran at some time during the reply
  faults, clears

fetchVars == <<got, before, attempt, broken>>
windowVars == <<cutoff, anchor, clear, given, clears>>
vars == <<posted, deleted, at, fetchVars, windowVars, shared, faults>>

Init ==
  /\ posted = 1 /\ deleted = {}
  /\ at = [r \in Replies |-> "idle"] /\ got = [r \in Replies |-> {}]
  /\ before = [r \in Replies |-> 0] /\ attempt = [r \in Replies |-> 0]
  /\ cutoff = 0 /\ anchor = 0 /\ clear = "idle" /\ given = {}
  /\ broken = [r \in Replies |-> FALSE] /\ shared = [r \in Replies |-> FALSE]
  /\ faults = 0 /\ clears = 0

Smaller(a, b) == IF a < b THEN a ELSE b
Newest(n, S) == {m \in S : Cardinality({k \in S : k > m}) < n}
Oldest(S) == CHOOSE m \in S : \A k \in S : m <= k

-----------------------------------------------------------------------------
(* Discord *)

Post ==
  /\ posted < MaxMessages /\ posted' = posted + 1
  /\ UNCHANGED <<deleted, at, fetchVars, windowVars, shared, faults>>

Delete(m) ==
  /\ m \notin deleted /\ Cardinality(deleted) < MaxDeleted
  /\ deleted' = deleted \cup {m}
  /\ UNCHANGED <<posted, at, fetchVars, windowVars, shared, faults>>

Existing == 1..posted \ deleted

\* What GET /channels/{id}/messages answers.  Network jitter can return a page
\* that overlaps the one before it.
Page(size, cursor) == Newest(size, {m \in Existing : m < cursor})
OverlappingPage(size, cursor) == Newest(size, {m \in Existing : m <= cursor})

-----------------------------------------------------------------------------
(* FetchMessages: fetchPaginated and fetchPage *)

\* Mutant: not one more than the window may hold.
FetchSizeOfWindow == Limit + Flush

\* One more than the window may hold shows that it overflowed.
FetchSize == IF Flush = 0 THEN Limit ELSE Limit + Flush + 1

Active == {r \in Replies : at[r] # "idle"}

Begin(r) ==
  /\ at[r] = "idle"
  /\ at' = [at EXCEPT ![r] = "fetch"]
  /\ got' = [got EXCEPT ![r] = {}]
  /\ before' = [before EXCEPT ![r] = posted + 1]
  /\ attempt' = [attempt EXCEPT ![r] = 0]
  /\ broken' = [broken EXCEPT ![r] = FALSE]
  /\ shared' = [q \in Replies |-> IF q = r THEN Active # {} \/ clear # "idle"
                                  ELSE shared[q] \/ q \in Active]
  /\ UNCHANGED <<posted, deleted, windowVars, faults>>

\* Messages are told apart by ID; the next page starts at the oldest of this
\* one.  A short page is the last; a cursor that does not move ends the fetch.
TakePage(r, batch, size) ==
  LET all    == got[r] \cup batch
      moved  == batch # {} /\ (got[r] = {} \/ Oldest(batch) < before[r])
      short  == Cardinality(batch) < size
      done   == Cardinality(all) >= FetchSize \/ short \/ ~moved
  IN /\ got' = [got EXCEPT ![r] = all]
     /\ before' = [before EXCEPT ![r] = IF done THEN 0 ELSE Oldest(batch)]
     /\ attempt' = [attempt EXCEPT ![r] = 0]
     /\ broken' = [broken EXCEPT ![r] = ~short /\ ~moved]
     /\ at' = [at EXCEPT ![r] = IF done THEN "cut" ELSE "fetch"]

Size(r) == Smaller(FetchSize - Cardinality(got[r]), PageLimit)

FetchPage(r) ==
  /\ at[r] = "fetch"
  /\ TakePage(r, Page(Size(r), before[r]), Size(r))
  /\ UNCHANGED <<posted, deleted, windowVars, shared, faults>>

FetchOverlappingPage(r) ==
  /\ at[r] = "fetch" /\ got[r] # {} /\ faults < MaxFaults
  /\ faults' = faults + 1
  /\ TakePage(r, OverlappingPage(Size(r), before[r]), Size(r))
  /\ UNCHANGED <<posted, deleted, windowVars, shared>>

RateLimited(r) ==
  /\ at[r] = "fetch" /\ faults < MaxFaults /\ attempt[r] < RateLimitRetries
  /\ faults' = faults + 1
  /\ attempt' = [attempt EXCEPT ![r] = @ + 1]
  /\ UNCHANGED <<posted, deleted, at, got, before, broken, windowVars, shared>>

\* Any other error, a rate limit too many, or the reply is cancelled: the
\* pages fetched so far are kept; without one the reply goes on without
\* history and the window is not asked.
FetchFails(r) ==
  /\ at[r] = "fetch" /\ faults < MaxFaults
  /\ faults' = faults + 1
  /\ at' = [at EXCEPT ![r] = IF got[r] = {} THEN "idle" ELSE "cut"]
  /\ got' = got
  /\ before' = [before EXCEPT ![r] = 0]
  /\ attempt' = [attempt EXCEPT ![r] = 0]
  /\ broken' = [broken EXCEPT ![r] = got[r] # {}]
  /\ shared' = [shared EXCEPT ![r] = @ /\ got[r] # {}]
  /\ UNCHANGED <<posted, deleted, windowVars>>

-----------------------------------------------------------------------------
(* applyContextCutoff and contextWindow.apply *)

Cut(r) ==
  /\ at[r] = "cut"
  /\ got' = [got EXCEPT ![r] = {m \in @ : m > cutoff}]
  /\ at' = [at EXCEPT ![r] = "apply"]
  /\ UNCHANGED <<posted, deleted, before, attempt, broken, windowVars, shared, faults>>

Visible(msgs) == {m \in msgs : m >= anchor}

\* The first window, one that overflowed and one of which nothing is left
\* start over with the newest messages.
StartsOver(msgs) ==
  anchor = 0 \/ Cardinality(Visible(msgs)) > Limit + Flush \/ Visible(msgs) = {}

Window(msgs) ==
  IF Flush = 0 \/ StartsOver(msgs) THEN Newest(Limit, msgs) ELSE Visible(msgs)

Apply(r) ==
  /\ at[r] = "apply"
  /\ anchor' = IF Flush # 0 /\ got[r] # {} /\ StartsOver(got[r])
               THEN Oldest(Newest(Limit, got[r])) ELSE anchor
  /\ at' = [at EXCEPT ![r] = "idle"]
  /\ got' = [got EXCEPT ![r] = {}]
  /\ broken' = [broken EXCEPT ![r] = FALSE]
  /\ shared' = [shared EXCEPT ![r] = FALSE]
  /\ given' = IF shared[r] THEN {}
              ELSE IF broken[r] /\ (got[r] = {} \/ ~StartsOver(got[r])) THEN given ELSE Window(got[r])
  /\ UNCHANGED <<posted, deleted, before, attempt, cutoff, clear, clears, faults>>

-----------------------------------------------------------------------------
(* clearChannelContext (the cancellation of the replies is in MessagePipeline) *)

SetCutoff ==
  /\ clear = "idle" /\ clears < MaxClears /\ clears' = clears + 1
  /\ cutoff' = posted /\ clear' = "reset"
  /\ given' = {}
  /\ shared' = [r \in Replies |-> shared[r] \/ r \in Active]
  /\ UNCHANGED <<posted, deleted, at, fetchVars, anchor, faults>>

ResetAnchor ==
  /\ clear = "reset" /\ clear' = "idle"
  /\ anchor' = 0
  /\ UNCHANGED <<posted, deleted, at, fetchVars, cutoff, given, clears, shared, faults>>

-----------------------------------------------------------------------------

Next ==
  \/ \E r \in Replies :
       \/ Begin(r) \/ FetchPage(r) \/ FetchOverlappingPage(r) \/ RateLimited(r) \/ FetchFails(r)
       \/ Cut(r) \/ Apply(r)
  \/ Post \/ (\E m \in 1..posted : Delete(m))
  \/ SetCutoff \/ ResetAnchor

Spec == Init /\ [][Next]_vars

-----------------------------------------------------------------------------
(* Properties *)

\* w holds what is left of the window before, nothing else that old, and what
\* came since.
Extends(w, old) ==
  /\ \A m \in old : m \in w \cup deleted
  /\ \A m \in w : m \in old \/ \A k \in old : m > k

\* A reply that had the history to itself, from an unbroken fetch, gets a
\* window that extends the one given before, whatever pages, deletions and
\* retries were in between; it starts over, with at most Limit messages, only
\* when all of that window is gone or the history since its first message
\* does not fit any more.
WindowExtends ==
  [][ \A r \in Replies : (at[r] = "apply" /\ at'[r] = "idle" /\ ~shared[r] /\ ~broken[r] /\ given # {} /\ Flush # 0) =>
        LET w == Window(got[r]) IN
        \/ Extends(w, given) /\ Cardinality(w) <= Limit + Flush
        \/ /\ Cardinality(w) <= Limit
           /\ \/ given \subseteq deleted
              \/ Cardinality({m \in got[r] : m >= Oldest(given)}) > Limit + Flush ]_vars
=============================================================================
