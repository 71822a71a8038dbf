---------------------------- MODULE DecisionRequest ----------------------------
(***************************************************************************)
(* Whether to answer a message that nobody addressed to the bot: the       *)
(* history is packed into the bytes that the System One provider takes, or *)
(* becomes a prompt of the LLM provider as it is; the request is retried;  *)
(* without a verdict the reply is left to chance.                          *)
(***************************************************************************)
EXTENDS Naturals, Sequences

CONSTANTS
  Sizes,       \* bytes that a message of the history takes, with its comma
  MaxHistory,  \* bound: messages of the history
  Contents,    \* lengths of the message that the decision is about
  Widths,      \* bytes that a byte of it takes when it is encoded
  Base,        \* bytes of a state without history and content
  Omitted,     \* bytes of the field older_messages_omitted
  Marker,      \* bytes of the mark of a content that was cut
  Budgets,     \* of max_state_bytes
  RetryCount   \* of the provider

\* Assumed of the constants.
DecisionAssumption ==
  /\ Sizes \cup Contents \cup Widths \cup Budgets \subseteq Nat
  /\ 0 \notin Sizes \cup Widths
  /\ {MaxHistory, Base, Omitted, Marker, RetryCount} \subseteq Nat

VARIABLES
  provider,  \* "llm", "system_one"
  history,   \* the size of each message, the oldest first
  budget, content, width,
  kept, marked, \* what is left of the content
  start,     \* messages of the history left out, the oldest
  total,     \* the estimate of the size
  step,      \* "estimate", "confirm", "cut", "ask", "answered", "wait", "done"
  attempt, answer, feedback,
  expired,   \* the context of the decision: cancelled, or out of time
  verdict,   \* "none", "yes", "no", "chance"
  requests   \* history: the requests that were sent

given == <<provider, history, budget, content, width>>
packVars == <<kept, marked, start, total>>
askVars == <<attempt, answer, feedback, verdict, requests>>
vars == <<given, packVars, askVars, step, expired>>

Init ==
  /\ provider \in {"llm", "system_one"}
  /\ history \in UNION {[1..n -> Sizes] : n \in 0..MaxHistory}
  /\ budget \in Budgets /\ content \in Contents /\ width \in Widths
  /\ kept = content /\ marked = FALSE
  /\ start = Len(history) /\ total = Base + width * content - 1
  /\ step = IF provider = "llm" THEN "ask" ELSE "estimate"
  /\ attempt = 0 /\ answer = "none" /\ feedback = FALSE /\ expired = FALSE
  /\ verdict = "none" /\ requests = <<>>

\* What the messages after the first n take.
Rest[n \in 0..Len(history)] ==
  IF n = Len(history) THEN 0 ELSE history[n + 1] + Rest[n + 1]

\* The encoded size of a state without the first n messages, and with k
\* bytes of the content.
Size(n, k, mark) ==
  Base + width * k + (IF mark THEN Marker ELSE 0) + (IF n > 0 THEN Omitted ELSE 0)
    + (IF n = Len(history) THEN 0 ELSE Rest[n] - 1)

-----------------------------------------------------------------------------
(* buildDecisionState *)

Fail == step' = "done" /\ verdict' = "chance"

\* The newest messages, as long as the estimate fits.
Estimate ==
  /\ step = "estimate"
  /\ IF start > 0 /\ total + history[start] <= budget
     THEN start' = start - 1 /\ total' = total + history[start] /\ UNCHANGED step
     ELSE step' = "confirm" /\ UNCHANGED <<start, total>>
  /\ UNCHANGED <<given, kept, marked, askVars, expired>>

\* Mutant: the estimate is taken for the size.
ConfirmEstimate ==
  /\ step = "confirm" /\ step' = IF start < Len(history) THEN "ask" ELSE "cut"
  /\ UNCHANGED <<given, packVars, askVars, expired>>

\* The estimate does not count the number of messages left out.
Confirm ==
  /\ step = "confirm"
  /\ IF Size(start, kept, marked) <= budget THEN step' = "ask" /\ UNCHANGED start
     ELSE IF start = Len(history) THEN step' = "cut" /\ UNCHANGED start
     ELSE start' = start + 1 /\ UNCHANGED step
  /\ UNCHANGED <<given, kept, marked, total, askVars, expired>>

\* By as many bytes as the state is too long, and the mark; not within a rune
\* (here: a byte less).  The mark of the last round counts once more.
Cut ==
  /\ step = "cut"
  /\ LET size == Size(start, kept, marked)
         less == size - budget + Marker IN
     IF size <= budget THEN step' = "ask" /\ UNCHANGED <<kept, marked, verdict>>
     ELSE IF kept = 0 /\ ~marked THEN Fail /\ UNCHANGED <<kept, marked>>
     ELSE /\ \/ kept <= less /\ kept' = 0 /\ marked' = FALSE
             \/ kept > less /\ marked' = TRUE /\ kept' \in {kept - less, kept - less - 1}
          /\ UNCHANGED <<step, verdict>>
  /\ UNCHANGED <<given, start, total, attempt, answer, feedback, requests, expired>>

-----------------------------------------------------------------------------
(* retry.Retry around ask, and around the chat completion of the LLM *)

\* Cancelled by /clear-context or a deletion, or the budget of the decision
\* is used up: a request under way ends with an error.
Expire ==
  /\ ~expired /\ step # "done" /\ expired' = TRUE
  /\ UNCHANGED <<given, packVars, askVars, step>>

Request ==
  [start |-> start, kept |-> kept, marked |-> marked, feedback |-> feedback]

\* The same bytes for every attempt; the LLM is told what was wrong with the
\* answer that could not be read.
Ask ==
  /\ step = "ask"
  /\ IF expired THEN Fail /\ UNCHANGED <<answer, requests>>
     ELSE /\ requests' = Append(requests, Request)
          /\ answer' \in {"yes", "no", "malformed", "transient", "refused"}
          /\ step' = "answered" /\ UNCHANGED verdict
  /\ UNCHANGED <<given, packVars, attempt, feedback, expired>>

\* Rate limits, errors of the server and of the connection, timeouts, and an
\* answer that cannot be read; an error of the request itself is not.
Retryable == answer \in {"malformed", "transient"}

\* The context that ends during a request makes it an error.  An attempt out
\* of time may be retried, and the context is looked at before the next.
Answered ==
  /\ step = "answered"
  /\ IF answer \in {"yes", "no"} THEN step' = "done" /\ verdict' = answer /\ UNCHANGED feedback
     ELSE /\ feedback' = (feedback \/ (provider = "llm" /\ answer = "malformed"))
          /\ IF Retryable /\ attempt < RetryCount
             THEN step' = "wait" /\ UNCHANGED verdict
             ELSE Fail
  /\ UNCHANGED <<given, packVars, attempt, answer, requests, expired>>

\* The delay ends, or the context does.
Wait ==
  /\ step = "wait"
  /\ \/ step' = "ask" /\ attempt' = attempt + 1 /\ UNCHANGED verdict
     \/ expired /\ Fail /\ UNCHANGED attempt
  /\ UNCHANGED <<given, packVars, answer, feedback, requests, expired>>

Next == Estimate \/ Confirm \/ Cut \/ Expire \/ Ask \/ Answered \/ Wait

Spec == Init /\ [][Next]_vars

-----------------------------------------------------------------------------
(* Properties *)

\* Every state that System One is sent fits max_state_bytes and has as much of
\* the history as fits, although the estimate leaves a field out; the message
\* itself is cut only when no history is left, and a decision that is given
\* up had nothing left to cut.
NewestThatFits ==
  provider = "system_one" =>
    /\ \A i \in DOMAIN requests :
         LET r == requests[i] IN
         /\ Size(r.start, r.kept, r.marked) <= budget
         /\ \A n \in 0..Len(history) : Size(n, content, FALSE) <= budget => r.start <= n
         /\ r.kept < content => r.start = Len(history)
    /\ (verdict = "chance" /\ requests = <<>> /\ ~expired) => Size(Len(history), 0, FALSE) > budget
=============================================================================
