------------------------ MODULE ChannelConsolidation ------------------------
(***************************************************************************)
(* The consolidation buffer of one Discord channel (internal/bot): every   *)
(* message handler buffers its message, counts it and may start the batch  *)
(* worker, which hands the oldest messages to the memory service.  All     *)
(* state is keyed by channel, so one channel shows everything.             *)
(*                                                                         *)
(* A message is its snowflake ID; Discord hands them out in order, the     *)
(* handlers run in goroutines of their own and in any order.               *)
(***************************************************************************)
EXTENDS Integers, FiniteSets, Sequences, SequencesExt

CONSTANTS
  MaxMsg,     \* bound: messages posted to the channel
  Intervals,  \* values of consolidation_interval the operator configures
  MaxDepth,   \* maxConsolidationChainDepth
  MaxReloads, \* bound: config reloads and memory service replacements
  Workers     \* bound: worker goroutines alive at the same time

ASSUME ConsolidationAssumption ==
  /\ MaxMsg \in Nat
  /\ Intervals \subseteq Nat \ {0} /\ Intervals # {}
  /\ MaxDepth \in Nat \ {0}
  /\ MaxReloads \in Nat
  /\ IsFiniteSet(Workers)

Ids == 1 .. MaxMsg
NoMark == 0

VARIABLES
  posted,   \* messages posted so far
  hpc,      \* where the handler of each message is
  hcount,   \* the count its increment returned
  warming,  \* history its warm-up loop still has to buffer
  buffer,   \* channelMessageBuffer, in order of arrival
  mark,     \* channelConsolidatedUpTo
  counter,  \* the memory service's counter
  running,  \* channelConsolidating
  wpc, batch, limit, depth, remaining, \* the locals of each worker
  interval, enabled, reloads,          \* the configuration
  how,      \* history: by which paths a message was handed over, in order
  dropped,  \* history: messages the buffer refused or truncated
  offered   \* history: messages given to the buffer, by whomever

handlerVars == <<posted, hpc, hcount, warming>>
bufferVars  == <<buffer, mark>>
workerVars  == <<wpc, batch, limit, depth, remaining>>
configVars  == <<interval, enabled, reloads>>
historyVars == <<how, dropped, offered>>
vars == <<handlerVars, bufferVars, counter, running, workerVars, configVars,
          historyVars>>

HandlerPcs == {"none", "buffer", "count", "trigger", "history", "warm", "done"}
ActivePcs  == {"take", "fetch", "select", "run", "consume", "finish"}
WorkerPcs  == {"idle", "retrigger"} \cup ActivePcs

Init ==
  /\ posted = 0
  /\ hpc = [i \in Ids |-> "none"]
  /\ hcount = [i \in Ids |-> 0]
  /\ warming = [i \in Ids |-> {}]
  /\ buffer = <<>>
  /\ mark = NoMark
  /\ counter = 0
  /\ running = FALSE
  /\ wpc = [w \in Workers |-> "idle"]
  /\ batch = [w \in Workers |-> {}]
  /\ limit = [w \in Workers |-> 0]
  /\ depth = [w \in Workers |-> 0]
  /\ remaining = [w \in Workers |-> 0]
  /\ interval \in Intervals
  /\ enabled = TRUE
  /\ reloads = 0
  /\ how = [i \in Ids |-> <<>>]
  /\ dropped = {} /\ offered = {}

-----------------------------------------------------------------------------
(* The buffer.                                                             *)

Handler(i, l) == hpc' = [hpc EXCEPT ![i] = l]

\* addMessageToChannelBuffer: not below the mark, not twice, and only the
\* newest arrivals when the buffer is over twice the interval.
AddToBuffer(i) ==
  LET max   == 2 * interval
      grown == Append(buffer, i)
      excess == IF Len(grown) > max THEN Len(grown) - max ELSE 0 IN
  /\ offered' = offered \cup {i}
  /\ IF i <= mark
     THEN dropped' = dropped \cup {i} /\ UNCHANGED buffer
     ELSE IF Contains(buffer, i)
     THEN UNCHANGED <<buffer, dropped>>
     ELSE /\ buffer' = SubSeq(grown, excess + 1, Len(grown))
          /\ dropped' = dropped \cup {grown[k] : k \in 1 .. excess}

\* The n oldest members of S.
Oldest(S, n) == {i \in S : Cardinality({j \in S : j <= i}) <= n}
\* sortChronological: the k-th is the one that k members of S do not exceed.
InOrder(S) == [k \in 1 .. Cardinality(S) |->
                 CHOOSE i \in S : Cardinality({j \in S : j <= i}) = k]
\* The n newest members of S.
Newest(S, n) == {i \in S : Cardinality({j \in S : j >= i}) <= n}

\* Mutant: marks the oldest message of the batch.
MarkOldest(S) == IF \E i \in S : i > mark
                 THEN CHOOSE i \in S : i > mark /\ \A j \in S : j > mark => i <= j
                 ELSE mark

\* markConsolidatedLocked
MarkAfter(S) == IF \E i \in S : i > mark
                THEN CHOOSE i \in S : \A j \in S : j <= i
                ELSE mark

-----------------------------------------------------------------------------
(* Starting a worker.                                                      *)

\* The locals of w go with its goroutine.
Exit(w) ==
  /\ wpc' = [wpc EXCEPT ![w] = "idle"]
  /\ batch' = [batch EXCEPT ![w] = {}]
  /\ limit' = [limit EXCEPT ![w] = 0]
  /\ depth' = [depth EXCEPT ![w] = 0]
  /\ remaining' = [remaining EXCEPT ![w] = 0]

\* The goroutine of a new batch, at depth d of its chain.
Spawn(w, d) ==
  /\ running' = TRUE
  /\ wpc' = [wpc EXCEPT ![w] = "take"]
  /\ depth' = [depth EXCEPT ![w] = d]
  /\ remaining' = [remaining EXCEPT ![w] = 0]
  /\ UNCHANGED <<batch, limit>>

\* Mutant: starts without looking at the running flag.
StartUnlocked(w, count, d) ==
  IF d < MaxDepth /\ enabled /\ count >= interval
  THEN Spawn(w, d)
  ELSE Exit(w) /\ UNCHANGED running

\* triggerChannelConsolidationDepth: at most one worker per channel.
Start(w, count, d) ==
  IF d < MaxDepth /\ enabled /\ count >= interval /\ ~ running
  THEN Spawn(w, d)
  ELSE Exit(w) /\ UNCHANGED running

-----------------------------------------------------------------------------
(* The part of onMessageCreate that buffers and counts, and the warm-up of  *)
(* a cold buffer with fetched history.                                     *)

\* A message is posted; its event may never reach the bot.
Post ==
  /\ posted < MaxMsg
  /\ posted' = posted + 1
  /\ \E l \in {"buffer", "done"} : Handler(posted + 1, l)
  /\ UNCHANGED <<hcount, warming, bufferVars, counter, running, workerVars,
                 configVars, historyVars>>

Buffer(i) ==
  /\ hpc[i] = "buffer"
  /\ AddToBuffer(i)
  /\ Handler(i, "count")
  /\ UNCHANGED <<posted, hcount, warming, mark, counter, running, workerVars,
                 configVars, how>>

\* IncrementChannelMessageCount
Count(i) ==
  /\ hpc[i] = "count"
  /\ counter' = counter + 1
  /\ hcount' = [hcount EXCEPT ![i] = counter + 1]
  /\ Handler(i, "trigger")
  /\ UNCHANGED <<posted, warming, bufferVars, running, workerVars, configVars,
                 historyVars>>

Trigger(i) ==
  /\ hpc[i] = "trigger"
  /\ \E w \in Workers : wpc[w] = "idle" /\ Start(w, hcount[i], 0)
  /\ hcount' = [hcount EXCEPT ![i] = 0]
  /\ Handler(i, "history")
  /\ UNCHANGED <<posted, warming, bufferVars, counter, configVars, historyVars>>

\* The handler may go on to fetch the channel's history.  Only an empty
\* buffer is warmed with it, newest message first.
FetchHistory(i) ==
  /\ hpc[i] = "history"
  /\ \/ /\ buffer = <<>>
        /\ \E p \in i .. posted : warming' = [warming EXCEPT ![i] = 1 .. p]
        /\ Handler(i, "warm")
     \/ Handler(i, "done") /\ UNCHANGED warming
  /\ UNCHANGED <<posted, hcount, bufferVars, counter, running, workerVars,
                 configVars, historyVars>>

Warm(i) ==
  /\ hpc[i] = "warm"
  /\ \E j \in Newest(warming[i], 1) :
       /\ AddToBuffer(j)
       /\ warming' = [warming EXCEPT ![i] = @ \ {j}]
       /\ Handler(i, IF warming[i] = {j} THEN "done" ELSE "warm")
  /\ UNCHANGED <<posted, hcount, mark, counter, running, workerVars, configVars, how>>

-----------------------------------------------------------------------------
(* The worker goroutine.                                                   *)

Goto(w, l) == wpc' = [wpc EXCEPT ![w] = l]

\* Hand S to the consolidation by path p.
HandOver(S, p) ==
  how' = [i \in Ids |-> IF i \in S THEN Append(how[i], p) ELSE how[i]]

\* Mutant: takes the oldest messages and empties the buffer.
TakeDropsRest(w) ==
  LET out == Oldest(ToSet(buffer), interval) IN
  /\ wpc[w] = "take"
  /\ buffer' = <<>>
  /\ mark' = MarkAfter(out)
  /\ batch' = [batch EXCEPT ![w] = out]
  /\ limit' = [limit EXCEPT ![w] = interval]
  /\ HandOver(out, "buffer")
  /\ Goto(w, IF out = {} THEN "fetch" ELSE "run")
  /\ UNCHANGED <<handlerVars, counter, running, depth, remaining, configVars, dropped, offered>>

\* takeChannelMessageBatch: the oldest buffered messages.
Take(w) ==
  LET S   == ToSet(buffer)
      out == Oldest(S, interval) IN
  /\ wpc[w] = "take"
  /\ buffer' = InOrder(S \ out)
  /\ mark' = MarkAfter(out)
  /\ batch' = [batch EXCEPT ![w] = out]
  /\ limit' = [limit EXCEPT ![w] = interval]
  /\ HandOver(out, "buffer")
  /\ Goto(w, IF out = {} THEN "fetch" ELSE "run")
  /\ UNCHANGED <<handlerVars, counter, running, depth, remaining, configVars, dropped, offered>>

\* Nothing to do: the flag is released, the counter stays.
GiveUp(w) ==
  /\ running' = FALSE
  /\ Exit(w)
  /\ UNCHANGED <<handlerVars, bufferVars, counter, configVars, historyVars>>

FetchFails(w) == wpc[w] = "fetch" /\ GiveUp(w)

\* The newest messages of the channel, from Discord.
Fetch(w) ==
  /\ wpc[w] = "fetch"
  /\ batch' = [batch EXCEPT ![w] = Newest(1 .. posted, limit[w])]
  /\ Goto(w, "select")
  /\ UNCHANGED <<handlerVars, bufferVars, counter, running, limit, depth, remaining,
                 configVars, historyVars>>

\* selectUnconsolidated
Select(w) ==
  LET out == Oldest({i \in batch[w] : i > mark}, limit[w]) IN
  /\ wpc[w] = "select" /\ out # {}
  /\ mark' = MarkAfter(out)
  /\ batch' = [batch EXCEPT ![w] = out]
  /\ HandOver(out, "fetch")
  /\ Goto(w, "run")
  /\ UNCHANGED <<handlerVars, buffer, counter, running, limit, depth, remaining,
                 configVars, dropped, offered>>

SelectNothing(w) ==
  /\ wpc[w] = "select" /\ \A i \in batch[w] : i <= mark
  /\ GiveUp(w)

\* AnnotateForMemory and ConsolidateChannel, which may fail: the worker goes
\* on the same way.
Run(w) ==
  /\ wpc[w] = "run"
  /\ Goto(w, "consume")
  /\ UNCHANGED <<handlerVars, bufferVars, counter, running, batch, limit, depth,
                 remaining, configVars, historyVars>>

\* ConsumeChannelMessageCount
Consume(w) ==
  LET left == IF counter > Cardinality(batch[w])
              THEN counter - Cardinality(batch[w]) ELSE 0 IN
  /\ wpc[w] = "consume"
  /\ counter' = left
  /\ remaining' = [remaining EXCEPT ![w] = left]
  /\ batch' = [batch EXCEPT ![w] = {}]
  /\ limit' = [limit EXCEPT ![w] = 0]
  /\ Goto(w, "finish")
  /\ UNCHANGED <<handlerVars, bufferVars, running, depth, configVars, historyVars>>

\* finishChannelConsolidation
Finish(w) ==
  /\ wpc[w] = "finish"
  /\ running' = FALSE
  /\ Goto(w, "retrigger")
  /\ UNCHANGED <<handlerVars, bufferVars, counter, batch, limit, depth, remaining,
                 configVars, historyVars>>

\* A backlog of a whole interval starts the next batch of the chain.
Retrigger(w) ==
  /\ wpc[w] = "retrigger"
  /\ Start(w, remaining[w], depth[w] + 1)
  /\ UNCHANGED <<handlerVars, bufferVars, counter, configVars, historyVars>>

-----------------------------------------------------------------------------
\* A config reload changes the settings the bot reads; a change of the memory
\* settings also replaces the memory service, whose counters start at 0.
Reload ==
  /\ reloads < MaxReloads
  /\ reloads' = reloads + 1
  /\ \/ interval' \in Intervals /\ enabled' \in BOOLEAN /\ UNCHANGED counter
     \/ counter' = 0 /\ UNCHANGED <<interval, enabled>>
  /\ UNCHANGED <<handlerVars, bufferVars, running, workerVars, historyVars>>

HandlerStep(i) ==
  Buffer(i) \/ Count(i) \/ Trigger(i) \/ FetchHistory(i) \/ Warm(i)

WorkerStep(w) ==
  \/ Take(w) \/ FetchFails(w) \/ Fetch(w) \/ Select(w) \/ SelectNothing(w)
  \/ Run(w) \/ Consume(w) \/ Finish(w) \/ Retrigger(w)

Next ==
  \/ Post
  \/ \E i \in Ids : HandlerStep(i)
  \/ \E w \in Workers : WorkerStep(w)
  \/ Reload

Spec == Init /\ [][Next]_vars

-----------------------------------------------------------------------------
(* Properties.                                                             *)

TypeOK ==
  /\ posted \in 0 .. MaxMsg
  /\ hpc \in [Ids -> HandlerPcs]
  /\ hcount \in [Ids -> Nat]
  /\ warming \in [Ids -> SUBSET Ids]
  /\ buffer \in Seq(Ids)
  /\ mark \in {NoMark} \cup Ids
  /\ counter \in Nat
  /\ running \in BOOLEAN
  /\ wpc \in [Workers -> WorkerPcs]
  /\ batch \in [Workers -> SUBSET Ids]
  /\ limit \in [Workers -> Nat]
  /\ depth \in [Workers -> 0 .. MaxDepth - 1]
  /\ remaining \in [Workers -> Nat]
  /\ interval \in Intervals
  /\ enabled \in BOOLEAN
  /\ reloads \in 0 .. MaxReloads
  /\ how \in [Ids -> Seq({"buffer", "fetch"})]
  /\ dropped \subseteq Ids /\ offered \subseteq Ids

\* The running flag is set exactly while one worker is between its start and
\* its finish: never two batches of a channel at once, never a flag left
\* behind (docs/ARCHITECTURE.md:275, handlers_consolidation.go:34, 61, 69, 78).
FlagMatchesWorker ==
  /\ running <=> \E w \in Workers : wpc[w] \in ActivePcs
  /\ \A v, w \in Workers : {wpc[v], wpc[w]} \subseteq ActivePcs => v = w

\* A message is handed over at most once by each path, and a message that was
\* taken from the buffer is not selected from fetched history afterwards
\* (session.go:1062, 1096-1135).
NoRepeatAfterBatch ==
  \A i \in Ids : how[i] \in {<<>>, <<"buffer">>, <<"fetch">>, <<"fetch", "buffer">>}

\* A message that was ever given to the buffer, by its own handler or by the
\* warm-up of another's, is accounted for at any later time, long after that
\* handler ended: it waits in the buffer, was handed over, or is one the buffer
\* refused or truncated (session.go:1054-1081, 1096-1114).
NothingVanishes ==
  \A i \in offered : Contains(buffer, i) \/ how[i] # <<>> \/ i \in dropped

==============================================================================
