--------------------- MODULE ChannelConsolidationProofs ---------------------
EXTENDS ChannelConsolidation, FiniteSetTheorems, SequenceTheorems, TLAPS

USE DEF Handler, Goto, handlerVars, bufferVars, workerVars, configVars, historyVars

\* The inductive invariant behind FlagMatchesWorker: it needs only the types
\* of the flag and of the workers' program counters.
FlagInv ==
  /\ wpc \in [Workers -> WorkerPcs]
  /\ running \in BOOLEAN
  /\ FlagMatchesWorker

\* A worker that was not active and is started: the flag was down, so it is the
\* only active one.
LEMMA StartKeepsFlag ==
  ASSUME FlagInv, NEW w \in Workers, wpc[w] \in {"idle", "retrigger"},
         NEW n, NEW d, Start(w, n, d)
  PROVE  FlagInv'
<1> USE DEF FlagInv, FlagMatchesWorker, ActivePcs, WorkerPcs
<1>1. CASE Spawn(w, d) /\ ~ running
  BY <1>1 DEF Spawn
<1>2. CASE Exit(w) /\ UNCHANGED running
  BY <1>2 DEF Exit
<1>3. QED
  BY <1>1, <1>2 DEF Start

\* The active worker goes on, or leaves and takes the flag down.
LEMMA MoveKeepsFlag ==
  ASSUME FlagInv, NEW w \in Workers, wpc[w] \in ActivePcs,
         \/ \E l \in ActivePcs : wpc' = [wpc EXCEPT ![w] = l] /\ running' = running
         \/ \E l \in {"idle", "retrigger"} : wpc' = [wpc EXCEPT ![w] = l]
                                             /\ running' = FALSE
  PROVE  FlagInv'
<1> USE DEF FlagInv, FlagMatchesWorker, ActivePcs, WorkerPcs
<1>1. running /\ \A v \in Workers : wpc[v] \in ActivePcs => v = w
  OBVIOUS
<1>2. CASE \E l \in ActivePcs : wpc' = [wpc EXCEPT ![w] = l] /\ running' = running
  <2>1. wpc'[w] \in ActivePcs /\ running' /\ wpc' \in [Workers -> WorkerPcs]
        /\ \A v \in Workers : v # w => wpc'[v] = wpc[v]
    BY <1>1, <1>2
  <2>2. QED
    BY <1>1, <2>1
<1>3. CASE \E l \in {"idle", "retrigger"} : wpc' = [wpc EXCEPT ![w] = l]
                                            /\ running' = FALSE
  <2>1. wpc'[w] \notin ActivePcs /\ ~ running' /\ wpc' \in [Workers -> WorkerPcs]
        /\ \A v \in Workers : v # w => wpc'[v] = wpc[v]
    BY <1>3
  <2>2. QED
    BY <1>1, <1>3, <2>1
<1>4. QED
  BY <1>2, <1>3

LEMMA FlagStep == FlagInv /\ [Next]_vars => FlagInv'
<1> SUFFICES ASSUME FlagInv, [Next]_vars PROVE FlagInv'
  OBVIOUS
<1>1. ASSUME NEW i \in Ids, Trigger(i) PROVE FlagInv'
  <2>1. PICK w \in Workers : wpc[w] = "idle" /\ Start(w, hcount[i], 0)
    BY <1>1 DEF Trigger
  <2>2. QED
    BY <2>1, StartKeepsFlag
<1>2. ASSUME NEW w \in Workers, Retrigger(w) PROVE FlagInv'
  BY <1>2, StartKeepsFlag DEF Retrigger
<1>3. ASSUME NEW w \in Workers,
             Take(w) \/ Fetch(w) \/ Select(w) \/ Run(w) \/ Consume(w)
      PROVE  FlagInv'
  <2>1. wpc[w] \in ActivePcs /\ \E l \in ActivePcs : wpc' = [wpc EXCEPT ![w] = l]
                                                      /\ running' = running
    BY <1>3 DEF Take, Fetch, Select, Run, Consume, ActivePcs
  <2>2. QED
    BY <2>1, MoveKeepsFlag
<1>4. ASSUME NEW w \in Workers, FetchFails(w) \/ SelectNothing(w) \/ Finish(w)
      PROVE  FlagInv'
  <2>1. wpc[w] \in ActivePcs /\ \E l \in {"idle", "retrigger"} :
                                  wpc' = [wpc EXCEPT ![w] = l] /\ running' = FALSE
    BY <1>4 DEF FetchFails, SelectNothing, GiveUp, Exit, Finish, ActivePcs
  <2>2. QED
    BY <2>1, MoveKeepsFlag
<1>5. CASE \/ Post \/ Reload \/ UNCHANGED vars
           \/ \E i \in Ids : Buffer(i) \/ Count(i) \/ FetchHistory(i) \/ Warm(i)
  <2>1. wpc' = wpc /\ running' = running
    BY <1>5 DEF Post, Reload, vars, Buffer, Count, FetchHistory, Warm
  <2>2. QED
    BY <2>1 DEF FlagInv, FlagMatchesWorker
<1>6. QED
  BY <1>1, <1>2, <1>3, <1>4, <1>5 DEF Next, HandlerStep, WorkerStep

\* "Dedup flag prevents two from running concurrently for the same channel"
\* (docs/ARCHITECTURE.md:275), for any number of messages and workers, any
\* interval and any reload; and the flag is never left set by a worker that
\* is gone (handlers_consolidation.go:34-82).
THEOREM OneBatchAtATime == Spec => []FlagMatchesWorker
<1>1. Init => FlagInv
  BY DEF Init, FlagInv, FlagMatchesWorker, ActivePcs, WorkerPcs
<1>2. FlagInv => FlagMatchesWorker
  BY DEF FlagInv
<1>3. QED
  BY <1>1, <1>2, FlagStep, PTL DEF Spec

-----------------------------------------------------------------------------
(* What sorting keeps.                                                     *)

Rank(S, i) == Cardinality({j \in S : j <= i})

LEMMA IdsFacts == IsFiniteSet(Ids) /\ \A i \in Ids : i \in Nat
BY FS_Interval, ConsolidationAssumption DEF Ids, ConsolidationAssumption

\* The ranks of the members of S are 1 .. Cardinality(S), each of one member.
LEMMA Ranks ==
  ASSUME NEW S \in SUBSET Ids
  PROVE  /\ Cardinality(S) \in Nat /\ \A i \in S : Rank(S, i) \in 1 .. Cardinality(S)
         /\ \A i, j \in S : Rank(S, i) = Rank(S, j) => i = j
         /\ \A k \in 1 .. Cardinality(S) : \E i \in S : Rank(S, i) = k
<1>0. \A i \in S : i \in Nat
  BY IdsFacts
<1>1. IsFiniteSet(S)
  BY IdsFacts, FS_Subset
<1>2. Cardinality(S) \in Nat
  BY <1>1, FS_CardinalityType
<1>3. \A i \in S : Rank(S, i) \in 1 .. Cardinality(S)
  <2> SUFFICES ASSUME NEW i \in S PROVE Rank(S, i) \in 1 .. Cardinality(S)
    OBVIOUS
  <2> DEFINE T == {j \in S : j <= i}
  <2>1. IsFiniteSet(T) /\ Cardinality(T) \in Nat /\ Cardinality(T) <= Cardinality(S)
    BY <1>1, FS_Subset, FS_CardinalityType
  <2>2. i \in T
    BY <1>0
  <2>3. Cardinality(T) # 0
    BY <2>1, <2>2, FS_EmptySet
  <2>4. QED
    BY <1>2, <2>1, <2>3 DEF Rank
<1>4. ASSUME NEW i \in S, NEW j \in S, i < j PROVE Rank(S, i) < Rank(S, j)
  <2> DEFINE T == {k \in S : k <= i}
             U == {k \in S : k <= j}
  <2>1. T \in SUBSET U /\ j \in U /\ j \notin T
    BY <1>0, <1>4
  <2>2. IsFiniteSet(U) /\ IsFiniteSet(T)
    BY <1>1, FS_Subset
  <2> HIDE DEF T, U
  <2>3. Cardinality(T) <= Cardinality(U) /\ Cardinality(T) # Cardinality(U)
    BY <2>1, <2>2, FS_Subset
  <2>4. Cardinality(T) \in Nat /\ Cardinality(U) \in Nat
    BY <2>2, FS_CardinalityType
  <2>5. Cardinality(T) < Cardinality(U)
    BY <2>3, <2>4
  <2>6. QED
    BY <2>5 DEF Rank, T, U
<1>5. \A i, j \in S : Rank(S, i) = Rank(S, j) => i = j
  <2> SUFFICES ASSUME NEW i \in S, NEW j \in S, i # j PROVE Rank(S, i) # Rank(S, j)
    OBVIOUS
  <2>1. i < j \/ j < i
    BY <1>0
  <2>2. Rank(S, i) \in Nat /\ Rank(S, j) \in Nat
    BY <1>2, <1>3
  <2>3. QED
    BY <1>4, <2>1, <2>2
<1>6. \A k \in 1 .. Cardinality(S) : \E i \in S : Rank(S, i) = k
  <2> DEFINE f == [i \in S |-> Rank(S, i)]
             D == 1 .. Cardinality(S)
  <2>1. f \in Injection(S, D)
    BY <1>3, <1>5 DEF Injection, IsInjective
  <2>2. IsFiniteSet(D) /\ Cardinality(D) = Cardinality(S)
    BY <1>2, FS_Interval
  <2> HIDE DEF f, D
  <2>3. f \in Surjection(S, D)
    BY <2>1, <2>2, FS_Injection
  <2>4. \A k \in D : \E i \in S : f[i] = k
    BY <2>3 DEF Surjection
  <2>5. QED
    BY <2>4 DEF f, D
<1>7. QED
  BY <1>2, <1>3, <1>5, <1>6

LEMMA Largest ==
  ASSUME NEW S \in SUBSET Ids, S # {}
  PROVE  \E i \in S : \A j \in S : j <= i
<1>1. IsFiniteSet(S) /\ Cardinality(S) \in Nat \ {0}
  <2>1. IsFiniteSet(S)
    BY IdsFacts, FS_Subset
  <2>2. Cardinality(S) \in Nat /\ Cardinality(S) # 0
    BY <2>1, FS_CardinalityType, FS_EmptySet
  <2>3. QED
    BY <2>1, <2>2
<1>2. PICK i \in S : Rank(S, i) = Cardinality(S)
  BY <1>1, Ranks
<1> DEFINE T == {j \in S : j <= i}
<1>3. T \in SUBSET S /\ Cardinality(T) = Cardinality(S)
  BY <1>2 DEF Rank
<1> HIDE DEF T
<1>4. T = S
  BY <1>1, <1>3, FS_Subset
<1>5. QED
  BY <1>4 DEF T

\* A sorted set has the members of the set.
LEMMA Sorted ==
  ASSUME NEW S \in SUBSET Ids
  PROVE  /\ InOrder(S) \in Seq(Ids)
         /\ \A i : Contains(InOrder(S), i) <=> i \in S
<1> DEFINE n == Cardinality(S)
           at(k) == CHOOSE i \in S : Rank(S, i) = k
<1>1. InOrder(S) = [k \in 1 .. n |-> at(k)]
  BY DEF InOrder, Rank
<1>2. n \in Nat
  BY Ranks
<1>3. \A k \in 1 .. n : at(k) \in S /\ Rank(S, at(k)) = k
  BY Ranks
<1>4. \A i \in S : Rank(S, i) \in 1 .. n /\ at(Rank(S, i)) = i
  BY <1>3, Ranks
<1> HIDE DEF n, at
<1>5. InOrder(S) \in Seq(S) /\ Len(InOrder(S)) = n
  BY <1>1, <1>2, <1>3
<1>6. \A k \in 1 .. n : InOrder(S)[k] = at(k)
  BY <1>1
<1>7. \A i : Contains(InOrder(S), i) <=> i \in S
  BY <1>3, <1>4, <1>5, <1>6 DEF Contains
<1>8. QED
  BY <1>5, <1>7

-----------------------------------------------------------------------------
(* Handing over                                                            *)

\* What was handed over is below the mark; what was taken from the buffer has
\* left it, and the mark keeps it out.
HandedOver ==
  \A i \in Ids :
    \/ how[i] = <<>>
    \/ /\ i <= mark
       /\ \/ how[i] = <<"fetch">>
          \/ how[i] \in {<<"buffer">>, <<"fetch", "buffer">>} /\ ~ Contains(buffer, i)

BufferTypes ==
  /\ buffer \in Seq(Ids) /\ mark \in Nat /\ interval \in Nat
  /\ hpc \in [Ids -> HandlerPcs] /\ warming \in [Ids -> SUBSET Ids]
  /\ posted \in 0 .. MaxMsg /\ batch \in [Workers -> SUBSET Ids]
  /\ DOMAIN how = Ids /\ dropped \subseteq Ids /\ offered \subseteq Ids

BufferInv == BufferTypes /\ HandedOver /\ NothingVanishes

\* A message that arrives joins the buffer only above the mark, and who leaves
\* the buffer for it is noted.
LEMMA Arrivals ==
  ASSUME BufferTypes, NEW i \in Ids, AddToBuffer(i)
  PROVE  /\ buffer' \in Seq(Ids) /\ dropped' \subseteq Ids /\ dropped \subseteq dropped'
         /\ \A j \in Ids : Contains(buffer', j) => Contains(buffer, j) \/ (j = i /\ i > mark)
         /\ \A j \in Ids : Contains(buffer, j) => Contains(buffer', j) \/ j \in dropped'
         /\ Contains(buffer', i) \/ i \in dropped'
         /\ offered' = offered \cup {i}
<1> DEFINE grown == Append(buffer, i)
           excess == IF Len(grown) > 2 * interval THEN Len(grown) - 2 * interval ELSE 0
<1>0. buffer \in Seq(Ids) /\ interval \in Nat /\ mark \in Nat /\ dropped \subseteq Ids /\ i \in Nat
  BY IdsFacts DEF BufferTypes
<1>4. offered' = offered \cup {i}
  BY DEF AddToBuffer
<1>1. CASE i <= mark
  BY <1>0, <1>1 DEF AddToBuffer, Contains
<1>2. CASE ~ (i <= mark) /\ Contains(buffer, i)
  BY <1>0, <1>2 DEF AddToBuffer
<1>3. CASE ~ (i <= mark) /\ ~ Contains(buffer, i)
  <2>1. /\ buffer' = SubSeq(grown, excess + 1, Len(grown))
        /\ dropped' = dropped \cup {grown[k] : k \in 1 .. excess}
    BY <1>3 DEF AddToBuffer
  <2>2. /\ grown \in Seq(Ids) /\ Len(grown) \in Nat /\ Len(grown) = Len(buffer) + 1
        /\ \A k \in 1 .. Len(grown) : grown[k] = IF k = Len(grown) THEN i ELSE buffer[k]
    BY <1>0
  <2>3. excess \in 0 .. Len(grown)
    BY <1>0, <2>2
  <2> HIDE DEF grown, excess
  <2>4. /\ buffer' \in Seq(Ids) /\ Len(buffer') = Len(grown) - excess
        /\ \A k \in 1 .. Len(buffer') : buffer'[k] = grown[k + excess]
    BY <2>1, <2>2, <2>3
  <2>5. dropped' \subseteq Ids
    <3>1. \A k \in 1 .. excess : grown[k] \in Ids
      BY <2>2, <2>3
    <3>2. QED
      BY <1>0, <2>1, <3>1
  <2>6. \A k \in 1 .. Len(grown) : Contains(buffer', grown[k]) \/ grown[k] \in dropped'
    <3> SUFFICES ASSUME NEW k \in 1 .. Len(grown) PROVE Contains(buffer', grown[k]) \/ grown[k] \in dropped'
      OBVIOUS
    <3>1. CASE k <= excess
      BY <2>1, <2>3, <3>1
    <3>2. CASE k > excess
      <4>1. k - excess \in 1 .. Len(buffer') /\ buffer'[k - excess] = grown[k]
        BY <2>2, <2>3, <2>4, <3>2
      <4>2. QED
        BY <4>1 DEF Contains
    <3>3. QED
      BY <2>2, <2>3, <3>1, <3>2
  <2>7. ASSUME NEW j \in Ids, Contains(buffer', j) PROVE Contains(buffer, j) \/ j = i
    <3>1. PICK k \in 1 .. Len(buffer') : buffer'[k] = j
      BY <2>7 DEF Contains
    <3>2. k + excess \in 1 .. Len(grown) /\ grown[k + excess] = j
      BY <2>2, <2>3, <2>4, <3>1
    <3>3. QED
      BY <1>0, <2>2, <3>2 DEF Contains
  <2>8. ASSUME NEW j \in Ids, Contains(buffer, j) \/ j = i PROVE \E k \in 1 .. Len(grown) : grown[k] = j
    BY <1>0, <2>2, <2>8 DEF Contains
  <2>9. \A j \in Ids : Contains(buffer, j) \/ j = i => Contains(buffer', j) \/ j \in dropped'
    BY <2>6, <2>8
  <2>10. i > mark /\ dropped \subseteq dropped'
    BY <1>0, <1>3, <2>1
  <2>11. QED
    BY <1>4, <2>4, <2>5, <2>7, <2>9, <2>10
<1>5. QED
  BY <1>1, <1>2, <1>3, <1>4

\* A batch moves the mark to or above all its messages.
LEMMA Marking ==
  ASSUME NEW S \in SUBSET Ids, mark \in Nat
  PROVE  /\ MarkAfter(S) \in Nat /\ mark <= MarkAfter(S)
         /\ \A i \in S : i <= MarkAfter(S)
<1>0. \A i \in S : i \in Nat
  BY IdsFacts
<1>1. CASE \E i \in S : i > mark
  <2> DEFINE m == CHOOSE i \in S : \A j \in S : j <= i
  <2>1. m \in S /\ \A j \in S : j <= m
    BY <1>1, Largest
  <2>2. MarkAfter(S) = m
    BY <1>1 DEF MarkAfter
  <2> HIDE DEF m
  <2>3. QED
    BY <1>0, <1>1, <2>1, <2>2
<1>2. CASE ~ \E i \in S : i > mark
  BY <1>0, <1>2 DEF MarkAfter
<1>3. QED
  BY <1>1, <1>2

\* Nothing of the buffer, the mark or the history changes.
LEMMA BufferStays ==
  ASSUME BufferInv, UNCHANGED <<buffer, mark, how, dropped, offered>>,
         hpc' \in [Ids -> HandlerPcs], warming' \in [Ids -> SUBSET Ids],
         posted' \in 0 .. MaxMsg, batch' \in [Workers -> SUBSET Ids], interval' \in Nat
  PROVE  BufferInv'
BY DEF BufferInv, BufferTypes, HandedOver, NothingVanishes, Contains

LEMMA ArrivalSteps ==
  ASSUME BufferInv, NEW i \in Ids, Buffer(i) \/ Warm(i)
  PROVE  BufferInv'
<1>0. BufferTypes /\ HandedOver /\ NothingVanishes
  BY DEF BufferInv
<1>1. PICK j \in Ids : /\ AddToBuffer(j)
                       /\ warming' \in [Ids -> SUBSET Ids]
  <2>1. CASE Buffer(i)
    BY <1>0, <2>1 DEF Buffer, BufferTypes
  <2>2. CASE Warm(i) /\ ~ Buffer(i)
    <3>1. PICK j \in Newest(warming[i], 1) :
            AddToBuffer(j) /\ warming' = [warming EXCEPT ![i] = @ \ {j}]
      BY <2>2 DEF Warm
    <3>2. warming \in [Ids -> SUBSET Ids]
      BY <1>0 DEF BufferTypes
    <3>3. j \in Ids
      BY <3>2 DEF Newest
    <3>4. QED
      BY <2>2, <3>1, <3>2, <3>3
  <2>3. QED
    BY <2>1, <2>2
<1>2. PICK l \in HandlerPcs : hpc' = [hpc EXCEPT ![i] = l]
  BY DEF Buffer, Warm, HandlerPcs
<1>3. UNCHANGED <<posted, batch, mark, how, interval>>
  BY DEF Buffer, Warm
<1>4. BufferTypes'
  BY <1>0, <1>1, <1>2, <1>3, Arrivals DEF BufferTypes
<1>5. HandedOver'
  <2> SUFFICES ASSUME NEW k \in Ids, how[k] # <<>>, k <= mark, ~ Contains(buffer, k)
               PROVE  ~ Contains(buffer', k)
    BY <1>0, <1>3 DEF HandedOver, Contains
  <2>1. ~ (k > mark)
    BY <1>0, IdsFacts DEF BufferTypes
  <2>2. QED
    BY <1>0, <1>1, <2>1, Arrivals
<1>6. NothingVanishes'
  <2> SUFFICES ASSUME NEW k \in offered'
               PROVE  Contains(buffer', k) \/ how[k] # <<>> \/ k \in dropped'
    BY <1>3 DEF NothingVanishes, Contains
  <2>1. k \in offered \/ k = j
    BY <1>0, <1>1, Arrivals
  <2>2. CASE k = j
    BY <1>0, <1>1, <2>2, Arrivals
  <2>3. CASE k \in offered
    <3>1. k \in Ids
      BY <1>0, <2>3 DEF BufferTypes
    <3>2. QED
      BY <1>0, <1>1, <2>3, <3>1, Arrivals DEF NothingVanishes
  <2>4. QED
    BY <2>1, <2>2, <2>3
<1>7. QED
  BY <1>4, <1>5, <1>6 DEF BufferInv

LEMMA Paths ==
  /\ Append(<<>>, "fetch") = <<"fetch">> /\ Append(<<>>, "buffer") = <<"buffer">>
  /\ Append(<<"fetch">>, "buffer") = <<"fetch", "buffer">>
<1>1. Append(<<>>, "fetch") = <<"fetch">>
  OBVIOUS
<1>2. Append(<<>>, "buffer") = <<"buffer">>
  OBVIOUS
<1>3. Append(<<"fetch">>, "buffer") = <<"fetch", "buffer">>
  <2> DEFINE T == {"fetch", "buffer"}
             s == Append(<<"fetch">>, "buffer")
             t == <<"fetch", "buffer">>
  <2>1. s \in Seq(T) /\ Len(s) = 2 /\ s[1] = "fetch" /\ s[2] = "buffer"
    OBVIOUS
  <2>2. t \in Seq(T) /\ Len(t) = 2 /\ t[1] = "fetch" /\ t[2] = "buffer"
    OBVIOUS
  <2> HIDE DEF T, s, t
  <2>3. \A k \in 1 .. Len(s) : s[k] = t[k]
    BY <2>1, <2>2
  <2>4. s = t
    BY <2>1, <2>2, <2>3, SeqEqual
  <2>5. QED
    BY <2>4 DEF s, t
<1>4. QED
  BY <1>1, <1>2, <1>3

\* A batch S is handed over by path p and the buffer keeps the rest.
LEMMA HandOverSteps ==
  ASSUME BufferInv, NEW S \in SUBSET Ids, NEW p \in {"buffer", "fetch"}, HandOver(S, p),
         mark' = MarkAfter(S), buffer' \in Seq(Ids), batch' \in [Workers -> SUBSET Ids],
         \A i \in Ids : Contains(buffer', i)
                          <=> Contains(buffer, i) /\ (p = "buffer" => i \notin S),
         p = "buffer" => \A i \in S : Contains(buffer, i),
         p = "fetch" => \A i \in S : i > mark,
         UNCHANGED <<posted, hpc, warming, interval, dropped, offered>>
  PROVE  BufferInv'
<1>0. BufferTypes /\ HandedOver /\ NothingVanishes /\ mark \in Nat
  BY DEF BufferInv, BufferTypes
<1>1. how' = [i \in Ids |-> IF i \in S THEN Append(how[i], p) ELSE how[i]]
  BY DEF HandOver
<1>2. mark' \in Nat /\ mark <= mark' /\ \A i \in S : i <= mark'
  BY <1>0, Marking
<1>3. BufferTypes'
  BY <1>0, <1>1, <1>2 DEF BufferTypes
<1>4. ASSUME NEW i \in S
      PROVE  /\ how[i] = <<>> \/ (p = "buffer" /\ how[i] = <<"fetch">>)
             /\ how'[i] \in {<<"buffer">>, <<"fetch">>, <<"fetch", "buffer">>}
             /\ how'[i] # <<"fetch">> => p = "buffer"
  <2>1. p = "fetch" => how[i] = <<>>
    BY <1>0, IdsFacts DEF HandedOver
  <2>2. p = "buffer" => how[i] = <<>> \/ how[i] = <<"fetch">>
    BY <1>0 DEF HandedOver
  <2>3. how'[i] = Append(how[i], p)
    BY <1>1
  <2>4. CASE p = "fetch"
    BY <2>1, <2>3, <2>4, Paths, Zenon
  <2>5. CASE p = "buffer"
    BY <2>2, <2>3, <2>5, Paths, Zenon
  <2>6. QED
    BY <2>4, <2>5
<1>5. HandedOver'
  <2> SUFFICES ASSUME NEW i \in Ids
               PROVE  \/ how'[i] = <<>>
                      \/ /\ i <= mark'
                         /\ \/ how'[i] = <<"fetch">>
                            \/ /\ how'[i] \in {<<"buffer">>, <<"fetch", "buffer">>}
                               /\ ~ Contains(buffer', i)
    BY DEF HandedOver, Contains
  <2>1. CASE i \in S
    <3>1. p = "buffer" => ~ Contains(buffer', i)
      BY <2>1
    <3>2. i <= mark'
      BY <1>2, <2>1
    <3>3. QED
      BY <1>4, <2>1, <3>1, <3>2, Zenon
  <2>2. CASE i \notin S
    <3>1. how'[i] = how[i]
      BY <1>1, <2>2
    <3>2. i <= mark => i <= mark'
      BY <1>0, <1>2, IdsFacts
    <3>3. QED
      BY <1>0, <3>1, <3>2 DEF HandedOver
  <2>3. QED
    BY <2>1, <2>2
<1>6. NothingVanishes'
  <2> SUFFICES ASSUME NEW i \in offered
               PROVE  Contains(buffer', i) \/ how'[i] # <<>> \/ i \in dropped
    BY DEF NothingVanishes, Contains
  <2>1. CASE i \in S
    <3>1. how'[i] \in {<<"buffer">>, <<"fetch">>, <<"fetch", "buffer">>}
      BY <1>4, <2>1
    <3>2. <<"buffer">> # <<>> /\ <<"fetch">> # <<>> /\ <<"fetch", "buffer">> # <<>>
      OBVIOUS
    <3>3. how'[i] # <<>>
      BY <3>1, <3>2, Zenon
    <3>4. QED
      BY <3>3
  <2>2. CASE i \notin S
    <3>1. i \in Ids
      BY <1>0 DEF BufferTypes
    <3>2. how'[i] = how[i] /\ (Contains(buffer, i) => Contains(buffer', i))
      BY <1>1, <2>2, <3>1
    <3>3. QED
      BY <1>0, <3>2 DEF NothingVanishes
  <2>3. QED
    BY <2>1, <2>2
<1>7. QED
  BY <1>3, <1>5, <1>6 DEF BufferInv

LEMMA BatchSteps ==
  ASSUME BufferInv, NEW w \in Workers, Take(w) \/ Select(w)
  PROVE  BufferInv'
<1>0. buffer \in Seq(Ids) /\ batch \in [Workers -> SUBSET Ids] /\ mark \in Nat
  BY DEF BufferInv, BufferTypes
<1>1. CASE Take(w)
  <2> DEFINE S == ToSet(buffer)
             out == Oldest(S, interval)
  <2>1. /\ buffer' = InOrder(S \ out) /\ mark' = MarkAfter(out)
        /\ batch' = [batch EXCEPT ![w] = out] /\ HandOver(out, "buffer")
        /\ UNCHANGED <<posted, hpc, warming, interval, dropped, offered>>
    BY <1>1 DEF Take
  <2>2. S \subseteq Ids /\ \A i \in Ids : i \in S <=> Contains(buffer, i)
    BY <1>0 DEF ToSet, Contains
  <2>3. out \subseteq S
    BY DEF Oldest
  <2> HIDE DEF S, out
  <2>4. batch' \in [Workers -> SUBSET Ids] /\ out \in SUBSET Ids /\ S \ out \in SUBSET Ids
    BY <1>0, <2>1, <2>2, <2>3
  <2>5. buffer' \in Seq(Ids) /\ \A i \in Ids : Contains(buffer', i) <=> i \in S \ out
    BY <2>1, <2>4, Sorted
  <2>6. QED
    BY <2>1, <2>2, <2>3, <2>4, <2>5, HandOverSteps
<1>2. CASE Select(w)
  <2> DEFINE out == Oldest({i \in batch[w] : i > mark}, limit[w])
  <2>1. /\ mark' = MarkAfter(out) /\ batch' = [batch EXCEPT ![w] = out] /\ HandOver(out, "fetch")
        /\ UNCHANGED <<buffer, posted, hpc, warming, interval, dropped, offered>>
    BY <1>2 DEF Select
  <2>2. out \in SUBSET Ids /\ \A i \in out : i > mark
    BY <1>0 DEF Oldest
  <2> HIDE DEF out
  <2>3. batch' \in [Workers -> SUBSET Ids]
    BY <1>0, <2>1, <2>2
  <2>4. QED
    BY <1>0, <2>1, <2>2, <2>3, HandOverSteps
<1>3. QED
  BY <1>1, <1>2

LEMMA BufferStep == BufferInv /\ [Next]_vars => BufferInv'
<1> SUFFICES ASSUME BufferInv, [Next]_vars PROVE BufferInv'
  OBVIOUS
<1>0. BufferTypes
  BY DEF BufferInv
<1>1. CASE UNCHANGED vars
  BY <1>0, <1>1, BufferStays DEF vars, BufferTypes
<1>2. CASE Post
  <2>1. PICK l \in {"buffer", "done"} : hpc' = [hpc EXCEPT ![posted + 1] = l]
    BY <1>2 DEF Post
  <2>2. UNCHANGED <<buffer, mark, how, dropped, offered, warming, batch, interval>> /\ posted' \in 0 .. MaxMsg
    BY <1>0, <1>2, ConsolidationAssumption DEF Post, BufferTypes, ConsolidationAssumption
  <2>3. hpc' \in [Ids -> HandlerPcs]
    BY <1>0, <2>1 DEF BufferTypes, HandlerPcs
  <2>4. QED
    BY <1>0, <2>2, <2>3, BufferStays DEF BufferTypes
<1>3. ASSUME NEW i \in Ids, Count(i) \/ Trigger(i) \/ FetchHistory(i) PROVE BufferInv'
  <2>1. /\ UNCHANGED <<buffer, mark, how, dropped, offered, posted, interval>>
        /\ \E l \in HandlerPcs : hpc' = [hpc EXCEPT ![i] = l]
    BY <1>3 DEF Count, Trigger, FetchHistory, HandlerPcs
  <2>2. warming' \in [Ids -> SUBSET Ids]
    <3>1. CASE UNCHANGED warming
      BY <1>0, <3>1 DEF BufferTypes
    <3>2. CASE \E p \in i .. posted : warming' = [warming EXCEPT ![i] = 1 .. p]
      BY <1>0, <3>2, IdsFacts, ConsolidationAssumption DEF BufferTypes, Ids, ConsolidationAssumption
    <3>3. QED
      BY <1>3, <3>1, <3>2 DEF Count, Trigger, FetchHistory
  <2>3. batch' \in [Workers -> SUBSET Ids]
    BY <1>0, <1>3 DEF Count, Trigger, FetchHistory, Start, Spawn, Exit, BufferTypes
  <2>4. hpc' \in [Ids -> HandlerPcs]
    BY <1>0, <2>1 DEF BufferTypes
  <2>5. QED
    BY <1>0, <2>1, <2>2, <2>3, <2>4, BufferStays DEF BufferTypes
<1>4. ASSUME NEW w \in Workers,
             \/ FetchFails(w) \/ Fetch(w) \/ SelectNothing(w) \/ Run(w) \/ Consume(w)
             \/ Finish(w) \/ Retrigger(w)
      PROVE  BufferInv'
  <2>1. UNCHANGED <<buffer, mark, how, dropped, offered, posted, hpc, warming, interval>>
    BY <1>4 DEF FetchFails, Fetch, SelectNothing, Run, Consume, Finish, Retrigger, GiveUp
  <2>2. batch' \in [Workers -> SUBSET Ids]
    <3>1. Newest(1 .. posted, limit[w]) \subseteq Ids
      BY <1>0, ConsolidationAssumption DEF Newest, Ids, BufferTypes, ConsolidationAssumption
    <3>2. UNCHANGED batch \/ batch' = [batch EXCEPT ![w] = {}]
            \/ batch' = [batch EXCEPT ![w] = Newest(1 .. posted, limit[w])]
      BY <1>4 DEF FetchFails, Fetch, SelectNothing, Run, Consume, Finish, Retrigger, GiveUp,
             Start, Spawn, Exit
    <3>3. QED
      BY <1>0, <3>1, <3>2 DEF BufferTypes
  <2>3. QED
    BY <1>0, <2>1, <2>2, BufferStays DEF BufferTypes
<1>5. CASE Reload
  <2>1. UNCHANGED <<buffer, mark, how, dropped, offered, posted, hpc, warming, batch>>
    BY <1>5 DEF Reload
  <2>2. interval' \in Nat
    BY <1>0, <1>5, ConsolidationAssumption DEF Reload, BufferTypes, ConsolidationAssumption
  <2>3. QED
    BY <1>0, <2>1, <2>2, BufferStays DEF BufferTypes
<1>6. QED
  BY <1>1, <1>2, <1>3, <1>4, <1>5, ArrivalSteps, BatchSteps DEF Next, HandlerStep, WorkerStep

THEOREM BufferInvariant == Spec => []BufferInv
<1>1. Init => BufferInv
  <2> SUFFICES ASSUME Init PROVE BufferInv
    OBVIOUS
  <2>1. BufferTypes
    BY ConsolidationAssumption DEF Init, BufferTypes, HandlerPcs, NoMark, ConsolidationAssumption
  <2>2. HandedOver /\ NothingVanishes
    BY DEF Init, HandedOver, NothingVanishes
  <2>3. QED
    BY <2>1, <2>2 DEF BufferInv
<1>2. QED
  BY <1>1, BufferStep, PTL DEF Spec

\* No message is consolidated twice from the buffer or twice from fetched
\* history, and none is fetched after it was taken from the buffer, for any
\* order of the handlers and the workers (takeChannelMessageBatch and
\* selectUnconsolidated, session.go:1096-1135).
THEOREM NoMessageTwice == Spec => []NoRepeatAfterBatch
<1>1. BufferInv => NoRepeatAfterBatch
  BY DEF BufferInv, HandedOver, NoRepeatAfterBatch
<1>2. QED
  BY <1>1, BufferInvariant, PTL

\* A message once given to the buffer, by its own handler or by a warm-up, is
\* at any later time in the buffer, handed over, or on record as refused or
\* truncated: a batch that sorts and takes the oldest loses none of the rest,
\* for any number of messages and workers (session.go:1054-1114).
THEOREM AcceptedIsAccountedFor == Spec => []NothingVanishes
<1>1. BufferInv => NothingVanishes
  BY DEF BufferInv
<1>2. QED
  BY <1>1, BufferInvariant, PTL
==============================================================================
