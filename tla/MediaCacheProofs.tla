-------------------------- MODULE MediaCacheProofs --------------------------
EXTENDS MediaCache, TLAPS

USE DEF cacheVars, limitVars, threadVars, reloadVars

CallPcs == {"compute", "store", "release"}
Entry == [kind : {"absent", "text", "failure"}, ver : Nat, at : Nat, used : Nat]

CacheTypes ==
  /\ now \in Nat
  /\ entries \in [Keys -> Entry]
  /\ inflight \in [Keys -> Threads \cup {NoThread}]
  /\ version \in [Kinds -> Nat] /\ installed \in [Kinds -> Nat]
  /\ pc \in [Threads -> {"idle", "do", "wait"} \cup CallPcs]
  /\ key \in [Threads -> Keys \cup {NoKey}]
  /\ proc \in [Threads -> Nat]

\* A call in progress is the one its key is in flight with, and until its
\* result is stored the cache holds nothing under that key.
CallsRegistered ==
  \A t \in Threads :
    /\ pc[t] # "idle" => key[t] \in Keys
    /\ pc[t] \in CallPcs => inflight[key[t]] = t
    /\ pc[t] \in {"compute", "store"} => entries[key[t]].kind = "absent"

CacheInv == CacheTypes /\ CallsRegistered

-----------------------------------------------------------------------------
(* What pruning may do to the entries.                                     *)

\* Dropping a set of keys leaves the other entries as they are.
LEMMA WithoutFact ==
  ASSUME NEW es \in [Keys -> Entry], NEW S
  PROVE  /\ Without(es, S) \in [Keys -> Entry]
         /\ \A k \in Keys : Without(es, S)[k] = es[k] \/ Without(es, S)[k] = Absent
         /\ \A k \in Keys : k \notin S => Without(es, S)[k] = es[k]
BY DEF Without, Absent, Entry

\* pruneLocked only drops entries, and never a pinned text.
LEMMA PrunedFact ==
  ASSUME NEW es \in [Keys -> Entry], NEW pin, NEW life, NEW bound,
         NEW next \in Pruned(es, pin, life, bound)
  PROVE  /\ next \in [Keys -> Entry]
         /\ \A k \in Keys : next[k] = es[k] \/ next[k] = Absent
         /\ \A k \in Keys : pin[k] > 0 /\ es[k].kind = "text" => next[k] = es[k]
<1> DEFINE gone == {k \in Present(es) : Expired(es, pin, life, k)}
           live == Without(es, gone)
           evictable == {k \in Present(live) : ~ Pinned(pin, k) \/ live[k].kind # "text"}
<1>1. /\ live \in [Keys -> Entry]
      /\ \A k \in Keys : live[k] = es[k] \/ live[k] = Absent
      /\ \A k \in Keys : k \notin gone => live[k] = es[k]
  BY WithoutFact
<1>2. \A k \in Keys : pin[k] > 0 /\ es[k].kind = "text" => k \notin gone
  BY DEF Expired, Pinned
<1>3. CASE next = live
  BY <1>1, <1>2, <1>3
<1>4. CASE \E S \in SUBSET evictable : next = Without(live, S)
  <2>1. PICK S \in SUBSET evictable : next = Without(live, S)
    BY <1>4
  <2>2. /\ next \in [Keys -> Entry]
        /\ \A k \in Keys : next[k] = live[k] \/ next[k] = Absent
        /\ \A k \in Keys : k \notin S => next[k] = live[k]
    BY <1>1, <2>1, WithoutFact
  <2>3. \A k \in Keys : pin[k] > 0 /\ es[k].kind = "text" => k \notin S
    BY <1>1, <1>2, <2>1 DEF Pinned
  <2>4. QED
    BY <1>1, <1>2, <2>2, <2>3
<1>5. next = live \/ \E S \in SUBSET evictable : next = Without(live, S)
  BY DEF Pruned, DropOldest
<1>6. QED
  BY <1>3, <1>4, <1>5

-----------------------------------------------------------------------------
(* The invariant.                                                          *)

\* A step that moves no thread and no call, and adds no entry.
LEMMA EntriesOnly ==
  ASSUME CacheInv, UNCHANGED <<pc, key, proc, inflight>>,
         now' \in Nat, version' \in [Kinds -> Nat], installed' \in [Kinds -> Nat],
         entries' \in [Keys -> Entry],
         \A k \in Keys : entries[k].kind = "absent" => entries'[k].kind = "absent"
  PROVE  CacheInv'
BY DEF CacheInv, CacheTypes, CallsRegistered

\* Get, Pin, Prune and the steps of a reload only drop or refresh.
LEMMA OperationStep ==
  ASSUME CacheInv,
         \/ \E k \in Keys : Get(k)
         \/ \E c \in Channels, S \in SUBSET Keys : Pin(c, S)
         \/ Prune \/ SetLimits \/ Install \/ Tick
         \/ \E d \in Kinds : Invalidate(d)
  PROVE  CacheInv'
<1> USE DEF CacheInv, CacheTypes
<1>1. ASSUME NEW k \in Keys, Get(k) PROVE CacheInv'
  <2>1. Absent \in Entry /\ [entries[k] EXCEPT !.used = now] \in Entry
        /\ [entries[k] EXCEPT !.used = now].kind = entries[k].kind
    BY DEF Entry, Absent
  <2>2. entries[k].kind # "absent"
    BY <1>1 DEF Get
  <2>3. \/ entries' = [entries EXCEPT ![k] = Absent]
        \/ entries' = [entries EXCEPT ![k] = [entries[k] EXCEPT !.used = now]]
        \/ entries' = entries
    BY <1>1 DEF Get
  <2>4. /\ entries' \in [Keys -> Entry]
        /\ \A l \in Keys : entries[l].kind = "absent" => entries'[l].kind = "absent"
    BY <2>1, <2>2, <2>3
  <2>5. QED
    BY <1>1, <2>4, EntriesOnly DEF Get
<1>2. ASSUME NEW c \in Channels, NEW S \in SUBSET Keys, Pin(c, S) PROVE CacheInv'
  <2> DEFINE touched == Touched(pins[c])
  <2>1. touched \in [Keys -> Entry]
        /\ \A k \in Keys : touched[k].kind = entries[k].kind
    BY DEF Touched, Entry
  <2>2. entries' \in Pruned(touched, Repinned(c, S), ttl, max)
    BY <1>2 DEF Pin
  <2>3. /\ entries' \in [Keys -> Entry]
        /\ \A k \in Keys : entries'[k] = touched[k] \/ entries'[k] = Absent
    BY <2>1, <2>2, PrunedFact
  <2>4. \A k \in Keys : entries[k].kind = "absent" => entries'[k].kind = "absent"
    BY <2>1, <2>3 DEF Absent
  <2>5. QED
    BY <1>2, <2>3, <2>4, EntriesOnly DEF Pin
<1>3. ASSUME Prune PROVE CacheInv'
  <2>1. /\ entries' \in [Keys -> Entry]
        /\ \A k \in Keys : entries'[k] = entries[k] \/ entries'[k] = Absent
    BY <1>3, PrunedFact DEF Prune
  <2>2. QED
    BY <1>3, <2>1, EntriesOnly DEF Prune, Absent
<1>4. ASSUME SetLimits PROVE CacheInv'
  <2>1. PICK life, bound : entries' \in Pruned(entries, pinned, life, bound)
    BY <1>4 DEF SetLimits
  <2>2. /\ entries' \in [Keys -> Entry]
        /\ \A k \in Keys : entries'[k] = entries[k] \/ entries'[k] = Absent
    BY <2>1, PrunedFact
  <2>3. QED
    BY <1>4, <2>2, EntriesOnly DEF SetLimits, Absent
<1>5. ASSUME Tick \/ Install PROVE CacheInv'
  BY <1>5, EntriesOnly DEF Tick, Install
<1>6. ASSUME NEW d \in Kinds, Invalidate(d) PROVE CacheInv'
  <2>1. /\ entries' \in [Keys -> Entry]
        /\ \A k \in Keys : entries'[k] = entries[k] \/ entries'[k] = Absent
    BY <1>6, WithoutFact DEF Invalidate, DropKind
  <2>2. version' \in [Kinds -> Nat]
    BY <1>6 DEF Invalidate
  <2>3. QED
    BY <1>6, <2>1, <2>2, EntriesOnly DEF Invalidate, Absent
<1>7. QED
  BY <1>1, <1>2, <1>3, <1>4, <1>5, <1>6

\* Returning threads take their locals with them.
LEMMA ReturnFact ==
  ASSUME CacheTypes, NEW T \in SUBSET Threads, Return(T)
  PROVE  /\ pc' \in [Threads -> {"idle", "do", "wait"} \cup CallPcs]
         /\ key' \in [Threads -> Keys \cup {NoKey}]
         /\ proc' \in [Threads -> Nat]
         /\ \A t \in T : pc'[t] = "idle"
         /\ \A t \in Threads : t \notin T => pc'[t] = pc[t] /\ key'[t] = key[t]
BY DEF Return, CacheTypes

\* Each step of Do keeps the calls registered.
LEMMA DoKeepsInv ==
  ASSUME CacheInv, NEW t \in Threads, Acquire(t) \/ DoStep(t)
  PROVE  CacheInv'
<1> USE DEF CacheInv, CacheTypes, CallsRegistered, CallPcs
<1>1. CASE Acquire(t)
  <2>1. PICK k \in Keys : /\ key' = [key EXCEPT ![t] = k]
                          /\ proc' = [proc EXCEPT ![t] = installed[KindOf[k]]]
    BY <1>1 DEF Acquire
  <2>2. installed[KindOf[k]] \in Nat
    BY CacheAssumption
  <2>3. QED
    BY <1>1, <2>1, <2>2 DEF Acquire
<1>2. CASE Hit(t)
  <2>1. key[t] \in Keys /\ entries[key[t]].kind # "absent"
    BY <1>2 DEF Hit, Missing
  <2>2. [entries[key[t]] EXCEPT !.used = now] \in Entry
        /\ [entries[key[t]] EXCEPT !.used = now].kind = entries[key[t]].kind
    BY <2>1 DEF Entry
  <2>3. entries' = [entries EXCEPT ![key[t]] = [entries[key[t]] EXCEPT !.used = now]]
        \/ entries' = entries
    BY <1>2 DEF Hit
  <2>4. /\ entries' \in [Keys -> Entry]
        /\ \A l \in Keys : entries[l].kind = "absent" => entries'[l].kind = "absent"
    BY <2>1, <2>2, <2>3
  <2>5. Return({t}) /\ UNCHANGED <<now, inflight, version, installed>>
    BY <1>2 DEF Hit
  <2>6. QED
    BY <2>4, <2>5, ReturnFact
<1>3. CASE Join(t) \/ Lead(t)
  <2>1. key[t] \in Keys /\ Absent \in Entry /\ Absent.kind = "absent"
    BY <1>3 DEF Join, Lead, Absent, Entry
  <2>2. /\ entries' = [entries EXCEPT ![key[t]] = Absent]
        /\ \A l \in Keys : entries[l].kind = "absent" => entries'[l].kind = "absent"
    BY <1>3, <2>1 DEF Join, Lead
  <2>3. CASE Join(t)
    BY <2>1, <2>2, <2>3 DEF Join
  <2>4. CASE Lead(t)
    <3>1. \A u \in Threads : pc[u] \in CallPcs => key[u] # key[t]
      BY <2>4, CacheAssumption DEF Lead
    <3>2. QED
      BY <2>1, <2>2, <2>4, <3>1 DEF Lead
  <2>5. QED
    BY <1>3, <2>3, <2>4
<1>4. CASE Compute(t)
  BY <1>4 DEF Compute
<1>5. CASE Store(t)
  <2>1. key[t] \in Keys /\ inflight[key[t]] = t
    BY <1>5 DEF Store
  <2>2. Text(proc[t], now) \in Entry /\ Failure(now) \in Entry
    BY DEF Text, Failure, Entry
  <2>3. \E e \in Entry : \/ entries' \in Pruned([entries EXCEPT ![key[t]] = e], pinned, ttl, max)
                         \/ entries' = entries
    BY <1>5, <2>2 DEF Store
  <2>4. /\ entries' \in [Keys -> Entry]
        /\ \A l \in Keys \ {key[t]} : entries[l].kind = "absent" => entries'[l].kind = "absent"
    <3>1. PICK e \in Entry : \/ entries' \in Pruned([entries EXCEPT ![key[t]] = e], pinned, ttl, max)
                             \/ entries' = entries
      BY <2>3
    <3> DEFINE stored == [entries EXCEPT ![key[t]] = e]
    <3>2. /\ stored \in [Keys -> Entry]
          /\ \A l \in Keys \ {key[t]} : stored[l] = entries[l]
      OBVIOUS
    <3>3. CASE entries' = entries
      BY <3>3
    <3>4. CASE entries' \in Pruned(stored, pinned, ttl, max)
      <4> HIDE DEF stored, CacheInv, CacheTypes, CallsRegistered
      <4>1. /\ entries' \in [Keys -> Entry]
            /\ \A l \in Keys : entries'[l] = stored[l] \/ entries'[l] = Absent
        BY <3>2, <3>4, PrunedFact
      <4>2. QED
        BY <3>2, <4>1 DEF Absent
    <3>5. QED
      BY <3>1, <3>3, <3>4
  <2>5. QED
    BY <1>5, <2>1, <2>4 DEF Store
<1>6. CASE Release(t)
  <2>1. key[t] \in Keys /\ inflight[key[t]] = t
    BY <1>6 DEF Release
  <2>2. PICK T \in SUBSET Threads : t \in T /\ Return(T)
    BY <1>6 DEF Release
  <2>3. QED
    BY <1>6, <2>1, <2>2, ReturnFact DEF Release
<1>7. QED
  BY <1>1, <1>2, <1>3, <1>4, <1>5, <1>6 DEF DoStep

LEMMA CacheStep == CacheInv /\ [Next]_vars => CacheInv'
<1> SUFFICES ASSUME CacheInv, [Next]_vars PROVE CacheInv'
  OBVIOUS
<1>1. CASE UNCHANGED vars
  BY <1>1 DEF vars, CacheInv, CacheTypes, CallsRegistered
<1>2. CASE Next
  BY <1>2, OperationStep, DoKeepsInv DEF Next
<1>3. QED
  BY <1>1, <1>2

LEMMA CacheInvariant == Spec => []CacheInv
<1>1. Init => CacheInv
  BY DEF Init, CacheInv, CacheTypes, CallsRegistered, CallPcs, Entry, Absent
<1>2. QED
  BY <1>1, CacheStep, PTL DEF Spec

\* "it lets only one caller compute a given attachment at a time"
\* (docs/MEDIA.md:52), for any number of goroutines, keys and channels.
THEOREM OneCall == Spec => []OneCallPerKey
<1>1. CacheInv => OneCallPerKey
  BY DEF CacheInv, CallsRegistered, OneCallPerKey, CallPcs
<1>2. QED
  BY <1>1, CacheInvariant, PTL

-----------------------------------------------------------------------------
(* Pinned texts.                                                           *)

LEMMA PinnedStep ==
  ASSUME CacheInv, [Next]_vars, NEW k \in Keys,
         entries[k].kind = "text", pinned[k] > 0, pinned'[k] > 0,
         version'[KindOf[k]] = version[KindOf[k]]
  PROVE  entries'[k].kind = "text" /\ entries'[k].ver = entries[k].ver
<1> USE DEF CacheInv, CacheTypes
<1> DEFINE Kept == entries'[k].kind = "text" /\ entries'[k].ver = entries[k].ver
<1>1. ~ Expired(entries, pinned, ttl, k)
  BY DEF Expired, Pinned
<1>2. ASSUME NEW t \in Threads, Hit(t) PROVE Kept
  BY <1>2 DEF Hit, Entry
<1>3. ASSUME NEW t \in Threads, Join(t) \/ Lead(t) PROVE Kept
  <2>1. key[t] # k
    BY <1>1, <1>3 DEF Join, Lead, Missing
  <2>2. QED
    BY <1>3, <2>1 DEF Join, Lead
<1>4. ASSUME NEW t \in Threads, Store(t) PROVE Kept
  <2>1. key[t] \in Keys /\ key[t] # k
    BY <1>4 DEF Store, CallsRegistered
  <2>2. PICK e \in Entry : \/ entries' \in Pruned([entries EXCEPT ![key[t]] = e], pinned, ttl, max)
                           \/ entries' = entries
    BY <1>4 DEF Store, Text, Failure, Entry
  <2> DEFINE stored == [entries EXCEPT ![key[t]] = e]
  <2>3. /\ stored \in [Keys -> Entry]
        /\ pinned[k] > 0
        /\ stored[k] = entries[k]
        /\ stored[k].kind = "text"
    BY <2>1
  <2>4. CASE entries' \in Pruned(stored, pinned, ttl, max)
    <3> HIDE DEF stored
    <3>1. \A l \in Keys : pinned[l] > 0 /\ stored[l].kind = "text" => entries'[l] = stored[l]
      BY <2>3, <2>4, PrunedFact
    <3>2. QED
      BY <2>3, <3>1
  <2>5. QED
    BY <2>2, <2>4
<1>5. ASSUME NEW t \in Threads, Acquire(t) \/ Compute(t) \/ Release(t) PROVE Kept
  BY <1>5 DEF Acquire, Compute, Release
<1>6. ASSUME NEW l \in Keys, Get(l) PROVE Kept
  BY <1>1, <1>6 DEF Get, Entry
<1>7. ASSUME NEW c \in Channels, NEW S \in SUBSET Keys, Pin(c, S) PROVE Kept
  <2>1. /\ Touched(pins[c]) \in [Keys -> Entry]
        /\ Touched(pins[c])[k].kind = "text"
        /\ Touched(pins[c])[k].ver = entries[k].ver
    BY DEF Touched, Entry
  <2>2. entries' \in Pruned(Touched(pins[c]), pinned', ttl, max)
    BY <1>7 DEF Pin
  <2>3. QED
    BY <2>1, <2>2, PrunedFact
<1>8. ASSUME Prune \/ SetLimits PROVE Kept
  <2>1. PICK life, bound : entries' \in Pruned(entries, pinned, life, bound)
    BY <1>8 DEF Prune, SetLimits
  <2>2. QED
    BY <2>1, PrunedFact
<1>9. ASSUME NEW d \in Kinds, Invalidate(d) PROVE Kept
  <2>1. KindOf[k] # d
    BY <1>9, CacheAssumption DEF Invalidate
  <2>2. QED
    BY <1>9, <2>1, WithoutFact DEF Invalidate, DropKind
<1>10. CASE Tick \/ Install \/ UNCHANGED vars
  BY <1>10 DEF Tick, Install, vars
<1>11. QED
  BY <1>2, <1>3, <1>4, <1>5, <1>6, <1>7, <1>8, <1>9, <1>10 DEF Next, DoStep

\* "Media still in a channel's prompt window is pinned in the cache": its text
\* never expires and is never evicted; only new settings of its kind drop it
\* (cache.go:24-28).
THEOREM PinnedTextIsKept == Spec => PinnedTextStays
<1>1. CacheInv /\ [Next]_vars =>
        [\A k \in Keys :
           /\ entries[k].kind = "text" /\ pinned[k] > 0 /\ pinned'[k] > 0
           /\ version'[KindOf[k]] = version[KindOf[k]]
           => entries'[k].kind = "text" /\ entries'[k].ver = entries[k].ver]_vars
  BY PinnedStep
<1>2. QED
  BY <1>1, CacheInvariant, PTL DEF Spec, PinnedTextStays

-----------------------------------------------------------------------------
(* Texts of old settings.                                                  *)

\* A thread serves its key with a Processor of the current settings, or the
\* key is on record.
CurrentProcessors ==
  \A t \in Threads :
    pc[t] \in {"do", "compute", "store"} => proc[t] = version[KindOf[key[t]]] \/ key[t] \in raced

\* A text under k after the step was there before it.
NoNewText(k) ==
  entries'[k].kind = "text" => entries[k].kind = "text" /\ entries'[k].ver = entries[k].ver

\* Only the store of a call adds a text, that of its Processor.
LEMMA TextStep ==
  ASSUME CacheInv, [Next]_vars, NEW k \in Keys
  PROVE  \/ NoNewText(k)
         \/ \E t \in Threads : Store(t) /\ key[t] = k /\ entries'[k].ver = proc[t]
<1> USE DEF CacheInv, CacheTypes
<1>1. ASSUME NEW t \in Threads, Hit(t) PROVE NoNewText(k)
  BY <1>1 DEF Hit, NoNewText, Entry
<1>2. ASSUME NEW t \in Threads, Join(t) \/ Lead(t) PROVE NoNewText(k)
  BY <1>2 DEF Join, Lead, NoNewText, Absent
<1>3. ASSUME NEW t \in Threads, Store(t)
      PROVE  NoNewText(k) \/ (key[t] = k /\ entries'[k].ver = proc[t])
  <2>1. key[t] \in Keys
    BY <1>3 DEF Store, CallsRegistered
  <2>2. PICK e \in Entry :
          /\ e.kind = "text" => e.ver = proc[t]
          /\ \/ entries' \in Pruned([entries EXCEPT ![key[t]] = e], pinned, ttl, max)
             \/ entries' = entries
    <3>1. /\ Text(proc[t], now) \in Entry /\ Text(proc[t], now).ver = proc[t]
          /\ Failure(now) \in Entry /\ Failure(now).kind # "text"
      BY DEF Text, Failure, Entry
    <3>2. \/ entries' \in Pruned([entries EXCEPT ![key[t]] = Text(proc[t], now)], pinned, ttl, max)
          \/ entries' \in Pruned([entries EXCEPT ![key[t]] = Failure(now)], pinned, ttl, max)
          \/ entries' = entries
      BY <1>3 DEF Store
    <3>3. QED
      BY <3>1, <3>2
  <2> DEFINE stored == [entries EXCEPT ![key[t]] = e]
  <2>3. /\ stored \in [Keys -> Entry]
        /\ stored[key[t]] = e
        /\ k # key[t] => stored[k] = entries[k]
    BY <2>1
  <2>4. CASE entries' \in Pruned(stored, pinned, ttl, max)
    <3> HIDE DEF stored, CacheInv, CacheTypes
    <3>1. entries'[k] = stored[k] \/ entries'[k] = Absent
      BY <2>3, <2>4, PrunedFact
    <3>2. QED
      BY <2>2, <2>3, <3>1 DEF NoNewText, Absent
  <2>5. QED
    BY <2>2, <2>4 DEF NoNewText
<1>4. ASSUME NEW t \in Threads, Acquire(t) \/ Compute(t) \/ Release(t) PROVE NoNewText(k)
  BY <1>4 DEF Acquire, Compute, Release, cacheVars, NoNewText
<1>5. ASSUME NEW l \in Keys, Get(l) PROVE NoNewText(k)
  BY <1>5 DEF Get, NoNewText, Entry, Absent
<1>6. ASSUME NEW c \in Channels, NEW S \in SUBSET Keys, Pin(c, S) PROVE NoNewText(k)
  <2>1. /\ Touched(pins[c]) \in [Keys -> Entry]
        /\ Touched(pins[c])[k].kind = entries[k].kind
        /\ Touched(pins[c])[k].ver = entries[k].ver
    BY DEF Touched, Entry
  <2>2. entries' \in Pruned(Touched(pins[c]), Repinned(c, S), ttl, max)
    BY <1>6 DEF Pin
  <2>3. entries'[k] = Touched(pins[c])[k] \/ entries'[k] = Absent
    BY <2>1, <2>2, PrunedFact
  <2>4. QED
    BY <2>1, <2>3 DEF NoNewText, Absent
<1>7. ASSUME Prune \/ SetLimits PROVE NoNewText(k)
  <2>1. PICK life, bound : entries' \in Pruned(entries, pinned, life, bound)
    BY <1>7 DEF Prune, SetLimits
  <2>2. entries'[k] = entries[k] \/ entries'[k] = Absent
    BY <2>1, PrunedFact
  <2>3. QED
    BY <2>2 DEF NoNewText, Absent
<1>8. ASSUME NEW d \in Kinds, Invalidate(d) PROVE NoNewText(k)
  BY <1>8 DEF Invalidate, DropKind, Without, Absent, NoNewText
<1>9. CASE Tick \/ Install \/ UNCHANGED vars
  BY <1>9 DEF Tick, Install, vars, cacheVars, NoNewText
<1>10. QED
  BY <1>1, <1>2, <1>3, <1>4, <1>5, <1>6, <1>7, <1>8, <1>9 DEF Next, DoStep

\* Dropping a kind leaves no text of it, and knows the keys being served.
LEMMA InvalidateStep ==
  ASSUME CacheInv, CurrentProcessors, OldTextOnlyFromOverlap,
         NEW d \in Kinds, Invalidate(d)
  PROVE  CurrentProcessors' /\ OldTextOnlyFromOverlap'
<1> USE DEF CacheInv, CacheTypes, CallsRegistered
<1>1. /\ \A k \in Keys : KindOf[k] # d => version'[KindOf[k]] = version[KindOf[k]]
      /\ UNCHANGED threadVars
      /\ \A k \in raced : KindOf[k] # d => k \in raced'
      /\ \A t \in Threads : pc[t] \in {"do", "compute", "store"} /\ KindOf[key[t]] = d
                            => key[t] \in raced'
  BY CacheAssumption DEF Invalidate, Serving
<1>2. CurrentProcessors'
  BY <1>1 DEF CurrentProcessors
<1>3. \A k \in Keys : entries'[k] = IF KindOf[k] = d THEN Absent ELSE entries[k]
  BY DEF Invalidate, DropKind, Without
<1>4. OldTextOnlyFromOverlap'
  BY <1>1, <1>3 DEF OldTextOnlyFromOverlap, Absent
<1>5. QED
  BY <1>2, <1>4

\* Every other step leaves the record of keys, except that a goroutine that
\* gets an older Processor is put on it.
LEMMA OldTextStep ==
  ASSUME CacheInv, CurrentProcessors, OldTextOnlyFromOverlap, [Next]_vars
  PROVE  CurrentProcessors' /\ OldTextOnlyFromOverlap'
<1> USE DEF CacheInv, CacheTypes, CallsRegistered
<1>1. CASE ~ \E d \in Kinds : Invalidate(d)
  <2>1. version' = version /\ raced \subseteq raced'
    BY <1>1 DEF Next, DoStep, Acquire, Hit, Join, Lead, Compute, Store, Release, Get, Pin,
                Prune, SetLimits, Install, Tick, vars
  <2>2. ASSUME NEW k \in Keys, entries'[k].kind = "text", entries'[k].ver # version[KindOf[k]]
        PROVE  k \in raced
    <3>1. CASE NoNewText(k)
      BY <2>2, <3>1 DEF NoNewText, OldTextOnlyFromOverlap
    <3>2. CASE \E t \in Threads : Store(t) /\ key[t] = k /\ entries'[k].ver = proc[t]
      BY <2>2, <3>2 DEF Store, CurrentProcessors
    <3>3. QED
      BY <3>1, <3>2, TextStep
  <2>3. OldTextOnlyFromOverlap'
    BY <2>1, <2>2 DEF OldTextOnlyFromOverlap
  <2>4. ASSUME NEW t \in Threads, pc'[t] \in {"do", "compute", "store"}
        PROVE  proc'[t] = version[KindOf[key'[t]]] \/ key'[t] \in raced'
    <3>1. CASE Acquire(t)
      <4>1. PICK k \in Keys : /\ key' = [key EXCEPT ![t] = k]
                              /\ proc' = [proc EXCEPT ![t] = installed[KindOf[k]]]
                              /\ raced' = raced \cup {l \in {k} : installed[KindOf[l]] # version[KindOf[l]]}
        BY <3>1 DEF Acquire
      <4>2. key'[t] = k /\ proc'[t] = installed[KindOf[k]]
        BY <4>1
      <4>3. installed[KindOf[k]] # version[KindOf[k]] => k \in raced'
        BY <4>1
      <4>4. QED
        BY <4>2, <4>3
    <3>2. CASE \E T \in SUBSET Threads : Return(T)
      BY <2>1, <2>4, <3>2, ReturnFact DEF Return, CurrentProcessors
    <3>3. CASE (\A T \in SUBSET Threads : ~ Return(T)) /\ ~ Acquire(t)
      <4>1. /\ key'[t] = key[t] /\ proc'[t] = proc[t]
            /\ pc[t] \in {"do", "compute", "store"}
        <5>1. ASSUME NEW u \in Threads, Acquire(u) PROVE <4>1
          BY <2>4, <3>3, <5>1 DEF Acquire
        <5>2. ASSUME NEW u \in Threads, Join(u) \/ Lead(u) \/ Compute(u) \/ Store(u) PROVE <4>1
          BY <2>4, <5>2 DEF Join, Lead, Compute, Store
        <5>3. ASSUME NEW u \in Threads, Hit(u) \/ Release(u) PROVE FALSE
          <6>1. Return({u}) \/ \E T \in SUBSET Threads : Return(T)
            BY <5>3 DEF Hit, Release
          <6>2. QED
            BY <3>3, <6>1
        <5>4. CASE UNCHANGED threadVars
          BY <2>4, <5>4
        <5>5. ASSUME (\E k \in Keys : Get(k)) \/ (\E c \in Channels, S \in SUBSET Keys : Pin(c, S))
                     \/ Prune \/ SetLimits \/ Install \/ Tick \/ UNCHANGED vars
              PROVE  UNCHANGED threadVars
          BY <5>5, ZenonT(60) DEF Get, Pin, Prune, SetLimits, Install, Tick, vars
        <5>6. QED
          BY <1>1, <5>1, <5>2, <5>3, <5>4, <5>5 DEF Next, DoStep
      <4>2. QED
        BY <2>1, <4>1 DEF CurrentProcessors
    <3>4. QED
      BY <3>1, <3>2, <3>3
  <2>5. CurrentProcessors'
    BY <2>1, <2>4 DEF CurrentProcessors
  <2>6. QED
    BY <2>3, <2>5
<1>2. QED
  BY <1>1, InvalidateStep

\* The cache holds a text of old settings only under a key that a goroutine was
\* asking an older Processor for since the kind's texts were dropped, whatever
\* changes of settings fail their ffmpeg check (session.go:639-662).
THEOREM OldTextsAreRaced == Spec => []OldTextOnlyFromOverlap
<1>1. Init => CurrentProcessors /\ OldTextOnlyFromOverlap
  BY DEF Init, CurrentProcessors, OldTextOnlyFromOverlap, Absent
<1>2. QED
  BY <1>1, OldTextStep, CacheInvariant, PTL DEF Spec
==============================================================================
