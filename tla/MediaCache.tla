------------------------------ MODULE MediaCache ------------------------------
(***************************************************************************)
(* internal/media Cache: the text media was turned into, shared by the     *)
(* reply path, history enrichment and memory consolidation, with the hot   *)
(* reload that replaces the media models (bot ApplyRuntimeConfig).         *)
(*                                                                         *)
(* Every operation holds the cache's mutex for one step; Do releases it    *)
(* while it computes.  The text of an entry is named by the version of its *)
(* kind's settings that produced it.                                       *)
(***************************************************************************)
EXTENDS Integers, FiniteSets, Sequences, SequencesExt

CONSTANTS
  Keys,       \* cache keys
  NoKey,
  Kinds,      \* media kinds
  KindOf,     \* [Keys -> Kinds], by key prefix
  Threads,    \* goroutines calling Do
  NoThread,
  Channels,   \* channels that pin their prompt window
  Ttls,       \* configured idle TTLs; 0 disables expiry
  Maxes,      \* configured size bounds; 0 disables the bound
  FailureTTL, \* lifetime of a cached failure
  MaxTime,    \* bound: the clock
  MaxVersion  \* bound: settings changes of a kind

ASSUME CacheAssumption ==
  /\ KindOf \in [Keys -> Kinds]
  /\ NoThread \notin Threads /\ NoKey \notin Keys
  /\ Ttls \subseteq Nat /\ Maxes \subseteq Nat
  /\ FailureTTL \in Nat /\ MaxTime \in Nat /\ MaxVersion \in Nat
  /\ IsFiniteSet(Keys) /\ IsFiniteSet(Channels)

VARIABLES
  now,
  entries,            \* [Keys -> an entry or Absent]
  inflight,           \* the thread computing a key
  pins, pinned,       \* key set per channel; channels per key
  ttl, max,           \* the limits
  version,            \* the settings each kind's texts were last dropped for
  installed,          \* the settings of the bot's Processor, per kind
  applying, changed,  \* a reload is applied; the kinds it still has to drop
  pc, key, proc, out, \* a thread: where it is, its key, the settings of the
                      \* Processor it got, what fn returned
  raced               \* history: keys asked of a Processor older than the
                      \* settings their kind was last dropped for

cacheVars  == <<entries, inflight, pins, pinned>>
limitVars  == <<ttl, max>>
threadVars == <<pc, key, proc, out>>
reloadVars == <<version, installed, applying, changed>>
vars == <<now, cacheVars, limitVars, reloadVars, threadVars, raced>>

Absent == [kind |-> "absent", ver |-> 0, at |-> 0, used |-> 0]
Text(v, t) == [kind |-> "text", ver |-> v, at |-> 0, used |-> t]
Failure(t) == [kind |-> "failure", ver |-> 0, at |-> t, used |-> t]

Outcomes == {"none", "text", "permanent", "transient"}
Present(es) == {k \in Keys : es[k].kind # "absent"}
Pinned(pin, k) == pin[k] > 0

Init ==
  /\ now = 0
  /\ entries = [k \in Keys |-> Absent]
  /\ inflight = [k \in Keys |-> NoThread]
  /\ pins = [c \in Channels |-> {}]
  /\ pinned = [k \in Keys |-> 0]
  /\ ttl \in Ttls
  /\ max \in Maxes
  /\ version = [d \in Kinds |-> 0]
  /\ installed = [d \in Kinds |-> 0]
  /\ applying = FALSE
  /\ changed = {}
  /\ pc = [t \in Threads |-> "idle"]
  /\ key = [t \in Threads |-> NoKey]
  /\ proc = [t \in Threads |-> 0]
  /\ out = [t \in Threads |-> "none"]
  /\ raced = {}

-----------------------------------------------------------------------------
(* Expiry and eviction.                                                    *)

\* expiredLocked
Expired(es, pin, life, k) ==
  IF es[k].kind = "failure"
  THEN now - es[k].at > FailureTTL
  ELSE ~ Pinned(pin, k) /\ life > 0 /\ now - es[k].used > life

Without(es, S) == [k \in Keys |-> IF k \in S THEN Absent ELSE es[k]]

\* The possible results of dropping the n least recently used of the entries
\* `from` of es: equally old ones go in any order.
DropOldest(es, from, n) ==
  {Without(es, S) : S \in {T \in SUBSET from :
     /\ Cardinality(T) = IF n < Cardinality(from) THEN n ELSE Cardinality(from)
     /\ \A k \in T, l \in from \ T : es[k].used <= es[l].used}}

\* Mutant: pinned texts are evicted like all others.
PrunedUnpinned(es, pin, life, bound) ==
  LET live   == Without(es, {k \in Present(es) : Expired(es, pin, life, k)})
      excess == Cardinality(Present(live)) - bound IN
  IF bound = 0 \/ excess <= 0
  THEN {live}
  ELSE DropOldest(live, Present(live), excess)

\* pruneLocked: what is left once the expired entries are dropped and, over
\* the bound, the least recently used that are not pinned texts.
Pruned(es, pin, life, bound) ==
  LET live   == Without(es, {k \in Present(es) : Expired(es, pin, life, k)})
      excess == Cardinality(Present(live)) - bound IN
  IF bound = 0 \/ excess <= 0
  THEN {live}
  ELSE DropOldest(live, {k \in Present(live) : ~ Pinned(pin, k) \/ live[k].kind # "text"},
                  excess)

-----------------------------------------------------------------------------
(* Do.                                                                     *)

\* A goroutine takes the bot's Processor, not while a reload holds the bot's
\* mutex, and later asks for a key.
Acquire(t) ==
  /\ pc[t] = "idle" /\ ~ applying
  /\ \E k \in Keys :
       /\ key' = [key EXCEPT ![t] = k]
       /\ proc' = [proc EXCEPT ![t] = installed[KindOf[k]]]
       /\ raced' = raced \cup {l \in {k} : installed[KindOf[l]] # version[KindOf[l]]}
  /\ pc' = [pc EXCEPT ![t] = "do"]
  /\ UNCHANGED <<now, cacheVars, limitVars, reloadVars, out>>

\* The calls of the threads in T return.
Return(T) ==
  /\ pc' = [t \in Threads |-> IF t \in T THEN "idle" ELSE pc[t]]
  /\ key' = [t \in Threads |-> IF t \in T THEN NoKey ELSE key[t]]
  /\ proc' = [t \in Threads |-> IF t \in T THEN 0 ELSE proc[t]]
  /\ out' = [t \in Threads |-> IF t \in T THEN "none" ELSE out[t]]

\* lookupLocked finds nothing for the thread's key.
Missing(t) ==
  entries[key[t]].kind = "absent" \/ Expired(entries, pinned, ttl, key[t])

\* A live entry is returned; a text is refreshed.
Hit(t) ==
  LET k == key[t] IN
  /\ pc[t] = "do" /\ ~ Missing(t)
  /\ entries' = IF entries[k].kind = "text"
                THEN [entries EXCEPT ![k].used = now] ELSE entries
  /\ Return({t})
  /\ UNCHANGED <<now, inflight, pins, pinned, limitVars, reloadVars, raced>>

\* Another goroutine is computing the key: wait for it; this
\* thread's Processor is not used.
Join(t) ==
  LET k == key[t] IN
  /\ pc[t] = "do" /\ Missing(t) /\ inflight[k] # NoThread
  /\ entries' = [entries EXCEPT ![k] = Absent]
  /\ pc' = [pc EXCEPT ![t] = "wait"]
  /\ proc' = [proc EXCEPT ![t] = 0]
  /\ UNCHANGED <<now, inflight, pins, pinned, limitVars, reloadVars, key, out, raced>>

Lead(t) ==
  LET k == key[t] IN
  /\ pc[t] = "do" /\ Missing(t) /\ inflight[k] = NoThread
  /\ entries' = [entries EXCEPT ![k] = Absent]
  /\ inflight' = [inflight EXCEPT ![k] = t]
  /\ pc' = [pc EXCEPT ![t] = "compute"]
  /\ UNCHANGED <<now, pins, pinned, limitVars, reloadVars, key, proc, out, raced>>

\* Mutant: the call is over when fn returns, before its result is stored.
ComputeEndsCall(t) ==
  /\ pc[t] = "compute"
  /\ \E o \in Outcomes \ {"none"} : out' = [out EXCEPT ![t] = o]
  /\ inflight' = [inflight EXCEPT ![key[t]] = NoThread]
  /\ pc' = [pc EXCEPT ![t] = "store"]
  /\ UNCHANGED <<now, entries, pins, pinned, limitVars, reloadVars, key, proc, raced>>

\* fn returns a text, a permanent failure, or something never cached: a
\* transient error or an empty output.
Compute(t) ==
  /\ pc[t] = "compute"
  /\ \E o \in Outcomes \ {"none"} : out' = [out EXCEPT ![t] = o]
  /\ pc' = [pc EXCEPT ![t] = "store"]
  /\ UNCHANGED <<now, cacheVars, limitVars, reloadVars, key, proc, raced>>

\* Set and setFailure.  What the thread holds besides its key is used up.
Store(t) ==
  LET k == key[t] IN
  /\ pc[t] = "store"
  /\ \/ /\ out[t] = "text"
        /\ entries' \in Pruned([entries EXCEPT ![k] = Text(proc[t], now)], pinned, ttl, max)
     \/ /\ out[t] = "permanent"
        /\ entries' \in Pruned([entries EXCEPT ![k] = Failure(now)], pinned, ttl, max)
     \/ out[t] = "transient" /\ UNCHANGED entries
  /\ pc' = [pc EXCEPT ![t] = "release"]
  /\ proc' = [proc EXCEPT ![t] = 0]
  /\ out' = [out EXCEPT ![t] = "none"]
  /\ UNCHANGED <<now, inflight, pins, pinned, limitVars, reloadVars, key, raced>>

\* The deferred end of a call: everyone waiting for it returns its result.
Release(t) ==
  LET k == key[t] IN
  /\ pc[t] = "release"
  /\ inflight' = [inflight EXCEPT ![k] = NoThread]
  /\ Return({t} \cup {u \in Threads : pc[u] = "wait" /\ key[u] = k})
  /\ UNCHANGED <<now, entries, pins, pinned, limitVars, reloadVars, raced>>

-----------------------------------------------------------------------------
(* The other operations.                                                   *)

\* Get: history uses a cached text, and refreshes it.
Get(k) ==
  /\ entries[k].kind # "absent"
  /\ entries' = IF Expired(entries, pinned, ttl, k) THEN [entries EXCEPT ![k] = Absent]
                ELSE IF entries[k].kind = "text" THEN [entries EXCEPT ![k].used = now]
                ELSE entries
  /\ UNCHANGED <<now, inflight, pins, pinned, limitVars, reloadVars, threadVars, raced>>

\* The pin counts once channel c shows S instead of its old window.
Repinned(c, S) ==
  [k \in Keys |-> pinned[k] - (IF k \in pins[c] THEN 1 ELSE 0)
                           + (IF k \in S THEN 1 ELSE 0)]

\* What leaves the old window starts its idle time now.
Touched(S) ==
  [k \in Keys |-> IF k \in S /\ entries[k].kind # "absent"
                 THEN [entries[k] EXCEPT !.used = now] ELSE entries[k]]

\* Pin: the prompt window of channel c now shows the media S.
Pin(c, S) ==
  /\ pinned' = Repinned(c, S)
  /\ pins' = [pins EXCEPT ![c] = S]
  /\ entries' \in Pruned(Touched(pins[c]), Repinned(c, S), ttl, max)
  /\ UNCHANGED <<now, inflight, limitVars, reloadVars, threadVars, raced>>

Prune ==
  /\ entries' \in Pruned(entries, pinned, ttl, max)
  /\ UNCHANGED <<now, inflight, pins, pinned, limitVars, reloadVars, threadVars, raced>>

\* DeletePrefix
DropKind(d) == Without(entries, {k \in Keys : KindOf[k] = d})

\* The keys of kind d that threads still serve with the old Processor.
Serving(d) ==
  {key[t] : t \in {u \in Threads : pc[u] \in {"do", "compute", "store"} /\ KindOf[key[u]] = d}}

\* ApplyRuntimeConfig, under the bot's mutex until Install: the limits are
\* updated in place; the kinds D have new settings.
SetLimits ==
  /\ ~ applying /\ applying' = TRUE
  /\ \E life \in Ttls, bound \in Maxes :
       /\ ttl' = life /\ max' = bound
       /\ entries' \in Pruned(entries, pinned, life, bound)
  /\ \E D \in SUBSET {d \in Kinds : version[d] < MaxVersion} : changed' = D
  /\ UNCHANGED <<now, inflight, pins, pinned, version, installed, threadVars, raced>>

\* Mutant: the cached texts of the kind stay.
RecordOnly(d) ==
  /\ applying /\ d \in changed
  /\ changed' = changed \ {d}
  /\ version' = [version EXCEPT ![d] = @ + 1]
  /\ raced' = {k \in raced : KindOf[k] # d} \cup Serving(d)
  /\ UNCHANGED <<now, cacheVars, limitVars, installed, applying, threadVars>>

\* The entries of a changed kind are dropped and its settings recorded, before
\* anything is known of the new Processor.
Invalidate(d) ==
  /\ applying /\ d \in changed
  /\ changed' = changed \ {d}
  /\ version' = [version EXCEPT ![d] = @ + 1]
  /\ entries' = DropKind(d)
  /\ raced' = {k \in raced : KindOf[k] # d} \cup Serving(d)
  /\ UNCHANGED <<now, inflight, pins, pinned, limitVars, installed, applying, threadVars>>

\* The new Processor is published, unless the ffmpeg check fails: then the old
\* one stays, and nothing is undone.
Install ==
  /\ applying /\ changed = {}
  /\ installed' = version \/ installed' = installed
  /\ applying' = FALSE
  /\ UNCHANGED <<now, cacheVars, limitVars, version, changed, threadVars, raced>>

Tick ==
  /\ now < MaxTime
  /\ now' = now + 1
  /\ UNCHANGED <<cacheVars, limitVars, reloadVars, threadVars, raced>>

DoStep(t) ==
  Hit(t) \/ Join(t) \/ Lead(t) \/ Compute(t) \/ Store(t) \/ Release(t)

Next ==
  \/ \E t \in Threads : Acquire(t) \/ DoStep(t)
  \/ \E k \in Keys : Get(k)
  \/ \E c \in Channels, S \in SUBSET Keys : Pin(c, S)
  \/ Prune \/ SetLimits \/ Install \/ Tick
  \/ \E d \in Kinds : Invalidate(d)

Spec == Init /\ [][Next]_vars

-----------------------------------------------------------------------------
(* Properties.                                                             *)

\* At most one goroutine computes a key, from its look at the cache until its
\* result is stored: an attachment is never processed twice at the same time
\* (cache.go:198-221).
OneCallPerKey ==
  \A t, u \in Threads :
    key[t] = key[u] /\ {pc[t], pc[u]} \subseteq {"compute", "store"} => t = u

\* The text of pinned media never expires and is never evicted, whatever else
\* is stored, read, pinned or reconfigured; only new settings of its own kind
\* drop it (cache.go:24-28, docs/MEDIA.md:58).
PinnedTextStays ==
  [][\A k \in Keys :
       /\ entries[k].kind = "text" /\ pinned[k] > 0 /\ pinned'[k] > 0
       /\ version'[KindOf[k]] = version[KindOf[k]]
       => entries'[k].kind = "text" /\ entries'[k].ver = entries[k].ver]_vars

\* Dropping a kind's texts when its settings change leaves the cache an old
\* text only of a key that, since, a goroutine was asking an older Processor
\* for: it had it before the drop, or the change failed its ffmpeg check after
\* the drop and left the old Processor installed (session.go:639-642, 648-662,
\* cache.go:247-249).  An old text of any other key is never served.
OldTextOnlyFromOverlap ==
  \A k \in Keys : entries[k].kind = "text" /\ entries[k].ver # version[KindOf[k]]
                  => k \in raced

==============================================================================
