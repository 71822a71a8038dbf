------------------------- MODULE PluginManagerProofs -------------------------
EXTENDS PluginManager, TLAPS

USE DEF Goto, Ended, Locked, Kill, mapVars, procVars, restartVars, workVars, callVars, histVars

Tasks == {"none", "enable", "disable", "restart", "shutdown", "reloadOn", "reloadOff"}

\* The entries of AfterStop.
LEMMA AfterStopFact ==
  /\ DOMAIN AfterStop = {"disable", "restart", "shutdown", "reloadOn", "reloadOff"}
  /\ AfterStop["disable"] = "shelve"
  /\ AfterStop["restart"] = "spawn"
  /\ AfterStop["shutdown"] = "idle"
  /\ AfterStop["reloadOn"] = "forget"
  /\ AfterStop["reloadOff"] = "forget"
BY DEF AfterStop

\* A step of a caller, a process, the clock or the settings: no worker moves,
\* and no map changes.
OtherStep ==
  \/ \E n \in Names : CooldownEnds(n)
  \/ \E h \in Callers : Enter(h) \/ Visit(h) \/ Answer(h) \/ Fail(h)
  \/ \E c \in Clients : Exit(c)
  \/ UpdateSettings
  \/ UNCHANGED vars

LEMMA OtherStepKeeps ==
  ASSUME OtherStep
  PROVE  /\ UNCHANGED <<mapVars, workVars, histVars>>
         /\ live' \subseteq live
<1>1. ASSUME NEW n \in Names, CooldownEnds(n)
      PROVE  UNCHANGED <<mapVars, workVars, histVars, live>>
  BY <1>1 DEF CooldownEnds
<1>2. ASSUME NEW h \in Callers, Enter(h) \/ Visit(h) \/ Answer(h) \/ Fail(h)
      PROVE  UNCHANGED <<mapVars, workVars, histVars, live>>
  BY <1>2 DEF Enter, Visit, Answer, Fail
<1>3. ASSUME NEW c \in Clients, Exit(c)
      PROVE  UNCHANGED <<mapVars, workVars, histVars>> /\ live' \subseteq live
  BY <1>3 DEF Exit
<1>4. CASE UpdateSettings \/ UNCHANGED vars
  BY <1>4 DEF UpdateSettings, vars
<1>5. QED
  BY <1>1, <1>2, <1>3, <1>4 DEF OtherStep

\* The steps by which a worker begins something.
BeginStep(w) ==
  \/ w \in Requests /\ \E n \in Names : DisablePlugin(w, n) \/ EnablePlugin(w, n)
  \/ w \in Reloads /\ (Shutdown(w) \/ \E t \in {"reloadOn", "reloadOff"} : ReloadFromDir(w, t))
  \/ w \in Restarters /\ \E n \in Names : TryRestart(w, n)

LEMMA StepCases ==
  ASSUME [Next]_vars
  PROVE  OtherStep \/ \E w \in Workers : BeginStep(w) \/ WorkerStep(w)
BY DEF Next, OtherStep, BeginStep, Workers

-----------------------------------------------------------------------------
(* Who owns which client.                                                  *)

\* The invariant on owners, client by client.
Has(w, c) == c \in taken[w] \/ fresh[w] = c

Owners(c) ==
  /\ \A m, n \in Names : plugins[m] = c /\ plugins[n] = c => m = n
  /\ \A w \in Workers, n \in Names : plugins[n] = c => ~ Has(w, c)
  /\ \A v, w \in Workers : Has(v, c) /\ Has(w, c) => v = w
  /\ \A w \in Workers : ~ (fresh[w] = c /\ c \in taken[w])
  /\ c \in live => \/ \E n \in Names : plugins[n] = c
                   \/ \E w \in Workers : Has(w, c)

OwnersInv == \A c \in Clients : Owners(c)

LEMMA OwnersFact ==
  ASSUME TypeOK PROVE OwnersInv <=> OneOwner /\ NoOrphan
<1> USE PluginAssumption DEF TypeOK
<1>0. /\ \A c \in Clients : /\ c # NoClient
                            /\ c \in Registered <=> \E n \in Names : plugins[n] = c
                            /\ \A w \in Workers : c \in Owned(w) <=> Has(w, c)
      /\ \A w \in Workers : Owned(w) \subseteq Clients
      /\ Registered \subseteq Clients
  BY DEF Owned, Registered, Has
<1>1. ASSUME OwnersInv PROVE OneOwner
  <2>1. ASSUME NEW m \in Names, NEW n \in Names, m # n, plugins[m] = plugins[n]
        PROVE  plugins[m] = NoClient
    BY <1>1, <2>1 DEF OwnersInv, Owners
  <2>2. ASSUME NEW w \in Workers PROVE Owned(w) \cap Registered = {}
    <3>1. ASSUME NEW c \in Clients PROVE ~ (c \in Owned(w) /\ c \in Registered)
      BY <1>0, <1>1 DEF OwnersInv, Owners
    <3>2. QED
      BY <1>0, <3>1
  <2>3. ASSUME NEW v \in Workers, NEW w \in Workers, v # w PROVE Owned(v) \cap Owned(w) = {}
    <3>1. ASSUME NEW c \in Clients PROVE ~ (c \in Owned(v) /\ c \in Owned(w))
      BY <1>0, <1>1, <2>3 DEF OwnersInv, Owners
    <3>2. QED
      BY <1>0, <3>1
  <2>4. ASSUME NEW w \in Workers PROVE fresh[w] \notin taken[w]
    BY <1>1 DEF OwnersInv, Owners
  <2>5. QED
    BY <2>1, <2>2, <2>3, <2>4 DEF OneOwner
<1>2. ASSUME OwnersInv PROVE NoOrphan
  <2>1. ASSUME NEW c \in live PROVE c \in Registered \cup UNION {Owned(w) : w \in Workers}
    <3>1. c \in Clients
      OBVIOUS
    <3>2. c \in Registered \/ \E w \in Workers : c \in Owned(w)
      BY <1>0, <1>2, <3>1 DEF OwnersInv, Owners
    <3>3. QED
      BY <3>2
  <2>2. QED
    BY <2>1 DEF NoOrphan
<1>3. ASSUME OneOwner, NoOrphan, NEW c \in Clients PROVE Owners(c)
  <2>1. \A m, n \in Names : plugins[m] = c /\ plugins[n] = c => m = n
    BY <1>3 DEF OneOwner
  <2>2. ASSUME NEW w \in Workers, NEW n \in Names, plugins[n] = c PROVE ~ Has(w, c)
    <3>1. c \in Registered /\ Owned(w) \cap Registered = {}
      BY <1>0, <1>3, <2>2 DEF OneOwner
    <3>2. QED
      BY <1>0, <3>1
  <2>3. \A v, w \in Workers : Has(v, c) /\ Has(w, c) => v = w
    BY <1>0, <1>3 DEF OneOwner
  <2>4. \A w \in Workers : ~ (fresh[w] = c /\ c \in taken[w])
    BY <1>3 DEF OneOwner
  <2>5. ASSUME c \in live PROVE c \in Registered \/ \E w \in Workers : c \in Owned(w)
    BY <1>3, <2>5 DEF NoOrphan
  <2>6. QED
    BY <1>0, <2>1, <2>2, <2>3, <2>4, <2>5 DEF Owners
<1>4. QED
  BY <1>1, <1>2, <1>3 DEF OwnersInv

\* A step that moves no client, and starts no process.
LEMMA NothingMoves ==
  ASSUME OwnersInv, UNCHANGED <<plugins, taken, fresh>>, live' \subseteq live
  PROVE  OwnersInv'
BY DEF OwnersInv, Owners, Has

\* A client that nothing refers to is started by w.
LEMMA Started ==
  ASSUME TypeOK, OwnersInv, NEW w \in Workers, fresh[w] = NoClient,
         NEW c \in Clients, Free(c), fresh' = [fresh EXCEPT ![w] = c],
         UNCHANGED <<plugins, taken>>, live' \subseteq live \cup {c}
  PROVE  OwnersInv'
<1>1. ASSUME NEW v \in Workers PROVE ~ Has(v, c)
  BY PluginAssumption DEF Free, Owned, Has
<1>2. \A n \in Names : plugins[n] # c
  BY PluginAssumption DEF Free, Registered
<1>3. ASSUME NEW d \in Clients PROVE Owners(d)'
  <2>1. \A v \in Workers : Has(v, d)' <=> Has(v, d) \/ (v = w /\ d = c)
    BY PluginAssumption DEF Has, TypeOK
  <2>2. \A v \in Workers : ~ (fresh'[v] = d /\ d \in taken'[v])
    BY <1>1 DEF OwnersInv, Owners, Has, TypeOK
  <2>3. Owners(d) /\ (d = c \/ ~ (d \in live') \/ d \in live)
    BY DEF OwnersInv
  <2>4. QED
    BY <1>1, <1>2, <2>1, <2>2, <2>3 DEF Owners
<1>4. QED
  BY <1>3 DEF OwnersInv

\* A new client is given up: its process is gone, if it has any.
LEMMA GivenUp ==
  ASSUME TypeOK, OwnersInv, NEW w \in Workers, fresh' = [fresh EXCEPT ![w] = NoClient],
         live' = live \ {fresh[w]}, UNCHANGED <<plugins, taken>>
  PROVE  OwnersInv'
<1>1. ASSUME NEW d \in Clients PROVE Owners(d)'
  <2>1. \A v \in Workers : Has(v, d)' <=> Has(v, d) /\ ~ (v = w /\ d = fresh[w])
    BY PluginAssumption DEF OwnersInv, Owners, Has, TypeOK
  <2>2. \A v \in Workers : ~ (fresh'[v] = d /\ d \in taken'[v])
    BY PluginAssumption DEF OwnersInv, Owners, TypeOK
  <2>3. Owners(d) /\ (d \in live' => d \in live /\ d # fresh[w])
    BY DEF OwnersInv
  <2>4. QED
    BY <2>1, <2>2, <2>3 DEF Owners
<1>2. QED
  BY <1>1 DEF OwnersInv

\* A new client is registered under a free name.
LEMMA Registers ==
  ASSUME TypeOK, OwnersInv, NEW w \in Workers, NEW n \in Names, plugins[n] = NoClient,
         fresh' = [fresh EXCEPT ![w] = NoClient],
         plugins' = [plugins EXCEPT ![n] = fresh[w]], UNCHANGED <<live, taken>>
  PROVE  OwnersInv'
<1>1. ASSUME NEW d \in Clients PROVE Owners(d)'
  <2>1. \A v \in Workers : Has(v, d)' <=> Has(v, d) /\ ~ (v = w /\ d = fresh[w])
    BY PluginAssumption DEF OwnersInv, Owners, Has, TypeOK
  <2>2. \A v \in Workers : ~ (fresh'[v] = d /\ d \in taken'[v])
    BY PluginAssumption DEF OwnersInv, Owners, TypeOK
  <2>3. \A m \in Names : plugins'[m] = d <=> plugins[m] = d \/ (m = n /\ d = fresh[w])
    BY PluginAssumption DEF TypeOK
  <2>4. Owners(d) /\ (d = fresh[w] => Has(w, d))
    BY DEF OwnersInv, Has
  <2>5. QED
    BY <2>1, <2>2, <2>3, <2>4 DEF Owners
<1>2. QED
  BY <1>1 DEF OwnersInv

\* A removed client has been stopped.
LEMMA Stopped ==
  ASSUME TypeOK, OwnersInv, NEW w \in Workers, NEW c \in taken[w],
         taken' = [taken EXCEPT ![w] = taken[w] \ {c}], live' = live \ {c},
         UNCHANGED <<plugins, fresh>>
  PROVE  OwnersInv'
<1>1. ASSUME NEW d \in Clients PROVE Owners(d)'
  <2>1. \A v \in Workers : Has(v, d)' <=> Has(v, d) /\ ~ (v = w /\ d = c)
    BY DEF OwnersInv, Owners, Has, TypeOK
  <2>2. \A v \in Workers : ~ (fresh'[v] = d /\ d \in taken'[v])
    BY DEF OwnersInv, Owners, TypeOK
  <2>3. Owners(d) /\ (d \in live' => d \in live /\ d # c)
    BY DEF OwnersInv
  <2>4. QED
    BY <2>1, <2>2, <2>3 DEF Owners
<1>2. QED
  BY <1>1 DEF OwnersInv

\* The clients of the names in N leave the map for w.
LEMMA Removed ==
  ASSUME TypeOK, OwnersInv, NEW w \in Workers, taken[w] = {}, NEW N \in SUBSET Names,
         taken' = [taken EXCEPT ![w] = {plugins[n] : n \in N} \ {NoClient}],
         plugins' = [n \in Names |-> IF n \in N THEN NoClient ELSE plugins[n]],
         fresh[w] = NoClient, UNCHANGED <<live, fresh>>
  PROVE  OwnersInv'
<1>1. ASSUME NEW d \in Clients PROVE Owners(d)'
  <2>1. \A v \in Workers : Has(v, d)' <=> Has(v, d) \/ (v = w /\ \E n \in N : plugins[n] = d)
    BY PluginAssumption DEF Has, TypeOK
  <2>2. \A v \in Workers : ~ (fresh'[v] = d /\ d \in taken'[v])
    BY PluginAssumption DEF OwnersInv, Owners, TypeOK
  <2>3. \A m \in Names : plugins'[m] = d <=> plugins[m] = d /\ m \notin N
    BY PluginAssumption DEF TypeOK
  <2>4. Owners(d) /\ (d \in live' => d \in live)
    BY DEF OwnersInv
  <2>5. QED
    BY <2>1, <2>2, <2>3, <2>4 DEF Owners
<1>2. QED
  BY <1>1 DEF OwnersInv

-----------------------------------------------------------------------------
\* Trigger keeps its counter in bounds.
LEMMA TriggerType ==
  ASSUME TypeOK, NEW n \in Names, Trigger(n) PROVE triggered' \in [Names -> 0 .. MaxTriggered]
BY PluginAssumption DEF Trigger, TypeOK

\* Callers, processes, the clock and the settings keep the types.
LEMMA OtherTypes ==
  ASSUME TypeOK, CallerOrder, OtherStep PROVE TypeOK' /\ CallerOrder'
<1>1. ASSUME NEW n \in Names, CooldownEnds(n) PROVE TypeOK' /\ CallerOrder'
  BY <1>1 DEF CooldownEnds, TypeOK, CallerOrder
<1>2. ASSUME NEW h \in Callers, Enter(h) PROVE TypeOK' /\ CallerOrder'
  BY <1>2 DEF Enter, TypeOK, CallerOrder
<1>3. ASSUME NEW h \in Callers, Visit(h) \/ Answer(h) \/ Fail(h) PROVE TypeOK' /\ CallerOrder'
  <2>1. pos[h] \in 0 .. Len(Order) /\ Len(Order) \in Nat
    BY PluginAssumption DEF TypeOK
  <2>2. pos' \in [Callers -> 0 .. Len(Order)]
    BY <1>3, <2>1 DEF Visit, Answer, Fail, Onward, Leave, TypeOK
  <2>3. pos[h] # 0 => Order[pos[h]] \in Names
    BY <2>1, PluginAssumption
  <2>4. pos[h] # 0
    BY <1>3 DEF Visit, Answer, Fail, CallerOrder
  <2>5. TypeOK'
    <3>1. triggered' \in [Names -> 0 .. MaxTriggered]
      BY <1>3, <2>3, <2>4, TriggerType DEF Visit, Answer, Fail, TypeOK
    <3>2. call' \in [Callers -> Clients \cup {NoClient}] /\ dead' \subseteq Clients
      BY <1>3, <2>3, <2>4 DEF Visit, Answer, Fail, TypeOK
    <3>3. QED
      BY <1>3, <2>2, <3>1, <3>2 DEF Visit, Answer, Fail, TypeOK
  <2>6. CallerOrder'
    BY <1>3 DEF Visit, Answer, Fail, Onward, Leave, CallerOrder, TypeOK
  <2>7. QED
    BY <2>5, <2>6
<1>4. ASSUME NEW c \in Clients, Exit(c) PROVE TypeOK' /\ CallerOrder'
  BY <1>4 DEF Exit, TypeOK, CallerOrder
<1>5. CASE UpdateSettings \/ UNCHANGED vars
  BY <1>5 DEF UpdateSettings, vars, TypeOK, CallerOrder
<1>6. QED
  BY <1>1, <1>2, <1>3, <1>4, <1>5 DEF OtherStep

\* No worker touches the callers.
LEMMA CallersStay ==
  ASSUME NEW w \in Workers, BeginStep(w) \/ WorkerStep(w) PROVE UNCHANGED callVars
<1>1. ASSUME NEW n \in Names, DisablePlugin(w, n) \/ EnablePlugin(w, n) \/ TryRestart(w, n)
      PROVE  UNCHANGED callVars
  BY <1>1 DEF DisablePlugin, EnablePlugin, TryRestart
<1>2. ASSUME Shutdown(w) \/ \E t \in {"reloadOn", "reloadOff"} : ReloadFromDir(w, t)
      PROVE  UNCHANGED callVars
  BY <1>2 DEF Shutdown, ReloadFromDir
<1>3. CASE Spawn(w) \/ Handshake(w) \/ Insert(w) \/ Stop(w) \/ Unlink(w) \/ Shelve(w)
  BY <1>3, ZenonT(60) DEF Spawn, Handshake, Insert, Stop, Unlink, Shelve
<1>4. CASE Collect(w) \/ Forget(w) \/ Scan(w) \/ Claim(w) \/ Settle(w)
  BY <1>4, ZenonT(60) DEF Collect, Forget, Scan, Claim, Settle
<1>5. QED
  BY <1>1, <1>2, <1>3, <1>4 DEF BeginStep, WorkerStep

\* Only w's locals change.
OnlyMoves(w) ==
  \A v \in Workers \ {w} :
    /\ pc'[v] = pc[v] /\ task'[v] = task[v] /\ name'[v] = name[v]
    /\ taken'[v] = taken[v] /\ fresh'[v] = fresh[v] /\ todo'[v] = todo[v]

LEMMA OrderFrame ==
  ASSUME WorkerOrder, NEW w \in Workers, OnlyMoves(w), Ordered(w)'
  PROVE  WorkerOrder'
BY DEF WorkerOrder, Ordered, OnlyMoves

\* A worker that begins is idle, has nothing, and goes where its task starts.
LEMMA BeginOrder ==
  ASSUME TypeOK, WorkerOrder, NEW w \in Workers, BeginStep(w)
  PROVE  TypeOK' /\ WorkerOrder'
<1>0. Ordered(w)
  BY DEF WorkerOrder
<1> USE <1>0 DEF TypeOK, Ordered, OnlyMoves, Pcs, ForAName, Loading
<1>1. ASSUME NEW n \in Names, DisablePlugin(w, n), w \in Requests
      PROVE  TypeOK' /\ OnlyMoves(w) /\ Ordered(w)'
  BY <1>1, AfterStopFact DEF DisablePlugin, Begin
<1>2. ASSUME NEW n \in Names, EnablePlugin(w, n)
      PROVE  TypeOK' /\ OnlyMoves(w) /\ Ordered(w)'
  BY <1>2, AfterStopFact DEF EnablePlugin, Begin
<1>3. ASSUME Shutdown(w)
      PROVE  TypeOK' /\ OnlyMoves(w) /\ Ordered(w)'
  BY <1>3, AfterStopFact DEF Shutdown, Begin
<1>4. ASSUME NEW t \in {"reloadOn", "reloadOff"}, ReloadFromDir(w, t)
      PROVE  TypeOK' /\ OnlyMoves(w) /\ Ordered(w)'
  BY <1>4, AfterStopFact DEF ReloadFromDir, Begin
<1>5. ASSUME NEW n \in Names, TryRestart(w, n)
      PROVE  TypeOK' /\ OnlyMoves(w) /\ Ordered(w)'
  <2>1. triggered' \in [Names -> 0 .. MaxTriggered]
    BY <1>5, PluginAssumption DEF TryRestart
  <2>2. CASE UNCHANGED <<task, pc, name>>
    BY <1>5, <2>1, <2>2 DEF TryRestart
  <2>3. CASE /\ task' = [task EXCEPT ![w] = "restart"]
             /\ name' = [name EXCEPT ![w] = n]
             /\ pc' = [pc EXCEPT ![w] = "claim"]
    BY <1>5, <2>1, <2>3, AfterStopFact DEF TryRestart
  <2>4. QED
    BY <1>5, <2>2, <2>3 DEF TryRestart
<1>6. TypeOK' /\ OnlyMoves(w) /\ Ordered(w)'
  <2> HIDE <1>0 DEF TypeOK, Ordered, OnlyMoves
  <2> QED BY <1>1, <1>2, <1>3, <1>4, <1>5 DEF BeginStep
<1>7. QED
  BY <1>6, OrderFrame

\* A plugin could not be loaded.
LEMMA FailedOrder ==
  ASSUME TypeOK, NEW w \in Workers, Ordered(w), pc[w] \in Loading, LoadFailed(w),
         live' \subseteq live, dead' \subseteq dead,
         UNCHANGED <<mapVars, restartVars, triggered, taken, todo, callVars, histVars>>
  PROVE  TypeOK' /\ OnlyMoves(w) /\ Ordered(w)'
<1>1. CASE task[w] = "enable" /\ Ended(w)
  BY <1>1, AfterStopFact DEF LoadFailed, TypeOK, Ordered, OnlyMoves, Pcs, ForAName, Loading
<1>2. ASSUME NEW t \in {"restart", "reloadOn"}, NEW l \in {"shelve", "scan"},
             task[w] = t, t = "restart" <=> l = "shelve", Goto(w, l), UNCHANGED <<task, name>>
      PROVE  TypeOK' /\ OnlyMoves(w) /\ Ordered(w)'
  BY <1>2, AfterStopFact DEF LoadFailed, TypeOK, Ordered, OnlyMoves, Pcs, ForAName, Loading
<1>3. QED
  BY <1>1, <1>2 DEF LoadFailed

\* A worker that loads a plugin.
LEMMA LoadOrder ==
  ASSUME TypeOK, NEW w \in Workers, Ordered(w), Spawn(w) \/ Handshake(w) \/ Insert(w)
  PROVE  TypeOK' /\ OnlyMoves(w) /\ Ordered(w)'
<1> DEFINE Goal == TypeOK' /\ OnlyMoves(w) /\ Ordered(w)'
<1>1. CASE Spawn(w)
  <2>1. CASE LoadFailed(w) /\ UNCHANGED <<procVars, taken, todo>>
    BY <1>1, <2>1, FailedOrder DEF Spawn, Loading
  <2>2. ASSUME NEW c \in Clients, fresh' = [fresh EXCEPT ![w] = c], Goto(w, "init"),
               live' = IF name[w] \in Commands THEN live ELSE live \cup {c},
               UNCHANGED <<dead, task, name, taken, todo>>
        PROVE  Goal
    BY <1>1, <2>2, PluginAssumption DEF Spawn, TypeOK, Ordered, OnlyMoves, Pcs, ForAName, Loading
  <2>3. QED
    BY <1>1, <2>1, <2>2 DEF Spawn
<1>2. CASE Handshake(w)
  <2>1. CASE LoadFailed(w) /\ Kill(fresh[w])
    BY <1>2, <2>1, FailedOrder DEF Handshake, Loading
  <2>2. CASE /\ Goto(w, "insert") /\ UNCHANGED <<live, task, name, fresh>>
             /\ dead' = dead \/ dead' = dead \cup {fresh[w]}
    BY <1>2, <2>2 DEF Handshake, TypeOK, Ordered, OnlyMoves, Pcs, ForAName, Loading
  <2>3. QED
    BY <1>2, <2>1, <2>2 DEF Handshake
<1>3. CASE Insert(w)
  <2>1. CASE Reject(w) /\ UNCHANGED <<mapVars, histVars>>
    BY <1>3, <2>1, FailedOrder DEF Insert, Reject, Loading
  <2>2. ASSUME NEW t \in {"enable", "restart", "reloadOn"}, task[w] = t,
               plugins' = [plugins EXCEPT ![name[w]] = fresh[w]],
               disabled' = disabled \ {name[w]},
               overlapped' \subseteq overlapped \cup {name[w]},
               fresh' = [fresh EXCEPT ![w] = NoClient],
               \/ t = "enable" /\ Ended(w)
               \/ t = "restart" /\ Goto(w, "settled") /\ UNCHANGED <<task, name>>
               \/ t = "reloadOn" /\ Goto(w, "scan") /\ UNCHANGED <<task, name>>,
               UNCHANGED <<live, dead>>
        PROVE  Goal
    <3>1. TypeOK'
      BY <1>3, <2>2 DEF Insert, TypeOK, Ordered, Pcs, ForAName, Loading
    <3>2. OnlyMoves(w) /\ Ordered(w)'
      BY <1>3, <2>2, AfterStopFact DEF Insert, TypeOK, Ordered, OnlyMoves, Pcs, ForAName, Loading
    <3>3. QED
      BY <3>1, <3>2
  <2>3. QED
    BY <1>3, <2>1, <2>2 DEF Insert
<1>4. QED
  BY <1>1, <1>2, <1>3

\* A worker that stops clients.
LEMMA StopOrder ==
  ASSUME TypeOK, NEW w \in Workers, Ordered(w),
         Stop(w) \/ Unlink(w) \/ Shelve(w) \/ Collect(w)
  PROVE  TypeOK' /\ OnlyMoves(w) /\ Ordered(w)'
<1> DEFINE Goal == TypeOK' /\ OnlyMoves(w) /\ Ordered(w)'
<1> USE DEF TypeOK, Ordered, OnlyMoves, Pcs, ForAName, Loading
<1>1. CASE Stop(w)
  <2>1. ASSUME NEW c \in taken[w], Kill(c), taken' = [taken EXCEPT ![w] = @ \ {c}],
               UNCHANGED <<task, pc, name>>
        PROVE  Goal
    BY <1>1, <2>1 DEF Stop
  <2>2. CASE taken[w] = {} /\ task[w] = "shutdown"
    <3>0. /\ pc' = [pc EXCEPT ![w] = "idle"] /\ task' = [task EXCEPT ![w] = "none"]
          /\ name' = [name EXCEPT ![w] = NoName] /\ UNCHANGED <<live, dead, taken>>
          /\ UNCHANGED <<mapVars, restartVars, triggered, fresh, todo, callVars, histVars>>
          /\ pc[w] = "stop"
      BY <1>1, <2>2, AfterStopFact DEF Stop
    <3>1. TypeOK'
      BY <3>0
    <3>2. OnlyMoves(w)
      BY <3>0
    <3>3. Ordered(w)'
      BY <2>2, <3>0
    <3>4. QED
      BY <3>1, <3>2, <3>3
  <2>3. CASE taken[w] = {} /\ task[w] # "shutdown"
    <3>1. PICK l \in {"shelve", "spawn", "forget"} :
            /\ l = "shelve" <=> task[w] = "disable"
            /\ l = "spawn" <=> task[w] = "restart"
            /\ pc' = [pc EXCEPT ![w] = l] /\ UNCHANGED <<task, name>>
      BY <1>1, <2>3, AfterStopFact DEF Stop
    <3>2. UNCHANGED <<mapVars, procVars, restartVars, triggered, taken, fresh, todo, callVars, histVars>>
      BY <1>1, <2>3 DEF Stop
    <3>3. TypeOK'
      BY <3>1, <3>2
    <3>4. OnlyMoves(w) /\ Ordered(w)'
      BY <1>1, <2>3, <3>1, <3>2, AfterStopFact DEF Stop
    <3>5. QED
      BY <3>3, <3>4
  <2>4. QED
    BY <1>1, <2>1, <2>2, <2>3 DEF Stop
<1>2. CASE Unlink(w)
  <2>1. CASE plugins[name[w]] = NoClient
    <3>1. TypeOK'
      BY <1>2, <2>1 DEF Unlink
    <3>2. OnlyMoves(w)
      BY <1>2, <2>1 DEF Unlink
    <3>3. Ordered(w)'
      BY <1>2, <2>1, AfterStopFact DEF Unlink
    <3>4. QED
      BY <3>1, <3>2, <3>3
  <2>2. CASE plugins[name[w]] # NoClient
    <3>0. /\ name[w] \in Names /\ plugins[name[w]] \in Clients
          /\ plugins' = [plugins EXCEPT ![name[w]] = NoClient]
          /\ taken' = [taken EXCEPT ![w] = {plugins[name[w]]}]
          /\ pc' = [pc EXCEPT ![w] = "stop"]
          /\ UNCHANGED <<task, name, disabled, procVars, restartVars, triggered, fresh, todo,
                         callVars, histVars>>
      BY <1>2, <2>2 DEF Unlink, Take
    <3>1. TypeOK'
      BY <3>0
    <3>2. OnlyMoves(w) /\ Ordered(w)'
      BY <1>2, <2>2, AfterStopFact DEF Unlink, Take
    <3>3. QED
      BY <3>1, <3>2
  <2>3. QED
    BY <2>1, <2>2
<1>3. CASE Shelve(w)
  <2>1. disabled' \subseteq Names
    BY <1>3 DEF Shelve, ShelveFailed
  <2>2. CASE task[w] = "disable"
    <3>1. TypeOK'
      BY <1>3, <2>1, <2>2 DEF Shelve
    <3>2. OnlyMoves(w)
      BY <1>3, <2>1, <2>2 DEF Shelve
    <3>3. Ordered(w)'
      BY <1>3, <2>1, <2>2, AfterStopFact DEF Shelve
    <3>4. QED
      BY <3>1, <3>2, <3>3
  <2>3. CASE task[w] = "restart"
    <3>1. TypeOK'
      BY <1>3, <2>1, <2>3 DEF Shelve
    <3>2. OnlyMoves(w)
      BY <1>3, <2>1, <2>3 DEF Shelve
    <3>3. Ordered(w)'
      BY <1>3, <2>1, <2>3, AfterStopFact DEF Shelve
    <3>4. QED
      BY <3>1, <3>2, <3>3
  <2>4. QED
    BY <1>3, <2>2, <2>3 DEF Shelve
<1>4. CASE Collect(w)
  BY <1>4, AfterStopFact DEF Collect
<1>5. QED
  BY <1>1, <1>2, <1>3, <1>4

\* A worker that goes through the directory, or counts a restart.
LEMMA ScanOrder ==
  ASSUME TypeOK, NEW w \in Workers, Ordered(w),
         Forget(w) \/ Scan(w) \/ Claim(w) \/ Settle(w)
  PROVE  TypeOK' /\ OnlyMoves(w) /\ Ordered(w)'
<1> USE DEF TypeOK, Ordered, OnlyMoves, Pcs, ForAName, Loading
<1>1. CASE Forget(w)
  <2>1. TypeOK'
    BY <1>1 DEF Forget
  <2>2. OnlyMoves(w) /\ Ordered(w)'
    BY <1>1, AfterStopFact DEF Forget
  <2>3. QED
    BY <2>1, <2>2
<1>2. CASE Scan(w)
  <2>1. TypeOK'
    <3>1. CASE todo[w] = {} /\ Ended(w) /\ UNCHANGED todo
      BY <1>2, <3>1 DEF Scan
    <3>2. ASSUME NEW n \in todo[w], todo' = [todo EXCEPT ![w] = @ \ {n}],
                 name' = [name EXCEPT ![w] = n], Goto(w, "spawn"), UNCHANGED task
          PROVE  TypeOK'
      BY <1>2, <3>2 DEF Scan
    <3>3. QED
      BY <1>2, <3>1, <3>2 DEF Scan
  <2>2. OnlyMoves(w) /\ Ordered(w)'
    BY <1>2, AfterStopFact DEF Scan
  <2>3. QED
    BY <2>1, <2>2
<1>3. CASE Claim(w)
  <2>0. /\ pc' = [pc EXCEPT ![w] = "unlink"]
        /\ inProgress' = [inProgress EXCEPT ![name[w]] = TRUE]
        /\ pc[w] = "claim" /\ task[w] = "restart"
        /\ UNCHANGED <<mapVars, procVars, count, cooling, maxRestarts, triggered, task, name,
                       taken, fresh, todo, callVars, histVars>>
    BY <1>3 DEF Claim
  <2>1. TypeOK'
    BY <2>0
  <2>2. OnlyMoves(w)
    BY <2>0
  <2>3. Ordered(w)'
    BY <2>0
  <2>4. QED
    BY <2>1, <2>2, <2>3
<1>4. CASE Settle(w)
  <2>1. name[w] \in Names
    BY <1>4 DEF Settle
  <2>2. count' \in [Names -> Nat]
    BY <1>4, <2>1 DEF Settle
  <2>3. inProgress' \in [Names -> BOOLEAN] /\ cooling' \in [Names -> BOOLEAN]
    BY <1>4, <2>1 DEF Settle
  <2>4. TypeOK'
    BY <1>4, <2>2, <2>3 DEF Settle
  <2>5. OnlyMoves(w)
    BY <1>4 DEF Settle
  <2>6. Ordered(w)'
    BY <1>4 DEF Settle
  <2>7. QED
    BY <2>4, <2>5, <2>6
<1>5. QED
  BY <1>1, <1>2, <1>3, <1>4

LEMMA OrderStep ==
  ASSUME TypeOK, WorkerOrder, CallerOrder, [Next]_vars
  PROVE  TypeOK' /\ WorkerOrder' /\ CallerOrder'
<1>1. CASE OtherStep
  <2>1. WorkerOrder'
    BY <1>1, OtherStepKeeps DEF WorkerOrder, Ordered
  <2>2. QED
    BY <1>1, <2>1, OtherTypes
<1>2. ASSUME NEW w \in Workers, BeginStep(w)
      PROVE  TypeOK' /\ WorkerOrder' /\ CallerOrder'
  BY <1>2, BeginOrder, CallersStay DEF CallerOrder
<1>3. ASSUME NEW w \in Workers, WorkerStep(w)
      PROVE  TypeOK' /\ WorkerOrder' /\ CallerOrder'
  <2>1. Ordered(w)
    BY DEF WorkerOrder
  <2>2. TypeOK' /\ OnlyMoves(w) /\ Ordered(w)'
    BY <1>3, <2>1, LoadOrder, StopOrder, ScanOrder DEF WorkerStep
  <2>3. CallerOrder'
    BY <1>3, CallersStay DEF CallerOrder
  <2>4. QED
    BY <2>2, <2>3, OrderFrame
<1>4. QED
  BY <1>1, <1>2, <1>3, StepCases

-----------------------------------------------------------------------------
\* Every step moves clients from owner to owner, and no process is left behind.
LEMMA OwnersStep ==
  ASSUME TypeOK, WorkerOrder, OwnersInv, [Next]_vars
  PROVE  OwnersInv'
<1>1. CASE OtherStep
  BY <1>1, OtherStepKeeps, NothingMoves
<1>2. ASSUME NEW w \in Workers, BeginStep(w) PROVE OwnersInv'
  <2>1. UNCHANGED <<plugins, taken, fresh, live>>
    BY <1>2 DEF BeginStep, DisablePlugin, EnablePlugin, Shutdown, ReloadFromDir, TryRestart
  <2>2. QED
    BY <2>1, NothingMoves
<1>3. ASSUME NEW w \in Workers, Spawn(w) PROVE OwnersInv'
  <2>1. fresh[w] = NoClient
    BY <1>3 DEF Spawn, WorkerOrder, Ordered
  <2>2. CASE LoadFailed(w) /\ UNCHANGED <<procVars, taken, todo>>
    <3>1. fresh' = fresh
      BY <2>1, <2>2 DEF LoadFailed, TypeOK
    <3>2. QED
      BY <1>3, <2>2, <3>1, NothingMoves DEF Spawn
  <2>3. ASSUME NEW c \in Clients, Free(c), fresh' = [fresh EXCEPT ![w] = c], taken' = taken,
               live' = IF name[w] \in Commands THEN live ELSE live \cup {c}
        PROVE  OwnersInv'
    BY <1>3, <2>1, <2>3, Started DEF Spawn
  <2>4. QED
    BY <1>3, <2>2, <2>3 DEF Spawn
<1>4. ASSUME NEW w \in Workers, Handshake(w) PROVE OwnersInv'
  <2>1. CASE LoadFailed(w) /\ Kill(fresh[w])
    BY <1>4, <2>1, GivenUp DEF Handshake, LoadFailed
  <2>2. CASE UNCHANGED <<live, task, name, fresh>>
    BY <1>4, <2>2, NothingMoves DEF Handshake
  <2>3. QED
    BY <1>4, <2>1, <2>2 DEF Handshake
<1>5. ASSUME NEW w \in Workers, Insert(w) PROVE OwnersInv'
  <2>1. name[w] \in Names
    BY <1>5 DEF Insert, WorkerOrder, Ordered, ForAName, Loading
  <2>2. CASE Reject(w) /\ UNCHANGED <<mapVars, histVars>>
    BY <1>5, <2>2, GivenUp DEF Insert, Reject, LoadFailed
  <2>3. CASE ~ (Reject(w) /\ UNCHANGED <<mapVars, histVars>>)
    BY <1>5, <2>1, <2>3, Registers DEF Insert
  <2>4. QED
    BY <2>2, <2>3
<1>6. ASSUME NEW w \in Workers, Stop(w) PROVE OwnersInv'
  <2>1. CASE UNCHANGED <<live, dead, taken>>
    BY <1>6, <2>1, NothingMoves DEF Stop
  <2>2. ASSUME NEW c \in taken[w], Kill(c), taken' = [taken EXCEPT ![w] = @ \ {c}]
        PROVE  OwnersInv'
    BY <1>6, <2>2, Stopped DEF Stop
  <2>3. QED
    BY <1>6, <2>1, <2>2 DEF Stop
<1>7. ASSUME NEW w \in Workers, Unlink(w) PROVE OwnersInv'
  <2>1. CASE plugins[name[w]] = NoClient
    BY <1>7, <2>1, NothingMoves DEF Unlink
  <2>2. CASE plugins[name[w]] # NoClient
    <3>1. name[w] \in Names /\ taken[w] = {} /\ fresh[w] = NoClient
      BY <1>7 DEF Unlink, WorkerOrder, Ordered, ForAName
    <3>2. /\ taken' = [taken EXCEPT ![w] = {plugins[name[w]]}]
          /\ plugins' = [plugins EXCEPT ![name[w]] = NoClient]
          /\ UNCHANGED <<live, fresh>>
      BY <1>7, <2>2 DEF Unlink, Take
    <3>3. {plugins[name[w]]} = {plugins[n] : n \in {name[w]}} \ {NoClient}
      BY <2>2
    <3>4. plugins' = [n \in Names |-> IF n \in {name[w]} THEN NoClient ELSE plugins[n]]
      BY <3>1, <3>2 DEF TypeOK
    <3>5. {name[w]} \in SUBSET Names
      BY <3>1
    <3>6. taken' = [taken EXCEPT ![w] = {plugins[n] : n \in {name[w]}} \ {NoClient}]
      BY <3>2, <3>3
    <3>7. QED
      BY <3>1, <3>2, <3>4, <3>5, <3>6, Removed
  <2>3. QED
    BY <2>1, <2>2
<1>8. ASSUME NEW w \in Workers, Collect(w) PROVE OwnersInv'
  <2>1. taken[w] = {} /\ fresh[w] = NoClient
    BY <1>8 DEF Collect, WorkerOrder, Ordered
  <2>2. /\ taken' = [taken EXCEPT ![w] = {plugins[n] : n \in Names} \ {NoClient}]
        /\ plugins' = [n \in Names |-> IF n \in Names THEN NoClient ELSE plugins[n]]
        /\ UNCHANGED <<live, fresh>>
    BY <1>8 DEF Collect
  <2>3. QED
    BY <2>1, <2>2, Removed
<1>9. ASSUME NEW w \in Workers, Shelve(w) \/ Forget(w) \/ Scan(w) \/ Claim(w) \/ Settle(w)
      PROVE  OwnersInv'
  <2>1. UNCHANGED <<plugins, taken, fresh, live>>
    BY <1>9, ZenonT(60) DEF Shelve, Forget, Scan, Claim, Settle
  <2>2. QED
    BY <2>1, NothingMoves
<1>10. QED
  BY <1>1, <1>2, <1>3, <1>4, <1>5, <1>6, <1>7, <1>8, <1>9, StepCases DEF WorkerStep

-----------------------------------------------------------------------------
\* A step that loads no plugin and puts none into the disabled set, and lets no
\* worker into the middle of a disable.
LEMMA ListsStay ==
  ASSUME OverlapOnRecord, LoadedOrDisabled, disabled' \subseteq disabled, overlapped' = overlapped,
         \A n \in Names : plugins'[n] # NoClient => plugins[n] # NoClient,
         disabled \subseteq Names,
         \A v \in Workers : task'[v] = "disable" /\ pc'[v] \in {"stop", "shelve"}
            /\ plugins'[name'[v]] # NoClient
            => /\ task[v] = "disable" /\ pc[v] \in {"stop", "shelve"}
               /\ name'[v] = name[v] /\ name[v] \in Names
  PROVE  OverlapOnRecord' /\ LoadedOrDisabled'
BY DEF OverlapOnRecord, LoadedOrDisabled

LEMMA ListsStep ==
  ASSUME TypeOK, WorkerOrder, OverlapOnRecord, LoadedOrDisabled, [Next]_vars
  PROVE  OverlapOnRecord' /\ LoadedOrDisabled'
<1> DEFINE Goal == OverlapOnRecord' /\ LoadedOrDisabled'
           Midway(v) == task[v] = "disable" /\ pc[v] \in {"stop", "shelve"}
<1>0. \A v \in Workers : Midway(v) => v \in Requests /\ name[v] \in Names
  BY AfterStopFact DEF WorkerOrder, Ordered, ForAName
<1>1. CASE OtherStep
  BY <1>1, OtherStepKeeps DEF OverlapOnRecord, LoadedOrDisabled
<1>2. ASSUME NEW w \in Workers, UNCHANGED <<disabled, overlapped>>,
             \A n \in Names : plugins'[n] # NoClient => plugins[n] # NoClient,
             OnlyMoves(w), ~ (task'[w] = "disable" /\ pc'[w] \in {"stop", "shelve"})
                           \/ plugins'[name'[w]] = NoClient
                           \/ (Midway(w) /\ name'[w] = name[w])
      PROVE  Goal
  <2>1. \A v \in Workers : task'[v] = "disable" /\ pc'[v] \in {"stop", "shelve"}
            /\ plugins'[name'[v]] # NoClient
            => /\ task[v] = "disable" /\ pc[v] \in {"stop", "shelve"}
               /\ name'[v] = name[v] /\ name[v] \in Names
    BY <1>0, <1>2 DEF OnlyMoves
  <2>2. QED
    BY <1>2, <2>1, ListsStay DEF TypeOK
<1>3. ASSUME NEW w \in Workers, BeginStep(w) PROVE Goal
  <2>1. ASSUME NEW n \in Names, DisablePlugin(w, n) \/ EnablePlugin(w, n) PROVE Goal
    <3>1. UNCHANGED <<mapVars, histVars>> /\ OnlyMoves(w) /\ pc'[w] \notin {"stop", "shelve"}
      BY <2>1 DEF DisablePlugin, EnablePlugin, Begin, OnlyMoves, TypeOK
    <3>2. QED
      BY <1>2, <3>1
  <2>2. ASSUME Shutdown(w) \/ \E t \in {"reloadOn", "reloadOff"} : ReloadFromDir(w, t) PROVE Goal
    <3>1. UNCHANGED <<mapVars, histVars>> /\ OnlyMoves(w) /\ pc'[w] \notin {"stop", "shelve"}
      BY <2>2 DEF Shutdown, ReloadFromDir, Begin, OnlyMoves, TypeOK
    <3>2. QED
      BY <1>2, <3>1
  <2>3. ASSUME NEW n \in Names, TryRestart(w, n) PROVE Goal
    <3>1. UNCHANGED <<mapVars, histVars>> /\ OnlyMoves(w) /\ pc'[w] \notin {"stop", "shelve"}
      BY <2>3 DEF TryRestart, OnlyMoves, TypeOK
    <3>2. QED
      BY <1>2, <3>1
  <2>4. QED
    BY <1>3, <2>1, <2>2, <2>3 DEF BeginStep
<1>4. ASSUME NEW w \in Workers, Spawn(w) \/ Handshake(w) PROVE Goal
  <2>1. OnlyMoves(w)
    BY <1>4, LoadOrder DEF WorkerOrder
  <2>2. UNCHANGED <<mapVars, histVars>> /\ task[w] # "disable"
    BY <1>4 DEF Spawn, Handshake, WorkerOrder, Ordered, Loading
  <2>3. task'[w] # "disable"
    BY <1>4, <2>2 DEF Spawn, Handshake, LoadFailed, TypeOK
  <2>4. QED
    BY <1>2, <2>1, <2>2, <2>3
<1>5. ASSUME NEW w \in Workers, Insert(w) PROVE Goal
  <2>1. OnlyMoves(w)
    BY <1>5, LoadOrder DEF WorkerOrder
  <2>2. name[w] \in Names /\ task[w] # "disable" /\ fresh[w] \in Clients
    BY <1>5 DEF Insert, WorkerOrder, Ordered, Loading, ForAName, TypeOK
  <2>3. task'[w] # "disable"
    BY <1>5, <2>2 DEF Insert, Reject, LoadFailed, TypeOK
  <2>4. CASE UNCHANGED <<mapVars, histVars>>
    BY <1>2, <2>1, <2>3, <2>4
  <2>5. CASE /\ plugins' = [plugins EXCEPT ![name[w]] = fresh[w]]
             /\ disabled' = disabled \ {name[w]}
             /\ overlapped' = IF \E v \in Requests : task[v] = "disable" /\ name[v] = name[w]
                                                 /\ pc[v] \in {"stop", "shelve"}
                              THEN overlapped \cup {name[w]} ELSE overlapped \ {name[w]}
    <3>1. /\ \A n \in Names \ {name[w]} : /\ plugins'[n] = plugins[n]
                                          /\ n \in overlapped => n \in overlapped'
                                          /\ n \in disabled' => n \in disabled
          /\ name[w] \notin disabled'
      BY <2>2, <2>5 DEF TypeOK
    <3>2. LoadedOrDisabled'
      BY <2>5, <3>1 DEF LoadedOrDisabled, TypeOK
    <3>3. ASSUME NEW v \in Workers, task'[v] = "disable", pc'[v] \in {"stop", "shelve"},
                 plugins'[name'[v]] # NoClient
          PROVE  name'[v] \in overlapped'
      <4>1. v # w /\ Midway(v) /\ name'[v] = name[v] /\ name[v] \in Names /\ v \in Requests
        BY <1>0, <2>1, <2>3, <3>3 DEF OnlyMoves
      <4>2. CASE name[v] = name[w]
        BY <2>5, <4>1, <4>2
      <4>3. CASE name[v] # name[w]
        BY <3>1, <3>3, <4>1, <4>3 DEF OverlapOnRecord
      <4>4. QED
        BY <4>2, <4>3
    <3>4. QED
      BY <3>2, <3>3 DEF OverlapOnRecord
  <2>6. QED
    BY <1>5, <2>4, <2>5 DEF Insert
<1>6. ASSUME NEW w \in Workers, Stop(w) PROVE Goal
  <2>1. OnlyMoves(w)
    BY <1>6, StopOrder DEF WorkerOrder
  <2>2. UNCHANGED <<mapVars, histVars>>
    BY <1>6 DEF Stop
  <2>3. task'[w] = "disable" => task[w] = "disable" /\ name'[w] = name[w] /\ pc[w] = "stop"
    BY <1>6 DEF Stop, TypeOK
  <2>4. QED
    BY <1>2, <2>1, <2>2, <2>3
<1>7. ASSUME NEW w \in Workers, Unlink(w) PROVE Goal
  <2>1. OnlyMoves(w) /\ name[w] \in Names
    BY <1>7, StopOrder DEF WorkerOrder, Ordered, ForAName, Unlink
  <2>2. UNCHANGED <<disabled, overlapped>>
    BY <1>7 DEF Unlink
  <2>3. CASE plugins[name[w]] = NoClient
    <3>1. plugins' = plugins /\ pc'[w] \notin {"stop", "shelve"}
      BY <1>7, <2>3 DEF Unlink, TypeOK
    <3>2. QED
      BY <1>2, <2>1, <2>2, <3>1
  <2>4. CASE plugins[name[w]] # NoClient
    <3>1. plugins' = [plugins EXCEPT ![name[w]] = NoClient] /\ name' = name
      BY <1>7, <2>4 DEF Unlink, Take
    <3>2. /\ plugins'[name'[w]] = NoClient
          /\ \A n \in Names : plugins'[n] # NoClient => plugins[n] # NoClient
      BY <2>1, <3>1 DEF TypeOK
    <3>3. QED
      BY <1>2, <2>1, <2>2, <3>2
  <2>5. QED
    BY <2>3, <2>4
<1>8. ASSUME NEW w \in Workers, Collect(w) PROVE Goal
  <2>1. OnlyMoves(w) /\ UNCHANGED <<disabled, overlapped, task>> /\ task[w] # "disable"
    BY <1>8, StopOrder DEF WorkerOrder, Ordered, Collect
  <2>2. \A n \in Names : plugins'[n] # NoClient => plugins[n] # NoClient
    BY <1>8 DEF Collect
  <2>3. QED
    BY <1>2, <2>1, <2>2
<1>9. ASSUME NEW w \in Workers, Scan(w) \/ Claim(w) \/ Settle(w) PROVE Goal
  <2>1. OnlyMoves(w)
    BY <1>9, ScanOrder DEF WorkerOrder
  <2>2. UNCHANGED <<mapVars, histVars>>
    BY <1>9 DEF Scan, Claim, Settle
  <2>3. pc'[w] \notin {"stop", "shelve"}
    BY <1>9 DEF Scan, Claim, Settle, TypeOK
  <2>4. QED
    BY <1>2, <2>1, <2>2, <2>3
<1>10. ASSUME NEW w \in Workers, Forget(w) PROVE Goal
  <2>1. OnlyMoves(w)
    BY <1>10, ScanOrder DEF WorkerOrder
  <2>2. UNCHANGED <<plugins, overlapped>> /\ disabled' = {} /\ pc'[w] = "scan"
    BY <1>10 DEF Forget, TypeOK
  <2>3. OverlapOnRecord'
    BY <2>1, <2>2 DEF OverlapOnRecord, OnlyMoves
  <2>4. QED
    BY <2>2, <2>3 DEF LoadedOrDisabled
<1>11. ASSUME NEW w \in Workers, Shelve(w) PROVE Goal
  <2>1. OnlyMoves(w) /\ name[w] \in Names
    BY <1>11, StopOrder DEF WorkerOrder, Ordered, ForAName, Shelve
  <2>2. UNCHANGED <<plugins, overlapped>> /\ pc'[w] \notin {"stop", "shelve"}
    BY <1>11 DEF Shelve, TypeOK
  <2>3. OverlapOnRecord'
    BY <2>1, <2>2 DEF OverlapOnRecord, OnlyMoves
  <2>4. disabled' \subseteq disabled \cup {name[w]}
    BY <1>11 DEF Shelve, ShelveFailed
  <2>5. name[w] \in disabled' /\ plugins[name[w]] # NoClient
        => name[w] \in disabled \/ Midway(w)
    BY <1>11 DEF Shelve, ShelveFailed
  <2>6. LoadedOrDisabled'
    BY <2>2, <2>4, <2>5 DEF LoadedOrDisabled, OverlapOnRecord
  <2>7. QED
    BY <2>3, <2>6
<1>12. QED
  BY <1>1, <1>3, <1>4, <1>5, <1>6, <1>7, <1>8, <1>9, <1>10, <1>11, StepCases DEF WorkerStep

-----------------------------------------------------------------------------
\* The manager starts in order, whichever goroutines take part.
LEMMA InitOrder ==
  ASSUME NEW absent \in SUBSET Workers, InitWithout(absent) PROVE IInv
<1> USE PluginAssumption DEF InitWithout
<1>1. TypeOK
  <2>1. 0 \in 0 .. MaxTriggered /\ 0 \in 0 .. Len(Order)
    OBVIOUS
  <2>2. QED
    BY <2>1 DEF TypeOK, Pcs, AfterStop
<1>2. WorkerOrder
  BY DEF WorkerOrder, Ordered, ForAName, Loading
<1>3. CallerOrder /\ OverlapOnRecord /\ LoadedOrDisabled
  BY DEF CallerOrder, OverlapOnRecord, LoadedOrDisabled
<1>4. OwnersInv
  BY DEF OwnersInv, Owners, Has
<1>5. QED
  BY <1>1, <1>2, <1>3, <1>4, OwnersFact DEF IInv

\* The inductive invariant, for any plugins, processes and goroutines.
THEOREM PluginInvariant == Spec => []IInv
<1>1. Init => IInv
  BY InitOrder DEF Init
<1>2. ASSUME IInv, [Next]_vars PROVE IInv'
  <2>1. TypeOK' /\ WorkerOrder' /\ CallerOrder'
    BY <1>2, OrderStep DEF IInv
  <2>2. OwnersInv'
    BY <1>2, OwnersFact, OwnersStep DEF IInv
  <2>3. OneOwner' /\ NoOrphan'
    BY <2>1, <2>2, OwnersFact, PTL
  <2>4. OverlapOnRecord' /\ LoadedOrDisabled'
    BY <1>2, ListsStep DEF IInv
  <2>5. QED
    BY <2>1, <2>3, <2>4 DEF IInv
<1>3. QED
  BY <1>1, <1>2, PTL DEF Spec

\* A plugin process belongs to the registry or to one goroutine, never to two:
\* none is stopped or registered twice (lifecycle.go:200-222, 813-822, 865-882,
\* 958-970).
THEOREM EveryClientHasOneOwner == Spec => []OneOwner
<1>1. IInv => OneOwner
  BY DEF IInv
<1>2. QED
  BY <1>1, PluginInvariant, PTL

\* No plugin process outlives the plugin it was started for: it is registered,
\* or a goroutine will register or stop it (lifecycle.go:171-175, 193-206).
THEOREM NoProcessLeftBehind == Spec => []NoOrphan
<1>1. IInv => NoOrphan
  BY DEF IInv
<1>2. QED
  BY <1>1, PluginInvariant, PTL

\* A loaded plugin is in the disabled set only after a load that came between
\* the two halves of DisablePlugin (lifecycle.go:889-895, 975-983).
THEOREM ListedTwiceOnlyByOverlap == Spec => []LoadedOrDisabled
<1>1. IInv => LoadedOrDisabled
  BY DEF IInv
<1>2. QED
  BY <1>1, PluginInvariant, PTL
=============================================================================
