---------------------------- MODULE PluginManager ----------------------------
(***************************************************************************)
(* internal/plugin Manager: the plugins' processes, their stdio transports *)
(* and the goroutines that load, call, restart, disable and reload them.   *)
(*                                                                         *)
(* A client is one start of one plugin: its process and its JSON-RPC       *)
(* transport.  Hooks and tool calls hold the manager's read lock while     *)
(* they wait for plugins; every change of the maps takes the write lock.   *)
(***************************************************************************)
EXTENDS Integers, FiniteSets, Sequences, SequencesExt

CONSTANTS
  Names,        \* plugins found in plugins_dir
  Commands,     \* those with runtime "command": no process, no transport
  Order,        \* the names, highest priority first
  Clients,      \* bound: starts of plugins that are not over
  NoClient, NoName,
  Requests,     \* goroutines of dashboard requests
  Reloads,      \* goroutines of hot reload and of shutdown
  Restarters,   \* goroutines of tryRestartPlugin
  Callers,      \* goroutines that run hooks and tool calls
  Budgets,      \* values of max_restarts
  MaxTriggered  \* bound: restart goroutines of a plugin that have not begun

ASSUME PluginAssumption ==
  /\ Commands \subseteq Names
  /\ Order \in Seq(Names) /\ Range(Order) = Names
  /\ NoClient \notin Clients /\ NoName \notin Names
  /\ Requests \cap Reloads = {} /\ (Requests \cup Reloads) \cap Restarters = {}
  /\ Budgets \subseteq Nat \ {0} /\ Budgets # {}
  /\ MaxTriggered \in Nat \ {0}

Workers == Requests \cup Reloads \cup Restarters

VARIABLES
  plugins, disabled,  \* the manager's maps: the client of a name; names
  live, dead,         \* clients whose process runs; whose transport is dead
  inProgress, count, cooling, \* restartState; within restart_cooldown_sec
  maxRestarts,        \* operations.plugins.max_restarts
  triggered,          \* restart goroutines of a name that have not begun
  task, pc, name,     \* a worker: what it does, where it is, for which name
  taken, fresh, todo, \* clients it removed from the map, the client it
                      \* started, names it has still to load
  pos, call,          \* a caller: the plugin in Order it is at (0: outside
                      \* the manager), the client it waits for
  overlapped          \* history: names loaded while a disable was under way

mapVars  == <<plugins, disabled>>
procVars == <<live, dead>>
restartVars == <<inProgress, count, cooling, maxRestarts>>
workVars == <<task, pc, name, taken, fresh, todo>>
callVars == <<pos, call>>
histVars == overlapped
vars == <<mapVars, procVars, restartVars, triggered, workVars, callVars, histVars>>

\* The goroutines of absent never run.
InitWithout(absent) ==
  /\ plugins = [n \in Names |-> NoClient]
  /\ disabled = {}
  /\ live = {} /\ dead = {}
  /\ inProgress = [n \in Names |-> FALSE]
  /\ count = [n \in Names |-> 0]
  /\ cooling = [n \in Names |-> FALSE]
  /\ maxRestarts \in Budgets
  /\ triggered = [n \in Names |-> 0]
  /\ task = [w \in Workers |-> "none"]
  /\ pc = [w \in Workers |-> IF w \in absent THEN "absent" ELSE "idle"]
  /\ name = [w \in Workers |-> NoName]
  /\ taken = [w \in Workers |-> {}]
  /\ fresh = [w \in Workers |-> NoClient]
  /\ todo = [w \in Workers |-> {}]
  /\ pos = [h \in Callers |-> 0]
  /\ call = [h \in Callers |-> NoClient]
  /\ overlapped = {}

Init == InitWithout({})

-----------------------------------------------------------------------------
(* The manager's RWMutex.  A worker at one of WriterPcs has called Lock.    *)

WriterPcs == {"unlink", "collect", "forget", "insert", "shelve"}
NoReader == \A h \in Callers : pos[h] = 0
NoWriterWaits == \A w \in Workers : pc[w] \notin WriterPcs

\* Locked(w, l): worker w, which waits at l, gets the write lock.
Locked(w, l) == pc[w] = l /\ NoReader

Goto(w, l) == pc' = [pc EXCEPT ![w] = l]

\* The goroutine of w ends.
Ended(w) ==
  /\ pc' = [pc EXCEPT ![w] = "idle"]
  /\ task' = [task EXCEPT ![w] = "none"]
  /\ name' = [name EXCEPT ![w] = NoName]

\* What a task goes on with when all its clients are stopped.
AfterStop == [disable |-> "shelve", restart |-> "spawn", shutdown |-> "idle",
              reloadOn |-> "forget", reloadOff |-> "forget"]

-----------------------------------------------------------------------------
(* Loading.                                                                *)

\* What a task goes on with when a plugin cannot be loaded.
LoadFailed(w) ==
  /\ fresh' = [fresh EXCEPT ![w] = NoClient]
  /\ \/ task[w] = "enable" /\ Ended(w)
     \/ task[w] = "restart" /\ Goto(w, "shelve") /\ UNCHANGED <<task, name>>
     \/ task[w] = "reloadOn" /\ Goto(w, "scan") /\ UNCHANGED <<task, name>>

Registered == {plugins[n] : n \in Names} \ {NoClient}
Owned(w) == taken[w] \cup ({fresh[w]} \ {NoClient})

\* Nothing refers to the client any more: it may stand for the next start.
Free(c) ==
  /\ c \notin live \cup Registered \cup UNION {Owned(w) : w \in Workers}
  /\ \A h \in Callers : call[h] # c

\* The process and the transport of a client nobody calls are gone.
Kill(c) == live' = live \ {c} /\ dead' = dead \ {c}

\* loadPluginWithConfig up to cmd.Start: paths, manifest and runtime are
\* checked and the process is started.
Spawn(w) ==
  /\ pc[w] = "spawn"
  /\ \/ /\ LoadFailed(w)
        /\ UNCHANGED <<procVars, taken, todo>>
     \/ \E c \in Clients :
          /\ Free(c)
          /\ live' = IF name[w] \in Commands THEN live ELSE live \cup {c}
          /\ fresh' = [fresh EXCEPT ![w] = c]
          /\ Goto(w, "init")
          /\ UNCHANGED <<dead, task, name, taken, todo>>
  /\ UNCHANGED <<mapVars, restartVars, triggered, callVars, histVars>>

\* info, list_tools and system_prompt are asked for, and the tools validated.
\* A failing list_tools or system_prompt is no error, so the client may be
\* dead afterwards.
Handshake(w) ==
  /\ pc[w] = "init"
  /\ \/ /\ LoadFailed(w)
        /\ Kill(fresh[w])
     \/ /\ fresh[w] \notin dead
        /\ Goto(w, "insert")
        /\ \/ UNCHANGED dead
           \/ name[w] \notin Commands /\ dead' = dead \cup {fresh[w]}
        /\ UNCHANGED <<live, task, name, fresh>>
  /\ UNCHANGED <<mapVars, restartVars, triggered, taken, todo, callVars, histVars>>

\* Mutant: the process of a plugin that is already loaded is not killed.
RejectKeepsProcess(w) == LoadFailed(w) /\ UNCHANGED <<live, dead>>

\* Another start of the plugin was first: the new process is killed.
Reject(w) ==
  /\ Kill(fresh[w])
  /\ LoadFailed(w)

\* The client is registered, unless its name already is.
Insert(w) ==
  LET n == name[w] IN
  /\ Locked(w, "insert")
  /\ \/ plugins[n] # NoClient /\ Reject(w) /\ UNCHANGED <<mapVars, histVars>>
     \/ /\ plugins[n] = NoClient
        /\ plugins' = [plugins EXCEPT ![n] = fresh[w]]
        /\ disabled' = disabled \ {n}
        /\ overlapped' = IF \E v \in Requests : task[v] = "disable" /\ name[v] = n
                                            /\ pc[v] \in {"stop", "shelve"}
                         THEN overlapped \cup {n} ELSE overlapped \ {n}
        /\ fresh' = [fresh EXCEPT ![w] = NoClient]
        /\ \/ task[w] = "enable" /\ Ended(w)
           \/ task[w] = "restart" /\ Goto(w, "settled") /\ UNCHANGED <<task, name>>
           \/ task[w] = "reloadOn" /\ Goto(w, "scan") /\ UNCHANGED <<task, name>>
        /\ UNCHANGED <<live, dead>>
  /\ UNCHANGED <<restartVars, triggered, taken, todo, callVars>>

-----------------------------------------------------------------------------
(* Stopping.                                                               *)

\* shutdownPlugin and stopPluginProcess for one removed client: after the
\* shutdown call its pipes are closed and the process has exited or is killed.
Stop(w) ==
  /\ pc[w] = "stop"
  /\ \/ \E c \in taken[w] :
          /\ Kill(c)
          /\ taken' = [taken EXCEPT ![w] = @ \ {c}]
          /\ UNCHANGED <<task, pc, name>>
     \/ /\ taken[w] = {}
        /\ IF AfterStop[task[w]] = "idle" THEN Ended(w)
           ELSE Goto(w, AfterStop[task[w]]) /\ UNCHANGED <<task, name>>
        /\ UNCHANGED <<live, dead, taken>>
  /\ UNCHANGED <<mapVars, restartVars, triggered, fresh, todo, callVars, histVars>>

\* Mutant: the plugin stays registered while its process is stopped.
TakeButKeep(w) ==
  taken' = [taken EXCEPT ![w] = {plugins[name[w]]}] /\ UNCHANGED plugins

\* The client leaves the map: from now on w owns it.
Take(w) ==
  /\ taken' = [taken EXCEPT ![w] = {plugins[name[w]]}]
  /\ plugins' = [plugins EXCEPT ![name[w]] = NoClient]

\* The first half of DisablePlugin and restartPluginInternal.
Unlink(w) ==
  /\ Locked(w, "unlink")
  /\ \/ /\ plugins[name[w]] = NoClient
        /\ \/ task[w] = "disable" /\ Ended(w)
           \/ task[w] = "restart" /\ Goto(w, "settled") /\ UNCHANGED <<task, name>>
        /\ UNCHANGED <<plugins, taken>>
     \/ /\ plugins[name[w]] # NoClient
        /\ Take(w)
        /\ Goto(w, "stop")
        /\ UNCHANGED <<task, name>>
  /\ UNCHANGED <<disabled, procVars, restartVars, triggered, fresh, todo, callVars, histVars>>

\* Mutant: a failed restart does not look whether the plugin is loaded again.
ShelveLoaded(n) ==
  disabled' = disabled \cup {n}

\* A failed restart disables the plugin, unless it was loaded meanwhile.
ShelveFailed(n) ==
  disabled' = IF plugins[n] = NoClient THEN disabled \cup {n} ELSE disabled

\* The plugin goes to the disabled set, where the dashboard can enable it:
\* always after DisablePlugin, after a failed restart unless it is loaded.
Shelve(w) ==
  LET n == name[w] IN
  /\ Locked(w, "shelve")
  /\ \/ /\ task[w] = "disable"
        /\ disabled' = disabled \cup {n}
        /\ Ended(w)
     \/ /\ task[w] = "restart"
        /\ ShelveFailed(n)
        /\ Goto(w, "failed")
        /\ UNCHANGED <<task, name>>
  /\ UNCHANGED <<plugins, procVars, restartVars, triggered, taken, fresh, todo, callVars, overlapped>>

-----------------------------------------------------------------------------
(* Dashboard, hot reload and shutdown.                                     *)

Begin(w, t, n, l) ==
  /\ pc[w] = "idle"
  /\ task' = [task EXCEPT ![w] = t]
  /\ name' = [name EXCEPT ![w] = n]
  /\ Goto(w, l)

DisablePlugin(w, n) ==
  /\ Begin(w, "disable", n, "unlink")
  /\ UNCHANGED <<mapVars, procVars, restartVars, triggered, taken, fresh, todo, callVars, histVars>>

\* Only a name in the disabled set and not loaded is loaded again.
EnablePlugin(w, n) ==
  /\ plugins[n] = NoClient /\ n \in disabled
  /\ Begin(w, "enable", n, "spawn")
  /\ UNCHANGED <<mapVars, procVars, restartVars, triggered, taken, fresh, todo, callVars, histVars>>

Shutdown(w) ==
  /\ Begin(w, "shutdown", NoName, "collect")
  /\ UNCHANGED <<mapVars, procVars, restartVars, triggered, taken, fresh, todo, callVars, histVars>>

\* ReloadFromDir: plugins are switched on or off, or plugins_dir changes.  Start
\* loads the directory the same way, into empty maps.
ReloadFromDir(w, t) ==
  /\ Begin(w, t, NoName, "collect")
  /\ UNCHANGED <<mapVars, procVars, restartVars, triggered, taken, fresh, todo, callVars, histVars>>

\* Shutdown empties the map and owns all its clients; it then waits for the
\* other goroutines at most shutdown_timeout_sec, and goes on.
Collect(w) ==
  /\ Locked(w, "collect")
  /\ taken' = [taken EXCEPT ![w] = {plugins[n] : n \in Names} \ {NoClient}]
  /\ plugins' = [n \in Names |-> NoClient]
  /\ Goto(w, "stop")
  /\ UNCHANGED <<disabled, procVars, restartVars, triggered, task, name, fresh, todo, callVars, histVars>>

\* The plugins disabled from the dashboard are forgotten.
Forget(w) ==
  /\ Locked(w, "forget")
  /\ disabled' = {}
  /\ todo' = [todo EXCEPT ![w] = IF task[w] = "reloadOn" THEN Names ELSE {}]
  /\ Goto(w, "scan")
  /\ UNCHANGED <<plugins, procVars, restartVars, triggered, task, name, taken, fresh, callVars, overlapped>>

\* LoadPluginsFromDir: its parallel loads of different names share nothing but
\* the maps, and are taken one after the other.
Scan(w) ==
  /\ pc[w] = "scan"
  /\ \/ /\ todo[w] = {} /\ Ended(w)
        /\ UNCHANGED todo
     \/ \E n \in todo[w] :
          /\ todo' = [todo EXCEPT ![w] = @ \ {n}]
          /\ name' = [name EXCEPT ![w] = n]
          /\ Goto(w, "spawn")
          /\ UNCHANGED task
  /\ UNCHANGED <<mapVars, procVars, restartVars, triggered, taken, fresh, callVars, histVars>>

UpdateSettings ==
  /\ maxRestarts' \in Budgets
  /\ UNCHANGED <<mapVars, procVars, inProgress, count, cooling, triggered, workVars, callVars, histVars>>

-----------------------------------------------------------------------------
(* Restarts.                                                               *)

\* triggerRestart starts one more goroutine.
Trigger(n) ==
  triggered' = [triggered EXCEPT ![n] = IF @ < MaxTriggered THEN @ + 1 ELSE @]

\* tryRestartPlugin up to its budget check: it gives way to a restart under way.
TryRestart(w, n) ==
  /\ w \in Restarters /\ pc[w] = "idle" /\ triggered[n] > 0
  /\ triggered' = [triggered EXCEPT ![n] = @ - 1]
  /\ IF inProgress[n] \/ (count[n] >= maxRestarts /\ cooling[n])
     THEN UNCHANGED <<task, pc, name>>
     ELSE /\ task' = [task EXCEPT ![w] = "restart"]
          /\ name' = [name EXCEPT ![w] = n]
          /\ Goto(w, "claim")
  /\ UNCHANGED <<mapVars, procVars, restartVars, taken, fresh, todo, callVars, histVars>>

\* The flag is read and set in two steps.
Claim(w) ==
  /\ pc[w] = "claim"
  /\ inProgress' = [inProgress EXCEPT ![name[w]] = TRUE]
  /\ Goto(w, "unlink")
  /\ UNCHANGED <<mapVars, procVars, count, cooling, maxRestarts, triggered, task, name, taken,
                 fresh, todo, callVars, histVars>>

\* A failed restart is counted (bound: to the largest budget); a restart without error forgets the failures.
Settle(w) ==
  LET n == name[w] IN
  /\ pc[w] \in {"failed", "settled"}
  /\ inProgress' = [inProgress EXCEPT ![n] = FALSE]
  /\ IF pc[w] = "failed"
     THEN /\ count' = [count EXCEPT ![n] = IF @ < Max(Budgets) THEN @ + 1 ELSE @]
          /\ cooling' = [cooling EXCEPT ![n] = TRUE]
     ELSE count' = [count EXCEPT ![n] = 0] /\ UNCHANGED cooling
  /\ Ended(w)
  /\ UNCHANGED <<mapVars, procVars, maxRestarts, triggered, taken, fresh, todo, callVars, histVars>>

\* restart_cooldown_sec have passed since the last failure.
CooldownEnds(n) ==
  /\ cooling[n]
  /\ cooling' = [cooling EXCEPT ![n] = FALSE]
  /\ UNCHANGED <<mapVars, procVars, inProgress, count, maxRestarts, triggered, workVars, callVars, histVars>>

-----------------------------------------------------------------------------
(* Hooks and tool calls.                                                   *)

\* The read lock is taken, unless a writer waits for it: by a hook, for the
\* plugins in their order, or by a tool call, for the plugin of the tool.
Enter(h) ==
  /\ pos[h] = 0 /\ NoWriterWaits
  /\ \E i \in 1 .. Len(Order) : pos' = [pos EXCEPT ![h] = i]
  /\ UNCHANGED <<mapVars, procVars, restartVars, triggered, workVars, call, histVars>>

Leave(h) == pos' = [pos EXCEPT ![h] = 0]

\* The caller goes on with the next plugin, or is through: a tool call has one
\* plugin, and a veto (or in before_send an error) ends the chain of a hook.
Onward(h) ==
  \/ Leave(h)
  \/ pos[h] < Len(Order) /\ pos' = [pos EXCEPT ![h] = @ + 1]

\* A dead transport is skipped and its restart triggered.
Visit(h) ==
  LET n == Order[pos[h]] IN
  /\ pos[h] # 0 /\ call[h] = NoClient
  /\ IF plugins[n] = NoClient \/ n \in Commands
     THEN Onward(h) /\ UNCHANGED <<triggered, call>>
     ELSE IF plugins[n] \in dead
     THEN Trigger(n) /\ Onward(h) /\ UNCHANGED call
     ELSE call' = [call EXCEPT ![h] = plugins[n]] /\ UNCHANGED <<triggered, pos>>
  /\ UNCHANGED <<mapVars, procVars, restartVars, workVars, histVars>>

\* stdioJSONRPCClient.Call: the reply with the id of the request.
Answer(h) ==
  /\ call[h] # NoClient /\ call[h] \notin dead
  /\ Onward(h)
  /\ call' = [call EXCEPT ![h] = NoClient]
  /\ UNCHANGED <<mapVars, procVars, restartVars, triggered, workVars, histVars>>

\* Mutant: a call without a timeout.
FailOnlyDead(h) ==
  /\ call[h] \in dead
  /\ Trigger(Order[pos[h]])
  /\ Onward(h)
  /\ call' = [call EXCEPT ![h] = NoClient]
  /\ UNCHANGED <<mapVars, procVars, restartVars, workVars, histVars>>

\* The call finds the transport dead, or times out, in its turn or still
\* waiting for the transport's mutex: the transport is dead from now on.
Fail(h) ==
  /\ call[h] # NoClient
  /\ dead' = dead \cup {call[h]}
  /\ Trigger(Order[pos[h]])
  /\ Onward(h)
  /\ call' = [call EXCEPT ![h] = NoClient]
  /\ UNCHANGED <<mapVars, live, restartVars, workVars, histVars>>

\* A process exits by itself; watchPluginProcess marks its transport dead.
Exit(c) ==
  /\ c \in live
  /\ live' = live \ {c} /\ dead' = dead \cup {c}
  /\ UNCHANGED <<mapVars, restartVars, triggered, workVars, callVars, histVars>>

-----------------------------------------------------------------------------
WorkerStep(w) ==
  \/ Spawn(w) \/ Handshake(w) \/ Insert(w) \/ Stop(w) \/ Unlink(w) \/ Shelve(w)
  \/ Collect(w) \/ Forget(w) \/ Scan(w) \/ Claim(w) \/ Settle(w)


Next ==
  \/ \E w \in Workers : WorkerStep(w)
  \/ \E w \in Requests, n \in Names : DisablePlugin(w, n) \/ EnablePlugin(w, n)
  \/ \E w \in Reloads : Shutdown(w) \/ \E t \in {"reloadOn", "reloadOff"} : ReloadFromDir(w, t)
  \/ \E w \in Restarters, n \in Names : TryRestart(w, n)
  \/ \E n \in Names : CooldownEnds(n)
  \/ \E h \in Callers : Enter(h) \/ Visit(h) \/ Answer(h) \/ Fail(h)
  \/ \E c \in Clients : Exit(c)
  \/ UpdateSettings

\* Goroutines go on.  A plugin need not answer: every call has a timeout.
Fairness ==
  /\ \A w \in Workers : WF_vars(WorkerStep(w))
  /\ \A h \in Callers : WF_vars(Visit(h) \/ Fail(h))

Spec == Init /\ [][Next]_vars
FairSpec == Spec /\ Fairness

-----------------------------------------------------------------------------
(* Properties.                                                             *)

Loading == {"spawn", "init", "insert"}
ForAName == Loading \cup {"claim", "unlink", "shelve", "failed", "settled"}
Pcs == {"idle", "absent", "stop", "collect", "forget", "scan"} \cup ForAName

TypeOK ==
  /\ plugins \in [Names -> Clients \cup {NoClient}]
  /\ disabled \subseteq Names
  /\ live \subseteq Clients /\ dead \subseteq Clients
  /\ inProgress \in [Names -> BOOLEAN] /\ cooling \in [Names -> BOOLEAN]
  /\ count \in [Names -> Nat] /\ maxRestarts \in Budgets
  /\ triggered \in [Names -> 0 .. MaxTriggered]
  /\ pc \in [Workers -> Pcs]
  /\ task \in [Workers -> {"none"} \cup DOMAIN AfterStop \cup {"enable"}]
  /\ name \in [Workers -> Names \cup {NoName}]
  /\ taken \in [Workers -> SUBSET Clients]
  /\ fresh \in [Workers -> Clients \cup {NoClient}]
  /\ todo \in [Workers -> SUBSET Names]
  /\ pos \in [Callers -> 0 .. Len(Order)]
  /\ call \in [Callers -> Clients \cup {NoClient}]
  /\ overlapped \subseteq Names

\* A client is registered under the name it was started for, or owned by one
\* goroutine, never both and never by two: no process is stopped, killed or
\* registered twice by restarts, disables, reloads and loads that overlap
\* (lifecycle.go:200-222, 813-822, 865-882, 958-970).
OneOwner ==
  /\ \A m, n \in Names : m # n => plugins[m] # plugins[n] \/ plugins[m] = NoClient
  /\ \A w \in Workers : Owned(w) \cap Registered = {}
  /\ \A v, w \in Workers : v # w => Owned(v) \cap Owned(w) = {}
  /\ \A w \in Workers : fresh[w] \notin taken[w]

\* Every plugin process that runs is registered or a goroutine is about to
\* register or stop it: none outlives its plugin unnoticed, not even when two
\* starts of one plugin overlap (lifecycle.go:171-175, 193-206).
NoOrphan == live \subseteq Registered \cup UNION {Owned(w) : w \in Workers}

\* A plugin is listed both as loaded and as disabled only if it was loaded
\* while DisablePlugin was stopping its old process: never after a failed
\* restart (lifecycle.go:889-895, 975-983).
LoadedOrDisabled ==
  \A n \in disabled : plugins[n] # NoClient => n \in overlapped

\* The inductive strengthening of the three invariants above.

\* A worker holds a new client only while it loads one, and removed clients
\* only while it stops them; it has a name where it works on one plugin, and it
\* is at a place its task goes to.
Ordered(w) ==
  /\ fresh[w] # NoClient <=> pc[w] \in {"init", "insert"}
  /\ taken[w] # {} => pc[w] = "stop"
  /\ todo[w] # {} => task[w] = "reloadOn"
  /\ pc[w] \in ForAName => name[w] \in Names
  /\ pc[w] \in {"idle", "absent"} => task[w] = "none"
  /\ pc[w] \in Loading => task[w] \in {"enable", "restart", "reloadOn"}
  /\ pc[w] \in {"claim", "failed", "settled"} => task[w] = "restart"
  /\ pc[w] \in {"unlink", "shelve"} => task[w] \in {"disable", "restart"}
  /\ pc[w] \in {"collect", "forget"} => task[w] \in {"shutdown", "reloadOn", "reloadOff"}
  /\ pc[w] = "stop" => /\ task[w] \in DOMAIN AfterStop
                       /\ task[w] \in {"disable", "restart"} => name[w] \in Names
  /\ task[w] = "disable" => w \in Requests

WorkerOrder == \A w \in Workers : Ordered(w)

\* A call is made only inside the manager.
CallerOrder == \A h \in Callers : call[h] # NoClient => pos[h] # 0

\* A load that comes between the two halves of a disable is on record.
OverlapOnRecord ==
  \A w \in Workers : task[w] = "disable" /\ pc[w] \in {"stop", "shelve"}
                     /\ plugins[name[w]] # NoClient => name[w] \in overlapped

IInv ==
  /\ TypeOK
  /\ WorkerOrder
  /\ CallerOrder
  /\ OneOwner
  /\ NoOrphan
  /\ OverlapOnRecord
  /\ LoadedOrDisabled

\* No deadlock and no starvation among the manager's lock, the hooks that hold
\* it while plugins answer, and the goroutines that restart these plugins: a
\* reload and the shutdown of the bot come to their end, whatever else goes on
\* (manager.go:90-108, 165, lifecycle.go:813-841).
ReloadsReturn ==
  \A w \in Reloads : pc[w] # "idle" ~> pc[w] = "idle"

=============================================================================
