--------------------------- MODULE PluginConnection ---------------------------
(***************************************************************************)
(* The stdio connection of one plugin: the host's JSON-RPC client, the     *)
(* loop that serves it in the plugin's process, the load of the plugin and *)
(* the refresh of its tools after a tools_changed notification.            *)
(*                                                                         *)
(* A request is identified with its caller: a transport on which a call    *)
(* timed out is dead, so nobody calls twice with one call unanswered.      *)
(***************************************************************************)
EXTENDS Naturals, Sequences

CONSTANTS
  Hooks,       \* goroutines of hooks and tool calls
  Loader,      \* the one that loads the plugin
  Refreshers,  \* those of refreshTools, one for each notification
  NoCaller,
  PipeSize,    \* frames the plugin's stdout holds
  MaxChanges,  \* bound: changes of the plugin's tools
  MaxStray     \* bound: lines that are no frames

\* Assumed of the constants.
ConnectionAssumption ==
  /\ Loader \notin Hooks \cup Refreshers /\ Hooks \cap Refreshers = {}
  /\ NoCaller \notin Hooks \cup Refreshers \cup {Loader}
  /\ PipeSize \in Nat \ {0} /\ MaxChanges \in Nat /\ MaxStray \in Nat

Callers == Hooks \cup Refreshers \cup {Loader}

VARIABLES
  task,       \* what a caller is at: "idle", "hook", "info", "list", "prompt",
              \* "publish" (insert, for the loader), "failed"
  held,       \* the tool list it got
  waits,      \* it waits for its call: "yes"; it timed out: "closing"; "no"
  rpc,        \* the goroutine of its call: "none", "lock", "read"
  holder,     \* of the client's mutex
  stdin, stdout, closed, \* the pipes
  process,    \* "up", "exited", "reaped"
  dead,       \* the transport's flag
  serving,    \* the request the plugin works on, and the tools it saw
  offered,    \* the plugin's tool list, as a version number
  tell,       \* it has changed and not told the host yet
  registered, published, \* the client in the manager's map, and its tools
  excused,    \* history: the last refresh failed, or overlapped another or the load
  strays

hostVars == <<task, held, waits, rpc, holder, dead, closed, registered, published, excused>>
pluginVars == <<process, serving, offered, tell, strays>>
vars == <<hostVars, pluginVars, stdin, stdout>>

Frame(kind, to, tools) == [kind |-> kind, to |-> to, tools |-> tools]
NotServing == [of |-> NoCaller, tools |-> 0]

Init ==
  /\ task = [c \in Callers |-> IF c = Loader THEN "info" ELSE "idle"]
  /\ held = [c \in Callers |-> 0]
  /\ waits = [c \in Callers |-> "no"] /\ rpc = [c \in Callers |-> "none"]
  /\ holder = NoCaller /\ stdin = <<>> /\ stdout = <<>> /\ closed = FALSE
  /\ process = "up" /\ dead = FALSE /\ serving = NotServing
  /\ offered = 1 /\ tell = FALSE
  /\ registered = FALSE /\ published = 0 /\ excused = FALSE
  /\ strays = 0

-----------------------------------------------------------------------------
(* What a caller does with the result of its call *)

NextTask(t) == CASE t = "info" -> "list" [] t = "list" -> "prompt" [] t = "prompt" -> "publish"

\* A tool list that fails ends a refresh, and leaves a plugin that is loaded
\* without tools; a system prompt that fails is left out.
Advance(c, ok, tools) ==
  LET t == task[c] IN
  /\ task' = [task EXCEPT ![c] =
       IF t = "hook" \/ (t = "list" /\ c \in Refreshers /\ ~ok) THEN "idle"
       ELSE IF t = "info" /\ ~ok THEN "failed" ELSE NextTask(t)]
  /\ held' = [held EXCEPT ![c] = IF t = "list" /\ ok THEN tools ELSE @]
  /\ excused' = (excused \/ (t = "list" /\ ~ok))

\* The call of c returns: its result goes to the caller, if that still waits.
Return(c, ok, tools) ==
  /\ rpc' = [rpc EXCEPT ![c] = "none"] /\ holder' = NoCaller
  /\ IF waits[c] = "yes"
     THEN Advance(c, ok, tools) /\ waits' = [waits EXCEPT ![c] = "no"]
     ELSE UNCHANGED <<task, held, waits, excused>>

-----------------------------------------------------------------------------
(* stdioJSONRPCClient.Call and callJSONRPCWithTimeout *)

StartHook(c) ==
  /\ c \in Hooks /\ task[c] = "idle" /\ registered /\ ~dead
  /\ task' = [task EXCEPT ![c] = "hook"]
  /\ UNCHANGED <<held, waits, rpc, holder, dead, closed, registered, published, excused, pluginVars, stdin, stdout>>

\* A dead transport refuses the call.
Call(c) ==
  /\ task[c] \in {"hook", "info", "list", "prompt"} /\ waits[c] = "no" /\ rpc[c] = "none"
  /\ IF dead
     THEN Advance(c, FALSE, 0) /\ UNCHANGED <<waits, rpc>>
     ELSE /\ waits' = [waits EXCEPT ![c] = "yes"] /\ rpc' = [rpc EXCEPT ![c] = "lock"]
          /\ UNCHANGED <<task, held, excused>>
  /\ UNCHANGED <<holder, dead, closed, registered, published, pluginVars, stdin, stdout>>

\* The mutex is kept until the reply.  The flag is not looked at again before
\* the request is written, only before the first read.
Write(c) ==
  /\ rpc[c] = "lock" /\ holder = NoCaller
  /\ IF closed \/ process # "up"
     THEN dead' = TRUE /\ Return(c, FALSE, 0) /\ UNCHANGED stdin
     ELSE /\ stdin' = Append(stdin, c) /\ UNCHANGED dead
          /\ IF dead THEN Return(c, FALSE, 0)
             ELSE /\ rpc' = [rpc EXCEPT ![c] = "read"] /\ holder' = c
                  /\ UNCHANGED <<task, held, waits, excused>>
  /\ UNCHANGED <<closed, registered, published, pluginVars, stdout>>

\* Mutant: only the reply that is waited for is looked at.
IsNotificationOrReply(f) == FALSE

IsNotification(f) == f.kind = "notification"

\* A notification starts refreshTools (bound: an idle goroutine of Refreshers).
Refresh ==
  \E r \in Refreshers :
    /\ task[r] = "idle" /\ waits[r] = "no" /\ rpc[r] = "none"
    /\ task' = [task EXCEPT ![r] = "list"]
    /\ excused' = \E c \in (Refreshers \cup {Loader}) \ {r} : task[c] \notin {"idle", "failed"}

\* One frame: a line that is no frame, a notification and the reply to another
\* request are skipped.  (A refresh that began now on a dead transport fails.)
Read(c) ==
  /\ rpc[c] = "read" /\ stdout # <<>>
  /\ stdout' = Tail(stdout)
  /\ LET f == Head(stdout) IN
     IF f.kind \in {"reply", "error"} /\ f.to = c
     THEN Return(c, f.kind = "reply", f.tools)
     ELSE IF dead THEN Return(c, FALSE, 0)
     ELSE IF IsNotification(f)
     THEN Refresh /\ UNCHANGED <<held, waits, rpc, holder>>
     ELSE UNCHANGED <<task, held, waits, rpc, holder, excused>>
  /\ UNCHANGED <<dead, closed, registered, published, pluginVars, stdin>>

\* The pipe is closed by the host, or the process is gone.
ReadFails(c) ==
  /\ rpc[c] = "read" /\ (closed \/ (process # "up" /\ stdout = <<>>))
  /\ dead' = TRUE
  /\ Return(c, FALSE, 0)
  /\ UNCHANGED <<closed, registered, published, pluginVars, stdin, stdout>>

\* Also of a call that still waits for the mutex.
Timeout(c) ==
  /\ waits[c] = "yes"
  /\ dead' = TRUE /\ waits' = [waits EXCEPT ![c] = "closing"]
  /\ UNCHANGED <<task, held, rpc, holder, closed, registered, published, excused, pluginVars, stdin, stdout>>

TimeoutCloses(c) ==
  /\ waits[c] = "closing"
  /\ closed' = TRUE /\ waits' = [waits EXCEPT ![c] = "no"]
  /\ Advance(c, FALSE, 0)
  /\ UNCHANGED <<rpc, holder, dead, registered, published, pluginVars, stdin, stdout>>

-----------------------------------------------------------------------------
(* The end of a load and of a refresh, and the end of the plugin *)

\* Both publish under the manager's lock; a client that is not in the map
\* (yet, or any more) gets nothing.
Publish(c) ==
  /\ task[c] = "publish"
  /\ task' = [task EXCEPT ![c] = "idle"]
  /\ registered' = (registered \/ c = Loader)
  /\ published' = IF registered \/ c = Loader THEN held[c] ELSE published
  /\ UNCHANGED <<held, waits, rpc, holder, dead, closed, excused, pluginVars, stdin, stdout>>

\* The plugin is stopped, restarted or disabled: it leaves the map first.
Unlink ==
  /\ registered /\ registered' = FALSE
  /\ UNCHANGED <<task, held, waits, rpc, holder, dead, closed, published, excused, pluginVars, stdin, stdout>>

\* stopPluginProcess, and the end of a load that failed.
StopProcess ==
  /\ ~registered /\ task[Loader] \in {"idle", "failed"} /\ ~closed
  /\ closed' = TRUE
  /\ UNCHANGED <<task, held, waits, rpc, holder, dead, registered, published, excused, pluginVars, stdin, stdout>>

Exit ==
  /\ process = "up" /\ process' = "exited"
  /\ UNCHANGED <<hostVars, serving, offered, tell, strays, stdin, stdout>>

\* watchPluginProcess.
Reap ==
  /\ process = "exited" /\ process' = "reaped" /\ dead' = TRUE
  /\ UNCHANGED <<task, held, waits, rpc, holder, closed, registered, published, excused,
                 serving, offered, tell, strays, stdin, stdout>>

-----------------------------------------------------------------------------
(* The plugin's process: ServeIO, and a goroutine that watches its config *)

CanWrite == process = "up" /\ ~closed /\ Len(stdout) < PipeSize

Serve ==
  /\ process = "up" /\ serving = NotServing /\ stdin # <<>>
  /\ serving' = [of |-> Head(stdin), tools |-> offered] /\ stdin' = Tail(stdin)
  /\ UNCHANGED <<hostVars, process, offered, tell, strays, stdout>>

\* An error, a panic and a method it does not have are answered as well.
Reply ==
  /\ serving # NotServing /\ CanWrite
  /\ \E kind \in {"reply", "error"} : stdout' = Append(stdout, Frame(kind, serving.of, serving.tools))
  /\ serving' = NotServing
  /\ UNCHANGED <<hostVars, process, offered, tell, strays, stdin>>

ChangeTools ==
  /\ process = "up" /\ ~tell /\ offered <= MaxChanges
  /\ offered' = offered + 1 /\ tell' = TRUE
  /\ UNCHANGED <<hostVars, process, serving, strays, stdin, stdout>>

NotifyToolsChanged ==
  /\ tell /\ CanWrite /\ tell' = FALSE
  /\ stdout' = Append(stdout, Frame("notification", NoCaller, 0))
  /\ UNCHANGED <<hostVars, process, serving, offered, strays, stdin>>

\* The plugin prints to its stdout.
Stray ==
  /\ CanWrite /\ strays < MaxStray /\ strays' = strays + 1
  /\ stdout' = Append(stdout, Frame("stray", NoCaller, 0))
  /\ UNCHANGED <<hostVars, process, serving, offered, tell, stdin>>

Next ==
  \/ \E c \in Callers :
       StartHook(c) \/ Call(c) \/ Write(c) \/ Read(c) \/ ReadFails(c)
         \/ Timeout(c) \/ TimeoutCloses(c) \/ Publish(c)
  \/ Unlink \/ StopProcess \/ Exit \/ Reap
  \/ Serve \/ Reply \/ ChangeTools \/ NotifyToolsChanged \/ Stray

Spec == Init /\ [][Next]_vars

-----------------------------------------------------------------------------
(* Properties *)

\* When the plugin has told its changes, the host has read that, and every
\* refresh is over, the manager lists the tools the plugin has: whichever call
\* met the notification, and whatever else was on the pipe.  A refresh that
\* failed or overlapped another is excused until the next one.
ToolsPublished ==
  ( /\ registered /\ ~dead /\ ~excused /\ ~tell
    /\ \A i \in DOMAIN stdout : stdout[i].kind # "notification"
    /\ \A r \in Refreshers : task[r] = "idle" ) => published = offered
=============================================================================
