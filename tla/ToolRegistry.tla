----------------------------- MODULE ToolRegistry -----------------------------
(***************************************************************************)
(* internal/ai/tools with those that fill it and those that use it: the    *)
(* plugin tools are registered anew after each change a refresh is asked   *)
(* for, the MCP tools by a hot reload that replaces the MCP manager, and   *)
(* the tool loops of replies look tools up and run them.  The registry's   *)
(* lock is Go's RWMutex: a writer that waits keeps new readers out, and a  *)
(* tool runs under the read lock.                                          *)
(***************************************************************************)
EXTENDS Naturals, FiniteSets

CONSTANTS
  Builtins,      \* the Discord tools
  Plugins, Bases, \* plugins and the (sanitized) names of their tools
  McpTools,      \* names of MCP tools, with that of their server
  Managers,      \* MCP managers, one per configuration
  Refreshers,    \* goroutines that refresh the plugin tools
  Reload,        \* the goroutine of a hot reload, one at a time
  Callers,       \* replies
  MaxToolIterations, RetryCount,
  NoOne,
  MaxChanges     \* bound: changes of the plugins' tools

\* Assumed of the constants.
RegistryAssumption ==
  /\ Reload \notin Refreshers /\ NoOne \notin Refreshers \cup {Reload}
  /\ IsFiniteSet(Plugins) /\ Managers # {}
  /\ MaxToolIterations \in Nat /\ RetryCount \in Nat /\ MaxChanges \in Nat

VARIABLES
  tools,      \* the registry: the owner of each name
  lost,       \* history: names with the kind of owner whose tool another kind took off them
  offered,    \* what each plugin offers: its tool list, {} unless it runs
  unlisted,   \* history: plugins that changed with no refresh to follow
  installed,  \* pluginToolNames, mcpToolNames
  job,        \* of refreshers and the reload
  manager,    \* state of each MCP manager
  served,     \* the tools it listed
  writer,     \* who has, or waits for, the write lock
  call,       \* the tool loop of each reply
  changes

vars == <<tools, lost, offered, unlisted, installed, job, manager, served, writer, call, changes>>

Name(x)      == <<x>>
Scoped(p, b) == <<p, b>>
Names == {Name(x) : x \in Builtins \cup Bases \cup McpTools} \cup {Scoped(p, b) : p \in Plugins, b \in Bases}

Free           == <<"free">>
Builtin        == <<"builtin">>
OfPlugin(p, b) == <<"plugin", p, b>>
OfManager(m)   == <<"mcp", m>>

\* Nothing keeps the names of the three kinds apart: Register overwrites what
\* has the name, and Unregister removes it, whoever registered it.
KindOf(owner) == owner[1]
Losers(n, kind) == {<<n, k>> : k \in {KindOf(tools[n])} \ {"free", kind}}

Jobs == Refreshers \cup {Reload}
Kind(x) == IF x = Reload THEN "mcp" ELSE "plugin"
NoJob  == [step |-> "idle", todo |-> {}, next |-> {}, drop |-> {}]
NoCall == [step |-> "idle", schema |-> {}, name |-> <<>>, owner |-> Free, left |-> 0, tries |-> 0]

\* New has registered the Discord tools, Start after them the tools S of a
\* first manager.
Init ==
  /\ \E m \in Managers, S \in SUBSET McpTools :
       /\ manager = [k \in Managers |-> IF k = m THEN "current" ELSE "new"]
       /\ served = [k \in Managers |-> IF k = m THEN S ELSE {}]
       /\ installed = [plugin |-> {}, mcp |-> {Name(t) : t \in S}]
       /\ tools = [n \in Names |-> IF n \in {Name(t) : t \in S} THEN OfManager(m)
                                   ELSE IF n \in {Name(x) : x \in Builtins} THEN Builtin ELSE Free]
       /\ lost = {<<Name(x), "builtin">> : x \in Builtins \cap S}
  /\ offered = [p \in Plugins |-> {}] /\ unlisted = {}
  /\ job = [x \in Jobs |-> NoJob]
  /\ writer = NoOne
  /\ call = [c \in Callers |-> NoCall]
  /\ changes = 0

-----------------------------------------------------------------------------
(* The plugin tools *)

\* A plugin is enabled or disabled, or reports that its tools changed; the
\* goroutine that did it asks for a refresh.
ChangeTools(x, p, S) ==
  /\ job[x].step = "idle" /\ changes < MaxChanges /\ S # offered[p]
  /\ offered' = [offered EXCEPT ![p] = S]
  /\ job' = [job EXCEPT ![x].step = "wait"]
  /\ changes' = changes + 1
  /\ UNCHANGED <<tools, lost, unlisted, installed, manager, served, writer, call>>

\* A plugin crashes, or is restarted: nobody refreshes.
ChangeUnlisted(p, S) ==
  /\ changes < MaxChanges /\ S # offered[p]
  /\ offered' = [offered EXCEPT ![p] = S]
  /\ unlisted' = unlisted \cup {p}
  /\ changes' = changes + 1
  /\ UNCHANGED <<tools, lost, installed, job, manager, served, writer, call>>

\* Two plugins with a tool of one name have it under their own names.
FullName(list, p, b) ==
  IF Cardinality({q \in Plugins : b \in list[q]}) > 1 THEN Scoped(p, b) ELSE Name(b)

PluginEntries(list) ==
  {<<FullName(list, e[1], e[2]), OfPlugin(e[1], e[2])>> : e \in {e \in Plugins \X Bases : e[2] \in list[e[1]]}}

\* registerPluginTools: pluginRegisterMu, then ListTools.
List(x) ==
  /\ job[x].step = "wait"
  /\ \A y \in Refreshers : job[y].step \in {"idle", "wait"}
  /\ LET entries == PluginEntries(offered) IN
     job' = [job EXCEPT ![x] = [step |-> "register", todo |-> entries,
                                next |-> {e[1] : e \in entries}, drop |-> {}]]
  /\ unlisted' = {}
  /\ UNCHANGED <<tools, lost, offered, installed, manager, served, writer, call, changes>>

-----------------------------------------------------------------------------
(* The MCP tools *)

Current == CHOOSE m \in Managers : manager[m] = "current"

McpEntries(m, S) == {<<Name(t), OfManager(m)>> : t \in S}

\* PrepareMCP connects to every server and lists the tools; a server that is
\* not configured any more, or whose list fails, contributes none.
PrepareMCP(m, S) ==
  /\ job[Reload].step = "idle" /\ manager[m] = "new"
  /\ manager' = [manager EXCEPT ![m] = "prepared"]
  /\ served' = [served EXCEPT ![m] = S]
  /\ job' = [job EXCEPT ![Reload].step = "prepared"]
  /\ UNCHANGED <<tools, lost, offered, unlisted, installed, writer, call, changes>>

Prepared == CHOOSE m \in Managers : manager[m] = "prepared"

\* A server cannot be reached, or another component rejects the reload.
AbortMCP ==
  /\ job[Reload].step = "prepared"
  /\ manager' = [manager EXCEPT ![Prepared] = "closed"]
  /\ job' = [job EXCEPT ![Reload] = NoJob]
  /\ UNCHANGED <<tools, lost, offered, unlisted, installed, served, writer, call, changes>>

SwapMCP ==
  /\ job[Reload].step = "prepared"
  /\ manager' = [manager EXCEPT ![Current] = "replaced", ![Prepared] = "current"]
  /\ LET entries == McpEntries(Prepared, served[Prepared]) IN
     job' = [job EXCEPT ![Reload] = [step |-> "register", todo |-> entries,
                                     next |-> {e[1] : e \in entries}, drop |-> {}]]
  /\ UNCHANGED <<tools, lost, offered, unlisted, installed, served, writer, call, changes>>

\* The timer of the replaced manager, started when the install has ended.
CloseMCP(m) ==
  /\ manager[m] = "closing"
  /\ manager' = [manager EXCEPT ![m] = "closed"]
  /\ UNCHANGED <<tools, lost, offered, unlisted, installed, job, served, writer, call, changes>>

-----------------------------------------------------------------------------
(* Both kinds: register the new tools, swap the names, unregister the rest *)

\* Mutant: a tool is looked up under the lock and run without it.
ReadersOfLookups == {}

\* ExecuteTool keeps the read lock while the tool runs.
Readers == {c \in Callers : call[c].step = "running"}

WritePending(x) ==
  \/ job[x].step = "register" /\ job[x].todo # {}
  \/ job[x].step = "unregister" /\ job[x].drop # {}

Lock(x) ==
  /\ WritePending(x) /\ writer = NoOne
  /\ writer' = x
  /\ UNCHANGED <<tools, lost, offered, unlisted, installed, job, manager, served, call, changes>>

Register(x) ==
  /\ writer = x /\ Readers = {} /\ job[x].step = "register"
  /\ \E e \in job[x].todo :
       /\ tools' = [tools EXCEPT ![e[1]] = e[2]]
       /\ lost' = (lost \ {<<e[1], Kind(x)>>}) \cup Losers(e[1], Kind(x))
       /\ job' = [job EXCEPT ![x].todo = @ \ {e}]
  /\ writer' = NoOne
  /\ UNCHANGED <<offered, unlisted, installed, manager, served, call, changes>>

\* Mutant: what was registered before is dropped only when its owner is gone.
SwapNamesKeepsOwned(x) ==
  /\ job[x].step = "register" /\ job[x].todo = {}
  /\ job' = [job EXCEPT ![x].step = "unregister", ![x].drop =
       {n \in installed[Kind(x)] \ job[x].next : tools[n] \notin {OfPlugin(p, b) : p \in Plugins, b \in Bases}}]
  /\ installed' = [installed EXCEPT ![Kind(x)] = job[x].next]
  /\ UNCHANGED <<tools, lost, offered, unlisted, manager, served, writer, call, changes>>

SwapNames(x) ==
  /\ job[x].step = "register" /\ job[x].todo = {}
  /\ job' = [job EXCEPT ![x].step = "unregister", ![x].drop = installed[Kind(x)] \ job[x].next]
  /\ installed' = [installed EXCEPT ![Kind(x)] = job[x].next]
  /\ UNCHANGED <<tools, lost, offered, unlisted, manager, served, writer, call, changes>>

Unregister(x) ==
  /\ writer = x /\ Readers = {} /\ job[x].step = "unregister"
  /\ \E n \in job[x].drop :
       /\ tools' = [tools EXCEPT ![n] = Free]
       /\ lost' = lost \cup Losers(n, Kind(x))
       /\ job' = [job EXCEPT ![x].drop = @ \ {n}]
  /\ writer' = NoOne
  /\ UNCHANGED <<offered, unlisted, installed, manager, served, call, changes>>

Installed(x) ==
  /\ job[x].step = "unregister" /\ job[x].drop = {}
  /\ job' = [job EXCEPT ![x] = NoJob]
  /\ manager' = [m \in Managers |-> IF x = Reload /\ manager[m] = "replaced" THEN "closing" ELSE manager[m]]
  /\ UNCHANGED <<tools, lost, offered, unlisted, installed, served, writer, call, changes>>

-----------------------------------------------------------------------------
(* The tool loop of a reply *)

Others == <<tools, lost, offered, unlisted, installed, job, manager, served, writer, changes>>

MayRead == writer = NoOne

\* The schema is read once; the model gets it with every request.
Ask(c) ==
  /\ call[c].step = "idle" /\ MayRead
  /\ call' = [call EXCEPT ![c] = [NoCall EXCEPT !.step = "ask",
       !.schema = {n \in Names : tools[n] # Free}, !.left = MaxToolIterations, !.tries = RetryCount]]
  /\ UNCHANGED Others

\* A text, or an error that is not worth another attempt.
Answered(c) ==
  /\ call[c].step = "ask"
  /\ call' = [call EXCEPT ![c] = NoCall]
  /\ UNCHANGED Others

\* The request fails, or its calls have arguments that do not fit.
AskAgain(c) ==
  /\ call[c].step = "ask"
  /\ call' = [call EXCEPT ![c] = IF @.tries = 0 THEN NoCall ELSE [@ EXCEPT !.tries = call[c].tries - 1]]
  /\ UNCHANGED Others

\* Calls left after the last iteration are dropped.
ToolCalls(c, n) ==
  /\ call[c].step = "ask" /\ n \in call[c].schema /\ MayRead
  /\ call' = [call EXCEPT ![c] = IF @.left = 0 THEN NoCall
                                 ELSE [@ EXCEPT !.step = "call", !.name = n, !.left = call[c].left - 1]]
  /\ UNCHANGED Others

\* HandleToolCall, ExecuteTool: the tool may be gone, or be another's by now.
Execute(c) ==
  /\ call[c].step = "call" /\ MayRead
  /\ call' = [call EXCEPT ![c] = IF tools[@.name] = Free
       THEN [@ EXCEPT !.step = "ask", !.name = <<>>, !.tries = RetryCount]
       ELSE [@ EXCEPT !.step = "running", !.owner = tools[call[c].name]]]
  /\ UNCHANGED Others

EndCall(c) ==
  /\ call[c].step = "running"
  /\ call' = [call EXCEPT ![c].step = "ask", ![c].name = <<>>, ![c].owner = Free, ![c].tries = RetryCount]
  /\ UNCHANGED Others

Install(x) == Lock(x) \/ Register(x) \/ SwapNames(x) \/ Unregister(x) \/ Installed(x)

Next ==
  \/ \E x \in Refreshers :
       List(x) \/ \E p \in Plugins, S \in SUBSET Bases : ChangeTools(x, p, S)
  \/ \E p \in Plugins, S \in SUBSET Bases : ChangeUnlisted(p, S)
  \/ \E m \in Managers : CloseMCP(m) \/ \E S \in SUBSET McpTools : PrepareMCP(m, S)
  \/ AbortMCP \/ SwapMCP
  \/ \E x \in Jobs : Install(x)
  \/ \E c \in Callers :
       \/ Ask(c) \/ Answered(c) \/ AskAgain(c) \/ Execute(c) \/ EndCall(c)
       \/ \E n \in Names : ToolCalls(c, n)

Spec == Init /\ [][Next]_vars

-----------------------------------------------------------------------------
(* Properties *)

\* When its install has ended, no call runs on a replaced MCP manager and none
\* will: the grace before its close (reload.go:19-21) is not even needed,
\* because each write waited for the calls of before.
NoCallOnReplaced ==
  \A c \in Callers, m \in Managers :
    call[c].owner = OfManager(m) => manager[m] \in {"current", "replaced"}

Offers ==
  PluginEntries(offered) \cup McpEntries(Current, served[Current])
    \cup {<<Name(x), Builtin>> : x \in Builtins}

\* Whatever refreshes and reloads did concurrently, when they have ended the
\* registry holds what the Discord tools, the plugins and the current manager
\* offer, and nothing of what they offered before.  Names that collide are
\* taken silently (tools.go:50-56, 65-74), and may be removed by the kind that does
\* not have them: a collision never leaves a tool of an owner that is gone, and
\* a tool that is offered is missing only when another kind took its name since
\* its own last registered it.
RegistryExact ==
  (unlisted = {} /\ \A x \in Jobs : job[x].step = "idle") =>
    /\ \A n \in Names : tools[n] # Free => <<n, tools[n]>> \in Offers
    /\ \A e \in Offers : tools[e[1]] = e[2] \/ <<e[1], KindOf(e[2])>> \in lost
=============================================================================
