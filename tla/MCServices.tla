----------------------------- MODULE MCServices -----------------------------
(* The parts around the pipeline that share no state with each other, each   *)
(* on a small instance: a behaviour is one of one part, chosen at the start, *)
(* and the others stay as they are.                                          *)
EXTENDS DiscordSession, FiniteSets, Sequences

CONSTANTS
  \* the registry of tools
  Builtins, Plugins, Bases, McpTools, Managers, Refreshers, Reload, ToolCallers,
  MaxToolIterations, RetryCount, NoOne, MaxChanges,
  \* the web server
  Settings, Ports, NoPort, Stores, Browsers, TTL, MaxAttempts, LoginWindow, MaxTime, MaxReloads,
  \* the connection of a plugin
  Hooks, Loader, PipeSize, MaxToolChanges, MaxStray,
  \* the history of a channel
  Replies, Limit, Flush, PageLimit, RateLimitRetries, MaxMessages, MaxDeleted, MaxFaults, MaxClears,
  \* the components of a reload
  Values, Inherit, Off, Nothing,
  \* the memories of a prompt: their author, others, and two channels
  me, you, other, here, away, MaxWrites,
  \* the decision to answer
  Sizes, MaxHistory, Contents, Widths, Base, Omitted, Marker, Budgets, DecisionRetries

VARIABLES
  part,
  tools, lost, offered, unlisted, installed, job, manager, served, writer, call, changes,
  webconfig, router, listening, retired, foreign, unused, pending, webphase, unbound,
  websessions, attempts, cookie, csrf, req, now, webreloads,
  task, held, waits, rpc, holder, stdin, stdout, closed, process, dead, serving,
  has, tell, registered, published, excused, strays,
  posted, deleted, fetching, got, before, attempt, cutoff, anchor, clear, given, broken,
  shared, faults, clears,
  config, next, phase, todo, prepared, logger, service, plugins, policy, failed, reloads,
  source, vectors, deleting, storing, searching, hits, found, asked, reply, shown, gone, writes,
  provider, history, budget, content, width, kept, marked, start, total, step,
  answerTry, answer, feedback, expired, verdict, requests

\* The eighth part, the Discord session, is the module extended here: Init,
\* Next, vars and its properties are that module's.
Registry   == INSTANCE ToolRegistry WITH Callers <- ToolCallers
Web        == INSTANCE WebServer WITH config <- webconfig, phase <- webphase,
                sessions <- websessions, reloads <- webreloads, Window <- LoginWindow
Connection == INSTANCE PluginConnection WITH offered <- has, NoCaller <- NoOne,
                MaxChanges <- MaxToolChanges
History    == INSTANCE ContextHistory WITH at <- fetching
Components == INSTANCE ReloadComponents
\* Record 1 is a fact, 4 is another author's from the channel of the message.
Retrieval  == INSTANCE MemoryRetrieval WITH at <- searching,
                Records <- 1..4, Owner <- <<me, me, me, you>>, Place <- <<away, here, away, here>>,
                Facts <- {1}, MentionsOf <- <<{you}, {you, other}, {other}, {}>>, Channelled <- {2, 4},
                Author <- me, Channel <- here, Mentions <- {me, you, other},
                TopK <- 2, MentionedLimit <- 1, ChannelLimit <- 2, IncludeChannel <- TRUE
Decision   == INSTANCE DecisionRequest WITH attempt <- answerTry, RetryCount <- DecisionRetries

ASSUME ServicesAssumption ==
  /\ Registry!RegistryAssumption /\ SessionAssumption /\ Web!WebAssumption
  /\ Connection!ConnectionAssumption /\ History!HistoryAssumption
  /\ Components!ComponentsAssumption /\ Retrieval!RetrievalAssumption
  /\ Decision!DecisionAssumption

registryVars ==
  <<tools, lost, offered, unlisted, installed, job, manager, served, writer, call, changes>>
webVars ==
  <<webconfig, router, listening, retired, foreign, unused, pending, webphase, unbound,
    websessions, attempts, cookie, csrf, req, now, webreloads>>
connectionVars ==
  <<task, held, waits, rpc, holder, stdin, stdout, closed, process, dead, serving,
    has, tell, registered, published, excused, strays>>
historyVars ==
  <<posted, deleted, fetching, got, before, attempt, cutoff, anchor, clear, given, broken,
    shared, faults, clears>>
componentsVars ==
  <<config, next, phase, todo, prepared, logger, service, plugins, policy, failed, reloads>>
retrievalVars ==
  <<source, vectors, deleting, storing, searching, hits, found, asked, reply, shown, gone, writes>>
decisionVars ==
  <<provider, history, budget, content, width, kept, marked, start, total, step,
    answerTry, answer, feedback, expired, verdict, requests>>
servicesVars == <<part, registryVars, vars, webVars, connectionVars, historyVars,
          componentsVars, retrievalVars, decisionVars>>

\* Managers, sessions and settings are interchangeable: the first of each is
\* the one at the start.  Of the parts that do not move, one initial state.
ServicesInit ==
  /\ part \in {"registry", "discord", "web", "connection", "history", "components", "retrieval",
              "decision"}
  /\ Registry!Init /\ Init /\ Web!Init
  /\ Connection!Init /\ History!Init /\ Components!Init /\ Retrieval!Init
  /\ Decision!Init
  /\ manager[CHOOSE m \in Managers : TRUE] = "current"
  /\ current = CHOOSE s \in Sessions : TRUE
  /\ webconfig.settings = CHOOSE x \in Settings : TRUE
  /\ part # "registry" => installed.mcp = {}
  /\ part # "web" => foreign = {} /\ webconfig.enabled /\ webconfig.port = CHOOSE p \in Ports : TRUE
  /\ config.level = CHOOSE v \in Values : TRUE
  /\ part # "components" => config.memory
  /\ part # "decision" =>
       /\ history = <<>> /\ provider = "llm" /\ content = 0 /\ width = 1
       /\ budget = CHOOSE n \in Budgets : TRUE

ServicesNext ==
  \/ /\ part = "registry" /\ Registry!Next
     /\ UNCHANGED <<part, vars, webVars, connectionVars, historyVars, componentsVars, retrievalVars, decisionVars>>
  \/ /\ part = "discord" /\ Next
     /\ UNCHANGED <<part, registryVars, webVars, connectionVars, historyVars, componentsVars, retrievalVars, decisionVars>>
  \/ /\ part = "web" /\ Web!Next
     /\ UNCHANGED <<part, registryVars, vars, connectionVars, historyVars, componentsVars, retrievalVars, decisionVars>>
  \/ /\ part = "connection" /\ Connection!Next
     /\ UNCHANGED <<part, registryVars, vars, webVars, historyVars, componentsVars, retrievalVars, decisionVars>>
  \/ /\ part = "history" /\ History!Next
     /\ UNCHANGED <<part, registryVars, vars, webVars, connectionVars, componentsVars, retrievalVars, decisionVars>>
  \/ /\ part = "components" /\ Components!Next
     /\ UNCHANGED <<part, registryVars, vars, webVars, connectionVars, historyVars, retrievalVars, decisionVars>>
  \/ /\ part = "retrieval" /\ Retrieval!Next
     /\ UNCHANGED <<part, registryVars, vars, webVars, connectionVars, historyVars, componentsVars, decisionVars>>
  \/ /\ part = "decision" /\ Decision!Next
     /\ UNCHANGED <<part, registryVars, vars, webVars, connectionVars, historyVars, componentsVars, retrievalVars>>

ServicesSpec == ServicesInit /\ [][ServicesNext]_servicesVars

\* The properties of the parts; those of a part that does not move hold of
\* its initial state.
NoCallOnReplaced  == Registry!NoCallOnReplaced
RegistryExact     == Registry!RegistryExact
SignedOut         == Web!SignedOut
ServesConfigured  == Web!ServesConfigured
ToolsPublished    == Connection!ToolsPublished
WindowExtends     == History!WindowExtends
RunsAsConfigured  == Components!RunsAsConfigured
PromptShowsLiving == Retrieval!PromptShowsLiving
NewestThatFits    == Decision!NewestThatFits
=============================================================================
