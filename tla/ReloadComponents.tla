--------------------------- MODULE ReloadComponents ---------------------------
(***************************************************************************)
(* What the logging, memory and plugins components of a hot reload compare *)
(* between the old and the new configuration, what they build for the      *)
(* difference, and what runs afterwards (internal/app, memory.Swappable,   *)
(* logger).  HotReload has the reload itself: who calls it and when.       *)
(*                                                                         *)
(* Many keys reach the memory service through a fallback: the endpoint of  *)
(* the embedding, of the consolidation and of the image model is the one   *)
(* of core.ai wherever it is not set.                                      *)
(***************************************************************************)
EXTENDS Naturals, FiniteSets

CONSTANTS
  Values,     \* of any one setting
  Inherit,    \* the key is not set
  Off,        \* no plugins; the no-op service of a memory that is disabled
  Nothing,    \* of a component that has nothing to do
  MaxReloads  \* bound: reloads

\* Assumed of the constants.  A component that has nothing to do returns nil,
\* which is none of what the others prepare.
ComponentsAssumption ==
  LET Loggers  == [file : Values, level : Values]
      Services == [embedding : Values, model : Values, service : Values,
                   consolidation : Values, image : Values]
  IN /\ {Inherit, Off, Nothing} \cap Values = {} /\ Inherit # Off /\ MaxReloads \in Nat
     /\ Off \notin Services
     /\ Nothing \notin [do : {"replace"}, logger : Loggers] \cup [do : {"level"}, level : Values]
     /\ Nothing \notin [do : {"replace"}, service : Services \cup {Off}]
                       \cup [do : {"embedder"}, embedding : Values]
     /\ Nothing \notin [do : {"reload", "settings"}]

\* One key stands for the address, the API key and the parameters of an
\* endpoint, one for the settings a service or the plugin host is built with.
Endpoints == {"embedding", "consolidation", "image"}
Keys == Endpoints \cup {"ai", "model", "service", "level", "file", "policy", "memory", "plugins"}

Choices(k) ==
  CASE k \in Endpoints -> Values \cup {Inherit}
    [] k = "memory"    -> BOOLEAN
    [] k = "plugins"   -> Values \cup {Off}
    [] OTHER           -> Values

Components == {"logging", "memory", "plugins"}

VARIABLES
  config,    \* the published configuration
  next,      \* the one of the reload under way
  phase,     \* "idle", "prepare", "commit"
  todo,      \* components yet to prepare or to commit
  prepared,  \* what each component will commit
  logger,    \* the global logger: file and level
  service,   \* the memory service behind the proxy
  plugins, policy, \* the directory of the plugins that run; their timeouts
  failed,    \* history: the last load of the plugins failed
  reloads

running == <<logger, service, plugins, policy, failed>>
vars == <<config, next, phase, todo, prepared, running, reloads>>

-----------------------------------------------------------------------------
(* LoggerConfig, memoryInputsFor, PluginSettings *)

LoggerConfig(c) == [file |-> c.file, level |-> c.level]

EmbeddingClient(c)     == IF c.embedding = Inherit THEN c.ai ELSE c.embedding
ConsolidationClient(c) == IF c.consolidation = Inherit THEN c.ai ELSE c.consolidation
ImageClient(c)         == IF c.image = Inherit THEN c.ai ELSE c.image
ServiceConfig(c)       == c.service

MemoryInputs(c) ==
  IF ~c.memory THEN Off
  ELSE [embedding |-> EmbeddingClient(c), model |-> c.model, service |-> ServiceConfig(c),
        consolidation |-> ConsolidationClient(c), image |-> ImageClient(c)]

\* The program starts with everything built from its first configuration.
Init ==
  /\ \E on \in BOOLEAN, v \in Values :
       config = [k \in Keys |-> IF k \in Endpoints THEN Inherit ELSE IF k = "memory" THEN on
                                ELSE IF k = "plugins" THEN Off ELSE v]
  /\ next = config /\ phase = "idle" /\ todo = {}
  /\ prepared = [c \in Components |-> Nothing]
  /\ logger = LoggerConfig(config) /\ service = MemoryInputs(config)
  /\ plugins = config.plugins /\ policy = config.policy /\ failed = FALSE
  /\ reloads = 0

-----------------------------------------------------------------------------
(* Prepare of each component: what it will commit, Nothing when it has to do *)
(* nothing for the change                                                  *)

Changed(k) == config[k] # next[k]

PrepareLogging ==
  IF ~Changed("file") /\ ~Changed("level") THEN Nothing
  ELSE IF Changed("file") THEN [do |-> "replace", logger |-> LoggerConfig(next)]
  ELSE [do |-> "level", level |-> next.level]

\* Mutant: an embedding that changed is all that is looked at.
EmbeddingChanged(old, new) ==
  old # Off /\ new # Off /\ old.embedding # new.embedding

EmbedderOnly(old, new) ==
  old # Off /\ new # Off /\ [old EXCEPT !.embedding = Nothing] = [new EXCEPT !.embedding = Nothing]

PrepareMemory ==
  LET old == MemoryInputs(config)
      new == MemoryInputs(next)
  IN IF old = new THEN Nothing
     ELSE IF EmbedderOnly(old, new) THEN [do |-> "embedder", embedding |-> new.embedding]
     ELSE [do |-> "replace", service |-> new]

PreparePlugins ==
  IF ~Changed("plugins") /\ ~Changed("policy") THEN Nothing
  ELSE [do |-> IF Changed("plugins") THEN "reload" ELSE "settings"]

PrepareOf(c) ==
  CASE c = "logging" -> PrepareLogging [] c = "memory" -> PrepareMemory [] c = "plugins" -> PreparePlugins

-----------------------------------------------------------------------------
(* Commit of each component *)

CommitLogging ==
  /\ logger' = LET p == prepared["logging"] IN
               IF p.do = "replace" THEN p.logger ELSE [logger EXCEPT !.level = p.level]
  /\ UNCHANGED <<service, plugins, policy, failed>>

\* The service that is replaced finishes its calls and is closed after a
\* grace period; its maintenance goes on in the new one.  The no-op service
\* has no embedder to swap.
CommitMemory ==
  /\ service' = LET p == prepared["memory"] IN
                IF p.do = "replace" THEN p.service
                ELSE IF service = Off THEN Off ELSE [service EXCEPT !.embedding = p.embedding]
  /\ UNCHANGED <<logger, plugins, policy, failed>>

\* Plugins cannot run twice: the old ones stop before the new ones start.
CommitPlugins ==
  /\ policy' = next.policy
  /\ IF prepared["plugins"].do = "reload"
     THEN /\ plugins' = next.plugins
          /\ failed' \in {FALSE, next.plugins # Off}
     ELSE UNCHANGED <<plugins, failed>>
  /\ UNCHANGED <<logger, service>>

-----------------------------------------------------------------------------
(* The reload (bound: it changes two keys) *)

InOrder(c) ==
  /\ c \in todo
  /\ c = "memory" => "logging" \notin todo
  /\ c = "plugins" => todo = {"plugins"}

Begin ==
  /\ phase = "idle" /\ reloads < MaxReloads
  /\ \E k, l \in Keys : \E v \in Choices(k), w \in Choices(l) :
       next' = [config EXCEPT ![k] = v, ![l] = w]
  /\ next' # config
  /\ phase' = "prepare" /\ todo' = Components
  /\ reloads' = reloads + 1
  /\ UNCHANGED <<config, prepared, running>>

Prepare(c) ==
  /\ phase = "prepare" /\ InOrder(c)
  /\ prepared' = [prepared EXCEPT ![c] = PrepareOf(c)]
  /\ todo' = todo \ {c}
  /\ UNCHANGED <<config, next, phase, running, reloads>>

\* A log file that cannot be opened, a memory service that cannot be built, a
\* directory that is not there, or a component modelled elsewhere: what was
\* prepared is closed.
Reject ==
  /\ phase = "prepare" /\ phase' = "idle"
  /\ prepared' = [c \in Components |-> Nothing] /\ todo' = {} /\ next' = config
  /\ UNCHANGED <<config, running, reloads>>

Publish ==
  /\ phase = "prepare" /\ todo = {}
  /\ config' = next /\ phase' = "commit"
  /\ todo' = {c \in Components : prepared[c] # Nothing}
  /\ UNCHANGED <<next, prepared, running, reloads>>

Commit(c) ==
  /\ phase = "commit" /\ InOrder(c)
  /\ CASE c = "logging" -> CommitLogging [] c = "memory" -> CommitMemory [] c = "plugins" -> CommitPlugins
  /\ prepared' = [prepared EXCEPT ![c] = Nothing]
  /\ todo' = todo \ {c}
  /\ UNCHANGED <<config, next, phase, reloads>>

Committed ==
  /\ phase = "commit" /\ todo = {} /\ phase' = "idle"
  /\ UNCHANGED <<config, next, todo, prepared, running, reloads>>

Next ==
  \/ Begin \/ Reject \/ Publish \/ Committed
  \/ \E c \in Components : Prepare(c) \/ Commit(c)

Spec == Init /\ [][Next]_vars

-----------------------------------------------------------------------------
(* Properties *)

\* Between two reloads, however many were applied or rejected, the logger,
\* the memory service and the plugins are what a start with the published
\* configuration would build: also for a key that only reaches the service
\* through the fallback to core.ai, a key that appears, and a memory that is
\* turned on again.  Plugins whose load failed are excused.
RunsAsConfigured ==
  phase = "idle" =>
    LET Endpoint(k) == IF config[k] \in Values THEN config[k] ELSE config.ai IN
    /\ logger.file = config.file /\ logger.level = config.level
    /\ config.memory <=> service # Off
    /\ config.memory =>
         /\ \A k \in Endpoints : service[k] = Endpoint(k)
         /\ service.model = config.model /\ service.service = config.service
    /\ policy = config.policy
    /\ failed \/ plugins = config.plugins
=============================================================================
