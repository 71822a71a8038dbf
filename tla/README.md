# A TLA+ development of EZyapper

EZyapper is a Discord bot written in Go: one process that answers messages with
a language model, remembers conversations in a vector store, runs plugins and
MCP servers, and has a web dashboard. This directory holds formal models of the
program, the TLC configurations that check them and TLAPS proofs of their main
invariants. Paths below are relative to the repository (`src/`).

    tlc -workers 2 -config PipelineEdits.cfg MCMessagePipeline    # one run
    tlapm MessagePipelineProofs.tla                               # one proof module

## 1. Inventory

### Components, state, operations

| Component | Source | State | Operations | Module |
|---|---|---|---|---|
| Message pipeline | `internal/bot/handlers*.go`, `session.go:33-102, 822-1050`, `clear_command.go` | `processingMessages`, one `ProcessingMessage`, goroutine and context per run, clear cutoffs | create, edit, delete handlers; the run (decide, generate, send, cool down); `/clear-context` | `MessagePipeline` |
| Channel consolidation | `handlers_consolidation.go`, `session.go:1052-1199`, `memory/service.go:567-596` | buffer, consolidated mark and flag per channel; counters | buffer, count and trigger, take a batch, fetch, consolidate, consume, retrigger | `ChannelConsolidation` |
| Media cache | `internal/media/cache.go`, `session.go:619-662, 705-711` | entries, in-flight calls, pins, limits; recorded settings, processor | `Get`, `Do`, `Pin`, `Prune`, `SetLimits`, `DeletePrefix`, a reload's invalidation and new processor | `MediaCache` |
| Debouncer, file watch | `internal/filewatch` | timer, running, pending, stopped | `Trigger`, `fire`, `Stop`; `Watch`, `Close` | `Debouncer`, `HotReload` |
| Hot reload | `internal/hotreload`, `internal/app`, `web/handlers_config.go`, `web/handlers_channels.go` | live configuration, prepared changes, watcher, file | `ReloadFile`, `Apply`, `syncWatcher`, dashboard save with rollback | `HotReload` |
| Reload hooks of the components | `internal/app`, `memory/swappable.go`, `logger` | what each component was built from | diff, build, commit, abort | `ReloadComponents` |
| Plugin manager | `internal/plugin` | loaded, disabled, restarting plugins, processes, settings | load, enable, disable, restart, reload, shutdown, hooks, tool calls | `PluginManager` |
| Plugin connection, SDK | `plugin/jsonrpc.go`, `plugin/manager.go`, `pkg/plugin` | transport, its mutex, both pipes, the served loop, the tool list | calls with time-outs, notifications, refresh, stop | `PluginConnection` |
| Memory tiers | `memory/qdrant.go`, `tier_*.go`, `service.go` | source records, vectors per embedding model, migration marker, services | migrate, repair, sync, store, delete, search, swap, crash | `MemoryTiers`, `RecordStore` |
| Profiles, relationships, counters | `memory/consolidation.go`, `service.go`, `qdrant.go` | a profile per user, a relationship per pair, message counters | consolidate a batch, count a message, delete a user's data | `MemoryProfiles` |
| Maintenance, access counts | `memory/maintenance.go`, `service.go` | records, worker, access queue | tick (merge, prune), count, `Close` | `MemoryMaintenance` |
| Retrieval | `memory/retrieval.go`, `bot/memory_context.go` | searches under way | three searches, hydrate, drop orphans, merge, prompt blocks | `MemoryRetrieval` |
| Context window, history fetch | `bot/context_window.go`, `message_fetcher.go`, `clear_command.go` | anchor and cutoff per channel | paginated fetch with retries, cut, apply, reset | `ContextHistory` |
| Tool registry, MCP, tool loop | `internal/ai/tools`, `ai/mcp`, `ai/client_tools.go`, `session.go:353-404, 755-820` | tools by name, managers, jobs that write | refresh, swap the MCP manager, look up and run | `ToolRegistry` |
| Discord session | `bot/reload.go`, `session.go`, `cmd/bot` | gateway sessions, the current one | start, open, swap, close, shutdown; delivery of events | `DiscordSession` |
| Web server | `internal/web` | listener, router, session store, login attempts | start, reload, stop; log in and out, requests, expiry | `WebServer` |
| Decision to answer | `ai/decision`, `internal/retry` | none of its own | pack the state, ask with retries, fall back | `DecisionRequest` |
| Rate limiter | `internal/ratelimit` | windows, cooldowns | `Check`, `SetCooldown` | in `MessagePipeline` |
| Configuration, bootstrap | `internal/config`, `cmd/bot` | the file | load, validate, save; start and stop | in `HotReload`, `ReloadComponents`, `DiscordSession` |
| Helpers | `filter`, `utils`, `types`, `discordvis`, `httpcapture` | (almost) none | pure functions, I/O | none |

### How they interact

- discordgo calls every event handler in a goroutine of its own: a create, an
  edit and a delete of one message overlap freely. They meet in
  `processingMessages` (under `processingMu`) and in the fields of one
  `ProcessingMessage` (under its own `mu`, except `CancelFunc`).
- A reply decides (`DecisionRequest`), reads the history (`ContextHistory`) and
  the memories (`MemoryRetrieval`), and runs the tool loop (`ToolRegistry`).
  Plugin hooks and plugin tools go through the plugin manager, which holds its
  read lock while a plugin answers.
- Every handled message is buffered and counted; the handler that reaches the
  interval starts the channel's batch goroutine, which may start its successor.
  A batch writes profiles, relationships and memories.
- The reply path and the batch goroutine ask the same media cache for the same
  attachments; a ticker prunes it; a reload changes its limits and drops what was
  produced with other settings.
- The file watcher's debouncer calls `ReloadFile`; dashboard requests call
  `Apply` and then write the file, which the watcher sees in turn. `Apply`
  prepares each component (logging, memory, bot, plugins, web, watcher),
  publishes the configuration through an `atomic.Value` every component reads,
  and commits. `HotReload` has this protocol with components that are only
  prepared, committed or aborted; what a commit does inside a component is in
  `ReloadComponents`, `DiscordSession`, `ToolRegistry`, `WebServer` and
  `MemoryTiers` (`Replace`).
- `Swappable.Replace` exchanges the memory service under running batches,
  searches and stores; the old one is closed after a grace.

### What is hard about it

Interleavings of handlers of one message and of a run with its own successor;
state read under a lock and used after it (the looked-up `ProcessingMessage`,
the empty buffer before a fetch, a profile that is read, changed and written
back, the router of a request, the file content before `r.mu`); results stored
after what they were computed from has changed; two database writes that are
one operation, with a crash or a failure between; timers that fire although they
were stopped; partial failure of a prepare phase; a lock held during calls of
other processes; goroutines started in one order and run in another.
`PROJECT.json` lists them line by line under `hazards`, with the property that
covers each or the reason why none does.

### What makes each component correct

- Pipeline: whatever is registered is owned by a live goroutine and goes away;
  no goroutine evicts another's entry; a superseded run is cancelled before its
  successor exists and never sends; a clear reaches every reply in progress; a
  message is charged once.
- Consolidation: one batch of a channel at a time; nothing accepted vanishes; no
  message is handed over twice by one path.
- Media cache: an attachment is processed once at a time; pinned text is never
  lost; text of old settings comes only from a computation that overlapped the
  change.
- Hot reload: all components or none; no instance leaks; the live configuration
  becomes that of the file; the debouncer neither loses a trigger nor calls after
  `Stop`. What a component runs with is what a start with that configuration
  would build.
- Plugins: a process has one owner, and none runs without one; the disabled list
  tells the truth; reload and shutdown end; the tools listed are the plugin's.
- Memory: the old collection comes in whole or not at all; a record is
  searchable once the vectors are synced; one relationship per pair; deleted user
  data stays deleted; the merge deletes only duplicates; after `Close` nobody
  writes; a deleted memory is in no prompt.
- Registry: after any refreshes and swaps it holds what is offered, but for names
  that another kind of tool took, and nothing else; no call runs on a manager that
  was replaced.
- Session and web: the bot stays connected through a rejected token, an event is
  handled once; a change of credentials signs everyone out, and the dashboard
  listens where it is configured to.
- History, decision: a window extends the one before; the decision request has
  as much history as fits its limit.

## 2. Modules

Every action is one atomic step of the code: a region under one mutex, or one
read or write of shared state between two such regions. Calls that block (a
model, Discord, a plugin, the database) are split at the call, so that anything
may happen meanwhile. Their outcome is a choice. `PROJECT.json` maps each
definition to its lines.

**MessagePipeline.** A *run* is one `ProcessingMessage` with the goroutine that
works on it; `MsgOf`, `FirstRun`, `ChannelOf`, `AuthorOf` assign runs to
messages, channels and authors. `reg` is the map, `phase`, `content`, `edited`,
`hasCancel` and `cancelled` the fields of a run and its context, `pc` where its
goroutine is. The first run of a message comes from `onMessageCreate`
(`CreateArrives` .. `SetDeciding`), the others from `onMessageUpdate`
(`EditArrives` .. `EditRegister`); both continue with `DecideYes`/`DecideNo` and
`StartGenerating` .. `SetCooldown` (`processMessageCore`). A text is named by
the run whose event carried it. `MaxParts` bounds the parts of a long reply.
`epoch` stands for the cutoff of `/clear-context` and `seen` for the history a
run fetched. A session timeout is covered by the choice "generation fails".

**ChannelConsolidation.** Messages are numbered by snowflake. Each has a handler
(`hpc`): `Buffer`, `Count`, `Trigger`, `FetchHistory`, `Warm`. A batch goroutine
(`wpc`) goes from `Take` or `Fetch`/`Select` over `Run` to `Consume`, `Finish`
and `Retrigger`, the deferred function of the code. `Intervals` is the set of
values `ConsolidationInterval` may be reloaded to, `MaxDepth` the constant
`maxConsolidationChainDepth` (5 in the code), `MaxReloads` bounds `Reload`.
`how`, `dropped` and `offered` are history variables: how a message was handed
over, whether the buffer refused or truncated it, whether it was ever given to the
buffer.

**MediaCache.** A thread asks the cache for one key with the processor it
acquired: `Acquire`, `Hit`/`Join`/`Lead`, `Compute`, `Store`, `Release`. An entry
is a text with the version of the settings that produced it, or a permanent
failure. LRU ties are broken by choice as in `SortFunc` over a Go map.
`ApplyRuntimeConfig` holds `b.mu` (`applying`, which keeps `Acquire` out) over
`SetLimits`, one `Invalidate` per changed kind, which drops its entries and records
its new settings (`version`), and `Install`, where the ffmpeg check decides whether
the new processor replaces the old one (`installed`). The history variable `raced`
holds the keys that were asked of an older processor since their kind was dropped.

**Debouncer, HotReload.** `Debouncer` is the abstract specification of a
debouncer per watcher: triggers come from anywhere. `armed[w]` is a running
timer, `firing[w]` the expired ones whose `fire` has not yet got the lock,
`inFn[w]` running calls of `fn`, `dirty[w]` a history variable: triggered and no
call started since. `HotReload` extends it; the function is `ReloadFile`: `Load`
reads the file before `r.mu`, `Begin` .. `Applied` is `Apply` with one step per
component. `open[c]` counts the instances of `c` that exist. Dashboard requests
take a `Snapshot`, apply it, and `Save` or fail to. A `syncWatcher` goroutine is
a count per target value, because only that value tells them apart.

**ReloadComponents.** What logging, memory and plugins compare, build and commit.
A configuration is a record of the keys with their fallbacks (`Inherit` is a key
that is not set), a service is the record of the values it was built from.
`Prepare(c)` and `Commit(c)` run in the order of `cmd/bot`; a failing one
rejects the reload.

**PluginManager.** A client is one start of a plugin, its process and transport.
`plugins` and `disabled` are the maps, `live` and `dead` the processes and the
transports that were given up, `pc`, `task` and `taken` what a goroutine is at and
which clients it took out of the map. The steps `Spawn`, `Handshake`, `Insert`,
`Stop`, `Unlink`, `Shelve`, `Collect`, `Forget`, `Scan`, `Claim`, `Settle` are
shared by loading, disabling, enabling, restarting, reload and shutdown, as their
functions are. A hook (`Enter`, `Visit`, `Answer`, `Fail`) goes through the plugins
in their order with the read lock held; a worker that waits for the write lock
(`WriterPcs`) keeps new readers out, as Go's `RWMutex` does.

**PluginConnection.** One connection with its two pipes: `Write` puts a request,
`Read` takes lines until the reply (notifications spawn a refresh, stray lines
are skipped), `Timeout` may strike while waiting for the mutex too and closes the
client. On the other side `Serve`, `Reply`, `ChangeTools`, `NotifyToolsChanged`
of the SDK's loop.

**MemoryTiers** implements **RecordStore**. `source` is the first tier with a
version per record, `vec[m]` the vectors of the embedding model `m`, `marker` the
state of the migration. A service goes through `Plan`, `CopySource`,
`CopyVectors`, `MarkDone`, `Repair` to `Replace`, and syncs vectors page by page
(`SyncPage`, `SyncWrite`). Clients store (source, then vector), delete, query and
hydrate through any service that serves. `Crash` drops every service and call.

**MemoryProfiles.** Batches, counters and deletions as read, change and write
back of a point. A batch is `ProcessChannelMessages` (profiles first) or
`ProcessWithMessages` (memories first); what it learns is one fact, itself. A
point of a relationship is found by pair and has the id derived from it.

**MemoryMaintenance.** `slots` is the scratch list of `mergeDuplicates`; `Tick`
takes any plan of merge and prunes; `Search`, `Take`, `FlushRead`, `FlushWrite`
are the access queue with its batches; `Close`, `CloseContinues` wait for the
maintenance worker, then for the others. `near` is any symmetric relation. Its names
differ from those of `MemoryProfiles`, so that one module proves both.

**MemoryRetrieval.** The three searches of a reply (`Query`, `Hydrate`,
`DeleteOrphans`) next to deletions and stores whose two halves are two steps, and
`Show`, the merge into the blocks of the prompt.

**ToolRegistry.** `tools` maps names to owners. A job (refresh or reload) lists,
then installs entry by entry under the registry's lock, while callers hold it for
the time of a tool. `PrepareMCP`, `SwapMCP`, `AbortMCP` and `CloseMCP` are the
manager's replacement. The tool loop of a reply is `Ask`, `ToolCalls`, `Execute`,
`Answered`, with the iteration bound and the retries. Discord, plugin and MCP tools
share one name space, in which `Register` overwrites and `Unregister` removes
whatever has the name; the history variable `lost` holds the names with the kind
whose tool another kind took away so (`Losers`).

**DiscordSession.** `gateway[s]` is a session's connection; `inbox[e]` the
sessions whose handler for event `e` is due. `crossed` and `rebound` are history
variables: an event due while sessions were swapped, and a reload that committed
after the shutdown.

**WebServer.** `listening` and `router` with the `retired` listeners that are
still closing and `foreign` ports others hold; a session has the epoch (settings)
it was made for; a request keeps the router it arrived at.

**ContextHistory.** Messages are numbers. `FetchPage` is one page of `before`
with the arithmetic of the code; `FetchOverlappingPage`, `RateLimited`,
`FetchFails` are the faults. `Window` is `apply`: anchored, cut when it exceeds
limit plus flush.

**DecisionRequest.** `Size` is the JSON size of a state as a sum of widths, `Rest` the
share of the messages in it;
`Estimate`, `Confirm` and `Cut` are the packing loop, `Ask` .. `Wait` the retry.

**MCServices** puts eight parts that share no state next to each other, so that
one run checks them: `part` chooses which moves. It extends `DiscordSession` and
instantiates the seven others. The other `MC...` modules give model values, orders
and symmetry sets; `...Proofs` hold the theorems, those about the parts of
`MCServices` all in `ServicesProofs`.

## 3. Runs

| Run | Shows | Distinct states |
|---|---|---|
| `PipelineEdits` | with two edits at any time, superseded runs are cancelled (`SupersededIsCancelled`) and the charge is single (`ChargedAtMostOnce`) | 2.6 million |
| `PipelineClear` | edit, delete and two clears: `RegisteredIsRunning`, `EvictedOnlyByOwner`, `ClearReachesRegistered`, `OnlyCurrentRunsSend`, and every registration goes away (`RegistryDrains`) | 0.7 million |
| `Consolidation` | one batch at a time (`FlagMatchesWorker`), every message given to the buffer is accounted for ever after (`NothingVanishes`), no repetition by one path (`NoRepeatAfterBatch`) | 2.5 million |
| `MediaCache` | single flight (`OneCallPerKey`), pinned text (`PinnedTextStays`), invalidation by reloads that may fail half-way (`OldTextOnlyFromOverlap`) | 2.4 million |
| `HotReload` | `AllOrNothing`, `NoInstanceLeaks`, the debouncer's `NoTriggerLost` and `NoCallAfterStop`, and `Converges` | 1.1 million |
| `Plugins` | `OneOwner`, `NoOrphan`, `LoadedOrDisabled` under overlapping restarts, requests, reloads, shutdown, hooks and crashes of the plugin; `ReloadsReturn` | 0.8 million |
| `MemoryMigration` | with crashes and failures at every step and two services, the tiers implement the record store (`IsRecordStore`) | 1.2 million |
| `MemorySync` | two embedding models, two services, two clients: `SearchableAfterSync` | 3.0 million |
| `MemoryProfiles` | two batches, a counter and a deletion: `OneLinkPerPair`, `ErasedStaysErased` | 3.7 million |
| `MemoryMaintenance` | merge and prune with any similarities, `Close` at any moment: `OnlyDuplicatesMerged`, `QuietOnceClosed`, `CloseReturns` | 1.0 million |
| `Services` | eight parts, one at a time: `NoCallOnReplaced`, `RegistryExact`; `Online`, `HandledOnce`; `SignedOut`, `ServesConfigured`; `ToolsPublished`; `RunsAsConfigured`; `WindowExtends`; `PromptShowsLiving`; `NewestThatFits` | 1.7 million |

One run shows where the program does not do what a comment says of it:
`MergeKeepsBest` (of `MemoryMaintenance`, with scores up to 3). `maintenance.go:113-114`
says that of near memories only the higher-scored one is kept. When the later of
two wins, the slot of the deleted one gets its id but keeps the old embedding and
score, so a third memory that beats only the old score deletes the best one.
TLC finds three records near each other of which the best is deleted.

Deadlock checking is off in all runs: each model is finite (bounded messages,
edits, saves, reloads, clock) and really stops when its inputs are used up. That
it does not stop early is what `RegistryDrains`, `Converges`, `ReloadsReturn` and
`CloseReturns` say. Symmetry is used only in runs without liveness properties.

### Bounds

- Pipeline: the hazards are about one message and its runs; two edits are enough
  for two runs replacing the same one and for a run replaced twice. The second
  run has one edit, and adds the delete and the clears that can fall between any
  two steps; the second clear meets a reply that began after the first.
- Consolidation: with intervals 1 and 2 three messages give a full batch, a rest,
  an overfull buffer (twice the interval) and a truncation; two goroutines let one
  finish while the next starts; chain depth 2 reaches the depth limit.
- Media cache: two keys of two kinds, bound 0 (off) or 1 so that every second entry
  evicts, TTL 0 (off) or 1 and a clock up to 2 so that entries and failures expire;
  each kind changes once, in one reload or two, and any number of reloads may fail
  or install.
- Hot reload: three components (one is the watcher), two watchers so that an old
  one overlaps a new one, two saves and one dashboard request that may both fail.
- Plugins: one plugin, two starts of it, a reload or shutdown, a caller of hooks,
  and either a dashboard request or a second restart (`MCSpec`): any two of the
  operations overlap, and a restart budget of 1 is used up. The maps of two
  plugins share nothing but the lock, which the reload and the hook hold.
- Memory tiers: the migration run has two old records, one of them damaged, one
  foreign record already there, one model, two services and pages of one record,
  so that a crash falls between any two pages. The sync run has one record, which
  is enough because nothing relates two, but two models, services and clients.
- Profiles: two users (one pair), two batches, one counter, one deletion, interval
  1; every read and write back of one overlaps those of another.
- Maintenance: three records are the smallest number for a chain of copied slots;
  two groups; a queue of 1 overflows, batches of 2.
- Registry: two plugins, a Discord tool and an MCP tool that all have one name (the
  plugins' own names and a second MCP tool's are nobody else's), two managers, two
  refreshes, one reply. Session: three sessions (two swaps), one
  event. Web: two settings, two ports, two stores, one browser, a clock of one
  TTL, two reloads. Connection: one hook, the load, two refreshes, a pipe of one
  frame so that the plugin blocks, one tool change, one stray line. Reload
  components: two values per key, two reloads of two keys each.
- History: limit 2, flush 1, pages of 2, four messages: a window grows to its limit,
  overflows and starts over, across a page boundary; one deletion, one fault, one
  clear, two concurrent replies.
- Retrieval: four records (a fact, two of the author, one of another author in the
  channel), two per search, two writes.
- Decision: histories of up to three entries of two sizes, contents of up to 6
  with narrow or wide characters, limits from "nothing fits" to "everything fits".

### Fairness

Fairness is stated in four models, where something must eventually happen; the
other properties are safety.

- Pipeline: every step of a started run, delete or clear is weakly fair; each
  blocking call in them has a timeout (session timeout, RPC timeouts), so a
  goroutine goes on. Nothing obliges users to write, edit or clear.
- Hot reload: timers, goroutines and mutexes are weakly fair (Go's scheduler,
  `prepareTimeout` for the prepare phase). `UserSaves` and the coming of a request
  are not. `Converges` says that if from some time on the same watcher runs and saw
  the last write, the live configuration becomes that of the file or the file is
  refused. Two histories are excused with the variable `excused`: a failed write
  and its rollback, and a watcher started before the closed one was at rest, whose
  reload may still apply an older content.
- Plugins: a worker goroutine and the caller of a hook go on, since every call of a
  plugin has a timeout (`Fail`). A plugin need not answer, exit or stay alive, and
  `Answer` is not fair.
- Maintenance: both workers and `Close` go on, since database calls time out. Ticks
  and searches are not fair.

### Refinement

- `MemoryTiers` implements `RecordStore`: the source tier is the store, the marker
  document the state of the import, and it is open while a service serves. A record
  in two databases, copied page by page with crashes in between, appears to its
  users as one store in which the import is one step after the other before
  anything is served. Checked by TLC as the property of `MemoryMigration` and proved
  (section 4).
- `HotReload` implements `Debouncer` for every watcher: proved (section 4).

## 4. Proofs

All theorems hold for arbitrary constants (any number of messages, runs, edits,
keys, goroutines, components, watchers, plugins, records, sessions, users, batches),
where TLC covers the small instances. Few of the properties are inductive: what was
added, and why, is said here.

### The invariants

- **MessagePipelineProofs.** `PipelineInvariant`: `IInv` is inductive.
  `RegisteredIsRunning` alone is not: that a run clears only its own entry needs
  to know which steps of an edit leave the old entry in place
  (`SupersededIsCancelled`), that a first run is registered only by its own handler
  (`ThreadOrder`), that cancel functions are set before the phases in which an edit
  uses them (`CancelFuncBeforeUse`, `CancelsFirst`) and what a clear under way has
  still to cancel (`ClearInProgress`). One lemma per group of actions; the theorems
  `RegistryNeverLeaks`, `SupersedeIsSafe` and `ClearIsEffective` follow, and the
  action properties `EvictionByOwner` and `OnlyCurrentSend` from the same invariant
  step by step. `ChargedOnce` needs `ChargedWhenDecided`: a charged message is one
  whose first run has left the decision for good.
- **ChannelConsolidationProofs.** `OneBatchAtATime` is inductive by itself with the
  types of the variables it mentions. `NoMessageTwice` and `AcceptedIsAccountedFor`,
  which follows a message from the moment it is given to the buffer to the end,
  come from `BufferInvariant`: what was handed over lies at or below the mark, and
  what was taken from the buffer is no longer in it (`HandedOver`), so that neither
  the buffer nor a later fetch brings it back. The lemmas `Ranks`, `Largest` and
  `Sorted` say what sorting by rank and keeping the newest do to a set of messages.
- **MediaCacheProofs.** `OneCall` from the invariant that a key in flight has
  one leader and a leader's key is in flight; `PinnedTextIsKept` by cases over all
  operations, with lemmas for expiry and eviction that hold for every bound,
  TTL and tie. `OldTextsAreRaced` needs to know with which processor a thread
  computes (`CurrentProcessors`): one of the settings its kind was last dropped for,
  or its key is in `raced`. It holds whether or not the ffmpeg check of a reload
  succeeds.
- **HotReloadProofs.** `ImplementsDebouncer`: every step of `HotReload` is a step
  of the debouncer of one watcher or leaves all debouncers alone. The debouncer's
  three promises are proved of `DebSpec` and carried over by this refinement
  (`ReloadNeverConcurrent`, `TriggerIsKept`, `StopIsFinal`); they are unaffected by
  what a reload does. `ReloadIsAtomic` and `CommittedOrAborted` come from `ApplyInv`,
  which relates the job under way, the live configuration and the instances.
- **PluginManagerProofs.** `PluginInvariant`: `EveryClientHasOneOwner` and
  `NoProcessLeftBehind` become inductive with the order in which a goroutine comes
  to hold clients (`WorkerOrder`: a new one between start and insertion, removed
  ones while it stops them) and are proved client by client (`OwnersInv`, `Has`).
  `ListedTwiceOnlyByOverlap` needs that a load in the middle of a disable is on
  record (`OverlapOnRecord`).
- **MemoryTiersProofs.** `ImportInvariant` says what the one service that is being
  built has left to copy, what the marker is meanwhile, and that whatever serves was
  built after the import was complete. With it `TiersAreARecordStore` maps every
  step of the tiers to a step of the store or to none, crashes included. It covers
  stores by clients, of which the run `MemoryMigration` makes none (there the version
  bound leaves none; `MemorySync` has them).
  `SyncedServiceFindsAll`: a record a sync has gone past is found, excused or in the
  page under way (`SyncedOrDue`).
- **MemoryServiceProofs**, of the profiles and of the background workers. `OneLink`: one relationship per pair, because each is
  found or created under the id of its pair (`LinksById`, with the same fact about
  the copies that batches hold). `ErasedStays`: deleted facts come back only through
  a batch that had read the profile before the deletion, from `ErasedKept` over the
  profile and every copy, `Fresh` about facts a batch has still to write, and
  `Mentioned` for the users it may touch. `MergedWereDuplicates`: slots take ids from
  each other, so that the deleted id need not be the one whose similarity was computed;
  by `JobSlots` it then has a duplicate since it was copied. `ClosedIsQuiet` needs only
  that `Close` passes a worker when it has ended (`WaitedFor`).
- **ServicesProofs**, one section for each part, and each step of a part that does
  not move is one that changes nothing of it.
  - Discord: `SInv` adds to the types which session a prepared reload holds
    (`OpenedIsSpare`), that nothing is connected before the start (`BuiltIsIdle`), who
    is connected in each phase (`Connected`) and that an event is due at the current
    session or was handled once or crossed a swap (`DueOrHandled`). `NeverOffline` and
    `EventsHandledOnce` follow.
  - Web: `ChangeSignsOut` needs that a store is used under one settings value,
    whoever still holds it (`StoreOfSettings`: sessions, requests, the pending router,
    the live one); `ListensAsConfigured` that a prepared reload has bound the listener
    it needs or keeps the one that listens (`PreparedListener`).
  - Registry: `ReplacedManagersAreFree` needs which manager each step of a reload
    works on (`ManagerOfStep`), that every name of a replaced manager is still to be
    overwritten or dropped (`OwnerOfName`), and that a running tool keeps writers out,
    so that the owner it runs is the owner of the name (`RunsOwner`).
    `RegistryHoldsWhatIsOffered` needs `ExactInv`: refreshes exclude each other
    (`OneInstall`), each registers tools of its kind (`OwnKind`), a name that a kind has
    is installed, being installed or due to go (`Tracked`), and once every change was
    listed, an install under way does exactly what is missing but for the names lost
    to another kind (`AsOffered`, `InTools`). Nothing is assumed of the names: they may
    coincide in any way.
  - Connection: `RefreshedToolsAreListed`. While nobody gave the client up there is
    one call on the wire, that of the holder of the mutex (`OneCallOnWire`), each
    caller waits for what its task asks (`CallersAsk`), and once the changes were told
    and read, what a refresh gets, holds or has published is the plugin's list
    (`Settled`).
  - Components: `RunsWhatIsPublished`. In each phase of a reload a component runs as
    the configuration before it says (`Runs`), or what is prepared of it makes it run
    as the new one says (`Leads`).
  - History: the action property `WindowsAreExtended`, from `WindowInv`: no older
    message can come into the last window (`GivenIsWhole`), and what an undisturbed
    fetch has read has no gap down to where it reads on and holds that window but for
    what was deleted (`ReadDownTo`). The property as first written held on the bounds
    of the run and failed with five messages and two deletions: a broken fetch starts
    the window over after the given one was deleted, and the history variable `given`
    kept the old one. It now takes the new window in that case.
  - Retrieval: `PromptShowsNoDeleted`, because a hydrated record was in the source
    tier after the reply began (`LivesOn`).
  - Decision: `RequestsHaveNewestThatFits`, for histories of any length. While the
    estimate runs it is the size without the field of the messages left out, so when
    it stops none of those fits (`LeftOutDoesNotFit`); what the confirmation drops was
    seen not to fit, and the content is cut only when no number of messages does
    (`Packing`). That the recursive sum `Rest` exists and grows with each message needs
    no theorem of induction: a least number of messages for which it failed
    (`Least`) would have a predecessor for which it holds (`RestFacts`).

### Assumptions

They are the `...Assumption` definitions of the component modules: the maps
from runs to messages and from messages to channels and authors are functions,
`FirstRun` is a run of its message, bounds are natural numbers, components have
distinct ranks, plugins are finitely many, a `No...` value is no
member of the set it extends. Each is the `ASSUME` of its module or, for the parts
of `MCServices`, in `ServicesAssumption`; TLC evaluates them on every run.
The theorems have no hypothesis beyond them.

## 5. Only model-checked

- Liveness (`RegistryDrains`, `Converges`, `ReloadsReturn`, `CloseReturns`): the
  proof system does not reason about fairness and `ENABLED` here.

Every other property of the passing runs is a theorem.

## 6. Not modelled

- The text of prompts and replies, message splitting, HTML, HTTP headers, log
  lines and their rotation: no concurrent state; their results are choices.
- Media processors and the HTTP clients of the models: calls of external services
  whose outcome is a choice in `MediaCache`, `MessagePipeline`, `DecisionRequest`.
- Scores: the floating-point formulas of similarity and activation are replaced by
  orders and arbitrary relations (`near`, the order of the records), which covers
  every value they may have.
- The repair of malformed JSON and the validators of the configuration: pure
  functions over characters and records without an abstraction shorter than they are.
- The windows of the rate limiter are one choice per message; its methods hold
  one mutex from start to end. Its lazily restarted windows admit up to twice the
  limit around a boundary, which neither the code nor the documents exclude.
- Coincidences of names within one kind: two tools of one plugin, or of two MCP
  servers, whose names become the same once sanitized and joined, and a plugin
  tool's name with its plugin's that reads like another tool's.
- The decision provider and the limits, which a reload replaces by one assignment.
- A panic in the pipeline is recovered without clearing the registration; the
  models have no panics.
- The gateway itself is the environment: events of one message arrive in any
  order after its creation, and each once per session.
- Example plugins: separate programs; the loop they share is in `PluginConnection`.

## 7. What the documents say that no run checks

Where the code disagrees with what one of its lines says, or where a history is
excused in a property, the reader finds it here. The models reach each of these
states unless the entry says otherwise.

Pipeline and consolidation:

- Two edits of one message handled at once both look up the old run and both
  register; both runs may send, one of them out of reach of any cancel
  (`handlers_events_misc.go:60-63`). A delete between registration and the assignment
  of `CancelFunc` cancels nothing (`handlers.go:175-178`,
  `handlers_events_misc.go:114-115`). An edit between `SetPhase(PhaseSending)` and the
  check after it drops the reply; `session.go:1039-1040` calls it "too late".
- Replacing the memory service resets the channel's counters (`swappable.go:57-83`): the
  next batch comes up to an interval later. The messages wait in the buffer.
- A batch that found the buffer empty fetches history while a handler buffers one
  of those messages: it is handed over by both paths
  (`channel_buffer_test.go:42-43` wants each message once). `NoRepeatAfterBatch`
  speaks of one path.
- A long reply of which a later part fails counts as not sent; the cooldown starts
  after the whole reply. The retrigger chain ends at depth 5 until the next message.

Media, reload, web:

- A computation that outlives a settings change caches the old settings' text
  (`session.go:160-161`). So does every computation after a reload whose ffmpeg check
  fails: the kinds' entries are dropped and their new settings recorded before the
  check, the old processor stays (`session.go:638-645`), and `reload.go:123-125` only
  logs. `reload.go:39-41` says that the media processor is rebuilt in `Commit`
  "without any failure mode" and `reload.go:121-122` that ffmpeg was checked in `Prepare`,
  which checks it only when `core.ai.modalities` changed and some time before. What the
  old processor makes meanwhile is not dropped by the next reload that succeeds,
  because its settings are recorded already (`docs/CONFIGURATION.md:659`: a kind's text
  is dropped when its settings change). `OldTextOnlyFromOverlap` names exactly
  these keys, and excludes all others.
- The rollback of a failed dashboard write re-applies its snapshot over a file
  reload that came in between (`handlers_config.go:231-232`). Access-list requests
  (`handlers_channels.go:148`) take no lock and may lose each other's update.
- The goroutines of two `hot_reload` commits may run in the other order
  (`reloader.go:211, 262`): watcher and configuration disagree.
- `docs/CONFIGURATION.md:670` says that the dashboard can turn hot reload back on;
  the form of `/config` has no key for it (`configFormAppliers`; not in a model).
- A reload that commits after `Stop` leaves its session or listener open: `rebound`
  in `DiscordSession`.

Plugins and tools:

- A restart that fails moves the plugin to the disabled set, where no hook finds it:
  it is not tried again up to `max_restarts` times (`docs/ARCHITECTURE.md:191`).
- A call that waits for the transport's mutex past its time-out closes a client
  that was healthy (`jsonrpc.go:132`).
- Overlapping refreshes, or one during the load, may publish the older list last:
  `excused` in `PluginConnection`.
- A plugin tool whose full name is that of a Discord or an MCP tool replaces it and
  removes whatever has the name when the plugin goes; MCP tools do the same
  (`tools.go:50-56, 65-75`). Whose tool is left depends on the order, and a tool may
  be missing until its kind registers again, a Discord tool until the next start.
  `RegistryExact` names these tools (`lost`) and excludes that a collision leaves a
  tool of a plugin or manager that is gone.
  `reload.go:210-213` says that no reload silently drops tools of a failing
  server, but `mcp.go:94-112` swallows the errors of `ListTools`.

Memory:

- The profile is written back whole, by a batch and by the periodic sync of the
  message count (`service.go:538-540`): what the other wrote in between is lost, and
  so is a deletion (which `ErasedStaysErased` excuses for copies read before it).
- `qdrant.go:341-344` says that a record whose vector write failed is embedded again
  at the next start; an update leaves the vector of the old text, and the sync skips
  the record because it has one. The removal of an orphaned vector may hit a record stored
  again meanwhile: `excused` in `MemoryTiers`. A record stored through a service of
  the old model has no vector in the new one.
- `maintenance.go:343` speaks of scrolling in batches of 500, but one page is read.
- `Swappable.Replace` starts the maintenance of the new service before the old one
  is closed, so two may merge at once (`MemoryMaintenance` has one service).
- `retrieval.go:87` says "keep at most 5 per type"; those beyond are appended at the
  end of the list. `FormatMemoriesForContext` sorts memories into blocks by their
  record, not by the search that found them, and the block "Memories that mention
  the sender" (`docs/CONFIGURATION.md:388`) may hold others.
- `context_window.go:17` says that a window stays between limit and limit plus
  flush; it is shorter while the channel's history is.

## 8. Plan

Done, in this order: the pipeline, which every message passes; consolidation and
media cache, which it shares; hot reload, on which every component depends; then
the plugin manager, the memory subsystem and the parts of `Services`; then the
proofs of section 4. What is left are the coincidences of names within one kind
(section 6).
