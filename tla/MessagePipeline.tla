--------------------------- MODULE MessagePipeline ---------------------------
(***************************************************************************)
(* The reply pipeline of internal/bot: MESSAGE_CREATE, MESSAGE_UPDATE and  *)
(* MESSAGE_DELETE handlers, the /clear-context command, and the goroutine  *)
(* that generates and sends a reply.  discordgo runs every handler in a    *)
(* goroutine of its own, so all of them interleave.                        *)
(*                                                                         *)
(* A run is one ProcessingMessage together with the thread that owns it:   *)
(* the create handler (run FirstRun[m]) or one edit handler, followed by   *)
(* the processMessage goroutine it spawns.  The other runs of a message    *)
(* are the edits its author may still make, so Runs bounds the edits.      *)
(* A text is named by the run whose event first carried it.                *)
(***************************************************************************)
EXTENDS Integers, FiniteSets

CONSTANTS
  Msgs,      \* Discord messages
  Channels,  \* channels
  Authors,   \* users
  Runs,      \* one create event and some edit events per message
  NoRun,     \* the nil *ProcessingMessage
  MsgOf,     \* [Runs -> Msgs]
  FirstRun,  \* [Msgs -> Runs], the create event
  ChannelOf, \* [Msgs -> Channels]
  AuthorOf,  \* [Msgs -> Authors]
  Deletable, \* the messages a user may delete
  MaxClears, \* bound: /clear-context calls per channel
  MaxParts   \* bound: Discord messages one long reply is split into

ASSUME PipelineAssumption ==
  /\ NoRun \notin Runs
  /\ MsgOf \in [Runs -> Msgs]
  /\ FirstRun \in [Msgs -> Runs]
  /\ \A m \in Msgs : MsgOf[FirstRun[m]] = m
  /\ ChannelOf \in [Msgs -> Channels]
  /\ AuthorOf \in [Msgs -> Authors]
  /\ Deletable \subseteq Msgs
  /\ MaxClears \in Nat
  /\ MaxParts \in Nat \ {0}

VARIABLES
  \* the ProcessingMessage of a run
  phase, content, edited, hasCancel, cancelled,
  \* locals of the run's thread
  pc, text, old, sawPhase, seen, sent,
  \* Bot.processingMessages
  reg,
  \* the message on Discord: its current text, whether it was deleted
  posted, deleted,
  \* the rate limiter: charges per message, users on cooldown
  charged, cooldown,
  \* the delete handler of a message: where it is, the run it found
  delPc, delRun,
  \* the clear command of a channel: cutoff number, where it is, runs to cancel
  epoch, clearPc, clearing

pmVars    == <<phase, content, edited, hasCancel, cancelled>>
localVars == <<text, old, sawPhase, seen, sent>>
userVars  == <<posted, deleted>>
limitVars == <<charged, cooldown>>
delVars   == <<delPc, delRun>>
clearVars == <<epoch, clearPc, clearing>>
vars == <<pmVars, pc, localVars, reg, userVars, limitVars, delVars, clearVars>>

Phases == {"received", "deciding", "generating", "sending"}

EditPcs    == {"lookup", "inspect", "cancelOld", "updateOld", "removeOld", "register"}
DecidePcs  == {"attach", "fetch", "reconcile", "setDeciding", "decide"}
WorkPcs    == {"start", "history", "generate", "setSending", "check"}
SendPcs    == {"beforeSend", "send", "clear"}
LivePcs    == DecidePcs \cup WorkPcs \cup SendPcs
Pcs        == {"idle", "hook", "afterSend", "done"} \cup EditPcs \cup LivePcs

NoHistory == -1

ChannelOfRun(r) == ChannelOf[MsgOf[r]]
IsCreate(r) == r = FirstRun[MsgOf[r]]

Init ==
  /\ phase = [r \in Runs |-> "received"]
  /\ content = [r \in Runs |-> NoRun]
  /\ edited = [r \in Runs |-> FALSE]
  /\ hasCancel = [r \in Runs |-> FALSE]
  /\ cancelled = [r \in Runs |-> FALSE]
  /\ pc = [r \in Runs |-> "idle"]
  /\ text = [r \in Runs |-> NoRun]
  /\ old = [r \in Runs |-> NoRun]
  /\ sawPhase = [r \in Runs |-> "received"]
  /\ seen = [r \in Runs |-> NoHistory]
  /\ sent = [r \in Runs |-> 0]
  /\ reg = [m \in Msgs |-> NoRun]
  /\ posted = [m \in Msgs |-> NoRun]
  /\ deleted = [m \in Msgs |-> FALSE]
  /\ charged = [m \in Msgs |-> 0]
  /\ cooldown = {}
  /\ delPc = [m \in Msgs |-> "idle"]
  /\ delRun = [m \in Msgs |-> NoRun]
  /\ epoch = [c \in Channels |-> 0]
  /\ clearPc = [c \in Channels |-> "idle"]
  /\ clearing = [c \in Channels |-> {}]

-----------------------------------------------------------------------------
(* The registry.                                                           *)

Goto(r, l) == pc' = [pc EXCEPT ![r] = l]

At(r, l) == pc[r] = l

\* Mutant: drops the entry whoever owns it.
RemoveAny(m, r) == reg' = IF r # NoRun THEN [reg EXCEPT ![m] = NoRun] ELSE reg

\* removeProcessingMessageIfMatch: drops the entry only if it is still r's.
RemoveIfMatch(m, r) ==
  reg' = IF r # NoRun /\ reg[m] = r THEN [reg EXCEPT ![m] = NoRun] ELSE reg

\* registerProcessingMessage: a fresh ProcessingMessage replaces any entry.
Register(r, content0) ==
  /\ reg' = [reg EXCEPT ![MsgOf[r]] = r]
  /\ content' = [content EXCEPT ![r] = content0]
  /\ edited' = [edited EXCEPT ![r] = FALSE]
  /\ phase' = [phase EXCEPT ![r] = "received"]

SetPhase(r, ph) == phase' = [phase EXCEPT ![r] = ph]

\* The thread of r returns after clearing its registration.
Finish(r) ==
  /\ RemoveIfMatch(MsgOf[r], r)
  /\ Goto(r, "done")
  /\ UNCHANGED <<pmVars, localVars, userVars, delVars, clearVars>>

-----------------------------------------------------------------------------
(* onMessageCreate.                                                        *)

\* A user posts m; its handler passes the filter and starts the on_message
\* hooks, or is filtered out.  The buffer and the consolidation counter are
\* modelled in ChannelConsolidation.
CreateArrives(r) ==
  /\ IsCreate(r) /\ At(r, "idle")
  /\ \E next \in {"hook", "done"} : Goto(r, next)
  /\ posted' = [posted EXCEPT ![MsgOf[r]] = r]
  /\ text' = [text EXCEPT ![r] = r]
  /\ UNCHANGED <<pmVars, old, sawPhase, seen, sent, reg, deleted, limitVars,
                 delVars, clearVars>>

HookBlocks(r) ==
  /\ At(r, "hook")
  /\ Goto(r, "done")
  /\ UNCHANGED <<pmVars, localVars, reg, userVars, limitVars, delVars, clearVars>>

HookContinues(r) ==
  /\ At(r, "hook")
  /\ Register(r, text[r])
  /\ Goto(r, "attach")
  /\ UNCHANGED <<hasCancel, cancelled, localVars, userVars, limitVars, delVars,
                 clearVars>>

\* pm.CancelFunc = cancel, outside every lock.
AttachCancel(r) ==
  /\ At(r, "attach")
  /\ hasCancel' = [hasCancel EXCEPT ![r] = TRUE]
  /\ Goto(r, IF IsCreate(r) THEN "fetch" ELSE "setDeciding")
  /\ UNCHANGED <<phase, content, edited, cancelled, localVars, reg, userVars,
                 limitVars, delVars, clearVars>>

\* fetchContextMessages: history newer than the channel's cutoff, or an error.
FetchContext(r, next) ==
  /\ \E h \in {NoHistory, epoch[ChannelOfRun(r)]} : seen' = [seen EXCEPT ![r] = h]
  /\ Goto(r, next)
  /\ UNCHANGED <<pmVars, text, old, sawPhase, sent, reg, userVars, limitVars,
                 delVars, clearVars>>

FetchForDecision(r) ==
  /\ At(r, "fetch")
  /\ FetchContext(r, IF IsCreate(r) THEN "reconcile" ELSE "decide")

\* An edit that came in during PhaseReceived only updated the pm: decide on it.
Reconcile(r) ==
  /\ At(r, "reconcile")
  /\ text' = IF edited[r] THEN [text EXCEPT ![r] = content[r]] ELSE text
  /\ Goto(r, "setDeciding")
  /\ UNCHANGED <<pmVars, old, sawPhase, seen, sent, reg, userVars, limitVars,
                 delVars, clearVars>>

SetDeciding(r) ==
  /\ At(r, "setDeciding")
  /\ SetPhase(r, "deciding")
  /\ Goto(r, IF IsCreate(r) THEN "decide" ELSE "fetch")
  /\ UNCHANGED <<content, edited, hasCancel, cancelled, localVars, reg, userVars,
                 limitVars, delVars, clearVars>>

\* Mutant: every re-evaluation asks the limiter.
ChargeEveryDecision(r) ==
  /\ AuthorOf[MsgOf[r]] \notin cooldown
  /\ charged' = [charged EXCEPT ![MsgOf[r]] = @ + 1]
  /\ UNCHANGED cooldown

\* The limiter admits the author and counts the message; a re-evaluation
\* after an edit never asks it.
Charge(r) ==
  IF IsCreate(r)
  THEN /\ AuthorOf[MsgOf[r]] \notin cooldown
       /\ charged' = [charged EXCEPT ![MsgOf[r]] = @ + 1]
       /\ UNCHANGED cooldown
  ELSE UNCHANGED limitVars

\* shouldRespond and after_decision agree to reply: the goroutine is spawned.
DecideYes(r) ==
  /\ At(r, "decide")
  /\ Charge(r)
  /\ Goto(r, "start")
  /\ UNCHANGED <<pmVars, localVars, reg, userVars, delVars, clearVars>>

\* Refused: by a static rule, by the limiter (no charge), or after the
\* limiter by the decision model, chance or a plugin (charged).
DecideNo(r) ==
  /\ At(r, "decide")
  /\ Charge(r) \/ UNCHANGED limitVars
  /\ Finish(r)

-----------------------------------------------------------------------------
(* onMessageUpdate.                                                        *)

\* The author edits the message, or Discord unfurls a link in it (same text).
EditArrives(r) ==
  LET m == MsgOf[r] IN
  /\ ~ IsCreate(r) /\ At(r, "idle")
  /\ posted[m] # NoRun /\ ~ deleted[m]
  /\ \E t \in {posted[m], r} :
       /\ posted' = [posted EXCEPT ![m] = t]
       /\ text' = [text EXCEPT ![r] = t]
  /\ Goto(r, "lookup")
  /\ UNCHANGED <<pmVars, old, sawPhase, seen, sent, reg, deleted, limitVars,
                 delVars, clearVars>>

EditLookup(r) ==
  LET o == reg[MsgOf[r]] IN
  /\ At(r, "lookup")
  /\ old' = [old EXCEPT ![r] = o]
  /\ Goto(r, IF o = NoRun THEN "done" ELSE "inspect")
  /\ UNCHANGED <<pmVars, text, sawPhase, seen, sent, reg, userVars, limitVars,
                 delVars, clearVars>>

\* An update without a text change is ignored; otherwise the phase is read.
EditInspect(r) ==
  LET o == old[r] IN
  /\ At(r, "inspect")
  /\ IF content[o] = text[r]
     THEN Goto(r, "done") /\ UNCHANGED sawPhase
     ELSE /\ sawPhase' = [sawPhase EXCEPT ![r] = phase[o]]
          /\ Goto(r, IF phase[o] = "received" THEN "updateOld" ELSE "cancelOld")
  /\ UNCHANGED <<pmVars, text, old, seen, sent, reg, userVars, limitVars,
                 delVars, clearVars>>

\* Mutant: cancels a run only while it is still registered.
CancelRegistered(o) ==
  cancelled' = IF hasCancel[o] /\ reg[MsgOf[o]] = o
               THEN [cancelled EXCEPT ![o] = TRUE] ELSE cancelled

\* pm.CancelFunc(), when there is one.
Cancel(o) ==
  cancelled' = IF hasCancel[o] THEN [cancelled EXCEPT ![o] = TRUE] ELSE cancelled

EditCancelOld(r) ==
  /\ At(r, "cancelOld")
  /\ Cancel(old[r])
  /\ Goto(r, "updateOld")
  /\ UNCHANGED <<phase, content, edited, hasCancel, localVars, reg, userVars,
                 limitVars, delVars, clearVars>>

\* UpdateContent; only PhaseDeciding and PhaseGenerating ask for a new run.
EditUpdateOld(r) ==
  /\ At(r, "updateOld")
  /\ content' = [content EXCEPT ![old[r]] = text[r]]
  /\ edited' = [edited EXCEPT ![old[r]] = TRUE]
  /\ Goto(r, IF sawPhase[r] \in {"deciding", "generating"} THEN "removeOld" ELSE "done")
  /\ UNCHANGED <<phase, hasCancel, cancelled, localVars, reg, userVars, limitVars,
                 delVars, clearVars>>

EditRemoveOld(r) ==
  /\ At(r, "removeOld")
  /\ RemoveIfMatch(MsgOf[r], old[r])
  /\ Goto(r, "register")
  /\ UNCHANGED <<pmVars, localVars, userVars, limitVars, delVars, clearVars>>

EditRegister(r) ==
  /\ At(r, "register")
  /\ Register(r, text[r])
  /\ Goto(r, "attach")
  /\ UNCHANGED <<hasCancel, cancelled, localVars, userVars, limitVars, delVars,
                 clearVars>>

-----------------------------------------------------------------------------
(* processMessageCore and sendResponse.                                    *)

\* The goroutine gives up: cancelledBefore saw a cancelled context, the session
\* timed out, the guild is unknown, or generation failed or came back empty.
Abandon(r) ==
  /\ pc[r] \in {"start", "history", "generate", "check"}
  /\ Finish(r)
  /\ UNCHANGED limitVars

StartGenerating(r) ==
  /\ At(r, "start") /\ ~ cancelled[r]
  /\ SetPhase(r, "generating")
  /\ Goto(r, "history")
  /\ UNCHANGED <<content, edited, hasCancel, cancelled, localVars, reg, userVars,
                 limitVars, delVars, clearVars>>

\* fetchRecentMessagesIfEmpty, behind the check before it.
FetchIfEmpty(r) ==
  /\ At(r, "history") /\ ~ cancelled[r]
  /\ IF seen[r] = NoHistory
     THEN FetchContext(r, "generate")
     ELSE Goto(r, "generate") /\ UNCHANGED <<pmVars, localVars, reg, userVars,
                                             limitVars, delVars, clearVars>>

\* The model answered; it may have answered just before a cancellation.
Generated(r) ==
  /\ At(r, "generate")
  /\ Goto(r, "setSending")
  /\ UNCHANGED <<pmVars, localVars, reg, userVars, limitVars, delVars, clearVars>>

SetSending(r) ==
  /\ At(r, "setSending")
  /\ SetPhase(r, "sending")
  /\ Goto(r, "check")
  /\ UNCHANGED <<content, edited, hasCancel, cancelled, localVars, reg, userVars,
                 limitVars, delVars, clearVars>>

\* Mutant: sends without looking at the context again.
SendUnchecked(r) ==
  /\ At(r, "check")
  /\ Goto(r, "beforeSend")
  /\ UNCHANGED <<pmVars, localVars, reg, userVars, limitVars, delVars, clearVars>>

\* The last look at the context before the send.
SendCheck(r) ==
  /\ At(r, "check") /\ ~ cancelled[r]
  /\ Goto(r, "beforeSend")
  /\ UNCHANGED <<pmVars, localVars, reg, userVars, limitVars, delVars, clearVars>>

\* Mutant: returns without clearing the registration.
SendStopsRegistered(r) ==
  /\ pc[r] \in {"beforeSend", "send"}
  /\ Goto(r, "done")
  /\ UNCHANGED <<pmVars, localVars, reg, userVars, limitVars, delVars, clearVars>>

\* before_send skipped the reply, failed, or a send failed.
SendStops(r) ==
  /\ pc[r] \in {"beforeSend", "send"}
  /\ Finish(r)
  /\ UNCHANGED limitVars

BeforeSendPasses(r) ==
  /\ At(r, "beforeSend")
  /\ Goto(r, "send")
  /\ UNCHANGED <<pmVars, localVars, reg, userVars, limitVars, delVars, clearVars>>

\* One Discord message of the reply; a long reply has several.
SendPart(r) ==
  /\ At(r, "send") /\ sent[r] < MaxParts
  /\ sent' = [sent EXCEPT ![r] = @ + 1]
  /\ \E next \in {"send", "clear"} :
       /\ sent[r] + 1 = MaxParts => next = "clear"
       /\ Goto(r, next)
  /\ UNCHANGED <<pmVars, text, old, sawPhase, seen, reg, userVars, limitVars,
                 delVars, clearVars>>

\* Mutant: a delivered reply stays registered.
SentStaysRegistered(r) ==
  /\ At(r, "clear")
  /\ Goto(r, "afterSend")
  /\ UNCHANGED <<pmVars, localVars, reg, userVars, limitVars, delVars, clearVars>>

ClearSent(r) ==
  /\ At(r, "clear")
  /\ RemoveIfMatch(MsgOf[r], r)
  /\ Goto(r, "afterSend")
  /\ UNCHANGED <<pmVars, localVars, userVars, limitVars, delVars, clearVars>>

\* The after_send hooks return, then the author goes on cooldown.
SetCooldown(r) ==
  /\ At(r, "afterSend")
  /\ cooldown' = cooldown \cup {AuthorOf[MsgOf[r]]}
  /\ Goto(r, "done")
  /\ UNCHANGED <<pmVars, localVars, reg, userVars, charged, delVars, clearVars>>

CooldownEnds(a) ==
  /\ a \in cooldown
  /\ cooldown' = cooldown \ {a}
  /\ UNCHANGED <<pmVars, pc, localVars, reg, userVars, charged, delVars, clearVars>>

-----------------------------------------------------------------------------
(* onMessageDelete.                                                        *)

DeleteArrives(m) ==
  /\ m \in Deletable /\ posted[m] # NoRun /\ ~ deleted[m]
  /\ deleted' = [deleted EXCEPT ![m] = TRUE]
  /\ delPc' = [delPc EXCEPT ![m] = "lookup"]
  /\ UNCHANGED <<pmVars, pc, localVars, reg, posted, limitVars, delRun, clearVars>>

DeleteLookup(m) ==
  /\ delPc[m] = "lookup"
  /\ delRun' = [delRun EXCEPT ![m] = reg[m]]
  /\ delPc' = [delPc EXCEPT ![m] = IF reg[m] = NoRun THEN "done" ELSE "cancel"]
  /\ UNCHANGED <<pmVars, pc, localVars, reg, userVars, limitVars, clearVars>>

DeleteCancel(m) ==
  /\ delPc[m] = "cancel"
  /\ Cancel(delRun[m])
  /\ delPc' = [delPc EXCEPT ![m] = "remove"]
  /\ UNCHANGED <<phase, content, edited, hasCancel, pc, localVars, reg, userVars,
                 limitVars, delRun, clearVars>>

DeleteRemove(m) ==
  /\ delPc[m] = "remove"
  /\ RemoveIfMatch(m, delRun[m])
  /\ delPc' = [delPc EXCEPT ![m] = "done"]
  /\ UNCHANGED <<pmVars, pc, localVars, userVars, limitVars, delRun, clearVars>>

-----------------------------------------------------------------------------
(* clearChannelContext.                                                    *)

\* The cutoff moves: history fetched from now on is newer than it.
ClearCutoff(c) ==
  /\ clearPc[c] = "idle" /\ epoch[c] < MaxClears
  /\ epoch' = [epoch EXCEPT ![c] = @ + 1]
  /\ clearPc' = [clearPc EXCEPT ![c] = "collect"]
  /\ UNCHANGED <<pmVars, pc, localVars, reg, userVars, limitVars, delVars, clearing>>

\* Mutant: collects only the runs that are generating.
CollectGenerating(c) ==
  /\ clearPc[c] = "collect"
  /\ clearing' = [clearing EXCEPT ![c] =
       {r \in Runs : /\ reg[MsgOf[r]] = r /\ ChannelOfRun(r) = c /\ hasCancel[r]
                     /\ phase[r] = "generating"}]
  /\ clearPc' = [clearPc EXCEPT ![c] = "cancel"]
  /\ UNCHANGED <<pmVars, pc, localVars, reg, userVars, limitVars, delVars, epoch>>

\* Under processingMu: every registered run of the channel with a CancelFunc.
ClearCollect(c) ==
  /\ clearPc[c] = "collect"
  /\ clearing' = [clearing EXCEPT ![c] =
       {r \in Runs : reg[MsgOf[r]] = r /\ ChannelOfRun(r) = c /\ hasCancel[r]}]
  /\ clearPc' = [clearPc EXCEPT ![c] = "cancel"]
  /\ UNCHANGED <<pmVars, pc, localVars, reg, userVars, limitVars, delVars, epoch>>

ClearCancel(c) ==
  /\ clearPc[c] = "cancel"
  /\ \E r \in clearing[c] :
       /\ Cancel(r)
       /\ clearing' = [clearing EXCEPT ![c] = @ \ {r}]
  /\ UNCHANGED <<phase, content, edited, hasCancel, pc, localVars, reg, userVars,
                 limitVars, delVars, epoch, clearPc>>

ClearDone(c) ==
  /\ clearPc[c] = "cancel" /\ clearing[c] = {}
  /\ clearPc' = [clearPc EXCEPT ![c] = "idle"]
  /\ UNCHANGED <<pmVars, pc, localVars, reg, userVars, limitVars, delVars, epoch,
                 clearing>>

-----------------------------------------------------------------------------
\* What a run's thread does next on its own, once its event has arrived.
Step(r) ==
  \/ HookBlocks(r) \/ HookContinues(r)
  \/ AttachCancel(r) \/ FetchForDecision(r) \/ Reconcile(r) \/ SetDeciding(r)
  \/ DecideYes(r) \/ DecideNo(r)
  \/ EditLookup(r) \/ EditInspect(r) \/ EditCancelOld(r) \/ EditUpdateOld(r)
  \/ EditRemoveOld(r) \/ EditRegister(r)
  \/ Abandon(r) \/ StartGenerating(r) \/ FetchIfEmpty(r) \/ Generated(r)
  \/ SetSending(r) \/ SendCheck(r) \/ SendStops(r) \/ BeforeSendPasses(r)
  \/ SendPart(r) \/ ClearSent(r) \/ SetCooldown(r)

DeleteStep(m) == DeleteLookup(m) \/ DeleteCancel(m) \/ DeleteRemove(m)

ClearStep(c) == ClearCollect(c) \/ ClearCancel(c) \/ ClearDone(c)

Next ==
  \/ \E r \in Runs : CreateArrives(r) \/ EditArrives(r) \/ Step(r)
  \/ \E m \in Msgs : DeleteArrives(m) \/ DeleteStep(m)
  \/ \E c \in Channels : ClearCutoff(c) \/ ClearStep(c)
  \/ \E a \in Authors : CooldownEnds(a)

Spec == Init /\ [][Next]_vars

\* Goroutines keep running: every blocking call in them has a timeout
\* (session, plugin RPC, Discord client), so each thread is weakly fair.
Fairness ==
  /\ \A r \in Runs : WF_vars(Step(r))
  /\ \A m \in Msgs : WF_vars(DeleteStep(m))
  /\ \A c \in Channels : WF_vars(ClearStep(c))

FairSpec == Spec /\ Fairness

-----------------------------------------------------------------------------
(* Properties.                                                             *)

TypeOK ==
  /\ phase \in [Runs -> Phases]
  /\ content \in [Runs -> Runs \cup {NoRun}]
  /\ edited \in [Runs -> BOOLEAN]
  /\ hasCancel \in [Runs -> BOOLEAN]
  /\ cancelled \in [Runs -> BOOLEAN]
  /\ pc \in [Runs -> Pcs]
  /\ text \in [Runs -> Runs \cup {NoRun}]
  /\ old \in [Runs -> Runs \cup {NoRun}]
  /\ sawPhase \in [Runs -> Phases]
  /\ seen \in [Runs -> Nat \cup {NoHistory}]
  /\ sent \in [Runs -> 0 .. MaxParts]
  /\ reg \in [Msgs -> Runs \cup {NoRun}]
  /\ posted \in [Msgs -> Runs \cup {NoRun}]
  /\ deleted \in [Msgs -> BOOLEAN]
  /\ charged \in [Msgs -> Nat]
  /\ cooldown \subseteq Authors
  /\ delPc \in [Msgs -> {"idle", "lookup", "cancel", "remove", "done"}]
  /\ delRun \in [Msgs -> Runs \cup {NoRun}]
  /\ epoch \in [Channels -> Nat]
  /\ clearPc \in [Channels -> {"idle", "collect", "cancel"}]
  /\ clearing \in [Channels -> SUBSET Runs]

\* The registry never leaks: an entry belongs to a run of that message whose
\* thread is still going to clear it (session.go:1000, every return path of
\* processMessageCore).
RegisteredIsRunning ==
  \A m \in Msgs : reg[m] # NoRun => MsgOf[reg[m]] = m /\ pc[reg[m]] \in LivePcs

\* An edit starts a second run for a message only after the run it took over
\* was really cancelled: its CancelFunc was there (session.go:1020-1036,
\* handlers_events_misc.go:57-66).
SupersededIsCancelled ==
  \A r \in Runs : ~ IsCreate(r) /\ pc[r] \in {"removeOld", "register"} \cup LivePcs
                  => old[r] # NoRun /\ cancelled[old[r]]

\* Once /clear-context has returned, no registered reply that can still be
\* stopped works from the history it hid (clear_command.go:114-131).
ClearReachesRegistered ==
  \A r \in Runs :
    LET c == ChannelOfRun(r) IN
    reg[MsgOf[r]] = r /\ ~ cancelled[r] /\ clearPc[c] = "idle"
      => seen[r] \in {NoHistory, epoch[c]}

\* The inductive strengthening of the three invariants above.

\* Threads enter their part of the pipeline by its door: only a create event
\* runs hooks, only an edit looks for an old run, and no history is fetched
\* before registration.
ThreadOrder ==
  \A r \in Runs :
    /\ pc[r] = "hook" => IsCreate(r)
    /\ pc[r] \in EditPcs => ~ IsCreate(r)
    /\ IsCreate(r) => old[r] = NoRun
    /\ pc[r] \in {"idle", "hook"} \cup EditPcs => seen[r] = NoHistory
    /\ pc[r] \in EditPcs \ {"lookup"} => old[r] # NoRun

\* A CancelFunc is set before the phase leaves PhaseReceived and before
\* history is fetched: no reader that acts on either finds it nil.
CancelFuncBeforeUse ==
  \A r \in Runs :
    /\ pc[r] \in LivePcs \ {"attach"} => hasCancel[r]
    /\ phase[r] # "received" => hasCancel[r]
    /\ seen[r] # NoHistory => hasCancel[r]

\* An edit on its way to supersede a run cancels it before it goes on.
CancelsFirst ==
  \A r \in Runs :
    /\ pc[r] = "cancelOld" => hasCancel[old[r]]
    /\ pc[r] = "updateOld" /\ sawPhase[r] # "received" => cancelled[old[r]]

\* While a clear command cancels, each registered run either is still on its
\* list, or was cancelled, or fetched its history after the cutoff.
ClearInProgress ==
  \A r \in Runs :
    LET c == ChannelOfRun(r) IN
    reg[MsgOf[r]] = r /\ ~ cancelled[r] /\ clearPc[c] = "cancel"
      => r \in clearing[c] \/ seen[r] \in {NoHistory, epoch[c]}

IInv ==
  /\ TypeOK
  /\ RegisteredIsRunning
  /\ ThreadOrder
  /\ CancelFuncBeforeUse
  /\ CancelsFirst
  /\ SupersededIsCancelled
  /\ ClearInProgress
  /\ ClearReachesRegistered

\* A message is charged to its author's limit at most once, however often it
\* is edited and decided again (session.go:828-836, 862).
ChargedAtMostOnce == \A m \in Msgs : charged[m] <= 1

\* Its inductive strengthening: a message is charged by the thread of its
\* create event, as that thread leaves the decision for good.
ChargedWhenDecided ==
  \A m \in Msgs :
    \/ charged[m] = 0
    \/ /\ charged[m] = 1
       /\ pc[FirstRun[m]] \in WorkPcs \cup SendPcs \cup {"afterSend", "done"}

\* A goroutine's cleanup never evicts the registration of another run: an
\* entry goes away when its own thread clears it, after its context was
\* cancelled, or because the delete handler found that very run
\* (session.go:984-998).
EvictedOnlyByOwner ==
  [][\A m \in Msgs : LET r == reg[m] IN
       r # NoRun /\ reg'[m] = NoRun
         => \/ pc[r] \in LivePcs /\ pc'[r] \in {"afterSend", "done"}
            \/ cancelled[r]
            \/ delRun[m] = r]_vars

\* The last context check is enough: a run that an edit has superseded never
\* passes it, and while no /clear-context is in progress a registered run
\* passes it only with history newer than the cutoff
\* (handlers_process.go:117-119, clear_command.go:114-131).
OnlyCurrentRunsSend ==
  [][\A r \in Runs : At(r, "check") /\ pc'[r] = "beforeSend" =>
       /\ \A q \in Runs : pc[q] \in {"removeOld", "register"} \cup LivePcs
                            => old[q] # r
       /\ reg[MsgOf[r]] = r /\ clearPc[ChannelOfRun(r)] = "idle"
            => seen[r] \in {NoHistory, epoch[ChannelOfRun(r)]}]_vars

\* Every registration is cleared in the end (handlers_process.go, every path).
RegistryDrains == \A m \in Msgs : reg[m] # NoRun ~> reg[m] = NoRun

==============================================================================
