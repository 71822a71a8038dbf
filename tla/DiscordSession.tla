---------------------------- MODULE DiscordSession ----------------------------
(***************************************************************************)
(* internal/bot/reload.go, session.go and cmd/bot: the gateway sessions of *)
(* the bot.  A reload that changes the token opens a second session beside *)
(* the current one and swaps them when every component has prepared; for a *)
(* while Discord sends every event to both.  A handler works on an event   *)
(* only when its session is the current one at that moment.                *)
(***************************************************************************)
EXTENDS Naturals, FiniteSets

CONSTANTS
  Sessions,
  NoSession,
  Events       \* messages of users, each sent once by Discord

\* Assumed of the constants.
SessionAssumption == NoSession \notin Sessions

VARIABLES
  gateway,   \* of each session: "new", "open", "closing", "closed"
  current,   \* b.session
  program,   \* "built", "running", "draining", "stopped"
  reload,    \* "idle", "opening", "prepared"
  opened,    \* the session the reload has opened
  inbox,     \* the sessions whose handler has yet to be called for an event
  sent,      \* history: the events Discord has sent
  handled,   \* history: how often an event passed isCurrentSession
  crossed,   \* history: events under way while the sessions were swapped
  rebound    \* history: a session became the current one after the shutdown

vars == <<gateway, current, program, reload, opened, inbox, sent, handled, crossed, rebound>>

IsOpen(s) == gateway[s] \in {"open", "closing"}

\* New: the session exists with its handlers, its gateway is not open.
Init ==
  /\ gateway = [s \in Sessions |-> "new"]
  /\ current \in Sessions
  /\ program = "built"
  /\ reload = "idle" /\ opened = NoSession
  /\ inbox = [e \in Events |-> {}] /\ sent = {}
  /\ handled = [e \in Events |-> 0] /\ crossed = {} /\ rebound = FALSE

eventVars == <<inbox, sent, handled, crossed>>

-----------------------------------------------------------------------------
(* Start and shutdown, cmd/bot/main.go *)

\* A failure ends the program.  The web server and the file watcher, which
\* may reload, start afterwards.
Start ==
  /\ program = "built"
  /\ gateway' = [gateway EXCEPT ![current] = "open"]
  /\ program' = "running"
  /\ UNCHANGED <<current, reload, opened, eventVars, rebound>>

\* The signal: the watcher and the web server are stopped, the goroutines of
\* replies are waited for; none of this waits for a reload under way, whose
\* time-out is longer.
Shutdown ==
  /\ program = "running"
  /\ program' = "draining"
  /\ UNCHANGED <<gateway, current, reload, opened, eventVars, rebound>>

\* Stop closes the current session, under reconnectMu.
Stop ==
  /\ program = "draining"
  /\ gateway' = [gateway EXCEPT ![current] = "closed"]
  /\ program' = "stopped"
  /\ UNCHANGED <<current, reload, opened, eventVars, rebound>>

-----------------------------------------------------------------------------
(* A reload that changes core.discord.token *)

BeginReload ==
  /\ reload = "idle" /\ program = "running"
  /\ reload' = "opening"
  /\ UNCHANGED <<gateway, current, program, opened, eventVars, rebound>>

\* ValidateToken, newDiscordSession, registerHandlers, Open.
OpenSession(s) ==
  /\ reload = "opening" /\ gateway[s] = "new" /\ s # current
  /\ gateway' = [gateway EXCEPT ![s] = "open"]
  /\ reload' = "prepared" /\ opened' = s
  /\ UNCHANGED <<current, program, eventVars, rebound>>

\* Mutant: the session is made the current one and then opened, which fails.
RejectReloadSwapped ==
  /\ reload = "opening"
  /\ \E s \in Sessions : gateway[s] = "new" /\ s # current /\ current' = s
  /\ gateway' = [gateway EXCEPT ![current] = "closing"]
  /\ reload' = "idle"
  /\ UNCHANGED <<program, opened, eventVars, rebound>>

\* The token is refused or the gateway cannot be opened: that session is
\* closed and the current one is left alone.
RejectReload ==
  /\ reload = "opening"
  /\ reload' = "idle"
  /\ UNCHANGED <<gateway, current, program, opened, eventVars, rebound>>

\* Something else of the reload cannot be prepared.
Abort ==
  /\ reload = "prepared"
  /\ gateway' = [gateway EXCEPT ![opened] = "closed"]
  /\ reload' = "idle" /\ opened' = NoSession
  /\ UNCHANGED <<current, program, eventVars, rebound>>

\* swapSession: the previous session is closed by a goroutine.
SwapSession ==
  /\ reload = "prepared"
  /\ current' = opened
  /\ gateway' = [gateway EXCEPT ![current] = IF @ = "open" THEN "closing" ELSE @]
  /\ reload' = "idle" /\ opened' = NoSession
  /\ crossed' = crossed \cup {e \in Events : inbox[e] \cap {current, opened} # {}}
  /\ rebound' = (rebound \/ program = "stopped")
  /\ UNCHANGED <<program, inbox, sent, handled>>

CloseOld(s) ==
  /\ gateway[s] = "closing"
  /\ gateway' = [gateway EXCEPT ![s] = "closed"]
  /\ UNCHANGED <<current, program, reload, opened, eventVars, rebound>>

-----------------------------------------------------------------------------
(* Events *)

\* Discord sends an event to every session of the bot.  discordgo resumes a
\* lost connection by itself, so that every session gets it.
SendEvent(e) ==
  /\ e \notin sent /\ program \in {"running", "draining"}
  /\ sent' = sent \cup {e}
  /\ inbox' = [inbox EXCEPT ![e] = {s \in Sessions : IsOpen(s)}]
  /\ UNCHANGED <<gateway, current, program, reload, opened, handled, crossed, rebound>>

\* Mutant: the handlers do not ask whether their session is the current one.
IsAnySession(s) == TRUE

IsCurrentSession(s) == s = current

\* discordgo calls each handler in a goroutine of its own, which outlives the
\* connection.
Deliver(e, s) ==
  /\ s \in inbox[e]
  /\ inbox' = [inbox EXCEPT ![e] = @ \ {s}]
  /\ handled' = IF IsCurrentSession(s) THEN [handled EXCEPT ![e] = @ + 1] ELSE handled
  /\ UNCHANGED <<gateway, current, program, reload, opened, sent, crossed, rebound>>

Next ==
  \/ Start \/ Shutdown \/ Stop
  \/ BeginReload \/ RejectReload \/ Abort \/ SwapSession
  \/ \E s \in Sessions : OpenSession(s) \/ CloseOld(s)
  \/ \E e \in Events : SendEvent(e) \/ \E s \in Sessions : Deliver(e, s)

Spec == Init /\ [][Next]_vars

-----------------------------------------------------------------------------
(* Properties *)

\* From the start to the end of the shutdown the current session is connected
\* ("a bad token never takes the bot offline", handlers.go:17-18); two are
\* connected only while one replaces the other, and none is after the shutdown,
\* unless a reload commits later still.
Online ==
  /\ program \in {"running", "draining"} => gateway[current] = "open"
  /\ \A s \in Sessions : gateway[s] = "open" => s \in {current, opened}
  /\ (program = "stopped" /\ reload = "idle" /\ ~rebound) =>
       \A s \in Sessions : gateway[s] # "open"

\* An event sent while the bot is online is handled by one session, not more
\* and not less, unless its handlers were due when the sessions were swapped.
HandledOnce ==
  \A e \in Events : (e \in sent /\ inbox[e] = {} /\ e \notin crossed) => handled[e] = 1
=============================================================================
