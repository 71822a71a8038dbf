------------------------------ MODULE WebServer ------------------------------
(***************************************************************************)
(* internal/web: the dashboard's listener, router and session store, their *)
(* replacement by a reload of operations.web, the shutdown, and the        *)
(* requests of browsers.  A request keeps the router it arrived at, and    *)
(* with it the settings and the session store the router was built for.    *)
(***************************************************************************)
EXTENDS Naturals, FiniteSets, Sequences

CONSTANTS
  Settings,    \* values of what signs everyone out: credentials, lifetimes
  Ports, NoPort,
  Stores,      \* session stores, a new one for each change of the settings
  Browsers,
  TTL,         \* session_ttl_min
  MaxAttempts, Window, \* of the login limiter; one address here
  MaxTime,     \* bound: the clock
  MaxReloads   \* bound: reloads of operations.web

\* Assumed of the constants.
WebAssumption ==
  /\ NoPort \notin Ports /\ Stores # {} /\ MaxAttempts \in Nat
  /\ {TTL, Window} \subseteq Nat \ {0} /\ MaxTime \in Nat /\ MaxReloads \in Nat

VARIABLES
  config,    \* the applied settings, port, enabled
  router,    \* settings and session store of the current router, and which it is
  listening, \* port of s.server, NoPort if there is none
  retired,   \* ports whose listener has been replaced and is not closed yet
  foreign,   \* ports of other programs
  unused,    \* stores that were not created yet
  pending,   \* the prepared reload
  phase,     \* "built", "started", "stopped"
  unbound,   \* history: Start could not bind the port, no reload came since
  sessions,  \* of all stores: [store, browser, settings, until]
  attempts,  \* logins the current router's limiter remembers, by time
  cookie,    \* the stores whose session cookie a browser may bring
  csrf,      \* browsers with a token signed by this process
  req,       \* each browser's request
  now, reloads

listenVars  == <<config, router, listening, retired, foreign, unused, pending, phase, unbound>>
requestVars == <<sessions, attempts, cookie, csrf, req>>
vars == <<listenVars, requestVars, now, reloads>>

AnyStore == CHOOSE s \in Stores : TRUE
Configs  == [settings : Settings, port : Ports, enabled : BOOLEAN]
Routers  == [settings : Settings, store : Stores, built : 0..MaxReloads]
AnyRouter  == CHOOSE r \in Routers : TRUE
NoReload == [step |-> "none", config |-> CHOOSE c \in Configs : TRUE, store |-> AnyStore, port |-> NoPort]
NoRequest  == [step |-> "none", kind |-> "page", router |-> AnyRouter, as |-> AnyRouter.settings]

\* NewServer.
Init ==
  /\ config \in Configs
  /\ router = [settings |-> config.settings, store |-> AnyStore, built |-> 0]
  /\ listening = NoPort /\ retired = {} /\ foreign \in SUBSET Ports
  /\ unused = Stores \ {AnyStore}
  /\ pending = NoReload /\ phase = "built" /\ unbound = FALSE
  /\ sessions = {} /\ attempts = <<>>
  /\ cookie = [b \in Browsers |-> {}] /\ csrf = {}
  /\ req = [b \in Browsers |-> NoRequest]
  /\ now = 0 /\ reloads = 0

-----------------------------------------------------------------------------
(* The listener *)

Bindable(p) == p \notin foreign \cup retired \cup {listening}

\* A port in use is only logged: the program runs without the dashboard.
Start ==
  /\ phase = "built" /\ phase' = "started"
  /\ listening' = IF config.enabled /\ Bindable(config.port) THEN config.port ELSE NoPort
  /\ unbound' = (config.enabled /\ listening' = NoPort)
  /\ UNCHANGED <<config, router, retired, foreign, unused, pending, requestVars, now, reloads>>

\* Stop shuts the server down and waits for its requests; a reload under way
\* is not waited for.
Stop ==
  /\ phase = "started" /\ phase' = "stopped"
  /\ listening' = NoPort
  /\ UNCHANGED <<config, router, retired, foreign, unused, pending, unbound, requestVars, now, reloads>>

\* The goroutine of retire.
CloseRetired(p) ==
  /\ p \in retired /\ retired' = retired \ {p}
  /\ UNCHANGED <<config, router, listening, foreign, unused, pending, phase, unbound, requestVars, now, reloads>>

ForeignPort(p) ==
  /\ Bindable(p) \/ p \in foreign
  /\ p # pending.port
  /\ foreign' = (foreign \ {p}) \cup ({p} \ foreign)
  /\ UNCHANGED <<config, router, listening, retired, unused, pending, phase, unbound, requestVars, now, reloads>>

-----------------------------------------------------------------------------
(* A reload of operations.web *)

\* Mutant: the new port is compared with that of the old configuration.
NeedsListenerByConfig(c) == c.enabled /\ (~config.enabled \/ config.port # c.port)

NeedsListener(c) == c.enabled /\ (listening = NoPort \/ listening # c.port)

\* Mutant: the session store is kept.
SignsOutNever(c) == c.settings \notin Settings

SignsOut(c) == c.settings # config.settings

\* The new port is bound and the new store created; a port in use rejects the
\* reload.
Prepare(c) ==
  /\ phase # "built" /\ pending = NoReload /\ c # config
  /\ reloads < MaxReloads /\ reloads' = reloads + 1
  /\ SignsOut(c) => unused # {}
  /\ IF NeedsListener(c) /\ ~Bindable(c.port)
     THEN UNCHANGED <<pending, unused>>
     ELSE LET s == IF SignsOut(c) THEN CHOOSE s \in unused : TRUE ELSE router.store IN
          /\ pending' = [step |-> "prepared", config |-> c, store |-> s,
                         port |-> IF NeedsListener(c) THEN c.port ELSE NoPort]
          /\ unused' = unused \ {s}
  /\ UNCHANGED <<config, router, listening, retired, foreign, phase, unbound, requestVars, now>>

\* Another component rejects the reload.
Abort ==
  /\ pending.step = "prepared" /\ pending' = NoReload
  /\ UNCHANGED <<config, router, listening, retired, foreign, unused, phase, unbound, requestVars, now, reloads>>

\* Under srvMu.  The new router has a login limiter of its own.
Commit ==
  LET c == pending.config IN
  /\ pending.step = "prepared" /\ pending' = NoReload
  /\ config' = c
  /\ router' = [settings |-> c.settings, store |-> pending.store, built |-> reloads]
  /\ attempts' = <<>>
  /\ listening' = IF ~c.enabled THEN NoPort
                  ELSE IF pending.port # NoPort THEN pending.port ELSE listening
  /\ retired' = retired \cup ({listening} \ {listening', NoPort})
  /\ unbound' = FALSE
  /\ UNCHANGED <<foreign, unused, phase, sessions, cookie, csrf, req, now, reloads>>

-----------------------------------------------------------------------------
(* Requests *)

\* ServeHTTP loads the router once.  CSRFMiddleware: a page sets the cookie
\* whose token the forms bring back; only the login needs none.
Arrive(b, kind) ==
  /\ listening # NoPort /\ req[b] = NoRequest
  /\ kind \in {"save", "logout"} => b \in csrf
  /\ req' = [req EXCEPT ![b] = [NoRequest EXCEPT !.step = "session", !.kind = kind, !.router = router]]
  /\ csrf' = IF kind = "page" THEN csrf \cup {b} ELSE csrf
  /\ UNCHANGED <<listenVars, sessions, attempts, cookie, now, reloads>>

\* The session of the browser's cookie in the store of the router.
Known(b) == {s \in sessions : s.browser = b /\ s.store = req[b].router.store /\ s.store \in cookie[b]}

\* SessionMiddleware: an expired session is deleted, and a request without
\* one is sent to the login page.
CheckSession(b) ==
  LET valid == {s \in Known(b) : now <= s.until} IN
  /\ req[b].step = "session"
  /\ sessions' = sessions \ (Known(b) \ valid)
  /\ IF req[b].kind = "login"
     THEN req' = [req EXCEPT ![b].step = "login"]
     ELSE IF valid = {} THEN req' = [req EXCEPT ![b] = NoRequest]
     ELSE \E s \in valid : req' = [req EXCEPT ![b].step = "served", ![b].as = s.settings]
  /\ UNCHANGED <<listenVars, attempts, cookie, csrf, now, reloads>>

\* loginRateLimiter.allow: an attempt is counted, right or wrong.  A request
\* of an older router meets the limiter of that router.
Recent == SelectSeq(attempts, LAMBDA t : t + Window > now)

Allowed(b) == req[b].router # router \/ Len(Recent) < MaxAttempts

Attempt(b) ==
  attempts' = IF req[b].router # router THEN attempts
              ELSE IF Allowed(b) THEN Append(Recent, now) ELSE Recent

Refused(b) ==
  /\ req[b].step = "login"
  /\ Attempt(b)
  /\ req' = [req EXCEPT ![b] = NoRequest]
  /\ UNCHANGED <<listenVars, sessions, cookie, csrf, now, reloads>>

\* The credentials are those the router was built for.
Login(b) ==
  LET r == req[b].router IN
  /\ req[b].step = "login" /\ Allowed(b) /\ Attempt(b)
  /\ sessions' = {s \in sessions : ~(s.browser = b /\ s.store = r.store)}
                 \cup {[store |-> r.store, browser |-> b, settings |-> r.settings, until |-> now + TTL]}
  /\ cookie' = [cookie EXCEPT ![b] = {r.store}]
  /\ req' = [req EXCEPT ![b] = NoRequest]
  /\ UNCHANGED <<listenVars, csrf, now, reloads>>

\* The handler ends; a logout deletes the session.
Done(b) ==
  /\ req[b].step = "served"
  /\ IF req[b].kind = "logout"
     THEN sessions' = sessions \ Known(b) /\ cookie' = [cookie EXCEPT ![b] = {}]
     ELSE UNCHANGED <<sessions, cookie>>
  /\ req' = [req EXCEPT ![b] = NoRequest]
  /\ UNCHANGED <<listenVars, attempts, csrf, now, reloads>>

\* cleanupLoop of the stores.
CleanupExpired ==
  /\ \E s \in sessions : now > s.until
  /\ sessions' = {s \in sessions : now <= s.until}
  /\ UNCHANGED <<listenVars, attempts, cookie, csrf, req, now, reloads>>

Tick ==
  /\ now < MaxTime /\ now' = now + 1
  /\ UNCHANGED <<listenVars, requestVars, reloads>>

Next ==
  \/ Start \/ Stop \/ Abort \/ Commit
  \/ \E p \in Ports : CloseRetired(p) \/ ForeignPort(p)
  \/ \E c \in Configs : Prepare(c)
  \/ \E b \in Browsers :
       \/ \E k \in {"page", "save", "login", "logout"} : Arrive(b, k)
       \/ CheckSession(b) \/ Refused(b) \/ Login(b) \/ Done(b)
  \/ CleanupExpired \/ Tick

Spec == Init /\ [][Next]_vars

-----------------------------------------------------------------------------
(* Properties *)

\* After a change of the credentials everyone is signed out: no request that
\* arrives at the new router is served for a session of the old settings,
\* also not for one whose login was under way during the change.
SignedOut ==
  \A b \in Browsers : req[b].step = "served" => req[b].as = req[b].router.settings

\* The dashboard listens where the applied configuration says, unless the
\* port was taken at the start; a reload, whatever it changes, repairs that
\* or is rejected.
ServesConfigured ==
  phase = "started" /\ ~unbound
    => listening = IF config.enabled THEN config.port ELSE NoPort
=============================================================================
