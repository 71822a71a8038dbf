---------------------------- MODULE ServicesProofs ----------------------------
(* What holds of the parts of MCServices for any values of the constants.     *)
EXTENDS MCServices, FiniteSetTheorems, WellFoundedInduction, TLAPS

-----------------------------------------------------------------------------
(* The Discord sessions                                                      *)

States == {"new", "open", "closing", "closed"}

Types ==
  /\ gateway \in [Sessions -> States] /\ current \in Sessions
  /\ program \in {"built", "running", "draining", "stopped"}
  /\ reload \in {"idle", "opening", "prepared"}
  /\ inbox \in [Events -> SUBSET Sessions]
  /\ handled \in [Events -> Nat]

\* The session a reload has opened is connected and not the current one; there
\* is none unless it is prepared.
OpenedIsSpare ==
  IF reload = "prepared"
  THEN opened \in Sessions /\ opened # current /\ gateway[opened] = "open"
  ELSE opened = NoSession

\* Nothing is connected, and nothing reloaded, before the start.
BuiltIsIdle ==
  program = "built" => reload = "idle" /\ \A s \in Sessions : gateway[s] = "new"

\* Who is connected: the current session from the start to the shutdown, the
\* opened one, and nobody else.
Connected ==
  /\ program \in {"running", "draining"} => gateway[current] = "open"
  /\ program = "stopped" /\ ~rebound => gateway[current] # "open"
  /\ \A s \in Sessions : gateway[s] = "open" => s \in {current, opened}

\* An event is due at the current session until it is handled, and was handled
\* once when it is not; unless the sessions were swapped meanwhile.
DueOrHandled ==
  \A e \in Events :
    /\ e \notin sent => inbox[e] = {} /\ handled[e] = 0
    /\ e \in sent \ crossed => handled[e] = IF current \in inbox[e] THEN 0 ELSE 1

SInv == Types /\ OpenedIsSpare /\ BuiltIsIdle /\ Connected /\ DueOrHandled

\* The invariant holds when New has built the bot.
LEMMA InitInv == ASSUME SessionAssumption PROVE Init => SInv
  BY DEF SessionAssumption, Init, SInv, Types, States, OpenedIsSpare, BuiltIsIdle, Connected,
         DueOrHandled

\* Start, shutdown and the steps of a reload that leave the current session.
LEMMA ProgramSteps ==
  ASSUME SessionAssumption, SInv,
         Start \/ Shutdown \/ Stop \/ BeginReload \/ RejectReload \/ Abort
  PROVE  SInv'
<1> USE DEF SInv, Types, States, OpenedIsSpare, BuiltIsIdle, Connected, DueOrHandled, eventVars
<1>1. CASE Start        BY <1>1 DEF Start, SessionAssumption
<1>2. CASE Shutdown     BY <1>2 DEF Shutdown
<1>3. CASE Stop         BY <1>3 DEF Stop
<1>4. CASE BeginReload  BY <1>4 DEF BeginReload
<1>5. CASE RejectReload BY <1>5 DEF RejectReload
<1>6. CASE Abort        BY <1>6 DEF Abort
<1> QED BY <1>1, <1>2, <1>3, <1>4, <1>5, <1>6

\* A session is opened beside the current one, or the old one is closed.
LEMMA SessionSteps ==
  ASSUME SessionAssumption, SInv, NEW s \in Sessions, OpenSession(s) \/ CloseOld(s)
  PROVE  SInv'
<1> USE DEF SInv, Types, States, OpenedIsSpare, BuiltIsIdle, Connected, DueOrHandled, eventVars
<1>1. CASE OpenSession(s) BY <1>1 DEF OpenSession, SessionAssumption
<1>2. CASE CloseOld(s)    BY <1>2 DEF CloseOld
<1> QED BY <1>1, <1>2

\* The swap: an event that is due at neither session was handled by the old
\* one; the others are noted in crossed.
LEMMA SwapStep == ASSUME SessionAssumption, SInv, SwapSession PROVE SInv'
<1> USE DEF SInv, Types, States, OpenedIsSpare, BuiltIsIdle, Connected, DueOrHandled, SwapSession
<1>1. Types' OBVIOUS
<1>2. OpenedIsSpare' OBVIOUS
<1>3. BuiltIsIdle' OBVIOUS
<1>4. Connected' OBVIOUS
<1>5. DueOrHandled'
  <2> SUFFICES ASSUME NEW e \in Events
               PROVE  /\ e \notin sent' => inbox'[e] = {} /\ handled'[e] = 0
                      /\ e \in sent' \ crossed' =>
                           handled'[e] = IF current' \in inbox'[e] THEN 0 ELSE 1
    OBVIOUS
  <2>1. CASE inbox[e] \cap {current, opened} = {} BY <2>1
  <2>2. CASE inbox[e] \cap {current, opened} # {} BY <2>2
  <2> QED BY <2>1, <2>2
<1> QED BY <1>1, <1>2, <1>3, <1>4, <1>5

\* Events are sent to every connected session, the current one among them, and
\* handled by the current one only.
LEMMA EventSteps ==
  ASSUME SessionAssumption, SInv, NEW e \in Events,
         SendEvent(e) \/ \E s \in Sessions : Deliver(e, s)
  PROVE  SInv'
<1> USE DEF SInv, Types, States, OpenedIsSpare, BuiltIsIdle, Connected, DueOrHandled
<1>1. CASE SendEvent(e)
  <2>1. current \in inbox'[e] BY <1>1 DEF SendEvent, IsOpen
  <2> QED BY <1>1, <2>1 DEF SendEvent
<1>2. ASSUME NEW s \in Sessions, Deliver(e, s) PROVE SInv'
  <2>1. CASE s = current BY <1>2, <2>1 DEF Deliver, IsCurrentSession
  <2>2. CASE s # current BY <1>2, <2>2 DEF Deliver, IsCurrentSession
  <2> QED BY <2>1, <2>2
<1> QED BY <1>1, <1>2

\* Of every reachable state: who is connected, and who handles what.
THEOREM SessionInvariant == ASSUME SessionAssumption PROVE Spec => []SInv
<1>1. Init => SInv BY InitInv
<1>2. SInv /\ [Next]_vars => SInv'
  <2> SUFFICES ASSUME SInv, [Next]_vars PROVE SInv' OBVIOUS
  <2>1. CASE UNCHANGED vars
    BY <2>1 DEF vars, SInv, Types, OpenedIsSpare, BuiltIsIdle, Connected, DueOrHandled
  <2>2. CASE Next BY <2>2, ProgramSteps, SessionSteps, SwapStep, EventSteps DEF Next
  <2> QED BY <2>1, <2>2
<1> QED BY <1>1, <1>2, PTL DEF Spec

\* A reload never takes the bot offline, whatever it is interrupted by
\* (reload.go:22-60, swapSession).
THEOREM NeverOffline == ASSUME SessionAssumption PROVE Spec => []Online
<1>1. SInv => Online
  BY DEF SInv, Types, Connected, OpenedIsSpare, Online, SessionAssumption
<1> QED BY <1>1, SessionInvariant, PTL

\* An event is handled by one of the sessions it is sent to (handlers.go,
\* isCurrentSession).
THEOREM EventsHandledOnce == ASSUME SessionAssumption PROVE Spec => []HandledOnce
<1>1. SInv => HandledOnce BY DEF SInv, Types, DueOrHandled, HandledOnce
<1> QED BY <1>1, SessionInvariant, PTL

-----------------------------------------------------------------------------
(* The web server                                                            *)

WebTypes ==
  /\ webconfig \in Web!Configs /\ router \in Web!Routers
  /\ unused \subseteq Stores /\ webreloads \in 0 .. MaxReloads
  /\ listening \in Ports \cup {NoPort}
  /\ webphase \in {"built", "started", "stopped"} /\ unbound \in BOOLEAN
  /\ pending \in [step : {"none", "prepared"}, config : Web!Configs, store : Stores,
                  port : Ports \cup {NoPort}]
  /\ websessions \subseteq [store : Stores, browser : Browsers, settings : Settings, until : Nat]
  /\ req \in [Browsers -> [step : {"none", "session", "login", "served"},
                           kind : {"page", "save", "login", "logout"},
                           router : Web!Routers, as : Settings]]
  /\ now \in Nat

LEMMA WebTypesInit == ASSUME ServicesInit PROVE WebTypes
<1>1. Web!Init
  BY DEF ServicesInit
<1>2. webconfig \in Web!Configs /\ Stores # {} /\ MaxReloads \in Nat
  BY <1>1, ServicesAssumption DEF Web!Init, ServicesAssumption, Web!WebAssumption
<1>3. Web!AnyStore \in Stores
  BY <1>2 DEF Web!AnyStore
<1>4. [settings |-> webconfig.settings, store |-> Web!AnyStore, built |-> 0] \in Web!Routers
  BY <1>2, <1>3 DEF Web!Routers, Web!Configs
<1>5. Web!AnyRouter \in Web!Routers
  BY <1>4 DEF Web!AnyRouter
<1>6. Web!NoReload.config \in Web!Configs
  BY <1>2 DEF Web!NoReload
<1>7. QED
  BY <1>1, <1>2, <1>3, <1>4, <1>5, <1>6 DEF Web!Init, WebTypes, Web!NoReload, Web!NoRequest, Web!Routers

\* The stores in use, with the settings they are used under.
Uses(s, v) ==
  \/ router.store = s /\ router.settings = v
  \/ pending.step = "prepared" /\ pending.store = s /\ pending.config.settings = v
  \/ \E x \in websessions : x.store = s /\ x.settings = v
  \/ \E b \in Browsers : req[b].step # "none" /\ req[b].router.store = s /\ req[b].router.settings = v

\* A store is used under one value of the settings, the applied ones in case
\* of the current router's; a store that was not created is not used.
StoreOfSettings ==
  /\ \A s, v, w : Uses(s, v) /\ Uses(s, w) => v = w
  /\ \A s, v : s \in unused => ~ Uses(s, v)
  /\ router.settings = webconfig.settings

\* A prepared reload needs the listener it bound, or has the one that listens.
PreparedListener ==
  pending.step = "prepared" =>
    /\ webphase # "built"
    /\ pending.port # NoPort => pending.config.enabled /\ pending.port = pending.config.port
    /\ pending.port = NoPort /\ pending.config.enabled /\ webphase = "started"
         => listening = pending.config.port

WebInv == WebTypes /\ StoreOfSettings /\ PreparedListener /\ SignedOut /\ ServesConfigured

LEMMA WebInit == ASSUME ServicesInit PROVE WebInv
<1>1. WebTypes
  BY WebTypesInit
<1>2. Web!Init
  BY DEF ServicesInit
<1>3. StoreOfSettings
  BY <1>2 DEF Web!Init, Web!NoReload, Web!NoRequest, StoreOfSettings, Uses
<1>4. PreparedListener /\ SignedOut /\ ServesConfigured
  BY <1>2 DEF Web!Init, Web!NoReload, Web!NoRequest, PreparedListener, SignedOut, Web!SignedOut,
              ServesConfigured, Web!ServesConfigured
<1>5. QED
  BY <1>1, <1>3, <1>4 DEF WebInv

\* A step that uses no new store keeps the stores apart.
LEMMA NoNewUse ==
  ASSUME StoreOfSettings, \A s, v : Uses(s, v)' => Uses(s, v), unused' \subseteq unused,
         router'.settings = webconfig'.settings
  PROVE  StoreOfSettings'
BY DEF StoreOfSettings

\* The listener is opened, closed or retired; the clock goes on.
LEMMA ListenerSteps ==
  ASSUME WebInv,
         Web!Start \/ Web!Stop \/ Web!Tick
           \/ \E p \in Ports : Web!CloseRetired(p) \/ Web!ForeignPort(p)
  PROVE  WebInv'
<1>1. /\ UNCHANGED <<webconfig, router, unused, pending, webreloads, websessions, req>>
      /\ now' \in Nat
  BY DEF Web!Start, Web!Stop, Web!Tick, Web!CloseRetired, Web!ForeignPort, WebInv, WebTypes,
         Web!listenVars, Web!requestVars
<1>2. StoreOfSettings' /\ SignedOut'
  BY <1>1 DEF WebInv, StoreOfSettings, Uses, SignedOut, Web!SignedOut
<1>3. CASE Web!Start
  BY <1>1, <1>2, <1>3 DEF Web!Start, WebInv, WebTypes, PreparedListener, ServesConfigured,
                     Web!ServesConfigured, Web!Configs
<1>4. CASE Web!Stop
  BY <1>1, <1>2, <1>4 DEF Web!Stop, WebInv, WebTypes, PreparedListener, ServesConfigured,
                     Web!ServesConfigured
<1>5. CASE Web!Tick \/ \E p \in Ports : Web!CloseRetired(p) \/ Web!ForeignPort(p)
  <2>1. UNCHANGED <<listening, webphase, unbound>>
    BY <1>5 DEF Web!Tick, Web!CloseRetired, Web!ForeignPort, Web!listenVars
  <2>2. QED
    BY <1>1, <1>2, <2>1 DEF WebInv, WebTypes, PreparedListener, ServesConfigured,
                            Web!ServesConfigured
<1>6. QED
  BY <1>3, <1>4, <1>5

\* A reload of operations.web binds what it needs, uses a new store when the
\* settings change, and commits both.
LEMMA WebReloadSteps ==
  ASSUME WebInv,
         Web!Abort \/ Web!Commit \/ \E c \in Web!Configs : Web!Prepare(c)
  PROVE  WebInv'
<1>0. /\ WebTypes /\ StoreOfSettings /\ PreparedListener /\ SignedOut /\ ServesConfigured
      /\ NoPort \notin Ports /\ MaxReloads \in Nat
  BY ServicesAssumption DEF WebInv, ServicesAssumption, Web!WebAssumption
<1>1. /\ UNCHANGED <<websessions, req, now, webphase>>
  BY DEF Web!Abort, Web!Commit, Web!Prepare, Web!requestVars
<1>2. SignedOut'
  BY <1>0, <1>1 DEF SignedOut, Web!SignedOut
<1>3. CASE Web!Abort
  <2>1. pending'.step = "none" /\ pending' \in [step : {"none", "prepared"}, config : Web!Configs,
                                      store : Stores, port : Ports \cup {NoPort}]
    <3>1. Web!NoReload.config \in Web!Configs /\ Web!AnyStore \in Stores
      BY <1>0 DEF WebTypes, Web!NoReload, Web!AnyStore
    <3>2. QED
      BY <1>3, <3>1 DEF Web!Abort, Web!NoReload
  <2>2. UNCHANGED <<webconfig, router, listening, unused, unbound, webreloads>>
    BY <1>3 DEF Web!Abort
  <2>3. WebTypes'
    BY <1>0, <1>1, <2>1, <2>2 DEF WebTypes
  <2>4. StoreOfSettings'
    BY <1>0, <1>1, <2>1, <2>2, NoNewUse DEF Uses, StoreOfSettings
  <2>5. PreparedListener' /\ ServesConfigured'
    BY <1>0, <1>1, <2>1, <2>2 DEF PreparedListener, ServesConfigured, Web!ServesConfigured
  <2>6. QED
    BY <1>2, <2>3, <2>4, <2>5 DEF WebInv
<1>4. CASE Web!Commit
  <2>1. pending'.step = "none" /\ pending' \in [step : {"none", "prepared"}, config : Web!Configs,
                                      store : Stores, port : Ports \cup {NoPort}]
    <3>1. Web!NoReload.config \in Web!Configs /\ Web!AnyStore \in Stores
      BY <1>0 DEF WebTypes, Web!NoReload, Web!AnyStore
    <3>2. QED
      BY <1>4, <3>1 DEF Web!Commit, Web!NoReload
  <2>2. /\ pending.step = "prepared" /\ webconfig' = pending.config
        /\ router' = [settings |-> pending.config.settings, store |-> pending.store, built |-> webreloads]
        /\ listening' = IF ~pending.config.enabled THEN NoPort
                        ELSE IF pending.port # NoPort THEN pending.port ELSE listening
        /\ unbound' = FALSE /\ UNCHANGED <<unused, webreloads>>
    BY <1>4 DEF Web!Commit
  <2>3. WebTypes'
    BY <1>0, <1>1, <2>1, <2>2 DEF WebTypes, Web!Configs, Web!Routers
  <2>4. \A s, v : Uses(s, v)' => Uses(s, v)
    BY <1>1, <2>1, <2>2 DEF Uses
  <2>5. StoreOfSettings'
    BY <1>0, <2>2, <2>4, NoNewUse
  <2>6. PreparedListener' /\ ServesConfigured'
    BY <1>0, <1>1, <2>1, <2>2 DEF PreparedListener, ServesConfigured, Web!ServesConfigured
  <2>7. QED
    BY <1>2, <2>3, <2>5, <2>6 DEF WebInv
<1>5. ASSUME NEW c \in Web!Configs, Web!Prepare(c) PROVE WebInv'
  <2>1. UNCHANGED <<webconfig, router, listening, unbound>> /\ webreloads' \in 0 .. MaxReloads
    BY <1>0, <1>5 DEF Web!Prepare, WebTypes
  <2>2. CASE UNCHANGED <<pending, unused>>
    <3>1. WebTypes'
      BY <1>0, <1>1, <2>1, <2>2 DEF WebTypes
    <3>2. StoreOfSettings' /\ PreparedListener' /\ ServesConfigured'
      BY <1>0, <1>1, <2>1, <2>2 DEF StoreOfSettings, Uses, PreparedListener, ServesConfigured,
                                    Web!ServesConfigured
    <3>3. QED
      BY <1>2, <3>1, <3>2 DEF WebInv
  <2>3. CASE ~ UNCHANGED <<pending, unused>>
    <3> DEFINE st == IF Web!SignsOut(c) THEN CHOOSE s \in unused : TRUE ELSE router.store
    <3>1. /\ pending' = [step |-> "prepared", config |-> c, store |-> st,
                         port |-> IF Web!NeedsListener(c) THEN c.port ELSE NoPort]
          /\ unused' = unused \ {st}
          /\ webphase # "built" /\ pending = Web!NoReload
          /\ Web!SignsOut(c) => unused # {}
      BY <1>5, <2>3 DEF Web!Prepare
    <3>2. /\ Web!SignsOut(c) => st \in unused
          /\ ~ Web!SignsOut(c) => st = router.store /\ c.settings = router.settings
          /\ st \in Stores
      BY <1>0, <3>1 DEF Web!SignsOut, StoreOfSettings, WebTypes, Web!Routers
    <3> HIDE DEF st
    <3>3. WebTypes'
      BY <1>0, <1>1, <2>1, <3>1, <3>2 DEF WebTypes, Web!Configs
    <3>4. \A s, v : Uses(s, v)' => Uses(s, v) \/ (Web!SignsOut(c) /\ s = st /\ v = c.settings)
      BY <1>1, <2>1, <3>1, <3>2 DEF Uses, Web!NoReload
    <3>5. StoreOfSettings'
      BY <1>0, <2>1, <3>1, <3>2, <3>4 DEF StoreOfSettings
    <3>6. PreparedListener' /\ ServesConfigured'
      BY <1>0, <1>1, <2>1, <3>1 DEF PreparedListener, ServesConfigured, Web!ServesConfigured,
                                    Web!NeedsListener, Web!Configs
    <3>7. QED
      BY <1>2, <3>3, <3>5, <3>6 DEF WebInv
  <2>4. QED
    BY <2>2, <2>3
<1>6. QED
  BY <1>3, <1>4, <1>5

\* A request keeps the router it arrived at, and a session the settings of
\* the store it is in.
LEMMA RequestSteps ==
  ASSUME WebInv,
         \/ \E b \in Browsers :
              \/ \E k \in {"page", "save", "login", "logout"} : Web!Arrive(b, k)
              \/ Web!CheckSession(b) \/ Web!Refused(b) \/ Web!Login(b) \/ Web!Done(b)
         \/ Web!CleanupExpired
  PROVE  WebInv'
<1>0. /\ WebTypes /\ StoreOfSettings /\ PreparedListener /\ SignedOut /\ ServesConfigured
      /\ TTL \in Nat
  BY ServicesAssumption DEF WebInv, ServicesAssumption, Web!WebAssumption
<1>1. UNCHANGED <<webconfig, router, listening, unused, pending, webphase, unbound, now, webreloads>>
  BY DEF Web!Arrive, Web!CheckSession, Web!Refused, Web!Login, Web!Done, Web!CleanupExpired,
         Web!listenVars
<1>2. PreparedListener' /\ ServesConfigured'
  BY <1>0, <1>1 DEF PreparedListener, ServesConfigured, Web!ServesConfigured
<1>3. router \in Web!Routers /\ Web!AnyRouter \in Web!Routers
  BY <1>0 DEF WebTypes, Web!AnyRouter
<1> DEFINE Sess == [store : Stores, browser : Browsers, settings : Settings, until : Nat]
           Reqs == [step : {"none", "session", "login", "served"},
                    kind : {"page", "save", "login", "logout"}, router : Web!Routers, as : Settings]
<1>4. /\ Web!NoRequest \in Reqs /\ Web!NoRequest.step = "none"
      /\ \A k \in {"page", "save", "login", "logout"} :
           [Web!NoRequest EXCEPT !.step = "session", !.kind = k, !.router = router] \in Reqs
  BY <1>3 DEF Web!NoRequest, Web!Routers
<1>5. websessions \subseteq Sess /\ req \in [Browsers -> Reqs]
  BY <1>0 DEF WebTypes
\* What is used, typed and served follows from what becomes of the two.
<1>6. ASSUME websessions' \subseteq Sess, req' \in [Browsers -> Reqs],
             \A x \in websessions' : x \in websessions \/ Uses(x.store, x.settings),
             \A b \in Browsers : \/ req'[b].step = "none"
                                 \/ Uses(req'[b].router.store, req'[b].router.settings),
             \A b \in Browsers : req'[b].step = "served" => req'[b].as = req'[b].router.settings
      PROVE  WebInv'
  <2>1. WebTypes'
    BY <1>0, <1>1, <1>6 DEF WebTypes
  <2>2. \A s, v : Uses(s, v)' => Uses(s, v)
    BY <1>1, <1>6 DEF Uses
  <2>3. StoreOfSettings'
    BY <1>0, <1>1, <2>2, NoNewUse DEF StoreOfSettings
  <2>4. SignedOut'
    BY <1>6 DEF SignedOut, Web!SignedOut
  <2>5. QED
    BY <1>2, <2>1, <2>3, <2>4 DEF WebInv
<1>7. \A x \in websessions : Uses(x.store, x.settings)
  BY DEF Uses
<1>8. \A b \in Browsers : req[b].step # "none" => Uses(req[b].router.store, req[b].router.settings)
  BY DEF Uses
<1>9. \A b \in Browsers : req[b].step = "served" => req[b].as = req[b].router.settings
  BY <1>0 DEF SignedOut, Web!SignedOut
<1> HIDE DEF Sess, Reqs
<1>10. CASE Web!CleanupExpired
  BY <1>5, <1>6, <1>7, <1>8, <1>9, <1>10 DEF Web!CleanupExpired
<1>11. ASSUME NEW b \in Browsers, NEW k \in {"page", "save", "login", "logout"}, Web!Arrive(b, k)
       PROVE  WebInv'
  <2>1. /\ websessions' = websessions
        /\ req' = [req EXCEPT ![b] =
                     [Web!NoRequest EXCEPT !.step = "session", !.kind = k, !.router = router]]
    BY <1>11 DEF Web!Arrive
  <2>2. /\ req'[b].router = router /\ req'[b].step = "session"
        /\ \A o \in Browsers \ {b} : req'[o] = req[o]
    BY <1>5, <2>1 DEF Web!NoRequest
  <2>3. Uses(router.store, router.settings)
    BY DEF Uses
  <2>4. req' \in [Browsers -> Reqs]
    BY <1>4, <1>5, <2>1
  <2>5. QED
    BY <1>5, <1>6, <1>7, <1>8, <1>9, <2>1, <2>2, <2>3, <2>4
<1>12. ASSUME NEW b \in Browsers, websessions' \subseteq websessions,
              req' = [req EXCEPT ![b] = Web!NoRequest]
       PROVE  WebInv'
  <2>1. req' \in [Browsers -> Reqs] /\ req'[b].step = "none"
        /\ \A o \in Browsers \ {b} : req'[o] = req[o]
    BY <1>4, <1>5, <1>12
  <2>2. QED
    BY <1>5, <1>6, <1>7, <1>8, <1>9, <1>12, <2>1
<1>13. ASSUME NEW b \in Browsers, Web!Refused(b) \/ Web!Done(b) PROVE WebInv'
  BY <1>12, <1>13 DEF Web!Refused, Web!Done
<1>14. ASSUME NEW b \in Browsers, Web!Login(b) PROVE WebInv'
  <2> DEFINE new == [store |-> req[b].router.store, browser |-> b,
                     settings |-> req[b].router.settings, until |-> now + TTL]
  <2>1. /\ websessions' = {s \in websessions : ~(s.browser = b /\ s.store = req[b].router.store)} \cup {new}
        /\ req' = [req EXCEPT ![b] = Web!NoRequest] /\ req[b].step = "login"
    BY <1>14 DEF Web!Login
  <2>2. new \in Sess
    BY <1>0 DEF WebTypes, Web!Routers, Sess
  <2>3. Uses(new.store, new.settings)
    BY <1>8, <2>1
  <2> HIDE DEF new
  <2>4. req' \in [Browsers -> Reqs] /\ req'[b].step = "none"
        /\ \A o \in Browsers \ {b} : req'[o] = req[o]
    BY <1>4, <1>5, <2>1
  <2>5. QED
    BY <1>5, <1>6, <1>7, <1>8, <1>9, <2>1, <2>2, <2>3, <2>4
<1>15. ASSUME NEW b \in Browsers, Web!CheckSession(b) PROVE WebInv'
  <2>1. websessions' \subseteq websessions /\ req[b].step = "session"
    BY <1>15 DEF Web!CheckSession
  <2>2. \/ req' = [req EXCEPT ![b].step = "login"]
        \/ req' = [req EXCEPT ![b] = Web!NoRequest]
        \/ \E s \in Web!Known(b) : req' = [req EXCEPT ![b].step = "served", ![b].as = s.settings]
    BY <1>15 DEF Web!CheckSession
  <2>3. CASE req' = [req EXCEPT ![b].step = "login"]
    <3>1. /\ req' \in [Browsers -> Reqs] /\ req'[b].step = "login" /\ req'[b].router = req[b].router
          /\ \A o \in Browsers \ {b} : req'[o] = req[o]
      BY <1>5, <2>3 DEF Reqs
    <3>2. QED
      BY <1>5, <1>6, <1>7, <1>8, <1>9, <2>1, <3>1
  <2>4. ASSUME NEW s \in Web!Known(b), req' = [req EXCEPT ![b].step = "served", ![b].as = s.settings]
        PROVE  WebInv'
    <3>1. s \in websessions /\ s.store = req[b].router.store
      BY DEF Web!Known
    <3>2. s.settings = req[b].router.settings
      BY <1>0, <1>7, <1>8, <2>1, <3>1 DEF StoreOfSettings
    <3>3. s.settings \in Settings
      BY <1>5, <3>1 DEF Sess
    <3>4. /\ req' \in [Browsers -> Reqs] /\ req'[b].router = req[b].router
          /\ req'[b].as = s.settings
          /\ \A o \in Browsers \ {b} : req'[o] = req[o]
      BY <1>5, <2>4, <3>3 DEF Reqs
    <3>5. QED
      BY <1>5, <1>6, <1>7, <1>8, <1>9, <2>1, <3>2, <3>4
  <2>5. QED
    BY <1>12, <2>1, <2>2, <2>3, <2>4
<1>16. QED
  BY <1>10, <1>11, <1>13, <1>14, <1>15

LEMMA WebStep == ASSUME WebInv, [ServicesNext]_servicesVars PROVE WebInv'
<1>1. CASE UNCHANGED webVars
  <2>1. UNCHANGED <<webconfig, router, listening, unused, pending, webphase, unbound,
                    websessions, req, now, webreloads>>
    BY <1>1 DEF webVars
  <2>2. WebTypes'
    BY <2>1 DEF WebInv, WebTypes
  <2>3. StoreOfSettings'
    BY <2>1 DEF WebInv, StoreOfSettings, Uses
  <2>4. PreparedListener' /\ SignedOut' /\ ServesConfigured'
    BY <2>1 DEF WebInv, PreparedListener, SignedOut, Web!SignedOut, ServesConfigured,
                Web!ServesConfigured
  <2>5. QED
    BY <2>2, <2>3, <2>4 DEF WebInv
<1>2. CASE Web!Next
  BY <1>2, ListenerSteps, WebReloadSteps, RequestSteps DEF Web!Next
<1>3. QED
  BY <1>1, <1>2 DEF ServicesNext, servicesVars

LEMMA WebInvariant == ServicesSpec => []WebInv
<1>1. WebInv /\ [ServicesNext]_servicesVars => WebInv'
  BY WebStep
<1>2. QED
  BY <1>1, WebInit, PTL DEF ServicesSpec

\* No request is served for a session of other settings than its router's
\* (session.go, server.go).
THEOREM ChangeSignsOut == ServicesSpec => []SignedOut
<1>1. WebInv => SignedOut
  BY DEF WebInv
<1>2. QED
  BY <1>1, WebInvariant, PTL

\* The dashboard listens where the applied configuration says, unless Start
\* could not bind the port (server.go).
THEOREM ListensAsConfigured == ServicesSpec => []ServesConfigured
<1>1. WebInv => ServesConfigured
  BY DEF WebInv
<1>2. QED
  BY <1>1, WebInvariant, PTL

-----------------------------------------------------------------------------
(* The registry of tools                                                     *)

Owners ==
  {Registry!Free, Registry!Builtin} \cup {Registry!OfPlugin(p, b) : p \in Plugins, b \in Bases}
    \cup {Registry!OfManager(m) : m \in Managers}

RegistryTypes ==
  /\ tools \in [Registry!Names -> Owners]
  /\ offered \in [Plugins -> SUBSET Bases]
  /\ installed \in [plugin : SUBSET Registry!Names, mcp : SUBSET Registry!Names]
  /\ job \in [Registry!Jobs -> [step : {"idle", "wait", "prepared", "register", "unregister"},
                                todo : SUBSET (Registry!Names \X Owners),
                                next : SUBSET Registry!Names, drop : SUBSET Registry!Names]]
  /\ manager \in [Managers -> {"new", "prepared", "current", "replaced", "closing", "closed"}]
  /\ served \in [Managers -> SUBSET McpTools]
  /\ call \in [ToolCallers -> [step : {"idle", "ask", "call", "running"}, schema : SUBSET Registry!Names,
                               name : Registry!Names \cup {<<>>}, owner : Owners, left : Nat, tries : Nat]]

\* One manager is current; a reload has one prepared until it swaps them, and
\* one replaced until it has installed the tools.
ManagerOfStep ==
  /\ \E m \in Managers : manager[m] = "current"
  /\ \A m, k \in Managers : manager[m] = manager[k] /\ manager[m] \in {"current", "prepared"} => m = k
  /\ job[Reload].step = "prepared" => \E m \in Managers : manager[m] = "prepared"
  /\ job[Reload].step # "prepared" => \A m \in Managers : manager[m] # "prepared"
  /\ job[Reload].step \notin {"register", "unregister"} => \A m \in Managers : manager[m] # "replaced"

\* A refresh registers tools of plugins, a reload those of the current manager.
JobOwners ==
  /\ \A x \in Refreshers, m \in Managers :
       \A e \in job[x].todo : e[2] # Registry!OfManager(m)
  /\ job[Reload].step = "register" =>
       \A e \in job[Reload].todo, m \in Managers :
         e[2] = Registry!OfManager(m) => manager[m] = "current" /\ e[1] \in job[Reload].next

\* A tool of a replaced manager is still to be overwritten or to be dropped.
OwnerOfName ==
  \A n \in Registry!Names, m \in Managers :
    tools[n] = Registry!OfManager(m) =>
      /\ manager[m] \in {"current", "replaced"}
      /\ manager[m] = "current" =>
           n \in IF job[Reload].step = "register" THEN job[Reload].next ELSE installed.mcp
      /\ manager[m] = "replaced" =>
           IF job[Reload].step = "register"
           THEN n \in installed.mcp /\ (n \in job[Reload].next => \E e \in job[Reload].todo : e[1] = n)
           ELSE n \in job[Reload].drop

\* No write happens while a tool runs.
RunsOwner ==
  \A c \in ToolCallers :
    /\ call[c].step \in {"call", "running"} => call[c].name \in Registry!Names
    /\ call[c].owner = IF call[c].step = "running" THEN tools[call[c].name] ELSE Registry!Free

RegistryInv == RegistryTypes /\ ManagerOfStep /\ JobOwners /\ OwnerOfName /\ RunsOwner

LEMMA OwnersApart ==
  /\ \A m : /\ Registry!OfManager(m) # Registry!Free /\ Registry!OfManager(m) # Registry!Builtin
            /\ \A p, b : Registry!OfManager(m) # Registry!OfPlugin(p, b)
            /\ \A k : Registry!OfManager(m) = Registry!OfManager(k) => m = k
  /\ Registry!Free \in Owners
BY DEF Registry!OfManager, Registry!Free, Registry!Builtin, Registry!OfPlugin, Owners

\* What the jobs register is typed.
LEMMA EntriesTyped ==
  /\ \A m \in Managers, S \in SUBSET McpTools :
       /\ Registry!McpEntries(m, S) \in SUBSET (Registry!Names \X Owners)
       /\ \A e \in Registry!McpEntries(m, S) : e[2] = Registry!OfManager(m)
  /\ \A list \in [Plugins -> SUBSET Bases] :
       /\ Registry!PluginEntries(list) \in SUBSET (Registry!Names \X Owners)
       /\ \A e \in Registry!PluginEntries(list), m \in Managers : e[2] # Registry!OfManager(m)
<1>1. ASSUME NEW m \in Managers, NEW S \in SUBSET McpTools, NEW e \in Registry!McpEntries(m, S)
      PROVE  e \in Registry!Names \X Owners /\ e[2] = Registry!OfManager(m)
  <2>1. PICK t \in S : e = <<Registry!Name(t), Registry!OfManager(m)>>
    BY DEF Registry!McpEntries
  <2>2. Registry!Name(t) \in Registry!Names /\ Registry!OfManager(m) \in Owners
    BY DEF Registry!Names, Owners
  <2>3. QED
    BY <2>1, <2>2
<1>2. ASSUME NEW list \in [Plugins -> SUBSET Bases], NEW e \in Registry!PluginEntries(list)
      PROVE  e \in Registry!Names \X Owners /\ \A m \in Managers : e[2] # Registry!OfManager(m)
  <2>1. PICK p \in Plugins, b \in Bases : e = <<Registry!FullName(list, p, b), Registry!OfPlugin(p, b)>>
    BY DEF Registry!PluginEntries
  <2>2. Registry!FullName(list, p, b) \in Registry!Names /\ Registry!OfPlugin(p, b) \in Owners
    BY DEF Registry!Names, Registry!FullName, Owners
  <2>3. e[2] = Registry!OfPlugin(p, b) /\ e \in Registry!Names \X Owners
    BY <2>1, <2>2
  <2>4. QED
    BY <2>3, OwnersApart
<1>3. QED
  BY <1>1, <1>2

LEMMA RegistryInit == ASSUME ServicesInit PROVE RegistryInv
<1>1. Registry!Init /\ Reload \notin Refreshers /\ MaxToolIterations \in Nat /\ RetryCount \in Nat
  BY ServicesAssumption DEF ServicesInit, ServicesAssumption, Registry!RegistryAssumption
<1>2. PICK m \in Managers, S \in SUBSET McpTools :
        /\ manager = [k \in Managers |-> IF k = m THEN "current" ELSE "new"]
        /\ served = [k \in Managers |-> IF k = m THEN S ELSE {}]
        /\ installed = [plugin |-> {}, mcp |-> {Registry!Name(t) : t \in S}]
        /\ tools = [n \in Registry!Names |->
                      IF n \in {Registry!Name(t) : t \in S} THEN Registry!OfManager(m)
                      ELSE IF n \in {Registry!Name(x) : x \in Builtins} THEN Registry!Builtin
                      ELSE Registry!Free]
  BY <1>1 DEF Registry!Init
<1>3. /\ offered = [p \in Plugins |-> {}] /\ job = [x \in Registry!Jobs |-> Registry!NoJob]
      /\ call = [c \in ToolCallers |-> Registry!NoCall]
  BY <1>1 DEF Registry!Init
<1>4. /\ Registry!Builtin \in Owners /\ Registry!OfManager(m) \in Owners /\ Registry!Free \in Owners
      /\ {Registry!Name(t) : t \in S} \subseteq Registry!Names
  BY DEF Owners, Registry!Names
<1>5. RegistryTypes
  BY <1>1, <1>2, <1>3, <1>4 DEF RegistryTypes, Registry!NoJob, Registry!NoCall
<1>6. Reload \in Registry!Jobs /\ Refreshers \subseteq Registry!Jobs
  BY DEF Registry!Jobs
<1>7. ManagerOfStep /\ JobOwners
  BY <1>2, <1>3, <1>6 DEF ManagerOfStep, JobOwners, Registry!NoJob
<1>8. OwnerOfName
  BY <1>2, <1>3, <1>6, OwnersApart DEF OwnerOfName, Registry!NoJob
<1>9. RunsOwner
  BY <1>3 DEF RunsOwner, Registry!NoCall
<1>10. QED
  BY <1>5, <1>7, <1>8, <1>9 DEF RegistryInv

\* The loop of a reply writes nothing but its own call, and runs what it finds.
LEMMA CallSteps ==
  ASSUME RegistryInv,
         NEW c \in ToolCallers,
         \/ Registry!Ask(c) \/ Registry!Answered(c) \/ Registry!AskAgain(c)
         \/ Registry!Execute(c) \/ Registry!EndCall(c)
         \/ \E n \in Registry!Names : Registry!ToolCalls(c, n)
  PROVE  RegistryInv'
<1>0. RegistryTypes /\ ManagerOfStep /\ JobOwners /\ OwnerOfName /\ RunsOwner
  BY DEF RegistryInv
<1>1. UNCHANGED <<tools, offered, installed, job, manager, served>>
  BY DEF Registry!Ask, Registry!Answered, Registry!AskAgain, Registry!Execute, Registry!EndCall,
         Registry!ToolCalls, Registry!Others
<1>2. ManagerOfStep' /\ JobOwners' /\ OwnerOfName'
  BY <1>0, <1>1 DEF ManagerOfStep, JobOwners, OwnerOfName
<1> DEFINE Calls == [step : {"idle", "ask", "call", "running"}, schema : SUBSET Registry!Names,
                     name : Registry!Names \cup {<<>>}, owner : Owners, left : Nat, tries : Nat]
           Good(r) == /\ r.step \in {"call", "running"} => r.name \in Registry!Names
                      /\ r.owner = IF r.step = "running" THEN tools[r.name] ELSE Registry!Free
<1>3. call \in [ToolCallers -> Calls] /\ \A k \in ToolCallers : Good(call[k])
  BY <1>0 DEF RegistryTypes, RunsOwner
<1>4. MaxToolIterations \in Nat /\ RetryCount \in Nat /\ Registry!Free \in Owners
  BY ServicesAssumption, OwnersApart DEF ServicesAssumption, Registry!RegistryAssumption
<1>5. Registry!NoCall \in Calls /\ Good(Registry!NoCall)
  BY <1>4 DEF Registry!NoCall
<1>6. ASSUME NEW r, r \in Calls, Good(r), call' = [call EXCEPT ![c] = r] PROVE RegistryInv'
  <2>1. call' \in [ToolCallers -> Calls] /\ \A k \in ToolCallers : Good(call'[k])
    BY <1>3, <1>6
  <2>2. RegistryTypes' /\ RunsOwner'
    BY <1>0, <1>1, <2>1 DEF RegistryTypes, RunsOwner
  <2>3. QED
    BY <1>2, <2>2 DEF RegistryInv
<1>7. call[c] \in Calls /\ Good(call[c])
  BY <1>3
<1>8. CASE Registry!Ask(c)
  <2> DEFINE r == [Registry!NoCall EXCEPT !.step = "ask",
                     !.schema = {n \in Registry!Names : tools[n] # Registry!Free},
                     !.left = MaxToolIterations, !.tries = RetryCount]
  <2>1. call' = [call EXCEPT ![c] = r]
    BY <1>8 DEF Registry!Ask
  <2>2. r \in Calls /\ Good(r)
    BY <1>4 DEF Registry!NoCall
  <2> HIDE DEF r, Calls, Good
  <2>3. QED
    BY <1>6, <2>1, <2>2
<1>9. CASE Registry!Answered(c)
  <2> HIDE DEF Calls, Good
  <2>1. QED
    BY <1>5, <1>6, <1>9 DEF Registry!Answered
<1>10. CASE Registry!AskAgain(c)
  <2> DEFINE r == [call[c] EXCEPT !.tries = @ - 1]
  <2>1. call[c].step = "ask"
    BY <1>10 DEF Registry!AskAgain
  <2>2. CASE call[c].tries = 0
    <3>1. call' = [call EXCEPT ![c] = Registry!NoCall]
      BY <1>10, <2>2 DEF Registry!AskAgain
    <3> HIDE DEF Calls, Good
    <3>2. QED
      BY <1>5, <1>6, <3>1
  <2>3. CASE call[c].tries # 0
    <3>1. call' = [call EXCEPT ![c] = r]
      BY <1>10, <2>3 DEF Registry!AskAgain
    <3>2. r \in Calls /\ Good(r)
      BY <1>7, <2>1, <2>3
    <3> HIDE DEF r, Calls, Good
    <3>3. QED
      BY <1>6, <3>1, <3>2
  <2>4. QED
    BY <2>2, <2>3
<1>11. ASSUME NEW n \in Registry!Names, Registry!ToolCalls(c, n) PROVE RegistryInv'
  <2> DEFINE r == [call[c] EXCEPT !.step = "call", !.name = n, !.left = @ - 1]
  <2>1. call[c].step = "ask"
    BY <1>11 DEF Registry!ToolCalls
  <2>2. CASE call[c].left = 0
    <3>1. call' = [call EXCEPT ![c] = Registry!NoCall]
      BY <1>11, <2>2 DEF Registry!ToolCalls
    <3> HIDE DEF Calls, Good
    <3>2. QED
      BY <1>5, <1>6, <3>1
  <2>3. CASE call[c].left # 0
    <3>1. call' = [call EXCEPT ![c] = r]
      BY <1>11, <2>3 DEF Registry!ToolCalls
    <3>2. call[c].left - 1 \in Nat
      BY <1>7, <2>3
    <3>3. r \in Calls /\ Good(r)
      BY <1>7, <2>1, <3>2
    <3> HIDE DEF r, Calls, Good
    <3>4. QED
      BY <1>6, <3>1, <3>3
  <2>4. QED
    BY <2>2, <2>3
<1>12. CASE Registry!Execute(c)
  <2>1. call[c].step = "call"
    BY <1>12 DEF Registry!Execute
  <2>2. CASE tools[call[c].name] = Registry!Free
    <3> DEFINE r == [call[c] EXCEPT !.step = "ask", !.name = <<>>, !.tries = RetryCount]
    <3>1. call' = [call EXCEPT ![c] = r]
      BY <1>3, <1>12, <2>2 DEF Registry!Execute
    <3>2. r \in Calls /\ Good(r)
      BY <1>4, <1>7, <2>1
    <3> HIDE DEF r, Calls, Good
    <3>3. QED
      BY <1>6, <3>1, <3>2
  <2>3. CASE tools[call[c].name] # Registry!Free
    <3> DEFINE r == [call[c] EXCEPT !.step = "running", !.owner = tools[call[c].name]]
    <3>1. call' = [call EXCEPT ![c] = r]
      BY <1>3, <1>12, <2>3 DEF Registry!Execute
    <3>2. call[c].name \in Registry!Names
      BY <1>7, <2>1
    <3>3. r \in Calls /\ Good(r)
      BY <1>0, <1>7, <2>1, <3>2 DEF RegistryTypes
    <3> HIDE DEF r, Calls, Good
    <3>4. QED
      BY <1>6, <3>1, <3>3
  <2>4. QED
    BY <2>2, <2>3
<1>13. CASE Registry!EndCall(c)
  <2> DEFINE r == [call[c] EXCEPT !.step = "ask", !.name = <<>>, !.owner = Registry!Free,
                                  !.tries = RetryCount]
  <2>1. call' = [call EXCEPT ![c] = r]
    BY <1>3, <1>13 DEF Registry!EndCall
  <2>2. r \in Calls /\ Good(r)
    BY <1>4, <1>7
  <2> HIDE DEF r, Calls, Good
  <2>3. QED
    BY <1>6, <2>1, <2>2
<1>14. QED
  BY <1>8, <1>9, <1>10, <1>11, <1>12, <1>13

JobRecords ==
  [step : {"idle", "wait", "prepared", "register", "unregister"},
   todo : SUBSET (Registry!Names \X Owners), next : SUBSET Registry!Names,
   drop : SUBSET Registry!Names]

LEMMA JobsTyped ==
  ASSUME RegistryInv
  PROVE  /\ Reload \in Registry!Jobs /\ Reload \notin Refreshers
         /\ Registry!Jobs = Refreshers \cup {Reload}
         /\ job \in [Registry!Jobs -> JobRecords] /\ Registry!NoJob \in JobRecords
BY ServicesAssumption DEF ServicesAssumption, Registry!RegistryAssumption, Registry!Jobs,
   RegistryInv, RegistryTypes, JobRecords, Registry!NoJob

\* A refresh is asked for, or lists the tools the plugins offer.
LEMMA ListSteps ==
  ASSUME RegistryInv,
         \/ \E p \in Plugins, S \in SUBSET Bases : Registry!ChangeUnlisted(p, S)
         \/ \E x \in Refreshers :
              Registry!List(x) \/ \E p \in Plugins, S \in SUBSET Bases : Registry!ChangeTools(x, p, S)
  PROVE  RegistryInv'
<1>0. RegistryTypes /\ ManagerOfStep /\ JobOwners /\ OwnerOfName /\ RunsOwner
  BY DEF RegistryInv
<1>1. UNCHANGED <<tools, installed, manager, served, call>>
  BY DEF Registry!ChangeUnlisted, Registry!List, Registry!ChangeTools
<1>2. offered' \in [Plugins -> SUBSET Bases]
  BY <1>0 DEF Registry!ChangeUnlisted, Registry!List, Registry!ChangeTools, RegistryTypes
<1>3. \/ UNCHANGED job
      \/ \E x \in Refreshers, r \in JobRecords :
           /\ job' = [job EXCEPT ![x] = r]
           /\ \A m \in Managers, e \in r.todo : e[2] # Registry!OfManager(m)
  <2>1. CASE \E p \in Plugins, S \in SUBSET Bases : Registry!ChangeUnlisted(p, S)
    BY <2>1 DEF Registry!ChangeUnlisted
  <2>2. ASSUME NEW x \in Refreshers, Registry!List(x)
        PROVE  \E r \in JobRecords :
                 /\ job' = [job EXCEPT ![x] = r]
                 /\ \A m \in Managers, e \in r.todo : e[2] # Registry!OfManager(m)
    <3> DEFINE entries == Registry!PluginEntries(offered)
               r == [step |-> "register", todo |-> entries, next |-> {e[1] : e \in entries}, drop |-> {}]
    <3>1. job' = [job EXCEPT ![x] = r]
      BY <2>2 DEF Registry!List
    <3>2. /\ entries \in SUBSET (Registry!Names \X Owners)
          /\ \A e \in entries, m \in Managers : e[2] # Registry!OfManager(m)
      BY <1>0, EntriesTyped DEF RegistryTypes
    <3> HIDE DEF entries
    <3>3. r \in JobRecords /\ r.todo = entries
      BY <3>2 DEF JobRecords
    <3> HIDE DEF r
    <3>4. QED
      BY <3>1, <3>2, <3>3
  <2>3. ASSUME NEW x \in Refreshers, NEW p \in Plugins, NEW S \in SUBSET Bases,
               Registry!ChangeTools(x, p, S)
        PROVE  \E r \in JobRecords :
                 /\ job' = [job EXCEPT ![x] = r]
                 /\ \A m \in Managers, e \in r.todo : e[2] # Registry!OfManager(m)
    <3> DEFINE r == [job[x] EXCEPT !.step = "wait"]
    <3>1. job' = [job EXCEPT ![x] = r]
      BY <2>3 DEF Registry!ChangeTools
    <3>2. r \in JobRecords /\ r.todo = job[x].todo
      BY JobsTyped DEF JobRecords
    <3>3. \A m \in Managers, e \in job[x].todo : e[2] # Registry!OfManager(m)
      BY <1>0 DEF JobOwners
    <3> HIDE DEF r
    <3>4. QED
      BY <3>1, <3>2, <3>3
  <2>4. QED
    BY <2>1, <2>2, <2>3
<1>4. /\ job' \in [Registry!Jobs -> JobRecords] /\ job'[Reload] = job[Reload]
      /\ \A x \in Refreshers, m \in Managers : \A e \in job'[x].todo : e[2] # Registry!OfManager(m)
  BY <1>0, <1>3, JobsTyped DEF JobOwners
<1>5. RegistryTypes'
  BY <1>0, <1>1, <1>2, <1>4 DEF RegistryTypes, JobRecords
<1>6. ManagerOfStep' /\ JobOwners' /\ OwnerOfName' /\ RunsOwner'
  BY <1>0, <1>1, <1>4 DEF ManagerOfStep, JobOwners, OwnerOfName, RunsOwner
<1>7. QED
  BY <1>5, <1>6 DEF RegistryInv

\* A hot reload prepares a manager, gives it up or makes it the current one;
\* the one that was replaced is closed in the end.
LEMMA ManagerSteps ==
  ASSUME RegistryInv,
         \/ Registry!AbortMCP \/ Registry!SwapMCP
         \/ \E m \in Managers :
              Registry!CloseMCP(m) \/ \E S \in SUBSET McpTools : Registry!PrepareMCP(m, S)
  PROVE  RegistryInv'
<1>0. RegistryTypes /\ ManagerOfStep /\ JobOwners /\ OwnerOfName /\ RunsOwner
  BY DEF RegistryInv
<1>1. UNCHANGED <<tools, offered, installed, call>>
  BY DEF Registry!AbortMCP, Registry!SwapMCP, Registry!CloseMCP, Registry!PrepareMCP
<1>2. RunsOwner'
  BY <1>0, <1>1 DEF RunsOwner
<1>3. /\ manager \in [Managers -> {"new", "prepared", "current", "replaced", "closing", "closed"}]
      /\ served \in [Managers -> SUBSET McpTools]
  BY <1>0 DEF RegistryTypes
\* The types and the refreshers' jobs follow from what becomes of the three.
<1>4. ASSUME manager' \in [Managers -> {"new", "prepared", "current", "replaced", "closing", "closed"}],
             served' \in [Managers -> SUBSET McpTools],
             \/ UNCHANGED job
             \/ \E r \in JobRecords : job' = [job EXCEPT ![Reload] = r]
      PROVE  /\ RegistryTypes'
             /\ \A x \in Refreshers : job'[x] = job[x]
  BY <1>0, <1>1, <1>4, JobsTyped DEF RegistryTypes, JobRecords
<1>5. ASSUME NEW m \in Managers, Registry!CloseMCP(m) PROVE RegistryInv'
  <2>1. /\ manager[m] = "closing" /\ manager' = [manager EXCEPT ![m] = "closed"]
        /\ UNCHANGED <<job, served>>
    BY <1>5 DEF Registry!CloseMCP
  <2>2. RegistryTypes'
    BY <1>3, <1>4, <2>1
  <2>3. ManagerOfStep' /\ JobOwners'
    BY <1>0, <1>3, <2>1 DEF ManagerOfStep, JobOwners
  <2>4. OwnerOfName'
    BY <1>0, <1>1, <1>3, <2>1 DEF OwnerOfName
  <2>5. QED
    BY <1>2, <2>2, <2>3, <2>4 DEF RegistryInv
<1>6. ASSUME NEW m \in Managers, NEW S \in SUBSET McpTools, Registry!PrepareMCP(m, S) PROVE RegistryInv'
  <2>1. /\ manager[m] = "new" /\ manager' = [manager EXCEPT ![m] = "prepared"]
        /\ job[Reload].step = "idle" /\ job' = [job EXCEPT ![Reload].step = "prepared"]
        /\ served' = [served EXCEPT ![m] = S]
    BY <1>6 DEF Registry!PrepareMCP
  <2>2. /\ job' = [job EXCEPT ![Reload] = [job[Reload] EXCEPT !.step = "prepared"]]
        /\ [job[Reload] EXCEPT !.step = "prepared"] \in JobRecords
    BY <2>1, JobsTyped DEF JobRecords
  <2>3. RegistryTypes' /\ \A x \in Refreshers : job'[x] = job[x]
    BY <1>3, <1>4, <2>1, <2>2
  <2>4. job'[Reload].step = "prepared" /\ \A k \in Managers \ {m} : manager'[k] = manager[k]
    BY <1>3, <2>1, <2>2, JobsTyped DEF JobRecords
  <2>5. ManagerOfStep'
    BY <1>0, <1>3, <2>1, <2>4 DEF ManagerOfStep
  <2>6. JobOwners'
    BY <1>0, <2>3, <2>4 DEF JobOwners
  <2>7. OwnerOfName'
    BY <1>0, <1>1, <1>3, <2>1, <2>4 DEF OwnerOfName, ManagerOfStep
  <2>8. QED
    BY <1>2, <2>3, <2>5, <2>6, <2>7 DEF RegistryInv
<1>7. CASE Registry!AbortMCP
  <2> DEFINE p == Registry!Prepared
  <2>1. /\ job[Reload].step = "prepared" /\ manager' = [manager EXCEPT ![p] = "closed"]
        /\ job' = [job EXCEPT ![Reload] = Registry!NoJob] /\ UNCHANGED served
    BY <1>7 DEF Registry!AbortMCP
  <2>2. p \in Managers /\ manager[p] = "prepared"
    BY <1>0, <2>1 DEF ManagerOfStep, Registry!Prepared
  <2> HIDE DEF p
  <2>3. RegistryTypes' /\ \A x \in Refreshers : job'[x] = job[x]
    BY <1>3, <1>4, <2>1, <2>2, JobsTyped
  <2>4. job'[Reload].step = "idle" /\ \A k \in Managers \ {p} : manager'[k] = manager[k]
    BY <1>3, <2>1, <2>2, JobsTyped DEF Registry!NoJob
  <2>5. ManagerOfStep'
    BY <1>0, <1>3, <2>1, <2>2, <2>4 DEF ManagerOfStep
  <2>6. JobOwners'
    BY <1>0, <2>3, <2>4 DEF JobOwners
  <2>7. OwnerOfName'
    BY <1>0, <1>1, <1>3, <2>1, <2>2, <2>4 DEF OwnerOfName, ManagerOfStep
  <2>8. QED
    BY <1>2, <2>3, <2>5, <2>6, <2>7 DEF RegistryInv
<1>8. CASE Registry!SwapMCP
  <2> DEFINE p == Registry!Prepared
             c == Registry!Current
             entries == Registry!McpEntries(p, served[p])
             r == [step |-> "register", todo |-> entries, next |-> {e[1] : e \in entries}, drop |-> {}]
  <2>1. /\ job[Reload].step = "prepared"
        /\ manager' = [manager EXCEPT ![c] = "replaced", ![p] = "current"]
        /\ job' = [job EXCEPT ![Reload] = r] /\ UNCHANGED served
    BY <1>8 DEF Registry!SwapMCP
  <2>2. p \in Managers /\ manager[p] = "prepared"
    BY <1>0, <2>1 DEF ManagerOfStep, Registry!Prepared
  <2>3. c \in Managers /\ manager[c] = "current"
    BY <1>0 DEF ManagerOfStep, Registry!Current
  <2> HIDE DEF p, c
  <2>4. /\ entries \in SUBSET (Registry!Names \X Owners)
        /\ \A e \in entries : e[2] = Registry!OfManager(p)
    BY <1>3, <2>2, EntriesTyped
  <2> HIDE DEF entries
  <2>5. r \in JobRecords
    BY <2>4 DEF JobRecords
  <2>6. /\ r.step = "register" /\ r.todo = entries /\ r.drop = {}
        /\ r.next = {e[1] : e \in entries}
    OBVIOUS
  <2> HIDE DEF r
  <2>7. /\ job'[Reload] = r
        /\ manager'[p] = "current" /\ manager'[c] = "replaced"
        /\ \A k \in Managers \ {p, c} : manager'[k] = manager[k]
    BY <1>3, <2>1, <2>2, <2>3, JobsTyped
  <2>8. RegistryTypes' /\ \A x \in Refreshers : job'[x] = job[x]
    BY <1>3, <1>4, <2>1, <2>5
  <2>9. ManagerOfStep'
    <3>1. \A k \in Managers : (manager[k] = "prepared" => k = p) /\ (manager[k] = "current" => k = c)
      BY <1>0, <2>2, <2>3 DEF ManagerOfStep
    <3>2. \A k \in Managers : (manager'[k] = "current" <=> k = p) /\ manager'[k] # "prepared"
      BY <2>2, <2>3, <2>7, <3>1
    <3>3. QED
      BY <2>2, <2>6, <2>7, <3>2 DEF ManagerOfStep
  <2>10. JobOwners'
    <3>1. \A x \in Refreshers, m \in Managers : \A e \in job'[x].todo : e[2] # Registry!OfManager(m)
      BY <1>0, <2>8 DEF JobOwners
    <3>2. \A e \in r.todo, m \in Managers :
            e[2] = Registry!OfManager(m) => manager'[m] = "current" /\ e[1] \in r.next
      BY <2>4, <2>6, <2>7, OwnersApart
    <3>3. QED
      BY <2>7, <3>1, <3>2 DEF JobOwners
  <2>11. OwnerOfName'
    <3>1. ASSUME NEW n \in Registry!Names, NEW m \in Managers, tools[n] = Registry!OfManager(m)
          PROVE  m = c /\ n \in installed.mcp
      <4>1. manager[m] \in {"current", "replaced"} /\ manager[m] # "replaced"
        BY <1>0, <2>1, <3>1 DEF OwnerOfName, ManagerOfStep
      <4>2. QED
        BY <1>0, <2>1, <2>3, <3>1, <4>1 DEF OwnerOfName, ManagerOfStep
    <3>2. \A n \in r.next : \E e \in r.todo : e[1] = n
      BY <2>6
    <3>3. QED
      BY <1>1, <2>6, <2>7, <3>1, <3>2 DEF OwnerOfName
  <2>12. QED
    BY <1>2, <2>8, <2>9, <2>10, <2>11 DEF RegistryInv
<1>9. QED
  BY <1>5, <1>6, <1>7, <1>8

\* The tools are written, and their names kept, one write at a time.
LEMMA InstallSteps ==
  ASSUME RegistryInv, NEW x \in Registry!Jobs, Registry!Install(x)
  PROVE  RegistryInv'
<1>0. RegistryTypes /\ ManagerOfStep /\ JobOwners /\ OwnerOfName /\ RunsOwner
  BY DEF RegistryInv
<1>1. UNCHANGED <<offered, served, call>>
  BY DEF Registry!Install, Registry!Lock, Registry!Register, Registry!SwapNames,
         Registry!Unregister, Registry!Installed
<1>2. /\ tools \in [Registry!Names -> Owners] /\ job \in [Registry!Jobs -> JobRecords]
      /\ installed \in [plugin : SUBSET Registry!Names, mcp : SUBSET Registry!Names]
      /\ manager \in [Managers -> {"new", "prepared", "current", "replaced", "closing", "closed"}]
      /\ Reload \in Registry!Jobs /\ Refreshers \subseteq Registry!Jobs /\ Reload \notin Refreshers
      /\ x # Reload => x \in Refreshers
  BY <1>0, JobsTyped DEF RegistryTypes
<1>3. job[x] \in JobRecords
  BY <1>2
<1>4. CASE Registry!Lock(x)
  <2>1. UNCHANGED <<tools, installed, job, manager>>
    BY <1>4 DEF Registry!Lock
  <2>2. RegistryTypes' /\ ManagerOfStep' /\ RunsOwner'
    BY <1>0, <1>1, <2>1 DEF RegistryTypes, ManagerOfStep, RunsOwner
  <2>3. JobOwners' /\ OwnerOfName'
    BY <1>0, <2>1 DEF JobOwners, OwnerOfName
  <2>4. QED
    BY <2>2, <2>3 DEF RegistryInv
\* A write changes one name and one job, which stays in its step.
<1>5. ASSUME NEW n \in Registry!Names, NEW o \in Owners, NEW r \in JobRecords,
             tools' = [tools EXCEPT ![n] = o], job' = [job EXCEPT ![x] = r],
             UNCHANGED <<installed, manager>>, Registry!Readers = {},
             r.step = job[x].step, r.todo \subseteq job[x].todo, r.next = job[x].next
      PROVE  /\ RegistryTypes' /\ ManagerOfStep' /\ JobOwners' /\ RunsOwner'
             /\ tools'[n] = o /\ \A l \in Registry!Names \ {n} : tools'[l] = tools[l]
             /\ job'[x] = r /\ \A y \in Registry!Jobs \ {x} : job'[y] = job[y]
  <2>1. /\ tools' \in [Registry!Names -> Owners] /\ job' \in [Registry!Jobs -> JobRecords]
        /\ tools'[n] = o /\ \A l \in Registry!Names \ {n} : tools'[l] = tools[l]
        /\ job'[x] = r /\ \A y \in Registry!Jobs \ {x} : job'[y] = job[y]
    BY <1>2, <1>5
  <2>2. \A y \in Registry!Jobs : /\ job'[y].step = job[y].step /\ job'[y].todo \subseteq job[y].todo
                                 /\ job'[y].next = job[y].next
    BY <1>5, <2>1
  <2>3. RegistryTypes'
    BY <1>0, <1>1, <1>5, <2>1 DEF RegistryTypes, JobRecords
  <2>4. ManagerOfStep'
    BY <1>0, <1>2, <1>5, <2>2 DEF ManagerOfStep
  <2>5. JobOwners'
    BY <1>0, <1>2, <1>5, <2>2 DEF JobOwners
  <2>6. RunsOwner'
    BY <1>0, <1>1, <1>5 DEF RunsOwner, Registry!Readers
  <2>7. QED
    BY <2>1, <2>3, <2>4, <2>5, <2>6
<1>6. CASE Registry!Register(x)
  <2>1. PICK e \in job[x].todo : /\ tools' = [tools EXCEPT ![e[1]] = e[2]]
                                 /\ job' = [job EXCEPT ![x].todo = @ \ {e}]
    BY <1>6 DEF Registry!Register
  <2>2. /\ UNCHANGED <<installed, manager>> /\ Registry!Readers = {} /\ job[x].step = "register"
    BY <1>6 DEF Registry!Register
  <2> DEFINE r == [job[x] EXCEPT !.todo = @ \ {e}]
  <2>3. /\ job' = [job EXCEPT ![x] = r] /\ r \in JobRecords
        /\ r.step = job[x].step /\ r.todo = job[x].todo \ {e} /\ r.next = job[x].next
        /\ r.drop = job[x].drop
    BY <1>2, <1>3, <2>1 DEF JobRecords
  <2> HIDE DEF r
  <2>4. e[1] \in Registry!Names /\ e[2] \in Owners
    BY <1>3, <2>1 DEF JobRecords
  <2>5. /\ RegistryTypes' /\ ManagerOfStep' /\ JobOwners' /\ RunsOwner'
        /\ tools'[e[1]] = e[2] /\ \A l \in Registry!Names \ {e[1]} : tools'[l] = tools[l]
        /\ job'[x] = r /\ \A y \in Registry!Jobs \ {x} : job'[y] = job[y]
    BY <1>5, <2>1, <2>2, <2>3, <2>4
  <2>6. OwnerOfName'
    <3>1. CASE x = Reload
      <4>1. \A m \in Managers : e[2] = Registry!OfManager(m) =>
              manager[m] = "current" /\ e[1] \in job[Reload].next
        BY <1>0, <2>1, <2>2, <3>1 DEF JobOwners
      <4>2. QED
        BY <1>0, <2>2, <2>3, <2>5, <3>1, <4>1 DEF OwnerOfName
    <3>2. CASE x \in Refreshers
      <4>1. \A m \in Managers : e[2] # Registry!OfManager(m)
        BY <1>0, <2>1, <3>2 DEF JobOwners
      <4>2. job'[Reload] = job[Reload]
        BY <1>2, <2>5, <3>2
      <4>3. QED
        BY <1>0, <2>2, <2>5, <4>1, <4>2 DEF OwnerOfName
    <3>3. QED
      BY <1>2, <3>1, <3>2
  <2>7. QED
    BY <2>5, <2>6 DEF RegistryInv
<1>7. CASE Registry!Unregister(x)
  <2>1. PICK n \in job[x].drop : /\ tools' = [tools EXCEPT ![n] = Registry!Free]
                                 /\ job' = [job EXCEPT ![x].drop = @ \ {n}]
    BY <1>7 DEF Registry!Unregister
  <2>2. /\ UNCHANGED <<installed, manager>> /\ Registry!Readers = {} /\ job[x].step = "unregister"
    BY <1>7 DEF Registry!Unregister
  <2> DEFINE r == [job[x] EXCEPT !.drop = @ \ {n}]
  <2>3. /\ job' = [job EXCEPT ![x] = r] /\ r \in JobRecords
        /\ r.step = job[x].step /\ r.todo = job[x].todo /\ r.next = job[x].next
        /\ r.drop = job[x].drop \ {n}
    BY <1>2, <1>3, <2>1 DEF JobRecords
  <2> HIDE DEF r
  <2>4. n \in Registry!Names /\ Registry!Free \in Owners
    BY <1>3, <2>1, OwnersApart DEF JobRecords
  <2>5. /\ RegistryTypes' /\ ManagerOfStep' /\ JobOwners' /\ RunsOwner'
        /\ tools'[n] = Registry!Free /\ \A l \in Registry!Names \ {n} : tools'[l] = tools[l]
        /\ job'[x] = r /\ \A y \in Registry!Jobs \ {x} : job'[y] = job[y]
    BY <1>5, <2>1, <2>2, <2>3, <2>4
  <2>6. OwnerOfName'
    <3>1. \A m \in Managers : Registry!Free # Registry!OfManager(m)
      BY OwnersApart
    <3>2. CASE x = Reload
      BY <1>0, <2>2, <2>3, <2>5, <3>1, <3>2 DEF OwnerOfName
    <3>3. CASE x \in Refreshers
      <4>1. job'[Reload] = job[Reload]
        BY <1>2, <2>5, <3>3
      <4>2. QED
        BY <1>0, <2>2, <2>5, <3>1, <4>1 DEF OwnerOfName
    <3>4. QED
      BY <1>2, <3>2, <3>3
  <2>7. QED
    BY <2>5, <2>6 DEF RegistryInv
<1>8. CASE Registry!SwapNames(x)
  <2> DEFINE r == [job[x] EXCEPT !.step = "unregister",
                                 !.drop = installed[Registry!Kind(x)] \ job[x].next]
  <2>1. /\ job[x].step = "register" /\ job[x].todo = {} /\ UNCHANGED <<tools, manager>>
        /\ installed' = [installed EXCEPT ![Registry!Kind(x)] = job[x].next]
    BY <1>8 DEF Registry!SwapNames
  <2>2. job' = [job EXCEPT ![x] = r]
    BY <1>2, <1>8 DEF Registry!SwapNames
  <2>3. /\ r.step = "unregister" /\ r.todo = {} /\ r.next = job[x].next
        /\ r.drop = installed[Registry!Kind(x)] \ job[x].next /\ r \in JobRecords
    BY <1>2, <1>3, <2>1 DEF JobRecords, Registry!Kind
  <2> HIDE DEF r
  <2>4. /\ job' \in [Registry!Jobs -> JobRecords] /\ job'[x] = r
        /\ \A y \in Registry!Jobs \ {x} : job'[y] = job[y]
    BY <1>2, <2>2, <2>3
  <2>5. /\ installed' \in [plugin : SUBSET Registry!Names, mcp : SUBSET Registry!Names]
        /\ x # Reload => installed'.mcp = installed.mcp
        /\ x = Reload => installed'.mcp = job[x].next
    BY <1>2, <1>3, <2>1 DEF Registry!Kind, JobRecords
  <2>6. RegistryTypes' /\ RunsOwner'
    BY <1>0, <1>1, <2>1, <2>4, <2>5 DEF RegistryTypes, JobRecords, RunsOwner
  <2>7. ManagerOfStep' /\ JobOwners'
    BY <1>0, <1>2, <2>1, <2>3, <2>4 DEF ManagerOfStep, JobOwners
  <2>8. OwnerOfName'
    <3>1. CASE x = Reload
      <4>1. r.drop = installed.mcp \ job[x].next
        BY <2>3, <3>1 DEF Registry!Kind
      <4>2. QED
        BY <1>0, <2>1, <2>3, <2>4, <2>5, <3>1, <4>1 DEF OwnerOfName
    <3>2. CASE x \in Refreshers
      <4>1. job'[Reload] = job[Reload] /\ installed'.mcp = installed.mcp
        BY <1>2, <2>4, <2>5, <3>2
      <4>2. QED
        BY <1>0, <2>1, <4>1 DEF OwnerOfName
    <3>3. QED
      BY <1>2, <3>1, <3>2
  <2>9. QED
    BY <2>6, <2>7, <2>8 DEF RegistryInv
<1>9. CASE Registry!Installed(x)
  <2>1. /\ job[x].step = "unregister" /\ job[x].drop = {} /\ UNCHANGED <<tools, installed>>
        /\ job' = [job EXCEPT ![x] = Registry!NoJob]
        /\ manager' = [m \in Managers |->
             IF x = Reload /\ manager[m] = "replaced" THEN "closing" ELSE manager[m]]
    BY <1>9 DEF Registry!Installed
  <2>2. /\ job' \in [Registry!Jobs -> JobRecords] /\ job'[x] = Registry!NoJob
        /\ \A y \in Registry!Jobs \ {x} : job'[y] = job[y]
    BY <1>2, <2>1, JobsTyped
  <2>3. Registry!NoJob.step = "idle" /\ Registry!NoJob.todo = {}
    BY DEF Registry!NoJob
  <2>4. manager' \in [Managers -> {"new", "prepared", "current", "replaced", "closing", "closed"}]
    BY <1>2, <2>1
  <2>5. RegistryTypes' /\ RunsOwner'
    BY <1>0, <1>1, <2>1, <2>2, <2>4 DEF RegistryTypes, JobRecords, RunsOwner
  <2>6. CASE x = Reload
    <3>1. ManagerOfStep' /\ JobOwners'
      BY <1>0, <1>2, <2>1, <2>2, <2>3, <2>6 DEF ManagerOfStep, JobOwners
    <3>2. OwnerOfName'
      BY <1>0, <2>1, <2>2, <2>3, <2>6 DEF OwnerOfName
    <3>3. QED
      BY <2>5, <3>1, <3>2 DEF RegistryInv
  <2>7. CASE x \in Refreshers
    <3>1. manager' = manager
      BY <1>2, <2>1, <2>7
    <3>2. ManagerOfStep' /\ JobOwners' /\ OwnerOfName'
      BY <1>0, <1>2, <2>1, <2>2, <2>3, <2>7, <3>1 DEF ManagerOfStep, JobOwners, OwnerOfName
    <3>3. QED
      BY <2>5, <3>2 DEF RegistryInv
  <2>8. QED
    BY <1>2, <2>6, <2>7
<1>10. QED
  BY <1>4, <1>6, <1>7, <1>8, <1>9 DEF Registry!Install

LEMMA RegistryStep == ASSUME RegistryInv, [ServicesNext]_servicesVars PROVE RegistryInv'
<1>1. CASE UNCHANGED registryVars
  <2>1. UNCHANGED <<tools, offered, installed, job, manager, served, call>>
    BY <1>1 DEF registryVars
  <2>2. RegistryTypes' /\ ManagerOfStep' /\ RunsOwner'
    BY <2>1 DEF RegistryInv, RegistryTypes, ManagerOfStep, RunsOwner
  <2>3. JobOwners' /\ OwnerOfName'
    BY <2>1 DEF RegistryInv, JobOwners, OwnerOfName
  <2>4. QED
    BY <2>2, <2>3 DEF RegistryInv
<1>2. CASE Registry!Next
  BY <1>2, ListSteps, ManagerSteps, InstallSteps, CallSteps DEF Registry!Next
<1>3. QED
  BY <1>1, <1>2 DEF ServicesNext, servicesVars

LEMMA RegistryInvariant == ServicesSpec => []RegistryInv
<1>1. RegistryInv /\ [ServicesNext]_servicesVars => RegistryInv'
  BY RegistryStep
<1>2. QED
  BY <1>1, RegistryInit, PTL DEF ServicesSpec

\* No call runs on an MCP manager whose replacement has been installed, and
\* none will (reload.go, registry.go).
THEOREM ReplacedManagersAreFree == ServicesSpec => []NoCallOnReplaced
<1>1. ASSUME RegistryInv PROVE NoCallOnReplaced
  <2>1. SUFFICES ASSUME NEW c \in ToolCallers, NEW m \in Managers,
                        call[c].owner = Registry!OfManager(m)
                 PROVE  manager[m] \in {"current", "replaced"}
    BY DEF NoCallOnReplaced, Registry!NoCallOnReplaced
  <2>2. call[c].name \in Registry!Names /\ tools[call[c].name] = Registry!OfManager(m)
    BY <1>1, <2>1, OwnersApart DEF RegistryInv, RunsOwner
  <2>3. QED
    BY <1>1, <2>2 DEF RegistryInv, OwnerOfName
<1>2. QED
  BY <1>1, RegistryInvariant, PTL

Kinds == {"plugin", "mcp"}

BuiltinNames == {Registry!Name(x) : x \in Builtins}

\* What the registry should have of a kind.
Entries(k) ==
  IF k = "plugin" THEN Registry!PluginEntries(offered)
  ELSE Registry!McpEntries(Registry!Current, served[Registry!Current])
NamesOf(E) == {e[1] : e \in E}

Installing(x) == job[x].step \in {"register", "unregister"}

\* Refreshes exclude each other, and there is one reload.
OneInstall ==
  \A x, y \in Registry!Jobs :
    Registry!Kind(x) = Registry!Kind(y) /\ Installing(x) /\ Installing(y) => x = y

\* An install registers tools of its kind only; a Discord tool is not
\* registered again.
OwnKind ==
  /\ \A n \in BuiltinNames : tools[n] = Registry!Builtin \/ <<n, "builtin">> \in lost
  /\ \A n \in Registry!Names : tools[n] = Registry!Builtin => n \in BuiltinNames
  /\ \A x \in Registry!Jobs :
       /\ NamesOf(job[x].todo) \subseteq job[x].next
       /\ \A e \in job[x].todo : Registry!KindOf(e[2]) = Registry!Kind(x)

\* A name that a kind has is known as installed, is being installed or is due
\* to go.
Tracked ==
  \A k \in Kinds : \A n \in Registry!Names : Registry!KindOf(tools[n]) = k =>
    \/ n \in installed[k]
    \/ \E x \in Registry!Jobs :
         /\ Registry!Kind(x) = k
         /\ \/ job[x].step = "register" /\ n \in job[x].next
            \/ job[x].step = "unregister" /\ n \in job[x].drop

\* Every change of what is offered was listed by somebody.
Listed(k) == k = "plugin" => unlisted = {} /\ \A x \in Refreshers : job[x].step # "wait"

\* A tool has its name, or its kind has lost it to another.
InTools(E, k) ==
  \A e \in E : \/ tools[e[1]] = e[2]
               \/ <<e[1], k>> \in lost /\ Registry!KindOf(tools[e[1]]) # k

\* An install under way does what is missing, and without one nothing is.
AsOffered(k) ==
  Listed(k) =>
    /\ \A x \in Registry!Jobs : Registry!Kind(x) = k /\ job[x].step = "register" =>
         /\ job[x].todo \subseteq Entries(k) /\ job[x].next = NamesOf(Entries(k))
         /\ InTools(Entries(k) \ job[x].todo, k)
    /\ \A x \in Registry!Jobs : Registry!Kind(x) = k /\ job[x].step = "unregister" =>
         job[x].drop \cap NamesOf(Entries(k)) = {}
    /\ (\A x \in Registry!Jobs : Registry!Kind(x) = k => job[x].step # "register") =>
         installed[k] = NamesOf(Entries(k)) /\ InTools(Entries(k), k)

ExactInv == OneInstall /\ OwnKind /\ Tracked /\ \A k \in Kinds : AsOffered(k)

\* An owner's kind.
LEMMA KindsOfOwners ==
  /\ Registry!KindOf(Registry!Free) = "free"
  /\ Registry!KindOf(Registry!Builtin) = "builtin"
  /\ \A p, b : Registry!KindOf(Registry!OfPlugin(p, b)) = "plugin"
  /\ \A m : Registry!KindOf(Registry!OfManager(m)) = "mcp"
  /\ \A o \in Owners : /\ Registry!KindOf(o) = "free" => o = Registry!Free
                       /\ Registry!KindOf(o) = "builtin" => o = Registry!Builtin
                       /\ Registry!KindOf(o) \in Kinds \cup {"free", "builtin"}
<1> USE DEF Registry!KindOf, Registry!Free, Registry!Builtin, Registry!OfPlugin, Registry!OfManager
<1>1. /\ Registry!KindOf(Registry!Free) = "free"
      /\ Registry!KindOf(Registry!Builtin) = "builtin"
      /\ \A p, b : Registry!KindOf(Registry!OfPlugin(p, b)) = "plugin"
      /\ \A m : Registry!KindOf(Registry!OfManager(m)) = "mcp"
  OBVIOUS
<1>2. \A o \in Owners : /\ Registry!KindOf(o) = "free" => o = Registry!Free
                        /\ Registry!KindOf(o) = "builtin" => o = Registry!Builtin
                        /\ Registry!KindOf(o) \in Kinds \cup {"free", "builtin"}
  BY DEF Owners, Kinds
<1>3. QED
  BY <1>1, <1>2

\* FiniteSets is the same module under either name.
LEMMA SameSize == \A S : Registry!Cardinality(S) = Cardinality(S)
  BY Zenon DEF Registry!Cardinality, Cardinality

\* No two entries have one name: two plugins with a tool of one name have it
\* under their own.
LEMMA EntriesOfOneName ==
  /\ \A list \in [Plugins -> SUBSET Bases] : \A e, f \in Registry!PluginEntries(list) :
       e[1] = f[1] => e = f
  /\ \A m \in Managers, S \in SUBSET McpTools : \A e, f \in Registry!McpEntries(m, S) :
       e[1] = f[1] => e = f
<1>1. ASSUME NEW list \in [Plugins -> SUBSET Bases], NEW e \in Registry!PluginEntries(list),
             NEW f \in Registry!PluginEntries(list), e[1] = f[1]
      PROVE  e = f
  <2>1. PICK p \in Plugins, b \in Bases :
          e = <<Registry!FullName(list, p, b), Registry!OfPlugin(p, b)>> /\ b \in list[p]
    BY DEF Registry!PluginEntries
  <2>2. PICK q \in Plugins, c \in Bases :
          f = <<Registry!FullName(list, q, c), Registry!OfPlugin(q, c)>> /\ c \in list[q]
    BY DEF Registry!PluginEntries
  <2>3. Registry!FullName(list, p, b) = Registry!FullName(list, q, c)
    BY <1>1, <2>1, <2>2
  <2>4. b = c
    BY <2>3 DEF Registry!FullName, Registry!Name, Registry!Scoped
  <2>5. ASSUME p # q PROVE Cardinality({l \in Plugins : b \in list[l]}) > 1
    <3> DEFINE S == {l \in Plugins : b \in list[l]}
    <3>1. IsFiniteSet(S) /\ {p, q} \subseteq S
      <4>1. IsFiniteSet(Plugins)
        BY ServicesAssumption DEF ServicesAssumption, Registry!RegistryAssumption,
             Registry!IsFiniteSet, IsFiniteSet
      <4>2. S \subseteq Plugins
        OBVIOUS
      <4>3. QED
        BY <2>1, <2>2, <2>4, <4>1, <4>2, FS_Subset
    <3>2. Cardinality({p, q}) = 2
      <4>1. {p} \cup {q} = {p, q} /\ q \notin {p}
        BY <2>5
      <4>2. IsFiniteSet({p}) /\ Cardinality({p}) = 1
        BY FS_Singleton
      <4>3. Cardinality({p} \cup {q}) = 1 + 1
        BY <4>1, <4>2, FS_AddElement
      <4>4. QED
        BY <4>1, <4>3
    <3>3. Cardinality({p, q}) <= Cardinality(S) /\ Cardinality(S) \in Nat
      BY <3>1, FS_Subset, FS_CardinalityType
    <3> HIDE DEF S
    <3>4. Cardinality(S) > 1
      BY <3>2, <3>3
    <3>5. QED
      BY <3>4 DEF S
  <2>6. p = q
    <3>1. SUFFICES ASSUME p # q PROVE FALSE
      OBVIOUS
    <3>2. /\ Registry!FullName(list, p, b) = Registry!Scoped(p, b)
          /\ Registry!FullName(list, q, b) = Registry!Scoped(q, b)
      BY <2>5, <3>1, SameSize DEF Registry!FullName
    <3>3. QED
      BY <2>3, <2>4, <3>1, <3>2 DEF Registry!Scoped
  <2>7. QED
    BY <2>1, <2>2, <2>4, <2>6
<1>2. ASSUME NEW m \in Managers, NEW S \in SUBSET McpTools, NEW e \in Registry!McpEntries(m, S),
             NEW f \in Registry!McpEntries(m, S), e[1] = f[1]
      PROVE  e = f
  <2>1. PICK t \in S : e = <<Registry!Name(t), Registry!OfManager(m)>>
    BY DEF Registry!McpEntries
  <2>2. PICK u \in S : f = <<Registry!Name(u), Registry!OfManager(m)>>
    BY DEF Registry!McpEntries
  <2>3. t = u
    BY <1>2, <2>1, <2>2 DEF Registry!Name
  <2>4. QED
    BY <2>1, <2>2, <2>3
<1>3. QED
  BY <1>1, <1>2

\* What should be there is of the kind, one owner for each name.
LEMMA EntriesFacts ==
  ASSUME RegistryInv
  PROVE  /\ Registry!Current \in Managers /\ manager[Registry!Current] = "current"
         /\ \A k \in Kinds :
              /\ \A e \in Entries(k) :
                   /\ e = <<e[1], e[2]>> /\ e[1] \in Registry!Names /\ e[2] \in Owners
                   /\ Registry!KindOf(e[2]) = k
              /\ \A e, f \in Entries(k) : e[1] = f[1] => e = f
<1>1. Registry!Current \in Managers /\ manager[Registry!Current] = "current"
  BY DEF RegistryInv, ManagerOfStep, Registry!Current
<1>2. /\ offered \in [Plugins -> SUBSET Bases] /\ served[Registry!Current] \in SUBSET McpTools
  BY <1>1 DEF RegistryInv, RegistryTypes
<1>3. ASSUME NEW e \in Entries("plugin")
      PROVE  /\ e = <<e[1], e[2]>> /\ e[1] \in Registry!Names /\ e[2] \in Owners
             /\ Registry!KindOf(e[2]) = "plugin"
  <2>1. PICK p \in Plugins, b \in Bases :
          e = <<Registry!FullName(offered, p, b), Registry!OfPlugin(p, b)>>
    BY DEF Entries, Registry!PluginEntries
  <2>2. Registry!FullName(offered, p, b) \in Registry!Names
    BY DEF Registry!FullName, Registry!Names
  <2>3. Registry!OfPlugin(p, b) \in Owners /\ Registry!KindOf(Registry!OfPlugin(p, b)) = "plugin"
    BY KindsOfOwners DEF Owners
  <2>4. QED
    BY <2>1, <2>2, <2>3
<1>4. ASSUME NEW e \in Entries("mcp")
      PROVE  /\ e = <<e[1], e[2]>> /\ e[1] \in Registry!Names /\ e[2] \in Owners
             /\ Registry!KindOf(e[2]) = "mcp"
  <2>1. PICK t \in served[Registry!Current] : e = <<Registry!Name(t), Registry!OfManager(Registry!Current)>>
    BY DEF Entries, Registry!McpEntries
  <2>2. Registry!Name(t) \in Registry!Names
    BY <1>2 DEF Registry!Names
  <2>3. /\ Registry!OfManager(Registry!Current) \in Owners
        /\ Registry!KindOf(Registry!OfManager(Registry!Current)) = "mcp"
    BY <1>1, KindsOfOwners DEF Owners
  <2>4. QED
    BY <2>1, <2>2, <2>3
<1>5. \A e, f \in Entries("plugin") : e[1] = f[1] => e = f
  BY <1>2, EntriesOfOneName DEF Entries
<1>6. \A e, f \in Entries("mcp") : e[1] = f[1] => e = f
  BY <1>1, <1>2, EntriesOfOneName DEF Entries
<1>7. QED
  BY <1>1, <1>3, <1>4, <1>5, <1>6 DEF Kinds

LEMMA ExactInit == ASSUME ServicesInit PROVE ExactInv
<1>1. Registry!Init /\ RegistryInv
  BY RegistryInit DEF ServicesInit
<1>2. PICK m \in Managers, S \in SUBSET McpTools :
        /\ manager = [k \in Managers |-> IF k = m THEN "current" ELSE "new"]
        /\ served = [k \in Managers |-> IF k = m THEN S ELSE {}]
        /\ installed = [plugin |-> {}, mcp |-> {Registry!Name(t) : t \in S}]
        /\ tools = [n \in Registry!Names |->
                      IF n \in {Registry!Name(t) : t \in S} THEN Registry!OfManager(m)
                      ELSE IF n \in {Registry!Name(x) : x \in Builtins} THEN Registry!Builtin
                      ELSE Registry!Free]
        /\ lost = {<<Registry!Name(x), "builtin">> : x \in Builtins \cap S}
  BY <1>1 DEF Registry!Init
<1>3. offered = [p \in Plugins |-> {}] /\ job = [x \in Registry!Jobs |-> Registry!NoJob]
  BY <1>1 DEF Registry!Init
<1>4. \A x \in Registry!Jobs : job[x].step = "idle" /\ job[x].todo = {} /\ job[x].next = {} /\ job[x].drop = {}
  BY <1>3 DEF Registry!NoJob
<1>5. OneInstall
  BY <1>4 DEF OneInstall, Installing
<1> DEFINE Of(n) == IF n \in {Registry!Name(t) : t \in S} THEN Registry!OfManager(m)
                    ELSE IF n \in BuiltinNames THEN Registry!Builtin ELSE Registry!Free
<1>11. \A n \in Registry!Names : tools[n] = Of(n)
  BY <1>2 DEF BuiltinNames
<1>6. OwnKind
  <2>1. ASSUME NEW n \in BuiltinNames PROVE tools[n] = Registry!Builtin \/ <<n, "builtin">> \in lost
    <3>1. PICK x \in Builtins : n = Registry!Name(x)
      BY <2>1 DEF BuiltinNames
    <3>2. n \in Registry!Names
      BY <3>1 DEF Registry!Names
    <3>3. CASE x \in S
      BY <1>2, <3>1, <3>3
    <3>4. CASE x \notin S
      <4>1. n \notin {Registry!Name(t) : t \in S}
        BY <3>1, <3>4 DEF Registry!Name
      <4>2. QED
        BY <1>11, <2>1, <3>2, <4>1
    <3>5. QED
      BY <3>3, <3>4
  <2>2. \A n \in Registry!Names : tools[n] = Registry!Builtin => n \in BuiltinNames
    <3>1. Registry!Free # Registry!Builtin /\ Registry!OfManager(m) # Registry!Builtin
      BY OwnersApart DEF Registry!Free, Registry!Builtin
    <3>2. QED
      BY <1>11, <3>1
  <2>3. \A x \in Registry!Jobs : NamesOf(job[x].todo) = {}
    BY <1>4 DEF NamesOf
  <2>4. QED
    BY <1>4, <2>1, <2>2, <2>3 DEF OwnKind
<1>7. Tracked
  <2>1. SUFFICES ASSUME NEW k \in Kinds, NEW n \in Registry!Names, Registry!KindOf(tools[n]) = k
                 PROVE  n \in installed[k]
    BY DEF Tracked
  <2>2. n \in {Registry!Name(t) : t \in S}
    <3>1. SUFFICES ASSUME n \notin {Registry!Name(t) : t \in S} PROVE FALSE
      OBVIOUS
    <3>2. tools[n] \in {Registry!Builtin, Registry!Free}
      BY <1>11, <2>1, <3>1
    <3>3. QED
      BY <2>1, <3>2, KindsOfOwners DEF Kinds
  <2>3. k = "mcp"
    BY <1>11, <2>1, <2>2, KindsOfOwners
  <2>4. QED
    BY <1>2, <2>2, <2>3
<1>8. AsOffered("plugin")
  <2>1. Entries("plugin") = {}
    BY <1>3 DEF Entries, Registry!PluginEntries
  <2>2. QED
    BY <1>2, <1>4, <2>1 DEF AsOffered, InTools, NamesOf
<1>9. AsOffered("mcp")
  <2>1. Registry!Current = m
    BY <1>1, <1>2, EntriesFacts
  <2>2. Entries("mcp") = Registry!McpEntries(m, S)
    BY <1>2, <2>1 DEF Entries
  <2>3. NamesOf(Entries("mcp")) = {Registry!Name(t) : t \in S}
    <3>1. ASSUME NEW e \in Entries("mcp") PROVE \E t \in S : e[1] = Registry!Name(t)
      BY <2>2 DEF Registry!McpEntries
    <3>2. ASSUME NEW t \in S PROVE \E e \in Entries("mcp") : e[1] = Registry!Name(t)
      <4>1. <<Registry!Name(t), Registry!OfManager(m)>> \in Entries("mcp")
        BY <2>2 DEF Registry!McpEntries
      <4>2. QED
        BY <4>1
    <3>3. QED
      BY <3>1, <3>2 DEF NamesOf
  <2>4. ASSUME NEW e \in Entries("mcp") PROVE tools[e[1]] = e[2]
    <3>1. PICK t \in S : e = <<Registry!Name(t), Registry!OfManager(m)>>
      BY <2>2 DEF Registry!McpEntries
    <3>2. Registry!Name(t) \in Registry!Names
      BY <1>1, <2>4, <3>1, EntriesFacts DEF Kinds
    <3>3. QED
      BY <1>11, <3>1, <3>2
  <2>5. QED
    BY <1>2, <1>4, <2>3, <2>4 DEF AsOffered, InTools
<1>10. QED
  BY <1>5, <1>6, <1>7, <1>8, <1>9 DEF ExactInv, Kinds

\* A job that begins, waits or gives up writes nothing yet.
LEMMA JobBegins ==
  ASSUME RegistryInv, ExactInv, UNCHANGED <<tools, lost, installed>>,
         NEW x \in Registry!Jobs, NEW r \in JobRecords, job' = [job EXCEPT ![x] = r],
         ~ Installing(x), r.step # "unregister",
         NamesOf(r.todo) \subseteq r.next,
         \A e \in r.todo : Registry!KindOf(e[2]) = Registry!Kind(x),
         r.step = "register" =>
           \A y \in Registry!Jobs : Registry!Kind(y) = Registry!Kind(x) => ~ Installing(y)
  PROVE  OneInstall' /\ OwnKind' /\ Tracked'
<1>1. /\ job' \in [Registry!Jobs -> JobRecords] /\ job'[x] = r
      /\ \A y \in Registry!Jobs \ {x} : job'[y] = job[y]
  BY JobsTyped
<1>2. OneInstall'
  BY <1>1 DEF ExactInv, OneInstall, Installing
<1>3. OwnKind'
  BY <1>1 DEF ExactInv, OwnKind
<1>4. Tracked'
  <2>1. SUFFICES ASSUME NEW k \in Kinds, NEW n \in Registry!Names, Registry!KindOf(tools[n]) = k,
                        n \notin installed[k]
                 PROVE  \E y \in Registry!Jobs :
                          /\ Registry!Kind(y) = k
                          /\ \/ job'[y].step = "register" /\ n \in job'[y].next
                             \/ job'[y].step = "unregister" /\ n \in job'[y].drop
    BY DEF Tracked
  <2>2. PICK y \in Registry!Jobs :
          /\ Registry!Kind(y) = k
          /\ \/ job[y].step = "register" /\ n \in job[y].next
             \/ job[y].step = "unregister" /\ n \in job[y].drop
    BY <2>1 DEF ExactInv, Tracked
  <2>3. job'[y] = job[y]
    BY <1>1, <2>2 DEF Installing
  <2>4. QED
    BY <2>2, <2>3
<1>5. QED
  BY <1>2, <1>3, <1>4

\* What is offered of a kind, and installed, stays as it was when no step of a
\* job of that kind was taken; what another kind takes from it is lost.
LEMMA KindUntouched ==
  ASSUME NEW k \in Kinds, RegistryInv, AsOffered(k), Listed(k)' => Listed(k),
         Entries(k)' = Entries(k), installed'[k] = installed[k],
         \A n \in Registry!Names :
           /\ <<n, k>> \in lost => <<n, k>> \in lost'
           /\ \/ tools'[n] = tools[n]
              \/ /\ Registry!KindOf(tools'[n]) # k
                 /\ Registry!KindOf(tools[n]) = k => <<n, k>> \in lost',
         \A x \in Registry!Jobs : Registry!Kind(x) = k =>
           \/ job'[x] = job[x]
           \/ {job[x].step, job'[x].step} \cap {"register", "unregister"} = {}
  PROVE  AsOffered(k)'
<1>1. SUFFICES ASSUME Listed(k)' PROVE AsOffered(k)'
  BY DEF AsOffered
<1>2. /\ \A x \in Registry!Jobs : Registry!Kind(x) = k /\ job[x].step = "register" =>
           /\ job[x].todo \subseteq Entries(k) /\ job[x].next = NamesOf(Entries(k))
           /\ InTools(Entries(k) \ job[x].todo, k)
      /\ \A x \in Registry!Jobs : Registry!Kind(x) = k /\ job[x].step = "unregister" =>
           job[x].drop \cap NamesOf(Entries(k)) = {}
      /\ (\A x \in Registry!Jobs : Registry!Kind(x) = k => job[x].step # "register") =>
           installed[k] = NamesOf(Entries(k)) /\ InTools(Entries(k), k)
  BY <1>1 DEF AsOffered
<1>3. \A x \in Registry!Jobs : Registry!Kind(x) = k =>
        \/ job'[x] = job[x]
        \/ job[x].step \notin {"register", "unregister"} /\ job'[x].step \notin {"register", "unregister"}
  OBVIOUS
<1> DEFINE F == Entries(k)
           Has(e)  == tools[e[1]] = e[2] \/ (<<e[1], k>> \in lost /\ Registry!KindOf(tools[e[1]]) # k)
           Has1(e) == tools'[e[1]] = e[2] \/ (<<e[1], k>> \in lost' /\ Registry!KindOf(tools'[e[1]]) # k)
<1>10. \A S : InTools(S, k) => \A e \in S : Has(e)
  BY DEF InTools
<1>9. ASSUME NEW e \in F, Has(e) PROVE Has1(e)
  <2>1. e[1] \in Registry!Names /\ Registry!KindOf(e[2]) = k
    BY EntriesFacts
  <2>2. /\ <<e[1], k>> \in lost => <<e[1], k>> \in lost'
        /\ \/ tools'[e[1]] = tools[e[1]]
           \/ /\ Registry!KindOf(tools'[e[1]]) # k
              /\ Registry!KindOf(tools[e[1]]) = k => <<e[1], k>> \in lost'
    BY <2>1
  <2>3. QED
    BY <1>9, <2>1, <2>2
<1>4. Entries(k)' = F /\ NamesOf(Entries(k))' = NamesOf(F)
  BY DEF NamesOf
<1>5. ASSUME NEW x \in Registry!Jobs, Registry!Kind(x) = k, job'[x].step = "register"
      PROVE  /\ job'[x].todo \subseteq F /\ job'[x].next = NamesOf(F)
             /\ \A e \in F \ job'[x].todo : Has1(e)
  <2>1. job'[x] = job[x] /\ job[x].step = "register"
    BY <1>3, <1>5
  <2>2. InTools(F \ job[x].todo, k)
    BY <1>2, <1>5, <2>1
  <2>4. \A e \in F \ job[x].todo : Has(e)
    BY <1>10, <2>2
  <2> HIDE DEF Has, Has1
  <2>3. QED
    BY <1>2, <1>5, <1>9, <2>1, <2>4
<1>6. \A x \in Registry!Jobs : Registry!Kind(x) = k /\ job'[x].step = "unregister" =>
        job'[x].drop \cap NamesOf(F) = {}
  BY <1>2, <1>3
<1>7. (\A x \in Registry!Jobs : Registry!Kind(x) = k => job'[x].step # "register") =>
        installed'[k] = NamesOf(F) /\ \A e \in F : Has1(e)
  <2>1. SUFFICES ASSUME \A x \in Registry!Jobs : Registry!Kind(x) = k => job'[x].step # "register"
                 PROVE  installed'[k] = NamesOf(F) /\ \A e \in F : Has1(e)
    OBVIOUS
  <2>2. \A x \in Registry!Jobs : Registry!Kind(x) = k => job[x].step # "register"
    BY <1>3, <2>1
  <2>5. installed[k] = NamesOf(F) /\ InTools(F, k)
    BY <1>2, <2>2
  <2>3. installed[k] = NamesOf(F) /\ \A e \in F : Has(e)
    BY <1>10, <2>5
  <2> HIDE DEF Has, Has1
  <2>4. QED
    BY <1>9, <2>3
<1>8. QED
  BY <1>4, <1>5, <1>6, <1>7 DEF AsOffered, InTools

LEMMA KindOfJob ==
  ASSUME RegistryInv
  PROVE  /\ \A x \in Registry!Jobs : Registry!Kind(x) \in Kinds
         /\ \A x \in Refreshers : x \in Registry!Jobs /\ Registry!Kind(x) = "plugin"
         /\ Registry!Kind(Reload) = "mcp" /\ Reload \in Registry!Jobs
         /\ \A x \in Registry!Jobs : Registry!Kind(x) = "mcp" => x = Reload
         /\ \A x \in Registry!Jobs : Registry!Kind(x) = "plugin" => x \in Refreshers
BY JobsTyped DEF Registry!Kind, Kinds

\* While managers and lists stay, so does what should be there of the MCP tools.
LEMMA McpEntriesStay ==
  ASSUME UNCHANGED <<manager, served>>
  PROVE  Entries("mcp")' = Entries("mcp")
<1>1. Registry!Current' = Registry!Current
  BY DEF Registry!Current
<1>2. QED
  BY <1>1 DEF Entries

\* A change of what the plugins offer waits for its refresh, or is unlisted;
\* the refresh sets out to register what is offered.
LEMMA OfferKeeps ==
  ASSUME RegistryInv, ExactInv,
         \/ \E p \in Plugins, S \in SUBSET Bases : Registry!ChangeUnlisted(p, S)
         \/ \E x \in Refreshers :
              Registry!List(x) \/ \E p \in Plugins, S \in SUBSET Bases : Registry!ChangeTools(x, p, S)
  PROVE  ExactInv'
<1>0. OneInstall /\ OwnKind /\ Tracked /\ AsOffered("plugin") /\ AsOffered("mcp")
  BY DEF ExactInv, Kinds
<1>1. UNCHANGED <<tools, lost, installed, manager, served>>
  BY DEF Registry!ChangeUnlisted, Registry!List, Registry!ChangeTools
<1>2. ASSUME UNCHANGED job \/ \E x \in Refreshers, r \in JobRecords : job' = [job EXCEPT ![x] = r]
      PROVE  AsOffered("mcp")'
  <2>1. job'[Reload] = job[Reload]
    BY <1>2, JobsTyped
  <2>2. \A x \in Registry!Jobs : Registry!Kind(x) = "mcp" => job'[x] = job[x]
    BY <2>1, KindOfJob
  <2>3. Entries("mcp")' = Entries("mcp")
    BY <1>1, McpEntriesStay
  <2>4. Listed("mcp") /\ installed'["mcp"] = installed["mcp"] /\ "mcp" \in Kinds
    BY <1>1 DEF Listed, Kinds
  <2>5. QED
    BY <1>0, <1>1, <2>2, <2>3, <2>4, KindUntouched
<1>3. ASSUME NEW p \in Plugins, NEW S \in SUBSET Bases, Registry!ChangeUnlisted(p, S) PROVE ExactInv'
  <2>1. UNCHANGED job /\ unlisted' # {}
    BY <1>3 DEF Registry!ChangeUnlisted
  <2>2. OneInstall' /\ OwnKind' /\ Tracked'
    BY <1>0, <1>1, <2>1 DEF OneInstall, OwnKind, Tracked, Installing
  <2>3. AsOffered("plugin")'
    BY <2>1 DEF AsOffered, Listed
  <2>4. AsOffered("mcp")'
    BY <1>2, <2>1
  <2>5. QED
    BY <2>2, <2>3, <2>4 DEF ExactInv, Kinds
<1>4. ASSUME NEW x \in Refreshers, NEW p \in Plugins, NEW S \in SUBSET Bases,
             Registry!ChangeTools(x, p, S)
      PROVE  ExactInv'
  <2> DEFINE r == [job[x] EXCEPT !.step = "wait"]
  <2>1. job[x].step = "idle" /\ job' = [job EXCEPT ![x] = r]
    BY <1>4 DEF Registry!ChangeTools
  <2>2. x \in Registry!Jobs /\ job[x] \in JobRecords
    BY JobsTyped
  <2>3. /\ r \in JobRecords /\ r.step = "wait"
        /\ r.todo = job[x].todo /\ r.next = job[x].next /\ r.drop = job[x].drop
    BY <2>2 DEF JobRecords
  <2> HIDE DEF r
  <2>4. OneInstall' /\ OwnKind' /\ Tracked'
    <3>1. ~ Installing(x)
      BY <2>1 DEF Installing
    <3>2. /\ NamesOf(r.todo) \subseteq r.next
          /\ \A e \in r.todo : Registry!KindOf(e[2]) = Registry!Kind(x)
      BY <1>0, <2>2, <2>3 DEF OwnKind
    <3>3. r.step # "unregister" /\ r.step # "register"
      BY <2>3
    <3>4. QED
      BY <1>1, <2>1, <2>2, <2>3, <3>1, <3>2, <3>3, JobBegins
  <2>5. job'[x] = r
    BY <2>1, <2>2, JobsTyped
  <2>6. AsOffered("plugin")'
    BY <2>3, <2>5 DEF AsOffered, Listed
  <2>7. AsOffered("mcp")'
    BY <1>2, <2>1, <2>3
  <2>8. QED
    BY <2>4, <2>6, <2>7 DEF ExactInv, Kinds
<1>5. ASSUME NEW x \in Refreshers, Registry!List(x) PROVE ExactInv'
  <2> DEFINE E == Registry!PluginEntries(offered)
             r == [step |-> "register", todo |-> E, next |-> NamesOf(E), drop |-> {}]
  <2>1. /\ job[x].step = "wait" /\ \A y \in Refreshers : job[y].step \in {"idle", "wait"}
        /\ job' = [job EXCEPT ![x] = r] /\ UNCHANGED offered
    BY <1>5 DEF Registry!List, NamesOf
  <2>2. x \in Registry!Jobs /\ Registry!Kind(x) = "plugin"
    BY KindOfJob
  <2>3. /\ E = Entries("plugin") /\ Entries("plugin")' = E
        /\ E \in SUBSET (Registry!Names \X Owners)
        /\ \A e \in E : Registry!KindOf(e[2]) = "plugin"
    BY <2>1, EntriesTyped, EntriesFacts DEF Entries, Kinds, RegistryInv, RegistryTypes
  <2> HIDE DEF E
  <2>4. NamesOf(E) \subseteq Registry!Names
    BY <2>3 DEF NamesOf
  <2>5. r \in JobRecords /\ r.step = "register" /\ r.todo = E /\ r.next = NamesOf(E) /\ r.drop = {}
    BY <2>3, <2>4 DEF JobRecords
  <2> HIDE DEF r
  <2>6. OneInstall' /\ OwnKind' /\ Tracked'
    <3>1. \A y \in Registry!Jobs : Registry!Kind(y) = "plugin" => ~ Installing(y)
      BY <2>1, KindOfJob DEF Installing
    <3>2. QED
      BY <1>1, <2>1, <2>2, <2>3, <2>5, <3>1, JobBegins
  <2>7. job'[x] = r /\ \A y \in Registry!Jobs \ {x} : job'[y] = job[y]
    BY <2>1, <2>2, <2>5, JobsTyped
  <2>8. AsOffered("plugin")'
    <3>1. \A y \in Registry!Jobs : Registry!Kind(y) = "plugin" =>
            IF y = x THEN job'[y] = r ELSE job'[y].step \in {"idle", "wait"}
      BY <2>1, <2>7, KindOfJob
    <3>2. NamesOf(Entries("plugin"))' = NamesOf(E)
      BY <2>3 DEF NamesOf
    <3>3. \A y \in Registry!Jobs : Registry!Kind(y) = "plugin" /\ job'[y].step = "register" =>
            job'[y].todo = E /\ job'[y].next = NamesOf(E)
      BY <2>5, <3>1
    <3>4. \A y \in Registry!Jobs : Registry!Kind(y) = "plugin" => job'[y].step # "unregister"
      BY <2>5, <3>1
    <3>5. job'[x].step = "register"
      BY <2>5, <2>7
    <3>6. QED
      BY <2>2, <2>3, <3>2, <3>3, <3>4, <3>5 DEF AsOffered, InTools
  <2>9. AsOffered("mcp")'
    BY <1>2, <2>1, <2>5
  <2>10. QED
    BY <2>6, <2>8, <2>9 DEF ExactInv, Kinds
<1>6. QED
  BY <1>3, <1>4, <1>5

\* The step of a manager touches no plugin's tool, and what a manager serves
\* counts only once it is the current one.
LEMMA ManagersKeep ==
  ASSUME RegistryInv, ExactInv,
         \/ Registry!AbortMCP \/ Registry!SwapMCP
         \/ \E m \in Managers :
              Registry!CloseMCP(m) \/ \E S \in SUBSET McpTools : Registry!PrepareMCP(m, S)
  PROVE  ExactInv'
<1>0. /\ OneInstall /\ OwnKind /\ Tracked /\ AsOffered("plugin") /\ AsOffered("mcp")
      /\ RegistryTypes /\ ManagerOfStep /\ ManagerOfStep'
  BY ManagerSteps DEF ExactInv, Kinds, RegistryInv
<1>1. UNCHANGED <<tools, lost, offered, unlisted, installed>>
  BY DEF Registry!AbortMCP, Registry!SwapMCP, Registry!CloseMCP, Registry!PrepareMCP
<1>2. /\ Reload \in Registry!Jobs /\ Registry!Kind(Reload) = "mcp" /\ job[Reload] \in JobRecords
      /\ Registry!NoJob \in JobRecords
      /\ manager \in [Managers -> {"new", "prepared", "current", "replaced", "closing", "closed"}]
      /\ served \in [Managers -> SUBSET McpTools]
  BY <1>0, KindOfJob, JobsTyped DEF RegistryTypes
<1> DEFINE c == Registry!Current
<1>3. /\ c \in Managers /\ manager[c] = "current"
      /\ \A m \in Managers : manager[m] = "current" => m = c
  BY <1>0 DEF ManagerOfStep, Registry!Current
<1>4. ASSUME NEW m \in Managers, manager'[m] = "current" PROVE Registry!Current' = m
  BY <1>0, <1>4 DEF ManagerOfStep, Registry!Current
<1> HIDE DEF c
<1>5. ASSUME UNCHANGED job \/ \E r \in JobRecords : job' = [job EXCEPT ![Reload] = r]
      PROVE  AsOffered("plugin")'
  <2>1. \A x \in Refreshers : job'[x] = job[x]
    BY <1>5, JobsTyped
  <2>2. \A x \in Registry!Jobs : Registry!Kind(x) = "plugin" => job'[x] = job[x]
    BY <2>1, KindOfJob
  <2>3. Entries("plugin")' = Entries("plugin")
    BY <1>1 DEF Entries
  <2>4. Listed("plugin")' => Listed("plugin")
    BY <1>1, <2>1 DEF Listed
  <2>5. installed'["plugin"] = installed["plugin"] /\ "plugin" \in Kinds
    BY <1>1 DEF Kinds
  <2>6. QED
    BY <1>0, <1>1, <2>2, <2>3, <2>4, <2>5, KindUntouched
\* Before the swap and after a failure the current manager is the same.
<1>6. ASSUME manager'[c] = "current", served'[c] = served[c],
             \/ UNCHANGED job
             \/ \E r \in JobRecords :
                  /\ job' = [job EXCEPT ![Reload] = r]
                  /\ {job[Reload].step, r.step} \cap {"register", "unregister"} = {}
      PROVE  AsOffered("mcp")'
  <2>1. Entries("mcp")' = Entries("mcp")
    <3>1. Registry!Current' = c
      BY <1>3, <1>4, <1>6
    <3>2. QED
      BY <1>6, <3>1 DEF Entries, c
  <2>2. \A x \in Registry!Jobs : Registry!Kind(x) = "mcp" =>
          \/ job'[x] = job[x]
          \/ {job[x].step, job'[x].step} \cap {"register", "unregister"} = {}
    <3>1. \/ job'[Reload] = job[Reload]
          \/ {job[Reload].step, job'[Reload].step} \cap {"register", "unregister"} = {}
      BY <1>2, <1>6, JobsTyped
    <3>2. QED
      BY <3>1, KindOfJob
  <2>3. Listed("mcp") /\ installed'["mcp"] = installed["mcp"] /\ "mcp" \in Kinds
    BY <1>1 DEF Listed, Kinds
  <2>4. QED
    BY <1>0, <1>1, <2>1, <2>2, <2>3, KindUntouched
<1>7. ASSUME NEW m \in Managers, Registry!CloseMCP(m) PROVE ExactInv'
  <2>1. /\ manager[m] = "closing" /\ manager' = [manager EXCEPT ![m] = "closed"]
        /\ UNCHANGED <<job, served>>
    BY <1>7 DEF Registry!CloseMCP
  <2>2. manager'[c] = "current"
    BY <1>2, <1>3, <2>1
  <2>3. AsOffered("plugin")' /\ AsOffered("mcp")'
    BY <1>5, <1>6, <2>1, <2>2
  <2>4. OneInstall' /\ OwnKind' /\ Tracked'
    BY <1>0, <1>1, <2>1 DEF OneInstall, OwnKind, Tracked, Installing
  <2>5. QED
    BY <2>3, <2>4 DEF ExactInv, Kinds
<1>8. ASSUME NEW m \in Managers, NEW S \in SUBSET McpTools, Registry!PrepareMCP(m, S) PROVE ExactInv'
  <2> DEFINE r == [job[Reload] EXCEPT !.step = "prepared"]
  <2>1. /\ manager[m] = "new" /\ manager' = [manager EXCEPT ![m] = "prepared"]
        /\ job[Reload].step = "idle" /\ job' = [job EXCEPT ![Reload] = r]
        /\ served' = [served EXCEPT ![m] = S]
    BY <1>8 DEF Registry!PrepareMCP
  <2>2. /\ r \in JobRecords /\ r.step = "prepared" /\ r.todo = job[Reload].todo
        /\ r.next = job[Reload].next /\ r.drop = job[Reload].drop
    BY <1>2 DEF JobRecords
  <2> HIDE DEF r
  <2>3. manager'[c] = "current" /\ served'[c] = served[c]
    BY <1>2, <1>3, <2>1
  <2>4. AsOffered("plugin")' /\ AsOffered("mcp")'
    BY <1>5, <1>6, <2>1, <2>2, <2>3
  <2>5. OneInstall' /\ OwnKind' /\ Tracked'
    <3>1. /\ NamesOf(r.todo) \subseteq r.next
          /\ \A e \in r.todo : Registry!KindOf(e[2]) = Registry!Kind(Reload)
      BY <1>0, <1>2, <2>2 DEF OwnKind
    <3>2. ~ Installing(Reload) /\ r.step \notin {"register", "unregister"}
      BY <2>1, <2>2 DEF Installing
    <3>3. QED
      BY <1>1, <1>2, <2>1, <2>2, <3>1, <3>2, JobBegins
  <2>6. QED
    BY <2>4, <2>5 DEF ExactInv, Kinds
<1>9. CASE Registry!AbortMCP
  <2> DEFINE p == Registry!Prepared
  <2>1. /\ job[Reload].step = "prepared" /\ manager' = [manager EXCEPT ![p] = "closed"]
        /\ job' = [job EXCEPT ![Reload] = Registry!NoJob] /\ UNCHANGED served
    BY <1>9 DEF Registry!AbortMCP
  <2>2. p \in Managers /\ manager[p] = "prepared"
    BY <1>0, <2>1 DEF ManagerOfStep, Registry!Prepared
  <2> HIDE DEF p
  <2>3. manager'[c] = "current" /\ served'[c] = served[c]
    BY <1>2, <1>3, <2>1, <2>2
  <2>4. /\ Registry!NoJob.step = "idle" /\ Registry!NoJob.todo = {}
        /\ Registry!NoJob.next = {} /\ Registry!NoJob.drop = {} /\ NamesOf({}) = {}
    BY DEF Registry!NoJob, NamesOf
  <2>5. AsOffered("plugin")' /\ AsOffered("mcp")'
    BY <1>2, <1>5, <1>6, <2>1, <2>3, <2>4
  <2>6. OneInstall' /\ OwnKind' /\ Tracked'
    <3>1. ~ Installing(Reload)
      BY <2>1 DEF Installing
    <3>2. QED
      BY <1>1, <1>2, <2>1, <2>4, <3>1, JobBegins
  <2>7. QED
    BY <2>5, <2>6 DEF ExactInv, Kinds
<1>10. CASE Registry!SwapMCP
  <2> DEFINE p == Registry!Prepared
             E == Registry!McpEntries(p, served[p])
             r == [step |-> "register", todo |-> E, next |-> NamesOf(E), drop |-> {}]
  <2>1. /\ job[Reload].step = "prepared"
        /\ manager' = [manager EXCEPT ![c] = "replaced", ![p] = "current"]
        /\ job' = [job EXCEPT ![Reload] = r] /\ UNCHANGED served
    BY <1>10 DEF Registry!SwapMCP, NamesOf, c
  <2>2. p \in Managers /\ manager[p] = "prepared"
    BY <1>0, <2>1 DEF ManagerOfStep, Registry!Prepared
  <2> HIDE DEF p
  <2>3. manager'[p] = "current"
    BY <1>2, <1>3, <2>1, <2>2
  <2>4. Entries("mcp")' = E
    <3>1. Registry!Current' = p
      BY <1>4, <2>2, <2>3
    <3>2. QED
      BY <2>1, <3>1 DEF Entries
  <2>5. E \in SUBSET (Registry!Names \X Owners) /\ \A e \in E : Registry!KindOf(e[2]) = "mcp"
    <3>1. E \in SUBSET (Registry!Names \X Owners)
      BY <1>2, <2>2, EntriesTyped
    <3>2. \A e \in E : e[2] = Registry!OfManager(p)
      BY <1>2, <2>2, EntriesTyped
    <3>3. QED
      BY <3>1, <3>2, KindsOfOwners
  <2> HIDE DEF E
  <2>6. NamesOf(E) \subseteq Registry!Names
    BY <2>5 DEF NamesOf
  <2>7. r \in JobRecords /\ r.step = "register" /\ r.todo = E /\ r.next = NamesOf(E) /\ r.drop = {}
    BY <2>5, <2>6 DEF JobRecords
  <2> HIDE DEF r
  <2>8. AsOffered("plugin")'
    BY <1>5, <2>1, <2>7
  <2>9. AsOffered("mcp")'
    <3>1. job'[Reload] = r
      BY <1>2, <2>1, JobsTyped
    <3>2. NamesOf(Entries("mcp"))' = NamesOf(E)
      BY <2>4 DEF NamesOf
    <3>3. \A x \in Registry!Jobs : Registry!Kind(x) = "mcp" => job'[x] = r
      BY <3>1, KindOfJob
    <3>4. QED
      BY <1>2, <2>4, <2>7, <3>2, <3>3 DEF AsOffered, InTools
  <2>10. OneInstall' /\ OwnKind' /\ Tracked'
    <3>1. \A x \in Registry!Jobs : Registry!Kind(x) = "mcp" => ~ Installing(x)
      BY <2>1, KindOfJob DEF Installing
    <3>2. QED
      BY <1>1, <1>2, <2>1, <2>5, <2>7, <3>1, JobBegins
  <2>11. QED
    BY <2>8, <2>9, <2>10 DEF ExactInv, Kinds
<1>11. QED
  BY <1>7, <1>8, <1>9, <1>10

\* A write, or the exchange of the names, serves the install it is part of and
\* leaves the other kind alone.
LEMMA InstallKeeps ==
  ASSUME RegistryInv, ExactInv, NEW x \in Registry!Jobs, Registry!Install(x)
  PROVE  ExactInv'
<1> DEFINE k == Registry!Kind(x)
           E == Entries(k)
<1>0. /\ OneInstall /\ OwnKind /\ Tracked /\ \A i \in Kinds : AsOffered(i)
      /\ RegistryTypes /\ ManagerOfStep /\ k \in Kinds
  BY KindOfJob DEF ExactInv, RegistryInv
<1>1. UNCHANGED <<offered, unlisted, served>>
  BY DEF Registry!Install, Registry!Lock, Registry!Register, Registry!SwapNames,
         Registry!Unregister, Registry!Installed
<1>2. /\ tools \in [Registry!Names -> Owners] /\ job \in [Registry!Jobs -> JobRecords]
      /\ installed \in [plugin : SUBSET Registry!Names, mcp : SUBSET Registry!Names]
      /\ job[x] \in JobRecords
      /\ NamesOf(job[x].todo) \subseteq job[x].next
      /\ \A e \in job[x].todo : Registry!KindOf(e[2]) = k
  BY <1>0, JobsTyped DEF RegistryTypes, OwnKind
<1>3. \A i \in Kinds : Entries(i)' = Entries(i)
  <2>1. \A m \in Managers : manager'[m] = "current" <=> manager[m] = "current"
    BY <1>0 DEF RegistryTypes, Registry!Install, Registry!Lock, Registry!Register,
                Registry!SwapNames, Registry!Unregister, Registry!Installed
  <2>2. PICK m \in Managers : /\ manager[m] = "current"
                              /\ \A l \in Managers : manager[l] = "current" => l = m
    BY <1>0 DEF ManagerOfStep
  <2>3. Registry!Current = m /\ Registry!Current' = m
    BY <2>1, <2>2 DEF Registry!Current
  <2>4. QED
    BY <1>1, <2>3 DEF Entries
<1>4. BuiltinNames \subseteq Registry!Names
  BY DEF BuiltinNames, Registry!Names
<1>5. /\ \A e \in E : /\ e = <<e[1], e[2]>> /\ e[1] \in Registry!Names
                     /\ Registry!KindOf(e[2]) = k
      /\ \A e, f \in E : e[1] = f[1] => e = f
  BY <1>0, EntriesFacts
<1> DEFINE Has(e)  == tools[e[1]] = e[2] \/ (<<e[1], k>> \in lost /\ Registry!KindOf(tools[e[1]]) # k)
           Has1(e) == tools'[e[1]] = e[2] \/ (<<e[1], k>> \in lost' /\ Registry!KindOf(tools'[e[1]]) # k)
<1> HIDE DEF k, E
<1>7. \A y \in Registry!Jobs : Registry!Kind(y) = k => y = x \/ ~ Installing(y) \/ ~ Installing(x)
  BY <1>0 DEF OneInstall, k
\* What every step of an install leaves alone.
<1>8. ASSUME \A n \in Registry!Names :
                tools'[n] = tools[n] \/ Registry!KindOf(tools'[n]) \in {k, "free"},
             \A n \in Registry!Names, i \in (Kinds \cup {"builtin"}) \ {k} :
               /\ <<n, i>> \in lost => <<n, i>> \in lost'
               /\ tools'[n] = tools[n] \/ (Registry!KindOf(tools[n]) = i => <<n, i>> \in lost'),
             \A i \in Kinds \ {k} : installed'[i] = installed[i],
             NEW r \in JobRecords, job' = [job EXCEPT ![x] = r],
             Installing(x), r.step # "wait", NamesOf(r.todo) \subseteq r.next,
             \A e \in r.todo : Registry!KindOf(e[2]) = k
      PROVE  /\ OneInstall' /\ OwnKind'
             /\ \A i \in Kinds \ {k} : AsOffered(i)'
             /\ Listed(k)' => Listed(k)
             /\ job'[x] = r /\ \A y \in Registry!Jobs \ {x} : job'[y] = job[y]
             /\ \A y \in Registry!Jobs : Registry!Kind(y) = k /\ y # x => ~ Installing(y)
  <2>1. job'[x] = r /\ \A y \in Registry!Jobs \ {x} : job'[y] = job[y]
    BY <1>2, <1>8
  <2>2. \A y \in Registry!Jobs : Registry!Kind(y) = k /\ y # x => ~ Installing(y)
    BY <1>7, <1>8
  <2>3. OneInstall'
    <3>1. ASSUME NEW y \in Registry!Jobs, NEW z \in Registry!Jobs,
                 Registry!Kind(y) = Registry!Kind(z), Installing(y)', Installing(z)'
          PROVE  y = z
      <4>1. Installing(y) /\ Installing(z)
        BY <1>8, <2>1, <3>1 DEF Installing
      <4>2. QED
        BY <1>0, <3>1, <4>1 DEF OneInstall
    <3>2. QED
      BY <3>1 DEF OneInstall
  <2>4. OwnKind'
    <3>1. ASSUME NEW n \in BuiltinNames
          PROVE  tools'[n] = Registry!Builtin \/ <<n, "builtin">> \in lost'
      <4>1. n \in Registry!Names /\ (tools[n] = Registry!Builtin \/ <<n, "builtin">> \in lost)
        BY <1>0, <1>4 DEF OwnKind
      <4>2. "builtin" \in (Kinds \cup {"builtin"}) \ {k}
        BY <1>0 DEF Kinds, k
      <4>3. /\ <<n, "builtin">> \in lost => <<n, "builtin">> \in lost'
            /\ \/ tools'[n] = tools[n]
               \/ Registry!KindOf(tools[n]) = "builtin" => <<n, "builtin">> \in lost'
        BY <1>8, <4>1, <4>2
      <4>4. QED
        BY <4>1, <4>3, KindsOfOwners
    <3>2. ASSUME NEW n \in Registry!Names, tools'[n] = Registry!Builtin PROVE n \in BuiltinNames
      <4>1. Registry!KindOf(tools'[n]) \notin {k, "free"}
        BY <1>0, <3>2, KindsOfOwners DEF Kinds, k
      <4>2. tools'[n] = tools[n]
        BY <1>8, <4>1
      <4>3. QED
        BY <1>0, <3>2, <4>2 DEF OwnKind
    <3>3. \A y \in Registry!Jobs :
            /\ NamesOf(job'[y].todo) \subseteq job'[y].next
            /\ \A e \in job'[y].todo : Registry!KindOf(e[2]) = Registry!Kind(y)
      BY <1>0, <1>8, <2>1 DEF OwnKind, k
    <3>4. QED
      BY <3>1, <3>2, <3>3 DEF OwnKind
  <2>5. \A y \in Refreshers : job[y].step = "wait" => job'[y].step = "wait"
    BY <1>8, <2>1, KindOfJob DEF Installing
  <2>6. \A i \in Kinds : Listed(i)' => Listed(i)
    BY <1>1, <2>5 DEF Listed
  <2>7. ASSUME NEW i \in Kinds \ {k} PROVE AsOffered(i)'
    <3>1. AsOffered(i) /\ (Listed(i)' => Listed(i)) /\ i \in Kinds
      BY <1>0, <2>6
    <3>2. Entries(i)' = Entries(i)
      BY <1>3
    <3>3. installed'[i] = installed[i]
      BY <1>8
    <3>4. \A n \in Registry!Names :
            /\ <<n, i>> \in lost => <<n, i>> \in lost'
            /\ \/ tools'[n] = tools[n]
               \/ /\ Registry!KindOf(tools'[n]) # i
                  /\ Registry!KindOf(tools[n]) = i => <<n, i>> \in lost'
      <4>1. i \in (Kinds \cup {"builtin"}) \ {k} /\ i \notin {k, "free"}
        BY DEF Kinds
      <4>2. QED
        BY <1>8, <4>1
    <3>5. \A y \in Registry!Jobs : Registry!Kind(y) = i => job'[y] = job[y]
      BY <2>1 DEF k
    <3>6. QED
      BY <3>1, <3>2, <3>3, <3>4, <3>5, KindUntouched
  <2>8. QED
    BY <1>0, <2>1, <2>2, <2>3, <2>4, <2>6, <2>7
\* What is registered now was so before, or the install knows of it.
<1>9. ASSUME \A n \in Registry!Names :
               tools'[n] = tools[n] \/ Registry!KindOf(tools'[n]) \in {k, "free"},
             \A i \in Kinds \ {k} : installed'[i] = installed[i],
             \A y \in Registry!Jobs \ {x} : job'[y] = job[y],
             \A y \in Registry!Jobs : Registry!Kind(y) = k /\ y # x => ~ Installing(y),
             \A n \in Registry!Names : Registry!KindOf(tools'[n]) = k =>
               \/ n \in installed'[k]
               \/ job'[x].step = "register" /\ n \in job'[x].next
               \/ job'[x].step = "unregister" /\ n \in job'[x].drop
      PROVE  Tracked'
  <2>1. ASSUME NEW i \in Kinds \ {k}, NEW n \in Registry!Names, Registry!KindOf(tools'[n]) = i,
               n \notin installed'[i]
        PROVE  \E y \in Registry!Jobs :
                 /\ Registry!Kind(y) = i
                 /\ \/ job'[y].step = "register" /\ n \in job'[y].next
                    \/ job'[y].step = "unregister" /\ n \in job'[y].drop
    <3>1. tools'[n] = tools[n]
      BY <1>9, <2>1 DEF Kinds
    <3>2. PICK y \in Registry!Jobs :
            /\ Registry!Kind(y) = i
            /\ \/ job[y].step = "register" /\ n \in job[y].next
               \/ job[y].step = "unregister" /\ n \in job[y].drop
      BY <1>0, <1>9, <2>1, <3>1 DEF Tracked
    <3>3. job'[y] = job[y]
      BY <1>9, <3>2 DEF k
    <3>4. QED
      BY <3>2, <3>3
  <2>2. Registry!Kind(x) = k
    BY DEF k
  <2>3. QED
    BY <1>9, <2>1, <2>2 DEF Tracked
\* What the install's kind has before the step.
<1>10. ASSUME Listed(k)
       PROVE  /\ job[x].step = "register" => /\ job[x].todo \subseteq E /\ job[x].next = NamesOf(E)
                                             /\ \A e \in E \ job[x].todo : Has(e)
              /\ job[x].step = "unregister" =>
                   /\ job[x].drop \cap NamesOf(E) = {} /\ installed[k] = NamesOf(E)
                   /\ \A e \in E : Has(e)
  <2>1. AsOffered(k) /\ Registry!Kind(x) = k
    BY <1>0 DEF k
  <2>2. job[x].step = "unregister" =>
          \A y \in Registry!Jobs : Registry!Kind(y) = k => job[y].step # "register"
    BY <1>7 DEF Installing
  <2>3. \A S : InTools(S, k) => \A e \in S : Has(e)
    BY DEF InTools
  <2>4. /\ job[x].step = "register" => /\ job[x].todo \subseteq E /\ job[x].next = NamesOf(E)
                                      /\ InTools(E \ job[x].todo, k)
        /\ job[x].step = "unregister" =>
             job[x].drop \cap NamesOf(E) = {} /\ installed[k] = NamesOf(E) /\ InTools(E, k)
    BY <1>10, <2>1, <2>2 DEF AsOffered, E
  <2> HIDE DEF Has
  <2>5. QED
    BY <2>3, <2>4
\* What it must have after it.
<1>11. ASSUME \A y \in Registry!Jobs : Registry!Kind(y) = k /\ y # x => ~ Installing(y),
              \A y \in Registry!Jobs \ {x} : job'[y] = job[y],
              Listed(k)' =>
                /\ job'[x].step = "register" => /\ job'[x].todo \subseteq E /\ job'[x].next = NamesOf(E)
                                                /\ \A e \in E \ job'[x].todo : Has1(e)
                /\ job'[x].step = "unregister" => job'[x].drop \cap NamesOf(E) = {}
                /\ job'[x].step # "register" =>
                     installed'[k] = NamesOf(E) /\ \A e \in E : Has1(e)
       PROVE  AsOffered(k)'
  <2>1. Entries(k)' = E /\ NamesOf(Entries(k))' = NamesOf(E)
    BY <1>0, <1>3 DEF E, NamesOf
  <2>2. \A y \in Registry!Jobs : Registry!Kind(y) = k =>
          y = x \/ job'[y].step \notin {"register", "unregister"}
    BY <1>11 DEF Installing
  <2>3. Registry!Kind(x) = k
    BY DEF k
  <2>4. QED
    BY <1>11, <2>1, <2>2, <2>3 DEF AsOffered, InTools
<1>12. CASE Registry!Lock(x)
  <2>1. UNCHANGED <<tools, lost, installed, job, manager>>
    BY <1>12 DEF Registry!Lock
  <2>2. OneInstall' /\ OwnKind' /\ Tracked'
    BY <1>0, <2>1 DEF OneInstall, OwnKind, Tracked, Installing
  <2>3. ASSUME NEW i \in Kinds PROVE AsOffered(i)'
    <3>1. Entries(i)' = Entries(i) /\ AsOffered(i) /\ (Listed(i)' => Listed(i))
      BY <1>0, <1>1, <1>3, <2>1 DEF Listed
    <3>2. QED
      BY <2>1, <3>1, KindUntouched
  <2>4. QED
    BY <2>2, <2>3 DEF ExactInv
<1>13. CASE Registry!Register(x)
  <2>1. PICK e \in job[x].todo :
          /\ tools' = [tools EXCEPT ![e[1]] = e[2]]
          /\ lost' = (lost \ {<<e[1], k>>}) \cup Registry!Losers(e[1], k)
          /\ job' = [job EXCEPT ![x].todo = @ \ {e}]
    BY <1>13 DEF Registry!Register, k
  <2>2. UNCHANGED installed /\ job[x].step = "register"
    BY <1>13 DEF Registry!Register
  <2> DEFINE r == [job[x] EXCEPT !.todo = @ \ {e}]
  <2>3. /\ job' = [job EXCEPT ![x] = r] /\ r \in JobRecords
        /\ r.step = "register" /\ r.todo = job[x].todo \ {e} /\ r.next = job[x].next
        /\ r.drop = job[x].drop
    BY <1>2, <2>1, <2>2 DEF JobRecords
  <2> HIDE DEF r
  <2>4. /\ e[1] \in job[x].next /\ e[1] \in Registry!Names /\ e[2] \in Owners /\ e = <<e[1], e[2]>>
        /\ Registry!KindOf(e[2]) = k
    BY <1>2, <2>1 DEF JobRecords, NamesOf
  <2>5. /\ tools' \in [Registry!Names -> Owners] /\ tools'[e[1]] = e[2]
        /\ \A n \in Registry!Names \ {e[1]} : tools'[n] = tools[n]
    BY <1>2, <2>1, <2>4
  <2>10. ASSUME NEW n \in Registry!Names, NEW i \in (Kinds \cup {"builtin"}) \ {k}
         PROVE  /\ <<n, i>> \in lost => <<n, i>> \in lost'
                /\ tools'[n] = tools[n] \/ (Registry!KindOf(tools[n]) = i => <<n, i>> \in lost')
    <3>1. <<n, i>> # <<e[1], k>>
      BY <2>10
    <3>2. Registry!KindOf(tools[e[1]]) = i => <<e[1], i>> \in Registry!Losers(e[1], k)
      BY <2>10 DEF Registry!Losers, Kinds
    <3>3. QED
      BY <2>1, <2>5, <3>1, <3>2
  <2>6. /\ OneInstall' /\ OwnKind' /\ \A i \in Kinds \ {k} : AsOffered(i)'
        /\ Listed(k)' => Listed(k)
        /\ job'[x] = r /\ \A y \in Registry!Jobs \ {x} : job'[y] = job[y]
        /\ \A y \in Registry!Jobs : Registry!Kind(y) = k /\ y # x => ~ Installing(y)
    <3>1. NamesOf(r.todo) \subseteq r.next /\ \A f \in r.todo : Registry!KindOf(f[2]) = k
      BY <1>2, <2>3 DEF NamesOf
    <3>2. Installing(x) /\ \A i \in Kinds \ {k} : installed'[i] = installed[i]
      BY <2>2 DEF Installing
    <3>3. \A n \in Registry!Names :
            tools'[n] = tools[n] \/ Registry!KindOf(tools'[n]) \in {k, "free"}
      BY <2>4, <2>5
    <3>4. QED
      BY <1>8, <2>3, <2>10, <3>1, <3>2, <3>3
  <2>7. Tracked'
    <3>1. \A n \in Registry!Names : Registry!KindOf(tools[n]) = k =>
            n \in installed[k] \/ n \in job[x].next
      BY <1>0, <2>2, <2>6 DEF Tracked, Installing
    <3>2. \A n \in Registry!Names : Registry!KindOf(tools'[n]) = k => n \in installed'[k] \/ n \in r.next
      BY <2>2, <2>3, <2>4, <2>5, <3>1
    <3>3. \A n \in Registry!Names :
            tools'[n] = tools[n] \/ Registry!KindOf(tools'[n]) \in {k, "free"}
      BY <2>4, <2>5
    <3>4. QED
      BY <1>9, <2>2, <2>3, <2>6, <3>2, <3>3
  <2>8. AsOffered(k)'
    <3>1. ASSUME Listed(k)'
          PROVE  /\ r.todo \subseteq E /\ r.next = NamesOf(E)
                 /\ \A f \in E \ r.todo : Has1(f)
      <4>1. /\ job[x].todo \subseteq E /\ job[x].next = NamesOf(E)
            /\ \A f \in E \ job[x].todo : Has(f)
        BY <1>10, <2>2, <2>6, <3>1
      <4>2. ASSUME NEW f \in E \ r.todo PROVE Has1(f)
        <5>1. CASE f = e
          <6>1. Has1(e)
            BY <2>5
          <6> HIDE DEF Has1
          <6>2. QED
            BY <5>1, <6>1
        <5>2. CASE f # e
          <6>1. f \in E \ job[x].todo /\ f[1] # e[1] /\ f[1] \in Registry!Names
            BY <1>5, <2>1, <2>3, <4>1, <5>2
          <6>2. tools'[f[1]] = tools[f[1]]
            BY <2>5, <6>1
          <6>3. <<f[1], k>> # <<e[1], k>>
            BY <6>1
          <6>4. <<f[1], k>> \in lost => <<f[1], k>> \in lost'
            BY <2>1, <6>3
          <6>5. Has(f)
            BY <4>1, <6>1
          <6>6. QED
            BY <6>2, <6>4, <6>5
        <5>3. QED
          BY <5>1, <5>2
      <4> HIDE DEF Has1
      <4>3. QED
        BY <2>3, <4>1, <4>2
    <3> HIDE DEF Has1
    <3>2. QED
      BY <1>11, <2>3, <2>6, <3>1
  <2>9. QED
    BY <1>0, <2>6, <2>7, <2>8 DEF ExactInv
<1>14. CASE Registry!Unregister(x)
  <2>1. PICK n \in job[x].drop :
          /\ tools' = [tools EXCEPT ![n] = Registry!Free]
          /\ lost' = lost \cup Registry!Losers(n, k)
          /\ job' = [job EXCEPT ![x].drop = @ \ {n}]
    BY <1>14 DEF Registry!Unregister, k
  <2>2. UNCHANGED installed /\ job[x].step = "unregister"
    BY <1>14 DEF Registry!Unregister
  <2> DEFINE r == [job[x] EXCEPT !.drop = @ \ {n}]
  <2>3. /\ job' = [job EXCEPT ![x] = r] /\ r \in JobRecords
        /\ r.step = "unregister" /\ r.todo = job[x].todo /\ r.next = job[x].next
        /\ r.drop = job[x].drop \ {n}
    BY <1>2, <2>1, <2>2 DEF JobRecords
  <2> HIDE DEF r
  <2>4. n \in Registry!Names /\ Registry!Free \in Owners /\ Registry!KindOf(Registry!Free) = "free"
    BY <1>2, <2>1, OwnersApart, KindsOfOwners DEF JobRecords
  <2>5. /\ tools' \in [Registry!Names -> Owners] /\ tools'[n] = Registry!Free
        /\ \A l \in Registry!Names \ {n} : tools'[l] = tools[l]
    BY <1>2, <2>1, <2>4
  <2>10. ASSUME NEW l \in Registry!Names, NEW i \in (Kinds \cup {"builtin"}) \ {k}
         PROVE  /\ <<l, i>> \in lost => <<l, i>> \in lost'
                /\ tools'[l] = tools[l] \/ (Registry!KindOf(tools[l]) = i => <<l, i>> \in lost')
    <3>1. Registry!KindOf(tools[n]) = i => <<n, i>> \in Registry!Losers(n, k)
      BY <2>10 DEF Registry!Losers, Kinds
    <3>2. QED
      BY <2>1, <2>5, <3>1
  <2>11. \A l \in Registry!Names :
           tools'[l] = tools[l] \/ Registry!KindOf(tools'[l]) \in {k, "free"}
    BY <2>4, <2>5
  <2>6. /\ OneInstall' /\ OwnKind' /\ \A i \in Kinds \ {k} : AsOffered(i)'
        /\ Listed(k)' => Listed(k)
        /\ job'[x] = r /\ \A y \in Registry!Jobs \ {x} : job'[y] = job[y]
        /\ \A y \in Registry!Jobs : Registry!Kind(y) = k /\ y # x => ~ Installing(y)
    <3>1. NamesOf(r.todo) \subseteq r.next /\ \A f \in r.todo : Registry!KindOf(f[2]) = k
      BY <1>2, <2>3
    <3>2. Installing(x) /\ \A i \in Kinds \ {k} : installed'[i] = installed[i]
      BY <2>2 DEF Installing
    <3>3. QED
      BY <1>8, <2>3, <2>10, <2>11, <3>1, <3>2
  <2>7. Tracked'
    <3>1. \A l \in Registry!Names : Registry!KindOf(tools[l]) = k =>
            l \in installed[k] \/ l \in job[x].drop
      BY <1>0, <2>2, <2>6 DEF Tracked, Installing
    <3>2. \A l \in Registry!Names : Registry!KindOf(tools'[l]) = k => l \in installed'[k] \/ l \in r.drop
      <4>1. k # "free"
        BY <1>0 DEF Kinds, k
      <4>2. QED
        BY <2>2, <2>3, <2>4, <2>5, <3>1, <4>1
    <3>3. QED
      BY <1>9, <2>2, <2>3, <2>6, <2>11, <3>2
  <2>8. AsOffered(k)'
    <3>1. ASSUME Listed(k)'
          PROVE  /\ r.drop \cap NamesOf(E) = {} /\ installed'[k] = NamesOf(E)
                 /\ \A f \in E : Has1(f)
      <4>1. /\ job[x].drop \cap NamesOf(E) = {} /\ installed[k] = NamesOf(E)
            /\ \A f \in E : Has(f)
        BY <1>10, <2>2, <2>6, <3>1
      <4>2. ASSUME NEW f \in E PROVE Has1(f)
        <5>1. f[1] # n /\ f[1] \in Registry!Names
          BY <1>5, <2>1, <4>1 DEF NamesOf
        <5>2. tools'[f[1]] = tools[f[1]] /\ (<<f[1], k>> \in lost => <<f[1], k>> \in lost')
          BY <2>1, <2>5, <5>1
        <5>3. Has(f)
          BY <4>1
        <5>4. QED
          BY <5>2, <5>3
      <4> HIDE DEF Has1
      <4>3. QED
        BY <2>2, <2>3, <4>1, <4>2
    <3> HIDE DEF Has1
    <3>2. QED
      BY <1>11, <2>3, <2>6, <3>1
  <2>9. QED
    BY <1>0, <2>6, <2>7, <2>8 DEF ExactInv
\* The last two steps of an install write no tool.
<1>18. ASSUME UNCHANGED <<tools, lost>>
       PROVE  /\ \A n \in Registry!Names :
                   tools'[n] = tools[n] \/ Registry!KindOf(tools'[n]) \in {k, "free"}
              /\ \A n \in Registry!Names, i \in (Kinds \cup {"builtin"}) \ {k} :
                   /\ <<n, i>> \in lost => <<n, i>> \in lost'
                   /\ tools'[n] = tools[n] \/ (Registry!KindOf(tools[n]) = i => <<n, i>> \in lost')
              /\ \A e : Has(e) => Has1(e)
  BY <1>18
<1>15. CASE Registry!SwapNames(x)
  <2> DEFINE r == [job[x] EXCEPT !.step = "unregister", !.drop = installed[k] \ job[x].next]
  <2>1. /\ job[x].step = "register" /\ job[x].todo = {} /\ UNCHANGED <<tools, lost>>
        /\ installed' = [installed EXCEPT ![k] = job[x].next]
        /\ job' = [job EXCEPT ![x] = r]
    BY <1>2, <1>15 DEF Registry!SwapNames, k
  <2>2. /\ r.step = "unregister" /\ r.todo = {} /\ r.next = job[x].next
        /\ r.drop = installed[k] \ job[x].next /\ r \in JobRecords
    BY <1>0, <1>2, <2>1 DEF JobRecords, Kinds
  <2> HIDE DEF r
  <2>3. installed'[k] = job[x].next /\ \A i \in Kinds \ {k} : installed'[i] = installed[i]
    BY <1>0, <1>2, <2>1 DEF Kinds
  <2>4. /\ OneInstall' /\ OwnKind' /\ \A i \in Kinds \ {k} : AsOffered(i)'
        /\ Listed(k)' => Listed(k)
        /\ job'[x] = r /\ \A y \in Registry!Jobs \ {x} : job'[y] = job[y]
        /\ \A y \in Registry!Jobs : Registry!Kind(y) = k /\ y # x => ~ Installing(y)
    <3>1. NamesOf(r.todo) \subseteq r.next /\ \A e \in r.todo : Registry!KindOf(e[2]) = k
      BY <2>2 DEF NamesOf
    <3>2. Installing(x)
      BY <2>1 DEF Installing
    <3>3. QED
      BY <1>8, <1>18, <2>1, <2>2, <2>3, <3>1, <3>2
  <2>5. Tracked'
    <3>1. \A n \in Registry!Names : Registry!KindOf(tools[n]) = k =>
            n \in installed[k] \/ n \in job[x].next
      BY <1>0, <2>1, <2>4 DEF Tracked, Installing
    <3>2. \A n \in Registry!Names : Registry!KindOf(tools'[n]) = k => n \in installed'[k] \/ n \in r.drop
      BY <2>1, <2>2, <2>3, <3>1
    <3>3. QED
      BY <1>9, <1>18, <2>1, <2>2, <2>3, <2>4, <3>2
  <2>6. AsOffered(k)'
    <3>1. ASSUME Listed(k)'
          PROVE  /\ r.drop \cap NamesOf(E) = {} /\ installed'[k] = NamesOf(E)
                 /\ \A e \in E : Has1(e)
      <4>1. job[x].next = NamesOf(E) /\ \A e \in E : Has(e)
        BY <1>10, <2>1, <2>4, <3>1
      <4> HIDE DEF Has, Has1
      <4>2. QED
        BY <1>18, <2>1, <2>2, <2>3, <4>1
    <3> HIDE DEF Has1
    <3>2. QED
      BY <1>11, <2>2, <2>4, <3>1
  <2>7. QED
    BY <1>0, <2>4, <2>5, <2>6 DEF ExactInv
<1>16. CASE Registry!Installed(x)
  <2> DEFINE r == Registry!NoJob
  <2>1. /\ job[x].step = "unregister" /\ job[x].drop = {} /\ UNCHANGED <<tools, lost, installed>>
        /\ job' = [job EXCEPT ![x] = r]
    BY <1>16 DEF Registry!Installed
  <2>2. /\ r.step = "idle" /\ r.todo = {} /\ r.next = {} /\ r.drop = {} /\ NamesOf(r.todo) = {}
        /\ r \in JobRecords
    BY JobsTyped DEF Registry!NoJob, NamesOf
  <2> HIDE DEF r
  <2>3. /\ OneInstall' /\ OwnKind' /\ \A i \in Kinds \ {k} : AsOffered(i)'
        /\ Listed(k)' => Listed(k)
        /\ job'[x] = r /\ \A y \in Registry!Jobs \ {x} : job'[y] = job[y]
        /\ \A y \in Registry!Jobs : Registry!Kind(y) = k /\ y # x => ~ Installing(y)
    <3>1. Installing(x) /\ \A i \in Kinds \ {k} : installed'[i] = installed[i]
      BY <2>1 DEF Installing
    <3>2. NamesOf(r.todo) \subseteq r.next /\ \A e \in r.todo : Registry!KindOf(e[2]) = k
      BY <2>2
    <3>3. QED
      BY <1>8, <1>18, <2>1, <2>2, <3>1, <3>2
  <2>4. Tracked'
    <3>1. \A n \in Registry!Names : Registry!KindOf(tools[n]) = k => n \in installed[k]
      BY <1>0, <2>1, <2>3 DEF Tracked, Installing
    <3>2. QED
      BY <1>9, <1>18, <2>1, <2>3, <3>1
  <2>5. AsOffered(k)'
    <3>1. ASSUME Listed(k)'
          PROVE  installed'[k] = NamesOf(E) /\ \A e \in E : Has1(e)
      <4>1. installed[k] = NamesOf(E) /\ \A e \in E : Has(e)
        BY <1>10, <2>1, <2>3, <3>1
      <4> HIDE DEF Has, Has1
      <4>2. QED
        BY <1>18, <2>1, <4>1
    <3> HIDE DEF Has1
    <3>2. QED
      BY <1>11, <2>2, <2>3, <3>1
  <2>6. QED
    BY <1>0, <2>3, <2>4, <2>5 DEF ExactInv
<1>17. QED
  BY <1>12, <1>13, <1>14, <1>15, <1>16 DEF Registry!Install

LEMMA ExactStep ==
  ASSUME RegistryInv, ExactInv, [ServicesNext]_servicesVars
  PROVE  ExactInv'
<1>1. ASSUME UNCHANGED <<tools, lost, offered, unlisted, installed, job, manager, served>> PROVE ExactInv'
  <2>1. OneInstall' /\ OwnKind' /\ Tracked'
    BY <1>1 DEF ExactInv, OneInstall, OwnKind, Tracked, Installing
  <2>2. ASSUME NEW k \in Kinds PROVE AsOffered(k)'
    <3>1. Entries(k)' = Entries(k)
      BY <1>1, McpEntriesStay DEF Kinds, Entries
    <3>2. AsOffered(k) /\ (Listed(k)' => Listed(k))
      BY <1>1 DEF ExactInv, Listed
    <3>3. QED
      BY <1>1, <3>1, <3>2, KindUntouched
  <2>3. QED
    BY <2>1, <2>2 DEF ExactInv
<1>2. CASE UNCHANGED registryVars
  BY <1>1, <1>2 DEF registryVars
<1>3. CASE Registry!Next
  <2>1. CASE \E c \in ToolCallers :
               \/ Registry!Ask(c) \/ Registry!Answered(c) \/ Registry!AskAgain(c)
               \/ Registry!Execute(c) \/ Registry!EndCall(c)
               \/ \E n \in Registry!Names : Registry!ToolCalls(c, n)
    <3>1. UNCHANGED Registry!Others
      BY <2>1 DEF Registry!Ask, Registry!Answered, Registry!AskAgain, Registry!Execute,
                  Registry!EndCall, Registry!ToolCalls
    <3>2. QED
      BY <1>1, <3>1 DEF Registry!Others
  <2>2. QED
    BY <1>3, <2>1, OfferKeeps, ManagersKeep, InstallKeeps DEF Registry!Next
<1>4. QED
  BY <1>2, <1>3 DEF ServicesNext, servicesVars

\* Once every refresh and reload has ended and no change is unlisted, whatever
\* is registered is a tool of the Discord kind, of a plugin or of the current
\* manager, and each of these is registered unless another kind took its name
\* (registry.go, session.go, tools.go).
THEOREM RegistryHoldsWhatIsOffered == ServicesSpec => []RegistryExact
<1>1. RegistryInv /\ ExactInv => RegistryExact
  <2>1. SUFFICES ASSUME RegistryInv, ExactInv, unlisted = {}, \A x \in Registry!Jobs : job[x].step = "idle"
                 PROVE  /\ \A n \in Registry!Names : tools[n] # Registry!Free =>
                             <<n, tools[n]>> \in Registry!Offers
                        /\ \A e \in Registry!Offers :
                             tools[e[1]] = e[2] \/ <<e[1], Registry!KindOf(e[2])>> \in lost
    BY DEF RegistryExact, Registry!RegistryExact
  <2> DEFINE B == {<<Registry!Name(x), Registry!Builtin>> : x \in Builtins}
  <2>2. \A k \in Kinds :
          /\ installed[k] = NamesOf(Entries(k)) /\ InTools(Entries(k), k)
          /\ \A n \in Registry!Names : Registry!KindOf(tools[n]) = k => n \in installed[k]
    <3>1. Listed("plugin") /\ Listed("mcp")
      BY <2>1, KindOfJob DEF Listed
    <3>2. QED
      BY <2>1, <3>1 DEF ExactInv, AsOffered, Tracked, Kinds
  <2>3. Registry!Offers = Entries("plugin") \cup Entries("mcp") \cup B
    BY DEF Registry!Offers, Entries
  <2>4. ASSUME NEW n \in Registry!Names, tools[n] # Registry!Free
        PROVE  <<n, tools[n]>> \in Registry!Offers
    <3>1. tools[n] \in Owners
      BY <2>1 DEF RegistryInv, RegistryTypes
    <3>2. CASE tools[n] = Registry!Builtin
      <4>1. PICK x \in Builtins : n = Registry!Name(x)
        BY <2>1, <3>2 DEF ExactInv, OwnKind, BuiltinNames
      <4>2. QED
        BY <2>3, <3>2, <4>1
    <3>3. CASE tools[n] # Registry!Builtin
      <4>1. PICK k \in Kinds : Registry!KindOf(tools[n]) = k
        BY <2>4, <3>1, <3>3, KindsOfOwners
      <4>2. PICK e \in Entries(k) : e[1] = n
        BY <2>2, <4>1 DEF NamesOf
      <4>3. tools[n] = e[2] /\ e = <<e[1], e[2]>>
        BY <2>1, <2>2, <4>1, <4>2, EntriesFacts DEF InTools
      <4>4. QED
        BY <2>3, <4>2, <4>3 DEF Kinds
    <3>4. QED
      BY <3>2, <3>3
  <2>5. ASSUME NEW e \in Registry!Offers
        PROVE  tools[e[1]] = e[2] \/ <<e[1], Registry!KindOf(e[2])>> \in lost
    <3>1. CASE e \in B
      BY <2>1, <3>1, KindsOfOwners DEF ExactInv, OwnKind, BuiltinNames
    <3>2. ASSUME NEW k \in Kinds, e \in Entries(k)
          PROVE  tools[e[1]] = e[2] \/ <<e[1], Registry!KindOf(e[2])>> \in lost
      BY <2>1, <2>2, <3>2, EntriesFacts DEF InTools
    <3>3. QED
      BY <2>3, <3>1, <3>2 DEF Kinds
  <2>6. QED
    BY <2>4, <2>5
<1>2. ServicesInit => RegistryInv /\ ExactInv
  BY RegistryInit, ExactInit
<1>3. RegistryInv /\ ExactInv /\ [ServicesNext]_servicesVars => RegistryInv' /\ ExactInv'
  BY RegistryStep, ExactStep
<1>4. QED
  BY <1>1, <1>2, <1>3, PTL DEF ServicesSpec

-----------------------------------------------------------------------------
(* The components of a reload                                                *)

Loggers  == [file : Values, level : Values]
Services == [embedding : Values, model : Values, service : Values, consolidation : Values,
             image : Values]

\* A key that may be unset, one that is a switch, and the others.
Configurations ==
  {c \in [Components!Keys -> Values \cup {Inherit, Off} \cup BOOLEAN] :
     /\ c["memory"] \in BOOLEAN /\ c["plugins"] \in Values \cup {Off}
     /\ \A k \in Components!Endpoints : c[k] \in Values \cup {Inherit}
     /\ \A k \in {"ai", "model", "service", "level", "file", "policy"} : c[k] \in Values}

ComponentsTypes ==
  /\ config \in Configurations /\ next \in Configurations
  /\ phase \in {"idle", "prepare", "commit"}
  /\ todo \subseteq Components!Components
  /\ DOMAIN prepared = Components!Components
  /\ prepared = [c \in Components!Components |-> prepared[c]]
  /\ failed \in BOOLEAN

\* What runs of a component is what the configuration k describes.
Runs(c, k) ==
  CASE c = "logging" -> logger = Components!LoggerConfig(k)
    [] c = "memory"  -> service = Components!MemoryInputs(k)
    [] c = "plugins" -> policy = k.policy /\ (failed \/ plugins = k.plugins)

\* What is prepared of a component makes it run as the configuration says.
Leads(c) ==
  LET p == prepared[c] IN
  CASE c = "logging" -> \/ p.do = "replace" /\ p.logger = Components!LoggerConfig(config)
                        \/ /\ p.do = "level" /\ p.level = config.level
                           /\ logger \in Loggers /\ logger.file = config.file
    [] c = "memory"  -> \/ p.do = "replace" /\ p.service = Components!MemoryInputs(config)
                        \/ /\ p.do = "embedder" /\ service # Off
                           /\ [service EXCEPT !.embedding = p.embedding] = Components!MemoryInputs(config)
    [] c = "plugins" -> p.do # "reload" => failed \/ plugins = config.plugins

\* A reload has prepared what differs between the two configurations, and has
\* still to commit it.
ReloadOfPhase ==
  \A c \in Components!Components :
    /\ phase = "idle" => next = config /\ todo = {} /\ prepared[c] = Nothing /\ Runs(c, config)
    /\ phase = "prepare" =>
         /\ Runs(c, config)
         /\ prepared[c] = IF c \in todo THEN Nothing ELSE Components!PrepareOf(c)
    /\ phase = "commit" =>
         /\ next = config
         /\ IF c \in todo THEN Leads(c) ELSE prepared[c] = Nothing /\ Runs(c, config)

ComponentsInv == ComponentsTypes /\ ReloadOfPhase

\* The assumption about the constants, and what a configuration has.
LEMMA ComponentsConstants ==
  /\ Inherit \notin Values /\ Off \notin Values /\ Inherit # Off /\ Off \notin Services
  /\ Nothing \notin [do : {"replace"}, logger : Loggers] \cup [do : {"level"}, level : Values]
  /\ Nothing \notin [do : {"replace"}, service : Services \cup {Off}]
                    \cup [do : {"embedder"}, embedding : Values]
  /\ Nothing \notin [do : {"reload", "settings"}]
BY ServicesAssumption DEF ServicesAssumption, Components!ComponentsAssumption, Loggers, Services

LEMMA ConfigurationHas ==
  ASSUME NEW c \in Configurations
  PROVE  /\ {c.ai, c.model, c.service, c.level, c.file, c.policy} \subseteq Values
         /\ {c.embedding, c.consolidation, c.image} \subseteq Values \cup {Inherit}
         /\ c.memory \in BOOLEAN /\ c.plugins \in Values \cup {Off}
         /\ Components!LoggerConfig(c) \in Loggers
         /\ c.memory = FALSE => Components!MemoryInputs(c) = Off
         /\ c.memory = TRUE => Components!MemoryInputs(c) \in Services
<1>1. /\ {c.ai, c.model, c.service, c.level, c.file, c.policy} \subseteq Values
      /\ {c.embedding, c.consolidation, c.image} \subseteq Values \cup {Inherit}
      /\ c.memory \in BOOLEAN /\ c.plugins \in Values \cup {Off}
  BY DEF Configurations, Components!Endpoints
<1>2. Components!LoggerConfig(c) \in Loggers
  BY <1>1 DEF Components!LoggerConfig, Loggers
<1>3. /\ Components!EmbeddingClient(c) \in Values /\ Components!ConsolidationClient(c) \in Values
      /\ Components!ImageClient(c) \in Values
  BY <1>1 DEF Components!EmbeddingClient, Components!ConsolidationClient, Components!ImageClient
<1>4. /\ c.memory = FALSE => Components!MemoryInputs(c) = Off
      /\ c.memory = TRUE => Components!MemoryInputs(c) \in Services
  BY <1>1, <1>3 DEF Components!MemoryInputs, Components!ServiceConfig, Services
<1>5. QED
  BY <1>1, <1>2, <1>4

LEMMA ComponentsInit == ASSUME ServicesInit PROVE ComponentsInv
<1>1. Components!Init
  BY DEF ServicesInit
<1>2. PICK on \in BOOLEAN, v \in Values :
        config = [k \in Components!Keys |->
                    IF k \in Components!Endpoints THEN Inherit ELSE IF k = "memory" THEN on
                    ELSE IF k = "plugins" THEN Off ELSE v]
  BY <1>1 DEF Components!Init
<1>3. config \in Configurations
  BY <1>2 DEF Configurations, Components!Keys, Components!Endpoints
<1>4. ComponentsTypes
  BY <1>1, <1>3 DEF Components!Init, ComponentsTypes, Components!Components
<1>5. ReloadOfPhase
  BY <1>1 DEF Components!Init, ReloadOfPhase, Runs, Components!Components
<1>6. QED
  BY <1>4, <1>5 DEF ComponentsInv

\* A component that prepares nothing runs as the next configuration says.
LEMMA NothingToDo ==
  ASSUME ComponentsTypes, NEW c \in Components!Components, Runs(c, config),
         Components!PrepareOf(c) = Nothing
  PROVE  Runs(c, next)
<1>1. config \in Configurations /\ next \in Configurations
  BY DEF ComponentsTypes
<1>2. CASE c = "logging"
  <2>1. Components!PrepareLogging = Nothing
    BY <1>2 DEF Components!PrepareOf
  <2>2. config.file = next.file /\ config.level = next.level
    <3>1. Components!LoggerConfig(next) \in Loggers /\ next.level \in Values
      BY <1>1, ConfigurationHas
    <3>2. [do |-> "replace", logger |-> Components!LoggerConfig(next)] # Nothing
      BY <3>1, ComponentsConstants
    <3>3. [do |-> "level", level |-> next.level] # Nothing
      BY <3>1, ComponentsConstants
    <3>4. QED
      BY <2>1, <3>2, <3>3 DEF Components!PrepareLogging, Components!Changed
  <2>3. QED
    BY <1>2, <2>2 DEF Runs, Components!LoggerConfig
<1>3. CASE c = "memory"
  <2> DEFINE old == Components!MemoryInputs(config)
             new == Components!MemoryInputs(next)
  <2>1. Components!PrepareMemory = Nothing
    BY <1>3 DEF Components!PrepareOf
  <2>2. new \in Services \cup {Off}
    BY <1>1, ConfigurationHas
  <2>3. [do |-> "replace", service |-> new] # Nothing
    BY <2>2, ComponentsConstants
  <2>4. new # Off => [do |-> "embedder", embedding |-> new.embedding] # Nothing
    BY <2>2, ComponentsConstants DEF Services
  <2> HIDE DEF old, new
  <2>5. old = new
    BY <2>1, <2>3, <2>4 DEF Components!PrepareMemory, Components!EmbedderOnly, old, new
  <2>6. QED
    BY <1>3, <2>5 DEF Runs, old, new
<1>4. CASE c = "plugins"
  <2>1. Components!PreparePlugins = Nothing
    BY <1>4 DEF Components!PrepareOf
  <2>2. config.plugins = next.plugins /\ config.policy = next.policy
    BY <2>1, ComponentsConstants DEF Components!PreparePlugins, Components!Changed
  <2>3. QED
    BY <1>4, <2>2 DEF Runs
<1>5. QED
  BY <1>2, <1>3, <1>4 DEF Components!Components

\* What a component prepares leads from the one configuration to the other.
LEMMA PreparedLeads ==
  ASSUME ComponentsTypes, NEW c \in Components!Components, Runs(c, config),
         prepared[c] = Components!PrepareOf(c), prepared[c] # Nothing,
         config' = next, UNCHANGED <<prepared, logger, service, plugins, policy, failed>>
  PROVE  Leads(c)'
<1>1. config \in Configurations /\ next \in Configurations
  BY DEF ComponentsTypes
<1>2. CASE c = "logging"
  <2>1. prepared[c] = Components!PrepareLogging
    BY <1>2 DEF Components!PrepareOf
  <2>2. logger = Components!LoggerConfig(config) /\ Components!LoggerConfig(config) \in Loggers
    BY <1>1, <1>2, ConfigurationHas DEF Runs
  <2>3. logger.file = config.file
    BY <2>2 DEF Components!LoggerConfig
  <2>4. CASE Components!Changed("file")
    BY <1>2, <2>1, <2>4 DEF Components!PrepareLogging, Leads
  <2>5. CASE ~ Components!Changed("file")
    <3>1. prepared[c] = [do |-> "level", level |-> next.level]
      BY <2>1, <2>5 DEF Components!PrepareLogging
    <3>2. logger.file = next.file
      BY <2>3, <2>5 DEF Components!Changed
    <3>3. QED
      BY <1>2, <2>2, <3>1, <3>2 DEF Leads
  <2>6. QED
    BY <2>4, <2>5
<1>3. CASE c = "memory"
  <2> DEFINE old == Components!MemoryInputs(config)
             new == Components!MemoryInputs(next)
  <2>1. prepared[c] = Components!PrepareMemory /\ service = old
    BY <1>3 DEF Components!PrepareOf, Runs
  <2>2. old \in Services \cup {Off} /\ new \in Services \cup {Off}
    BY <1>1, ConfigurationHas
  <2>3. Components!MemoryInputs(config)' = new
    BY DEF Components!MemoryInputs, Components!EmbeddingClient, Components!ConsolidationClient,
           Components!ImageClient, Components!ServiceConfig
  <2> HIDE DEF old, new
  <2>4. CASE Components!EmbedderOnly(old, new)
    <3>1. prepared[c] = [do |-> "embedder", embedding |-> new.embedding]
      BY <2>1, <2>4 DEF Components!PrepareMemory, old, new
    <3>2. old \in Services /\ new \in Services
          /\ [old EXCEPT !.embedding = Nothing] = [new EXCEPT !.embedding = Nothing]
      BY <2>2, <2>4 DEF Components!EmbedderOnly
    <3>3. /\ old.model = new.model /\ old.service = new.service
          /\ old.consolidation = new.consolidation /\ old.image = new.image
      BY <3>2 DEF Services
    <3>4. [old EXCEPT !.embedding = new.embedding] = new /\ old # Off
      BY <3>2, <3>3, ComponentsConstants DEF Services
    <3>5. QED
      BY <1>3, <2>1, <2>3, <3>1, <3>4 DEF Leads
  <2>5. CASE ~ Components!EmbedderOnly(old, new)
    <3>1. prepared[c] = [do |-> "replace", service |-> new]
      BY <2>1, <2>5 DEF Components!PrepareMemory, old, new
    <3>2. QED
      BY <1>3, <2>3, <3>1 DEF Leads
  <2>6. QED
    BY <2>4, <2>5
<1>4. CASE c = "plugins"
  <2>1. prepared[c] = Components!PreparePlugins
    BY <1>4 DEF Components!PrepareOf
  <2>2. prepared[c].do # "reload" => config.plugins = next.plugins
    BY <2>1 DEF Components!PreparePlugins, Components!Changed
  <2>3. QED
    BY <1>4, <2>2 DEF Leads, Runs
<1>5. QED
  BY <1>2, <1>3, <1>4 DEF Components!Components

\* A commit makes its component run as the configuration says, and leaves the
\* others alone.
LEMMA CommitRuns ==
  ASSUME ComponentsInv, NEW c \in Components!Components, Components!Commit(c)
  PROVE  /\ Runs(c, config)'
         /\ \A d \in Components!Components \ {c} :
              /\ Runs(d, config) => Runs(d, config)'
              /\ Leads(d) => Leads(d)'
<1>1. /\ Leads(c) /\ next = config /\ config' = config /\ config \in Configurations
      /\ prepared' = [prepared EXCEPT ![c] = Nothing]
  BY DEF ComponentsInv, ReloadOfPhase, ComponentsTypes, Components!Commit, Components!InOrder
<1>2. \A d \in Components!Components \ {c} : prepared'[d] = prepared[d]
  BY <1>1 DEF ComponentsInv, ComponentsTypes
<1> DEFINE L == Components!LoggerConfig(config)
           M == Components!MemoryInputs(config)
<1>3. L' = L /\ M' = M
  BY <1>1 DEF Components!LoggerConfig, Components!MemoryInputs, Components!EmbeddingClient,
     Components!ConsolidationClient, Components!ImageClient, Components!ServiceConfig
\* What does not change of a component.
<1>4. ASSUME c # "logging", UNCHANGED logger
      PROVE  /\ Runs("logging", config) => Runs("logging", config)'
             /\ Leads("logging") => Leads("logging")'
  BY <1>1, <1>2, <1>3, <1>4 DEF Runs, Leads, Components!Components
<1>5. ASSUME c # "memory", UNCHANGED service
      PROVE  /\ Runs("memory", config) => Runs("memory", config)'
             /\ Leads("memory") => Leads("memory")'
  BY <1>1, <1>2, <1>3, <1>5 DEF Runs, Leads, Components!Components
<1>6. ASSUME c # "plugins", UNCHANGED <<plugins, policy, failed>>
      PROVE  /\ Runs("plugins", config) => Runs("plugins", config)'
             /\ Leads("plugins") => Leads("plugins")'
  BY <1>1, <1>2, <1>6 DEF Runs, Leads, Components!Components
<1>7. CASE c = "logging"
  <2>1. Components!CommitLogging
    BY <1>7 DEF Components!Commit
  <2>2. logger' = Components!LoggerConfig(config)
    BY <1>1, <1>7, <2>1, ConfigurationHas DEF Components!CommitLogging, Leads, Loggers,
       Components!LoggerConfig
  <2>3. UNCHANGED <<service, plugins, policy, failed>>
    BY <2>1 DEF Components!CommitLogging
  <2>4. Runs(c, config)'
    BY <1>3, <1>7, <2>2 DEF Runs
  <2>5. QED
    BY <1>5, <1>6, <1>7, <2>3, <2>4 DEF Components!Components
<1>8. CASE c = "memory"
  <2>1. Components!CommitMemory
    BY <1>8 DEF Components!Commit
  <2>2. service' = Components!MemoryInputs(config)
    BY <1>1, <1>8, <2>1 DEF Components!CommitMemory, Leads
  <2>3. UNCHANGED <<logger, plugins, policy, failed>>
    BY <2>1 DEF Components!CommitMemory
  <2>4. Runs(c, config)'
    BY <1>3, <1>8, <2>2 DEF Runs
  <2>5. QED
    BY <1>4, <1>6, <1>8, <2>3, <2>4 DEF Components!Components
<1>9. CASE c = "plugins"
  <2>1. Components!CommitPlugins
    BY <1>9 DEF Components!Commit
  <2>2. policy' = config.policy /\ (failed' \/ plugins' = config.plugins)
    BY <1>1, <1>9, <2>1 DEF Components!CommitPlugins, Leads, ComponentsInv, ComponentsTypes
  <2>3. UNCHANGED <<logger, service>>
    BY <2>1 DEF Components!CommitPlugins
  <2>4. Runs(c, config)'
    BY <1>1, <1>9, <2>2 DEF Runs
  <2>5. QED
    BY <1>4, <1>5, <1>9, <2>3, <2>4 DEF Components!Components
<1>10. QED
  BY <1>7, <1>8, <1>9 DEF Components!Components

LEMMA ComponentsSteps == ASSUME ComponentsInv, Components!Next PROVE ComponentsInv'
<1>1. ComponentsTypes /\ ReloadOfPhase
  BY DEF ComponentsInv
<1>2. CASE Components!Begin
  <2>1. /\ phase = "idle" /\ phase' = "prepare" /\ todo' = Components!Components
        /\ UNCHANGED <<config, prepared, logger, service, plugins, policy, failed>>
    BY <1>2 DEF Components!Begin, Components!running
  <2>2. next' \in Configurations
    <3>1. PICK k \in Components!Keys, l \in Components!Keys :
            \E v \in Components!Choices(k), w \in Components!Choices(l) :
              next' = [config EXCEPT ![k] = v, ![l] = w]
      BY <1>2 DEF Components!Begin
    <3>2. PICK v \in Components!Choices(k), w \in Components!Choices(l) :
            next' = [config EXCEPT ![k] = v, ![l] = w]
      BY <3>1
    <3>3. \A n \in Components!Keys : \A u \in Components!Choices(n) :
            /\ n \in Components!Endpoints => u \in Values \cup {Inherit}
            /\ n = "memory" => u \in BOOLEAN
            /\ n = "plugins" => u \in Values \cup {Off}
            /\ n \notin Components!Endpoints \cup {"memory", "plugins"} => u \in Values
            /\ u \in Values \cup {Inherit, Off} \cup BOOLEAN
      BY DEF Components!Choices, Components!Keys, Components!Endpoints
    <3>4. config \in [Components!Keys -> Values \cup {Inherit, Off} \cup BOOLEAN]
      BY <1>1 DEF ComponentsTypes, Configurations
    <3>5. /\ next' \in [Components!Keys -> Values \cup {Inherit, Off} \cup BOOLEAN]
          /\ \A n \in Components!Keys : next'[n] \in {config[n]} \cup Components!Choices(n)
      <4>1. [config EXCEPT ![k] = v] \in [Components!Keys -> Values \cup {Inherit, Off} \cup BOOLEAN]
        BY <3>3, <3>4
      <4>2. QED
        BY <3>2, <3>3, <3>4, <4>1
    <3>6. QED
      BY <1>1, <3>3, <3>5 DEF ComponentsTypes, Configurations, Components!Keys, Components!Endpoints
  <2>3. ComponentsTypes'
    BY <1>1, <2>1, <2>2 DEF ComponentsTypes
  <2>4. \A c \in Components!Components : Runs(c, config)' /\ prepared'[c] = Nothing
    BY <1>1, <2>1 DEF ReloadOfPhase, Runs, Components!LoggerConfig, Components!MemoryInputs,
       Components!EmbeddingClient, Components!ConsolidationClient, Components!ImageClient,
       Components!ServiceConfig
  <2>5. QED
    BY <2>1, <2>3, <2>4 DEF ComponentsInv, ReloadOfPhase
\* Where nothing is committed, what runs does not change.
<1>3. ASSUME UNCHANGED <<config, logger, service, plugins, policy, failed>>,
             NEW c \in Components!Components, Runs(c, config)
      PROVE  Runs(c, config)'
  <2>1. /\ Components!LoggerConfig(config)' = Components!LoggerConfig(config)
        /\ Components!MemoryInputs(config)' = Components!MemoryInputs(config)
    BY <1>3 DEF Components!LoggerConfig, Components!MemoryInputs,
       Components!EmbeddingClient, Components!ConsolidationClient, Components!ImageClient,
       Components!ServiceConfig
  <2>2. QED
    BY <1>3, <2>1 DEF Runs
<1>4. CASE Components!Reject
  <2>1. /\ phase = "prepare" /\ phase' = "idle" /\ todo' = {} /\ next' = config
        /\ prepared' = [c \in Components!Components |-> Nothing]
        /\ UNCHANGED <<config, logger, service, plugins, policy, failed>>
    BY <1>4 DEF Components!Reject, Components!running
  <2>2. ComponentsTypes'
    BY <1>1, <2>1 DEF ComponentsTypes
  <2>3. \A c \in Components!Components : Runs(c, config)'
    BY <1>1, <1>3, <2>1 DEF ReloadOfPhase
  <2>4. QED
    BY <2>1, <2>2, <2>3 DEF ComponentsInv, ReloadOfPhase
<1>5. CASE Components!Publish
  <2>1. /\ phase = "prepare" /\ todo = {} /\ config' = next /\ phase' = "commit"
        /\ todo' = {c \in Components!Components : prepared[c] # Nothing}
        /\ UNCHANGED <<next, prepared, logger, service, plugins, policy, failed>>
    BY <1>5 DEF Components!Publish, Components!running
  <2>2. ComponentsTypes'
    BY <1>1, <2>1 DEF ComponentsTypes
  <2>3. ASSUME NEW c \in Components!Components
        PROVE  IF c \in todo' THEN Leads(c)' ELSE prepared'[c] = Nothing /\ Runs(c, config)'
    <3>1. Runs(c, config) /\ prepared[c] = Components!PrepareOf(c)
      BY <1>1, <2>1 DEF ReloadOfPhase
    <3>2. CASE prepared[c] # Nothing
      BY <1>1, <2>1, <3>1, <3>2, PreparedLeads
    <3>3. CASE prepared[c] = Nothing
      <4>1. Runs(c, next)
        BY <1>1, <3>1, <3>3, NothingToDo
      <4>2. Runs(c, next) = Runs(c, config)'
        <5>1. /\ Components!LoggerConfig(config)' = Components!LoggerConfig(next)
              /\ Components!MemoryInputs(config)' = Components!MemoryInputs(next)
          BY <2>1 DEF Components!LoggerConfig, Components!MemoryInputs,
             Components!EmbeddingClient, Components!ConsolidationClient, Components!ImageClient,
             Components!ServiceConfig
        <5>2. QED
          BY <2>1, <5>1 DEF Runs
      <4>3. QED
        BY <2>1, <3>3, <4>1, <4>2
    <3>4. QED
      BY <3>2, <3>3
  <2>4. QED
    BY <2>1, <2>2, <2>3 DEF ComponentsInv, ReloadOfPhase
<1>6. CASE Components!Committed
  <2>1. /\ phase = "commit" /\ todo = {} /\ phase' = "idle"
        /\ UNCHANGED <<config, next, todo, prepared, logger, service, plugins, policy, failed>>
    BY <1>6 DEF Components!Committed, Components!running
  <2>2. ComponentsTypes'
    BY <1>1, <2>1 DEF ComponentsTypes
  <2>3. \A c \in Components!Components : Runs(c, config)'
    BY <1>1, <1>3, <2>1 DEF ReloadOfPhase
  <2>4. \A c \in Components!Components : next = config /\ prepared[c] = Nothing
    BY <1>1, <2>1 DEF ReloadOfPhase
  <2>5. QED
    BY <2>1, <2>2, <2>3, <2>4 DEF ComponentsInv, ReloadOfPhase
<1>7. ASSUME NEW c \in Components!Components, Components!Prepare(c) PROVE ComponentsInv'
  <2>1. /\ phase = "prepare" /\ todo' = todo \ {c}
        /\ prepared' = [prepared EXCEPT ![c] = Components!PrepareOf(c)]
        /\ UNCHANGED <<config, next, phase, logger, service, plugins, policy, failed>>
    BY <1>7 DEF Components!Prepare, Components!running
  <2>2. ComponentsTypes'
    BY <1>1, <2>1 DEF ComponentsTypes
  <2>3. /\ prepared'[c] = Components!PrepareOf(c)
        /\ \A d \in Components!Components \ {c} : prepared'[d] = prepared[d]
    BY <1>1, <2>1 DEF ComponentsTypes
  <2>4. \A d \in Components!Components : Runs(d, config)'
    BY <1>1, <1>3, <2>1 DEF ReloadOfPhase
  <2>5. \A d \in Components!Components : Components!PrepareOf(d)' = Components!PrepareOf(d)
    BY <2>1 DEF Components!PrepareOf, Components!PrepareLogging, Components!PrepareMemory,
       Components!PreparePlugins, Components!Changed, Components!EmbedderOnly,
       Components!LoggerConfig, Components!MemoryInputs, Components!EmbeddingClient,
       Components!ConsolidationClient, Components!ImageClient, Components!ServiceConfig
  <2>6. \A d \in Components!Components :
          prepared'[d] = IF d \in todo' THEN Nothing ELSE Components!PrepareOf(d)'
    BY <1>1, <2>1, <2>3, <2>5 DEF ReloadOfPhase
  <2>7. QED
    BY <2>1, <2>2, <2>4, <2>6 DEF ComponentsInv, ReloadOfPhase
<1>8. ASSUME NEW c \in Components!Components, Components!Commit(c) PROVE ComponentsInv'
  <2>1. /\ phase = "commit" /\ todo' = todo \ {c}
        /\ prepared' = [prepared EXCEPT ![c] = Nothing]
        /\ UNCHANGED <<config, next, phase>>
    BY <1>8 DEF Components!Commit
  <2>2. ComponentsTypes'
    <3>1. failed' \in BOOLEAN
      BY <1>1, <1>8 DEF ComponentsTypes, Components!Commit, Components!CommitLogging,
         Components!CommitMemory, Components!CommitPlugins, Components!Components
    <3>2. QED
      BY <1>1, <2>1, <3>1 DEF ComponentsTypes
  <2>3. /\ prepared'[c] = Nothing
        /\ \A d \in Components!Components \ {c} : prepared'[d] = prepared[d]
    BY <1>1, <2>1 DEF ComponentsTypes
  <2>4. \A d \in Components!Components :
          IF d \in todo' THEN Leads(d)' ELSE prepared'[d] = Nothing /\ Runs(d, config)'
    BY <1>1, <1>8, <2>1, <2>3, CommitRuns DEF ComponentsInv, ReloadOfPhase
  <2>5. next = config
    BY <1>1, <2>1 DEF ReloadOfPhase
  <2>6. QED
    BY <2>1, <2>2, <2>4, <2>5 DEF ComponentsInv, ReloadOfPhase
<1>9. QED
  BY <1>2, <1>4, <1>5, <1>6, <1>7, <1>8 DEF Components!Next

LEMMA ComponentsInvariant == ServicesSpec => []ComponentsInv
<1>1. ASSUME ComponentsInv, [ServicesNext]_servicesVars PROVE ComponentsInv'
  <2>1. CASE UNCHANGED componentsVars
    <3>1. UNCHANGED <<config, next, phase, todo, prepared, logger, service, plugins, policy, failed>>
      BY <2>1 DEF componentsVars
    <3>2. ComponentsTypes'
      BY <1>1, <3>1 DEF ComponentsInv, ComponentsTypes
    <3>3. \A c \in Components!Components :
            /\ Runs(c, config)' = Runs(c, config) /\ Leads(c)' = Leads(c)
            /\ Components!PrepareOf(c)' = Components!PrepareOf(c)
      <4>1. /\ Components!LoggerConfig(config)' = Components!LoggerConfig(config)
            /\ Components!MemoryInputs(config)' = Components!MemoryInputs(config)
            /\ Components!MemoryInputs(next)' = Components!MemoryInputs(next)
        BY <3>1 DEF Components!LoggerConfig, Components!MemoryInputs,
           Components!EmbeddingClient, Components!ConsolidationClient, Components!ImageClient,
           Components!ServiceConfig
      <4>2. QED
        BY <3>1, <4>1 DEF Runs, Leads, Components!PrepareOf, Components!PrepareLogging,
           Components!PrepareMemory, Components!PreparePlugins, Components!Changed,
           Components!EmbedderOnly, Components!LoggerConfig
    <3>4. QED
      BY <1>1, <3>1, <3>2, <3>3 DEF ComponentsInv, ReloadOfPhase
  <2>2. CASE Components!Next
    BY <1>1, <2>2, ComponentsSteps
  <2>3. QED
    BY <1>1, <2>1, <2>2 DEF ServicesNext, servicesVars
<1>2. QED
  BY <1>1, ComponentsInit, PTL DEF ServicesSpec

\* Between two reloads what runs is what the published configuration
\* describes (internal/app, memory.Swappable, logger).
THEOREM RunsWhatIsPublished == ServicesSpec => []RunsAsConfigured
<1>1. ASSUME ComponentsInv PROVE RunsAsConfigured
  <2>1. SUFFICES ASSUME phase = "idle"
        PROVE  LET Endpoint(k) == IF config[k] \in Values THEN config[k] ELSE config.ai IN
               /\ logger.file = config.file /\ logger.level = config.level
               /\ config.memory <=> service # Off
               /\ config.memory =>
                    /\ \A k \in Components!Endpoints : service[k] = Endpoint(k)
                    /\ service.model = config.model /\ service.service = config.service
               /\ policy = config.policy
               /\ failed \/ plugins = config.plugins
    BY DEF RunsAsConfigured, Components!RunsAsConfigured
  <2>2. /\ config \in Configurations
        /\ Runs("logging", config) /\ Runs("memory", config) /\ Runs("plugins", config)
    BY <1>1, <2>1 DEF ComponentsInv, ComponentsTypes, ReloadOfPhase, Components!Components
  <2>3. logger.file = config.file /\ logger.level = config.level
    BY <2>2 DEF Runs, Components!LoggerConfig
  <2>4. policy = config.policy /\ (failed \/ plugins = config.plugins)
    BY <2>2 DEF Runs
  <2>5. config.memory <=> service # Off
    <3>1. service = Components!MemoryInputs(config)
      BY <2>2 DEF Runs
    <3>2. CASE config.memory = TRUE
      BY <2>2, <3>1, <3>2, ConfigurationHas, ComponentsConstants
    <3>3. CASE config.memory = FALSE
      BY <2>2, <3>1, <3>3, ConfigurationHas
    <3>4. QED
      BY <2>2, <3>2, <3>3, ConfigurationHas
  <2>6. ASSUME config.memory
        PROVE  /\ \A k \in Components!Endpoints :
                    service[k] = IF config[k] \in Values THEN config[k] ELSE config.ai
               /\ service.model = config.model /\ service.service = config.service
    <3>1. service = [embedding |-> Components!EmbeddingClient(config), model |-> config.model,
                     service |-> config.service,
                     consolidation |-> Components!ConsolidationClient(config),
                     image |-> Components!ImageClient(config)]
      BY <2>2, <2>6 DEF Runs, Components!MemoryInputs, Components!ServiceConfig
    <3>2. {config.embedding, config.consolidation, config.image} \subseteq Values \cup {Inherit}
      BY <2>2, ConfigurationHas
    <3>3. /\ service["embedding"] = IF config["embedding"] \in Values THEN config["embedding"] ELSE config.ai
          /\ service["image"] = IF config["image"] \in Values THEN config["image"] ELSE config.ai
          /\ service["consolidation"] = IF config["consolidation"] \in Values
                                        THEN config["consolidation"] ELSE config.ai
      BY <3>1, <3>2, ComponentsConstants DEF Components!EmbeddingClient,
         Components!ConsolidationClient, Components!ImageClient
    <3>4. QED
      BY <3>1, <3>3 DEF Components!Endpoints
  <2>7. QED
    BY <2>3, <2>4, <2>5, <2>6
<1>2. QED
  BY <1>1, ComponentsInvariant, PTL

-----------------------------------------------------------------------------
(* The memories of a prompt                                                  *)

\* The records a prompt may show: the author's, and those of the channel.
Ours == {r \in 1..4 : <<me, me, me, you>>[r] = me \/ <<away, here, away, here>>[r] = here}

Searching == {"idle", "query", "hydrate", "orphans", "done"}

PromptTypes ==
  /\ source \subseteq 1..4 /\ vectors \subseteq 1..4 /\ storing \in 0..4 /\ gone \subseteq 1..4
  /\ searching \in [Retrieval!Searches -> Searching]
  /\ found \in [Retrieval!Searches -> SUBSET Ours]
  /\ hits \in [Retrieval!Searches -> SUBSET (1..4)]
  /\ shown \in [{"facts", "recent", "mentioned", "channel"} -> SUBSET Ours]

\* What was hit, found or shown since the reply began was there then, or has
\* been stored since; nothing is found or shown before.
LivesOn ==
  /\ gone \cap source = {}
  /\ reply = "idle" => /\ \A s \in Retrieval!Searches : found[s] = {} /\ searching[s] = "idle"
                       /\ \A b \in DOMAIN shown : shown[b] = {}
  /\ \A s \in Retrieval!Searches : /\ found[s] \cap gone = {}
                                   /\ searching[s] = "hydrate" => hits[s] \subseteq Ours
  /\ \A b \in DOMAIN shown : shown[b] \cap gone = {}

PromptInv == PromptTypes /\ LivesOn

\* A search goes on: what it takes next it has hit in the vectors, and what it
\* finds it has loaded from the source.
LEMMA SearchSteps ==
  ASSUME PromptInv, NEW s \in Retrieval!Searches,
         Retrieval!Query(s) \/ Retrieval!Hydrate(s) \/ Retrieval!DeleteOrphans(s)
  PROVE  PromptInv'
<1>1. PromptTypes /\ LivesOn
  BY DEF PromptInv
<1>2. /\ UNCHANGED <<source, storing, gone, reply, shown>> /\ searching[s] # "idle"
      /\ vectors' \subseteq vectors
  BY DEF Retrieval!Query, Retrieval!Hydrate, Retrieval!DeleteOrphans, Retrieval!replyVars
<1>3. PICK a \in Searching \ {"idle"} : searching' = [searching EXCEPT ![s] = a]
  BY DEF Retrieval!Query, Retrieval!Hydrate, Retrieval!DeleteOrphans, Retrieval!End, Searching
<1>4. PICK H \in SUBSET (1..4) : /\ hits' = [hits EXCEPT ![s] = H]
                                 /\ searching'[s] = "hydrate" => H \subseteq Ours
  <2>1. CASE Retrieval!Query(s)
    <3>1. CASE UNCHANGED hits /\ searching'[s] # "hydrate"
      BY <1>1, <3>1 DEF PromptTypes
    <3>2. ASSUME NEW u, hits' = [hits EXCEPT ![s] = Retrieval!Best(Retrieval!LimitOf(s), Retrieval!Matches(s, u))]
          PROVE  \E H \in SUBSET (1..4) : /\ hits' = [hits EXCEPT ![s] = H]
                                          /\ searching'[s] = "hydrate" => H \subseteq Ours
      <4> DEFINE M == Retrieval!Matches(s, u)
                 H == Retrieval!Best(Retrieval!LimitOf(s), M)
      <4>1. M \subseteq Ours
        BY <1>1 DEF PromptTypes, Retrieval!Matches, Retrieval!Searches, Ours
      <4> HIDE DEF M
      <4>2. H \subseteq M
        BY DEF Retrieval!Best
      <4>3. Ours \subseteq 1..4
        BY DEF Ours
      <4> HIDE DEF H
      <4>4. QED
        BY <3>2, <4>1, <4>2, <4>3 DEF M, H
    <3>3. searching' = [searching EXCEPT ![s] = "hydrate"] \/ searching'[s] # "hydrate"
      BY <1>1, <1>3 DEF PromptTypes
    <3>4. QED
      BY <1>1, <2>1, <3>1, <3>2 DEF Retrieval!Query, Retrieval!End, PromptTypes
  <2>2. CASE Retrieval!Hydrate(s)
    <3>1. searching'[s] # "hydrate"
      BY <1>1, <2>2 DEF Retrieval!Hydrate, Retrieval!End, PromptTypes
    <3>2. hits[s] \in SUBSET (1..4)
      BY <1>1 DEF PromptTypes
    <3>3. \E H \in SUBSET (1..4) : hits' = [hits EXCEPT ![s] = H]
      <4>1. \/ hits' = [hits EXCEPT ![s] = {}]
            \/ hits' = [hits EXCEPT ![s] = hits[s] \ Retrieval!InSource(hits[s])]
        BY <2>2 DEF Retrieval!Hydrate
      <4>2. QED
        BY <3>2, <4>1
    <3>4. QED
      BY <3>1, <3>3
  <2>3. CASE Retrieval!DeleteOrphans(s)
    <3>1. searching'[s] # "hydrate"
      BY <1>1, <2>3 DEF Retrieval!DeleteOrphans, Retrieval!End, PromptTypes
    <3>2. hits' = [hits EXCEPT ![s] = {}]
      BY <2>3 DEF Retrieval!DeleteOrphans
    <3>3. QED
      BY <3>1, <3>2
  <2>4. QED
    BY <2>1, <2>2, <2>3
<1>5. PICK F \in SUBSET (Ours \cap source) : found' = [found EXCEPT ![s] = @ \cup F]
  <2>0. found = [found EXCEPT ![s] = found[s] \cup {}]
    BY <1>1 DEF PromptTypes
  <2>1. CASE Retrieval!Hydrate(s)
    <3>1. searching[s] = "hydrate"
      BY <2>1 DEF Retrieval!Hydrate
    <3>2. Retrieval!InSource(hits[s]) \in SUBSET (Ours \cap source)
      BY <1>1, <3>1 DEF LivesOn, Retrieval!InSource
    <3>3. \/ found' = [found EXCEPT ![s] = @ \cup Retrieval!InSource(hits[s])]
          \/ UNCHANGED found
      BY <2>1 DEF Retrieval!Hydrate
    <3>4. QED
      BY <2>0, <3>2, <3>3
  <2>2. CASE UNCHANGED found
    BY <2>0, <2>2
  <2>3. QED
    BY <2>1, <2>2 DEF Retrieval!Query, Retrieval!DeleteOrphans
<1>6. PromptTypes'
  <2>1. searching' \in [Retrieval!Searches -> Searching]
    BY <1>1, <1>3 DEF PromptTypes
  <2>2. hits' \in [Retrieval!Searches -> SUBSET (1..4)]
    BY <1>1, <1>4 DEF PromptTypes
  <2>3. found' \in [Retrieval!Searches -> SUBSET Ours]
    BY <1>1, <1>5 DEF PromptTypes
  <2>4. QED
    BY <1>1, <1>2, <2>1, <2>2, <2>3 DEF PromptTypes
<1>7. LivesOn'
  <2>1. reply # "idle"
    BY <1>1, <1>2 DEF LivesOn
  <2>2. ASSUME NEW t \in Retrieval!Searches
        PROVE  /\ found'[t] \cap gone = {}
               /\ searching'[t] = "hydrate" => hits'[t] \subseteq Ours
    BY <1>1, <1>3, <1>4, <1>5 DEF PromptTypes, LivesOn
  <2>3. QED
    BY <1>1, <1>2, <2>1, <2>2 DEF LivesOn
<1>8. QED
  BY <1>6, <1>7 DEF PromptInv

LEMMA PromptSteps ==
  ASSUME PromptInv, Retrieval!Next
  PROVE  PromptInv'
<1>1. PromptTypes /\ LivesOn
  BY DEF PromptInv
<1>2. ASSUME NEW r \in 1..4, Retrieval!Delete(r) \/ Retrieval!Store(r) PROVE PromptInv'
  <2>1. /\ UNCHANGED <<vectors, searching, hits, found, reply, shown>>
        /\ \/ source' = source \ {r} /\ UNCHANGED <<gone, storing>>
           \/ source' = source \cup {r} /\ gone' = gone \ {r} /\ storing' = r
    BY <1>2 DEF Retrieval!Delete, Retrieval!Store, Retrieval!searchVars, Retrieval!replyVars
  <2>2. PromptTypes'
    <3>1. source \subseteq 1..4 /\ gone \subseteq 1..4 /\ storing \in 0..4 /\ r \in 0..4
      BY <1>1 DEF PromptTypes
    <3>2. source' \subseteq 1..4 /\ gone' \subseteq 1..4
      BY <2>1, <3>1
    <3>3. storing' \in 0..4
      BY <2>1, <3>1
    <3>4. QED
      BY <1>1, <2>1, <3>2, <3>3, Zenon DEF PromptTypes
  <2>3. gone' \subseteq gone /\ gone' \cap source' = {}
    BY <1>1, <2>1 DEF LivesOn
  <2>4. LivesOn'
    BY <1>1, <2>1, <2>3 DEF LivesOn
  <2>5. QED
    BY <2>2, <2>4 DEF PromptInv
<1>3. CASE Retrieval!DeleteVector \/ Retrieval!StoreVector
  <2>1. UNCHANGED <<source, searching, hits, found, reply, shown, gone>>
    BY <1>3 DEF Retrieval!DeleteVector, Retrieval!StoreVector, Retrieval!searchVars, Retrieval!replyVars
  <2>2. vectors' \subseteq 1..4 /\ storing' \in 0..4
    <3>1. CASE Retrieval!DeleteVector
      BY <1>1, <3>1 DEF Retrieval!DeleteVector, PromptTypes
    <3>2. CASE Retrieval!StoreVector
      <4>1. storing \in 1..4 /\ storing' = 0
        BY <1>1, <3>2 DEF Retrieval!StoreVector, PromptTypes, Retrieval!None
      <4>2. QED
        BY <1>1, <3>2, <4>1 DEF Retrieval!StoreVector, PromptTypes
    <3>3. QED
      BY <1>3, <3>1, <3>2
  <2>3. PromptTypes' /\ LivesOn'
    BY <1>1, <2>1, <2>2 DEF PromptTypes, LivesOn
  <2>4. QED
    BY <2>3 DEF PromptInv
<1>4. CASE Retrieval!Begin
  <2>1. /\ reply = "idle" /\ reply' = "search" /\ gone' = 1..4 \ source
        /\ UNCHANGED <<source, vectors, storing, hits, found, shown>>
    BY <1>4 DEF Retrieval!Begin
  <2>2. \E f \in [Retrieval!Searches -> {"query", "done"}] : searching' = f
    BY <1>4 DEF Retrieval!Begin
  <2>3. PromptTypes'
    BY <1>1, <2>1, <2>2 DEF PromptTypes, Searching
  <2>4. \A s \in Retrieval!Searches : searching'[s] # "hydrate"
    BY <2>2
  <2>5. LivesOn'
    BY <1>1, <2>1, <2>4 DEF LivesOn
  <2>6. QED
    BY <2>3, <2>5 DEF PromptInv
<1>5. CASE Retrieval!Show
  <2>1. /\ reply' = "shown" /\ shown' = Retrieval!Blocks
        /\ UNCHANGED <<source, vectors, storing, searching, hits, found, gone>>
    BY <1>5 DEF Retrieval!Show, Retrieval!searchVars
  <2>2. Retrieval!Merged \subseteq Ours /\ Retrieval!Merged \cap gone = {}
    BY <1>1 DEF Retrieval!Merged, PromptTypes, LivesOn
  <2>3. /\ DOMAIN shown' = {"facts", "recent", "mentioned", "channel"}
        /\ \A b \in DOMAIN shown' : shown'[b] \subseteq Retrieval!Merged
    <3> DEFINE M == Retrieval!Merged
    <3>1. \A n, S : Retrieval!Best(n, S) \subseteq S
      BY DEF Retrieval!Best
    <3>2. \E A, B, C, D \in SUBSET M :
            shown' = [facts |-> A, recent |-> B, mentioned |-> C, channel |-> D]
      <4> DEFINE others == M \ {1}
                 mentioned == {r \in others : <<{you}, {you, other}, {other}, {}>>[r] # {}}
                 channel == (others \ mentioned) \cap {2, 4}
                 B == Retrieval!Best(1, mentioned)
                 C == Retrieval!Best(2, channel)
      <4>1. shown' = [facts |-> M \cap {1}, recent |-> (others \ mentioned) \ channel,
                      mentioned |-> B, channel |-> C]
        BY <2>1 DEF Retrieval!Blocks
      <4>2. /\ M \cap {1} \in SUBSET M /\ (others \ mentioned) \ channel \in SUBSET M
            /\ mentioned \in SUBSET M /\ channel \in SUBSET M
        OBVIOUS
      <4> HIDE DEF mentioned, channel
      <4>3. B \in SUBSET M /\ C \in SUBSET M
        BY <3>1, <4>2
      <4> HIDE DEF M, others, B, C
      <4>4. QED
        BY <4>1, <4>2, <4>3
    <3>3. QED
      BY <3>2
  <2>4. shown' \in [{"facts", "recent", "mentioned", "channel"} -> SUBSET Ours]
    BY <2>1, <2>2, <2>3 DEF Retrieval!Blocks
  <2>5. PromptTypes'
    BY <1>1, <2>1, <2>4 DEF PromptTypes
  <2>6. \A b \in DOMAIN shown' : shown'[b] \cap gone' = {}
    BY <2>1, <2>2, <2>3
  <2>7. LivesOn'
    BY <1>1, <2>1, <2>6 DEF LivesOn
  <2>8. QED
    BY <2>5, <2>7 DEF PromptInv
<1>6. QED
  BY <1>2, <1>3, <1>4, <1>5, SearchSteps DEF Retrieval!Next

LEMMA PromptInvariant == ServicesSpec => []PromptInv
<1>1. ASSUME ServicesInit PROVE PromptInv
  <2>1. Retrieval!Init
    BY <1>1 DEF ServicesInit
  <2>2. /\ source = 1..4 /\ vectors = 1..4 /\ storing = 0 /\ gone = {} /\ reply = "idle"
        /\ searching = [s \in Retrieval!Searches |-> "idle"]
        /\ hits = [s \in Retrieval!Searches |-> {}] /\ found = [s \in Retrieval!Searches |-> {}]
        /\ shown = [facts |-> {}, recent |-> {}, mentioned |-> {}, channel |-> {}]
    BY <2>1 DEF Retrieval!Init, Retrieval!None, Retrieval!NoBlocks
  <2>3. shown \in [{"facts", "recent", "mentioned", "channel"} -> SUBSET Ours]
    BY <2>2
  <2>4. PromptTypes
    BY <2>2, <2>3 DEF PromptTypes, Searching
  <2>5. LivesOn
    BY <2>2 DEF LivesOn
  <2>6. QED
    BY <2>4, <2>5 DEF PromptInv
<1>2. ASSUME PromptInv, [ServicesNext]_servicesVars PROVE PromptInv'
  <2>1. CASE UNCHANGED retrievalVars
    <3>1. UNCHANGED <<source, vectors, storing, searching, hits, found, reply, shown, gone>>
      BY <2>1 DEF retrievalVars
    <3>2. QED
      BY <1>2, <3>1 DEF PromptInv, PromptTypes, LivesOn
  <2>2. CASE Retrieval!Next
    BY <1>2, <2>2, PromptSteps
  <2>3. QED
    BY <1>2, <2>1, <2>2 DEF ServicesNext, servicesVars
<1>3. QED
  BY <1>1, <1>2, PTL DEF ServicesSpec

\* No search brings a deleted memory into a prompt, whatever vectors the
\* deletes left behind, and no block shows one that is neither its author's nor
\* of the channel (searchMemories, searchAndHydrate, FormatMemoriesForContext).
THEOREM PromptShowsNoDeleted == ServicesSpec => []PromptShowsLiving
<1>1. ASSUME PromptInv PROVE PromptShowsLiving
  BY <1>1 DEF PromptInv, PromptTypes, LivesOn, Ours, PromptShowsLiving, Retrieval!PromptShowsLiving,
     Retrieval!Shown
<1>2. QED
  BY <1>1, PromptInvariant, PTL

-----------------------------------------------------------------------------
(* The connection of a plugin                                                *)

Publishers == Refreshers \cup {Loader}
Active(c)  == task[c] \notin {"idle", "failed"}
Frames     == [kind : {"reply", "error", "notification", "stray"},
               to : Connection!Callers \cup {NoOne}, tools : Nat]
Answers    == {i \in DOMAIN stdout : stdout[i].kind \in {"reply", "error"}}
Asking     == {"hook", "info", "list", "prompt"}

WireTypes ==
  /\ task \in [Connection!Callers -> Asking \cup {"idle", "publish", "failed"}]
  /\ held \in [Connection!Callers -> Nat] /\ has \in Nat
  /\ waits \in [Connection!Callers -> {"no", "yes"}]
  /\ rpc \in [Connection!Callers -> {"none", "lock", "read"}]
  /\ holder \in Connection!Callers \cup {NoOne}
  /\ stdin \in Seq(Connection!Callers) /\ stdout \in Seq(Frames)
  /\ serving = Connection!NotServing \/ serving \in [of : Connection!Callers, tools : Nat]
  /\ tell \in BOOLEAN /\ excused \in BOOLEAN /\ registered \in BOOLEAN

\* What is between the host and the plugin is the one call of the holder of
\* the mutex: its request, or what the plugin works on, or its answer.
OneCallOnWire ==
  /\ \A c \in Connection!Callers : rpc[c] = "read" <=> holder = c
  /\ stdin # <<>> => Len(stdin) = 1 /\ stdin[1] = holder /\ serving = Connection!NotServing
  /\ serving # Connection!NotServing => serving.of = holder
  /\ \A i \in Answers : /\ stdin = <<>> /\ serving = Connection!NotServing
                        /\ stdout[i].to = holder
  /\ \A i, j \in Answers : i = j
  /\ holder = NoOne => stdin = <<>> /\ Answers = {}

\* A caller waits while its call is under way; hooks ask one thing, refreshes
\* list, and the loader is at work until the plugin is in the map.
CallersAsk ==
  /\ \A c \in Connection!Callers : /\ waits[c] = "yes" <=> rpc[c] # "none"
                                   /\ waits[c] = "yes" => task[c] \in Asking
  /\ \A c \in Hooks : task[c] \in {"idle", "hook"}
  /\ \A c \in Refreshers : task[c] \in {"idle", "list", "prompt", "publish"}
  /\ task[Loader] # "hook"
  /\ registered => task[Loader] = "idle"

\* Once the changes were told and read: what a refresh got, is getting or has
\* published is the list the plugin has.
Told == ~ tell /\ \A i \in DOMAIN stdout : stdout[i].kind # "notification"

UpToDate ==
  /\ registered /\ (\A c \in Publishers : ~ Active(c)) => published = has
  /\ \A c \in Publishers :
       /\ task[c] \in {"prompt", "publish"} => held[c] = has
       /\ task[c] = "list" /\ rpc[c] = "read" =>
            /\ serving # Connection!NotServing => serving.tools = has
            /\ \A i \in Answers : stdout[i].tools = has \/ stdout[i].kind = "error"

Alone == \A c, d \in Publishers : Active(c) /\ Active(d) => c = d

Settled == ~ excused => Alone /\ (Told => UpToDate)

Wired == WireTypes /\ OneCallOnWire /\ CallersAsk /\ Settled

ConnectionInv == ~ dead => Wired

USE DEF Connection!Callers, Publishers

\* Who is who: no caller is two of them, and none is NoOne.
LEMMA Roles ==
  /\ Loader \notin Hooks \cup Refreshers /\ Hooks \cap Refreshers = {}
  /\ NoOne \notin Connection!Callers
BY ServicesAssumption DEF ServicesAssumption, Connection!ConnectionAssumption

\* What the tail of a sequence and a sequence with one more element hold.
LEMMA Tails ==
  ASSUME NEW S, NEW s \in Seq(S), s # <<>>
  PROVE  /\ Tail(s) \in Seq(S) /\ 1 \in DOMAIN s /\ Head(s) = s[1]
         /\ \A i \in DOMAIN Tail(s) : /\ i + 1 \in DOMAIN s /\ i + 1 # 1
                                      /\ Tail(s)[i] = s[i + 1]
OBVIOUS

LEMMA Appended ==
  ASSUME NEW S, NEW s \in Seq(S), NEW e \in S
  PROVE  /\ Append(s, e) \in Seq(S) /\ Append(s, e) # <<>>
         /\ Len(s) + 1 \in DOMAIN Append(s, e) /\ Append(s, e)[Len(s) + 1] = e
         /\ \A i \in DOMAIN s : i \in DOMAIN Append(s, e) /\ Append(s, e)[i] = s[i]
         /\ \A i \in DOMAIN Append(s, e) : i # Len(s) + 1 => i \in DOMAIN s
OBVIOUS

\* Steps that leave the pipes and the calls alone.
LEMMA StartHookKeeps ==
  ASSUME Wired, ~ dead, NEW c \in Connection!Callers, Connection!StartHook(c)
  PROVE  Wired'
<1>1. /\ c \in Hooks /\ task' = [task EXCEPT ![c] = "hook"] /\ task[c] = "idle"
      /\ UNCHANGED <<held, waits, rpc, holder, stdin, stdout, serving, has, tell,
                     registered, published, excused>>
  BY DEF Connection!StartHook, Connection!pluginVars
<1>2. \A d \in Publishers : task'[d] = task[d]
  BY <1>1, Roles DEF Wired, WireTypes
<1>3. WireTypes'
  BY <1>1 DEF Wired, WireTypes, Asking
<1>4. Answers' = Answers
  BY <1>1 DEF Answers
<1>5. OneCallOnWire'
  BY <1>1, <1>4 DEF Wired, OneCallOnWire
<1>6. CallersAsk'
  BY <1>1, <1>2, Roles DEF Wired, WireTypes, CallersAsk, Asking
<1>7. Settled'
  BY <1>1, <1>2, <1>4 DEF Wired, Settled, Alone, Active, Told, UpToDate
<1>8. QED
  BY <1>3, <1>5, <1>6, <1>7 DEF Wired

LEMMA CallKeeps ==
  ASSUME Wired, ~ dead, NEW c \in Connection!Callers, Connection!Call(c)
  PROVE  Wired'
<1>1. /\ task[c] \in Asking /\ rpc[c] = "none"
      /\ waits' = [waits EXCEPT ![c] = "yes"] /\ rpc' = [rpc EXCEPT ![c] = "lock"]
      /\ UNCHANGED <<task, held, holder, stdin, stdout, serving, has, tell,
                     registered, published, excused>>
  BY DEF Connection!Call, Connection!pluginVars, Asking
<1>2. WireTypes'
  BY <1>1 DEF Wired, WireTypes
<1>3. Answers' = Answers
  BY <1>1 DEF Answers
<1>4. \A d \in Connection!Callers : rpc'[d] = "read" <=> rpc[d] = "read"
  BY <1>1 DEF Wired, WireTypes
<1>5. OneCallOnWire'
  BY <1>1, <1>3, <1>4 DEF Wired, OneCallOnWire
<1>6. CallersAsk'
  BY <1>1 DEF Wired, WireTypes, CallersAsk, Asking
<1>7. Settled'
  BY <1>1, <1>3, <1>4 DEF Wired, Settled, Alone, Active, Told, UpToDate
<1>8. QED
  BY <1>2, <1>5, <1>6, <1>7 DEF Wired

LEMMA WriteKeeps ==
  ASSUME Wired, ~ dead, ~ dead', NEW c \in Connection!Callers, Connection!Write(c)
  PROVE  Wired'
<1>1. /\ rpc[c] = "lock" /\ holder = NoOne /\ holder' = c
      /\ stdin' = Append(stdin, c) /\ rpc' = [rpc EXCEPT ![c] = "read"]
      /\ UNCHANGED <<task, held, waits, stdout, serving, has, tell,
                     registered, published, excused>>
  BY DEF Connection!Write, Connection!pluginVars
<1>2. /\ stdin = <<>> /\ Answers = {} /\ serving = Connection!NotServing
      /\ \A d \in Connection!Callers : rpc[d] # "read"
  BY <1>1, Roles DEF Wired, OneCallOnWire, WireTypes
<1>3. Answers' = {}
  BY <1>1, <1>2 DEF Answers
<1>4. stdin' = <<c>>
  BY <1>1, <1>2
<1>5. WireTypes'
  BY <1>1, <1>4 DEF Wired, WireTypes
<1>6. \A d \in Connection!Callers : rpc'[d] = "read" <=> d = c
  BY <1>1, <1>2 DEF Wired, WireTypes
<1>7. OneCallOnWire'
  BY <1>1, <1>2, <1>3, <1>4, <1>6, Roles DEF OneCallOnWire
<1>8. CallersAsk'
  BY <1>1 DEF Wired, WireTypes, CallersAsk
<1>9. Settled'
  BY <1>1, <1>2, <1>3, <1>6 DEF Wired, Settled, Alone, Active, Told, UpToDate
<1>10. QED
  BY <1>5, <1>7, <1>8, <1>9 DEF Wired

\* Steps of the plugin: it works on the request of the holder and answers it;
\* a change of its tools, and the notification of it, are not told yet.
LEMMA PluginKeeps ==
  ASSUME Wired, ~ dead,
         Connection!Serve \/ Connection!Reply \/ Connection!ChangeTools
           \/ Connection!NotifyToolsChanged \/ Connection!Stray
  PROVE  Wired'
<1>1. UNCHANGED <<task, held, waits, rpc, holder, registered, published, excused>>
  BY DEF Connection!Serve, Connection!Reply, Connection!ChangeTools,
     Connection!NotifyToolsChanged, Connection!Stray, Connection!hostVars
<1>2. CallersAsk'
  BY <1>1 DEF Wired, CallersAsk
<1>3. Alone' <=> Alone
  BY <1>1 DEF Alone, Active
<1>4. CASE Connection!Serve
  <2>1. /\ serving = Connection!NotServing /\ stdin # <<>> /\ stdin' = Tail(stdin)
        /\ serving' = [of |-> Head(stdin), tools |-> has]
        /\ UNCHANGED <<has, tell, stdout>>
    BY <1>4 DEF Connection!Serve
  <2>2. /\ Len(stdin) = 1 /\ Head(stdin) = holder /\ stdin' = <<>> /\ Answers = {}
        /\ holder \in Connection!Callers
    BY <2>1, Roles DEF Wired, WireTypes, OneCallOnWire
  <2>3. Answers' = {}
    BY <2>1, <2>2 DEF Answers
  <2>4. WireTypes'
    BY <1>1, <2>1, <2>2 DEF Wired, WireTypes
  <2>5. OneCallOnWire'
    BY <1>1, <2>1, <2>2, <2>3, Roles DEF Wired, OneCallOnWire
  <2>6. Settled'
    BY <1>1, <1>3, <2>1, <2>3 DEF Wired, Settled, Active, Told, UpToDate
  <2>7. QED
    BY <1>2, <2>4, <2>5, <2>6 DEF Wired
<1>5. CASE Connection!Reply
  <2>1. PICK kind \in {"reply", "error"} :
          /\ serving # Connection!NotServing /\ serving' = Connection!NotServing
          /\ stdout' = Append(stdout, Connection!Frame(kind, serving.of, serving.tools))
          /\ UNCHANGED <<has, tell, stdin>>
    BY <1>5 DEF Connection!Reply
  <2> DEFINE n == Len(stdout) + 1
  <2>2. /\ serving \in [of : Connection!Callers, tools : Nat] /\ serving.of = holder
        /\ Answers = {} /\ stdin = <<>> /\ holder \in Connection!Callers
    BY <2>1 DEF Wired, WireTypes, OneCallOnWire
  <2>3. Connection!Frame(kind, serving.of, serving.tools) \in Frames
    BY <2>2 DEF Frames, Connection!Frame
  <2>4. /\ stdout' \in Seq(Frames)
        /\ \A i \in DOMAIN stdout : i \in DOMAIN stdout' /\ stdout'[i] = stdout[i]
        /\ \A i \in DOMAIN stdout' : i # n => i \in DOMAIN stdout
        /\ n \in DOMAIN stdout' /\ stdout'[n] = Connection!Frame(kind, serving.of, serving.tools)
    BY <2>1, <2>3, Appended DEF Wired, WireTypes
  <2>5. stdout'[n].kind = kind /\ stdout'[n].to = holder /\ stdout'[n].tools = serving.tools
    BY <2>2, <2>4 DEF Connection!Frame
  <2> HIDE DEF n
  <2>6. Answers' = {n}
    BY <2>2, <2>4, <2>5 DEF Answers
  <2>7. Told' <=> Told
    BY <2>1, <2>4, <2>5 DEF Told
  <2>8. WireTypes'
    BY <1>1, <2>1, <2>4 DEF Wired, WireTypes
  <2>9. OneCallOnWire'
    BY <1>1, <2>1, <2>2, <2>5, <2>6, Roles DEF Wired, OneCallOnWire
  <2>10. Settled'
    BY <1>1, <1>3, <2>1, <2>5, <2>6, <2>7 DEF Wired, Settled, Active, UpToDate
  <2>11. QED
    BY <1>2, <2>8, <2>9, <2>10 DEF Wired
<1>6. CASE Connection!ChangeTools
  <2>1. has' = has + 1 /\ tell' = TRUE /\ UNCHANGED <<serving, stdin, stdout>>
    BY <1>6 DEF Connection!ChangeTools
  <2>2. Answers' = Answers
    BY <2>1 DEF Answers
  <2>3. WireTypes'
    BY <1>1, <2>1 DEF Wired, WireTypes
  <2>4. OneCallOnWire'
    BY <1>1, <2>1, <2>2 DEF Wired, OneCallOnWire
  <2>5. Settled'
    BY <1>1, <1>3, <2>1 DEF Wired, Settled, Told
  <2>6. QED
    BY <1>2, <2>3, <2>4, <2>5 DEF Wired
<1>7. CASE Connection!NotifyToolsChanged \/ Connection!Stray
  <2>1. PICK kind \in {"notification", "stray"} :
          /\ stdout' = Append(stdout, Connection!Frame(kind, NoOne, 0))
          /\ kind = "stray" => tell' = tell
          /\ tell' \in BOOLEAN
          /\ UNCHANGED <<has, serving, stdin>>
    BY <1>7 DEF Connection!NotifyToolsChanged, Connection!Stray, Wired, WireTypes
  <2> DEFINE n == Len(stdout) + 1
  <2>2. Connection!Frame(kind, NoOne, 0) \in Frames
    BY DEF Frames, Connection!Frame
  <2>3. /\ stdout' \in Seq(Frames)
        /\ \A i \in DOMAIN stdout : i \in DOMAIN stdout' /\ stdout'[i] = stdout[i]
        /\ \A i \in DOMAIN stdout' : i # n => i \in DOMAIN stdout
        /\ n \in DOMAIN stdout' /\ stdout'[n] = Connection!Frame(kind, NoOne, 0)
    BY <2>1, <2>2, Appended DEF Wired, WireTypes
  <2>4. stdout'[n].kind = kind
    BY <2>3 DEF Connection!Frame
  <2> HIDE DEF n
  <2>5. Answers' = Answers
    BY <2>3, <2>4 DEF Answers
  <2>6. \A i \in Answers : stdout'[i] = stdout[i]
    BY <2>3 DEF Answers
  <2>7. Told' => Told
    BY <2>1, <2>3, <2>4 DEF Told
  <2>8. WireTypes'
    BY <1>1, <2>1, <2>3 DEF Wired, WireTypes
  <2>9. OneCallOnWire'
    BY <1>1, <2>1, <2>5, <2>6 DEF Wired, OneCallOnWire
  <2>10. Settled'
    BY <1>1, <1>3, <2>1, <2>5, <2>6, <2>7 DEF Wired, Settled, Active, UpToDate
  <2>11. QED
    BY <1>2, <2>8, <2>9, <2>10 DEF Wired
<1>8. QED
  BY <1>4, <1>5, <1>6, <1>7

\* The end of a load or a refresh, and the plugin's departure from the map.
LEMMA PublishKeeps ==
  ASSUME Wired, ~ dead, NEW c \in Connection!Callers, Connection!Publish(c)
  PROVE  Wired'
<1>1. /\ task[c] = "publish" /\ task' = [task EXCEPT ![c] = "idle"]
      /\ registered' = (registered \/ c = Loader)
      /\ published' = IF registered \/ c = Loader THEN held[c] ELSE published
      /\ UNCHANGED <<held, waits, rpc, holder, stdin, stdout, serving, has, tell, excused>>
  BY DEF Connection!Publish, Connection!pluginVars
<1>2. c \in Publishers /\ Active(c)
  BY <1>1 DEF Wired, CallersAsk, Active
<1>3. WireTypes'
  BY <1>1 DEF Wired, WireTypes
<1>4. Answers' = Answers
  BY <1>1 DEF Answers
<1>5. OneCallOnWire'
  BY <1>1, <1>4 DEF Wired, OneCallOnWire
<1>6. CallersAsk'
  BY <1>1, <1>2, Roles DEF Wired, WireTypes, CallersAsk, Asking
<1>7. ASSUME ~ excused' PROVE Alone' /\ (Told' => UpToDate')
  <2>1. ~ excused /\ Alone
    BY <1>1, <1>7 DEF Wired, Settled
  <2>2. \A d \in Publishers : task'[d] = "idle" \/ task'[d] = "failed"
    BY <1>1, <1>2, <2>1 DEF Alone, Active, Wired, WireTypes
  <2>3. Alone'
    BY <2>2 DEF Alone, Active
  <2>4. Told' => held[c] = has
    BY <1>1, <1>2, <2>1 DEF Told, Wired, Settled, UpToDate
  <2>5. Told' => UpToDate'
    BY <1>1, <1>2, <2>2, <2>4 DEF UpToDate, Wired, WireTypes
  <2>6. QED
    BY <2>3, <2>5
<1>8. QED
  BY <1>3, <1>5, <1>6, <1>7 DEF Wired, Settled

LEMMA EndKeeps ==
  ASSUME Wired, ~ dead, Connection!Unlink \/ Connection!StopProcess \/ Connection!Exit
  PROVE  Wired'
<1>1. /\ registered' = registered \/ registered' = FALSE
      /\ UNCHANGED <<task, held, waits, rpc, holder, stdin, stdout, serving, has, tell,
                     published, excused>>
  BY DEF Connection!Unlink, Connection!StopProcess, Connection!Exit, Connection!pluginVars,
     Connection!hostVars
<1>2. Answers' = Answers
  BY <1>1 DEF Answers
<1>3. WireTypes'
  BY <1>1 DEF Wired, WireTypes
<1>4. OneCallOnWire'
  BY <1>1, <1>2 DEF Wired, OneCallOnWire
<1>5. CallersAsk'
  BY <1>1 DEF Wired, CallersAsk
<1>6. Settled'
  BY <1>1, <1>2 DEF Wired, Settled, Alone, Active, Told, UpToDate
<1>7. QED
  BY <1>3, <1>4, <1>5, <1>6 DEF Wired

\* One frame read by the holder of the mutex.
LEMMA FrameRead ==
  ASSUME Wired, stdout # <<>>, stdout' = Tail(stdout)
  PROVE  /\ stdout' \in Seq(Frames) /\ Head(stdout) = stdout[1] /\ 1 \in DOMAIN stdout
         /\ stdout[1] \in Frames
         /\ \A i \in DOMAIN stdout' : /\ i + 1 \in DOMAIN stdout /\ i + 1 # 1
                                      /\ stdout'[i] = stdout[i + 1]
         /\ \A i \in Answers' : i + 1 \in Answers /\ i + 1 # 1
         /\ \A i, j \in Answers' : i = j
         /\ 1 \in Answers => Answers' = {}
<1>1. /\ stdout' \in Seq(Frames) /\ Head(stdout) = stdout[1] /\ 1 \in DOMAIN stdout
      /\ \A i \in DOMAIN stdout' : /\ i + 1 \in DOMAIN stdout /\ i + 1 # 1
                                   /\ stdout'[i] = stdout[i + 1]
  BY Tails DEF Wired, WireTypes
<1>2. stdout[1] \in Frames
  BY <1>1 DEF Wired, WireTypes
<1>3. \A i \in Answers' : i \in Nat /\ i + 1 \in Answers /\ i + 1 # 1
  BY <1>1 DEF Answers
<1>4. \A i, j \in Answers : i = j
  BY DEF Wired, OneCallOnWire
<1>5. \A i, j \in Answers' : i = j
  <2>1. TAKE i, j \in Answers'
  <2>2. i + 1 = j + 1 /\ i \in Nat /\ j \in Nat
    BY <1>3, <1>4
  <2>3. QED
    BY <2>2
<1>6. 1 \in Answers => Answers' = {}
  BY <1>3, <1>4
<1>7. QED
  BY <1>1, <1>2, <1>3, <1>5, <1>6

LEMMA ReadKeeps ==
  ASSUME Wired, ~ dead, NEW c \in Connection!Callers, Connection!Read(c)
  PROVE  Wired'
<1>1. /\ rpc[c] = "read" /\ stdout # <<>> /\ stdout' = Tail(stdout)
      /\ UNCHANGED <<registered, published, stdin, serving, has, tell>>
  BY DEF Connection!Read, Connection!pluginVars
<1> DEFINE f == stdout[1]
<1>2. f = Head(stdout) /\ 1 \in DOMAIN stdout /\ f \in Frames
  BY <1>1, FrameRead
<1>3. /\ holder = c /\ waits[c] = "yes" /\ task[c] \in Asking
      /\ \A d \in Connection!Callers : rpc[d] = "read" => d = c
  BY <1>1 DEF Wired, OneCallOnWire, CallersAsk
<1>4. stdout' \in Seq(Frames) /\ \A i, j \in Answers' : i = j
  BY <1>1, FrameRead
<1>5. Told' => (f.kind = "notification" \/ Told)
  <2>1. ASSUME Told', f.kind # "notification", NEW i \in DOMAIN stdout, i # 1
        PROVE  stdout[i].kind # "notification"
    <3>1. i - 1 \in DOMAIN stdout' /\ (i - 1) + 1 = i
      BY <1>1, <2>1 DEF Wired, WireTypes
    <3>2. stdout'[i - 1] = stdout[i]
      BY <1>1, <3>1, FrameRead
    <3>3. QED
      BY <2>1, <3>1, <3>2 DEF Told
  <2>2. QED
    BY <1>1, <2>1 DEF Told
<1>6. CASE f.kind \in {"reply", "error"}
  <2>1. 1 \in Answers
    BY <1>2, <1>6 DEF Answers
  <2>2. f.to = c /\ stdin = <<>> /\ serving = Connection!NotServing
    BY <1>3, <2>1 DEF Wired, OneCallOnWire
  <2>3. Answers' = {}
    BY <1>1, <2>1, FrameRead
  <2>4. /\ rpc' = [rpc EXCEPT ![c] = "none"] /\ holder' = NoOne
        /\ waits' = [waits EXCEPT ![c] = "no"]
        /\ Connection!Advance(c, f.kind = "reply", f.tools)
    BY <1>2, <1>3, <1>6, <2>2 DEF Connection!Read, Connection!Return
  <2> DEFINE t == task[c]
             ok == f.kind = "reply"
  <2>5. /\ task' = [task EXCEPT ![c] =
             IF t = "hook" \/ (t = "list" /\ c \in Refreshers /\ ~ ok) THEN "idle"
             ELSE IF t = "info" /\ ~ ok THEN "failed" ELSE Connection!NextTask(t)]
        /\ held' = [held EXCEPT ![c] = IF t = "list" /\ ok THEN f.tools ELSE @]
        /\ excused' = (excused \/ (t = "list" /\ ~ ok))
    BY <2>4 DEF Connection!Advance
  <2>6. /\ t = "hook" => task'[c] = "idle"
        /\ t = "info" => task'[c] \in {"failed", "list"}
        /\ t = "list" => task'[c] \in {"idle", "prompt"} /\ (ok => task'[c] = "prompt")
        /\ t = "prompt" => task'[c] = "publish"
        /\ \A d \in Connection!Callers : d # c => task'[d] = task[d]
    BY <2>5 DEF Connection!NextTask, Wired, WireTypes
  <2>7. /\ t = "list" /\ ok => held'[c] = f.tools
        /\ t = "list" \/ held'[c] = held[c]
        /\ \A d \in Connection!Callers : d # c => held'[d] = held[d]
    BY <2>5 DEF Wired, WireTypes
  <2>8. /\ task' \in [Connection!Callers -> Asking \cup {"idle", "publish", "failed"}]
        /\ held' \in [Connection!Callers -> Nat] /\ excused' \in BOOLEAN
    <3>1. task'[c] \in Asking \cup {"idle", "publish", "failed"}
      BY <1>3, <2>6 DEF Asking
    <3>2. task' = [task EXCEPT ![c] = task'[c]]
      BY <2>5 DEF Wired, WireTypes
    <3>3. f.tools \in Nat
      BY <1>2 DEF Frames
    <3>4. QED
      BY <2>5, <3>1, <3>2, <3>3 DEF Wired, WireTypes
  <2>9. WireTypes'
    BY <1>1, <1>4, <2>4, <2>8 DEF Wired, WireTypes
  <2>10. /\ \A d \in Connection!Callers : rpc'[d] # "read"
         /\ rpc'[c] = "none" /\ waits'[c] = "no"
         /\ \A d \in Connection!Callers : d # c => rpc'[d] = rpc[d] /\ waits'[d] = waits[d]
    BY <1>3, <2>4 DEF Wired, WireTypes
  <2>11. OneCallOnWire'
    BY <1>1, <2>2, <2>3, <2>4, <2>10, Roles DEF OneCallOnWire
  <2>12. /\ c \in Hooks => t = "hook" /\ task'[c] = "idle"
         /\ c \in Refreshers => /\ t \in {"list", "prompt"}
                                /\ task'[c] \in {"idle", "prompt", "publish"}
         /\ c = Loader => t # "hook" /\ ~ registered /\ task'[c] # "hook"
    BY <1>3, <2>6 DEF Wired, CallersAsk, Asking
  <2>13. CallersAsk'
    <3>1. \A d \in Connection!Callers : /\ waits'[d] = "yes" <=> rpc'[d] # "none"
                                        /\ waits'[d] = "yes" => task'[d] \in Asking
      BY <2>6, <2>10 DEF Wired, CallersAsk
    <3>2. \A d \in Hooks : task'[d] \in {"idle", "hook"}
      BY <2>6, <2>12 DEF Wired, CallersAsk
    <3>3. \A d \in Refreshers : task'[d] \in {"idle", "list", "prompt", "publish"}
      BY <2>6, <2>12 DEF Wired, CallersAsk
    <3>4. task'[Loader] # "hook" /\ (registered' => task'[Loader] = "idle")
      BY <1>1, <2>6, <2>12 DEF Wired, CallersAsk
    <3>5. QED
      BY <3>1, <3>2, <3>3, <3>4 DEF CallersAsk
  <2>14. ASSUME ~ excused' PROVE Alone' /\ (Told' => UpToDate')
    <3>1. ~ excused /\ (t = "list" => ok) /\ Alone
      BY <2>5, <2>14 DEF Wired, Settled
    <3>2. \A d \in Publishers : Active(d)' => Active(d)
      BY <1>3, <2>6 DEF Active, Asking
    <3>3. Alone'
      BY <3>1, <3>2 DEF Alone
    <3>4. ASSUME Told' PROVE UpToDate'
      <4>1. UpToDate
        BY <1>5, <1>6, <3>1, <3>4 DEF Wired, Settled
      <4>2. t = "list" /\ c \in Publishers => f.tools = has
        BY <1>3, <1>1, <2>1, <3>1, <4>1 DEF UpToDate
      <4>3. ASSUME registered', \A d \in Publishers : ~ Active(d)' PROVE published' = has'
        <5>1. c \in Hooks
          BY <2>6, <2>12, <1>1, <1>3, <3>1, <4>3 DEF Active
        <5>2. \A d \in Publishers : ~ Active(d)
          BY <2>6, <4>3, <5>1, Roles DEF Active
        <5>3. QED
          BY <1>1, <4>1, <4>3, <5>2 DEF UpToDate
      <4>4. ASSUME NEW d \in Publishers, task'[d] \in {"prompt", "publish"} PROVE held'[d] = has'
        <5>1. CASE d # c
          BY <1>1, <2>6, <2>7, <4>1, <4>4, <5>1 DEF UpToDate
        <5>2. CASE d = c
          BY <1>1, <1>3, <2>6, <2>7, <3>1, <4>1, <4>2, <4>4, <5>2 DEF UpToDate, Asking
        <5>3. QED
          BY <5>1, <5>2
      <4>5. QED
        BY <2>10, <4>3, <4>4 DEF UpToDate
    <3>5. QED
      BY <3>3, <3>4
  <2>15. QED
    BY <2>9, <2>11, <2>13, <2>14 DEF Wired, Settled
<1>7. CASE f.kind \in {"notification", "stray"}
  <2>1. /\ UNCHANGED <<held, waits, rpc, holder>>
        /\ \/ f.kind = "notification" /\ Connection!Refresh
           \/ f.kind = "stray" /\ UNCHANGED <<task, excused>>
    BY <1>2, <1>7 DEF Connection!Read, Connection!IsNotification
  <2>2. OneCallOnWire'
    <3>1. \A i \in Answers' : i + 1 \in Answers /\ stdout'[i] = stdout[i + 1]
      BY <1>1, FrameRead DEF Answers
    <3>2. \A i \in Answers' : /\ stdin' = <<>> /\ serving' = Connection!NotServing
                               /\ stdout'[i].to = holder'
      BY <1>1, <2>1, <3>1 DEF Wired, OneCallOnWire
    <3>3. holder' = NoOne => stdin' = <<>> /\ Answers' = {}
      BY <1>1, <2>1, <3>1 DEF Wired, OneCallOnWire
    <3>4. /\ \A d \in Connection!Callers : rpc'[d] = "read" <=> holder' = d
          /\ stdin' # <<>> => Len(stdin') = 1 /\ stdin'[1] = holder' /\ serving' = Connection!NotServing
          /\ serving' # Connection!NotServing => serving'.of = holder'
      BY <1>1, <2>1 DEF Wired, OneCallOnWire
    <3>5. QED
      BY <1>4, <3>2, <3>3, <3>4 DEF OneCallOnWire
  <2>3. CASE f.kind = "notification" /\ Connection!Refresh
    <3>1. PICK r \in Refreshers :
            /\ task[r] = "idle" /\ waits[r] = "no" /\ rpc[r] = "none"
            /\ task' = [task EXCEPT ![r] = "list"]
            /\ excused' = \E d \in (Refreshers \cup {Loader}) \ {r} : task[d] \notin {"idle", "failed"}
      BY <2>3 DEF Connection!Refresh
    <3>2. task'[r] = "list" /\ \A d \in Connection!Callers : d # r => task'[d] = task[d]
      BY <3>1 DEF Wired, WireTypes
    <3>3. WireTypes'
      BY <1>1, <1>4, <2>1, <3>1 DEF Wired, WireTypes, Asking
    <3>4. CallersAsk'
      BY <1>1, <2>1, <3>1, <3>2, Roles DEF Wired, CallersAsk
    <3>5. ASSUME ~ excused' PROVE Alone' /\ UpToDate'
      <4>1. \A d \in Publishers : d # r => task'[d] \in {"idle", "failed"}
        BY <3>1, <3>2, <3>5
      <4>2. Alone'
        BY <4>1 DEF Alone, Active
      <4>3. UpToDate'
        BY <2>1, <3>1, <3>2, <4>1 DEF UpToDate, Active
      <4>4. QED
        BY <4>2, <4>3
    <3>6. QED
      BY <2>2, <3>3, <3>4, <3>5 DEF Wired, Settled
  <2>4. CASE f.kind = "stray" /\ UNCHANGED <<task, excused>>
    <3>1. WireTypes'
      BY <1>1, <1>4, <2>1, <2>4 DEF Wired, WireTypes
    <3>2. CallersAsk'
      BY <1>1, <2>1, <2>4 DEF Wired, CallersAsk
    <3>3. Alone' <=> Alone
      BY <2>4 DEF Alone, Active
    <3>4. \A i \in Answers' : i + 1 \in Answers /\ stdout'[i] = stdout[i + 1]
      BY <1>1, FrameRead DEF Answers
    <3>5. UpToDate => UpToDate'
      BY <1>1, <2>1, <2>4, <3>4 DEF UpToDate, Active
    <3>6. Settled'
      BY <1>5, <2>4, <3>3, <3>5 DEF Wired, Settled
    <3>7. QED
      BY <2>2, <3>1, <3>2, <3>6 DEF Wired
  <2>5. QED
    BY <2>1, <2>3, <2>4
<1>8. QED
  BY <1>2, <1>6, <1>7 DEF Frames

\* What ends the transport leaves nothing to show.
LEMMA ConnectionSteps ==
  ASSUME ConnectionInv, ~ dead', Connection!Next
  PROVE  Wired'
<1>1. ~ dead
  BY DEF Connection!Next, Connection!StartHook, Connection!Call, Connection!Write, Connection!Read,
     Connection!ReadFails, Connection!Timeout, Connection!TimeoutCloses, Connection!Publish,
     Connection!Unlink, Connection!StopProcess, Connection!Exit, Connection!Reap,
     Connection!Serve, Connection!Reply, Connection!ChangeTools, Connection!NotifyToolsChanged,
     Connection!Stray, Connection!hostVars
<1>2. Wired
  BY <1>1 DEF ConnectionInv
<1>3. ASSUME NEW c \in Connection!Callers
      PROVE  ~ Connection!ReadFails(c) /\ ~ Connection!Timeout(c) /\ ~ Connection!TimeoutCloses(c)
  BY <1>2 DEF Connection!ReadFails, Connection!Timeout, Connection!TimeoutCloses, Wired, WireTypes
<1>4. ~ Connection!Reap
  BY DEF Connection!Reap
<1>5. ASSUME NEW c \in Connection!Callers,
             Connection!StartHook(c) \/ Connection!Call(c) \/ Connection!Write(c)
               \/ Connection!Read(c) \/ Connection!Publish(c)
      PROVE  Wired'
  BY <1>1, <1>2, <1>5, StartHookKeeps, CallKeeps, WriteKeeps, ReadKeeps, PublishKeeps
<1>6. CASE Connection!Serve \/ Connection!Reply \/ Connection!ChangeTools
             \/ Connection!NotifyToolsChanged \/ Connection!Stray
  BY <1>1, <1>2, <1>6, PluginKeeps
<1>7. CASE Connection!Unlink \/ Connection!StopProcess \/ Connection!Exit
  BY <1>1, <1>2, <1>7, EndKeeps
<1>8. QED
  BY <1>3, <1>4, <1>5, <1>6, <1>7 DEF Connection!Next

LEMMA ConnectionInvariant == ServicesSpec => []ConnectionInv
<1>1. ASSUME ServicesInit PROVE Wired
  <2>1. Connection!Init
    BY <1>1 DEF ServicesInit
  <2>2. /\ task = [c \in Connection!Callers |-> IF c = Loader THEN "info" ELSE "idle"]
        /\ held = [c \in Connection!Callers |-> 0]
        /\ waits = [c \in Connection!Callers |-> "no"] /\ rpc = [c \in Connection!Callers |-> "none"]
        /\ holder = NoOne /\ stdin = <<>> /\ stdout = <<>> /\ serving = Connection!NotServing
        /\ has = 1 /\ tell = FALSE /\ registered = FALSE /\ published = 0 /\ excused = FALSE
    BY <2>1 DEF Connection!Init
  <2>3. Answers = {}
    BY <2>2 DEF Answers
  <2>4. WireTypes
    <3>1. task \in [Connection!Callers -> Asking \cup {"idle", "publish", "failed"}]
      BY <2>2 DEF Asking
    <3>2. stdin \in Seq(Connection!Callers) /\ stdout \in Seq(Frames)
      BY <2>2
    <3>3. /\ held \in [Connection!Callers -> Nat]
          /\ waits \in [Connection!Callers -> {"no", "yes"}]
          /\ rpc \in [Connection!Callers -> {"none", "lock", "read"}]
      BY <2>2
    <3>4. QED
      BY <2>2, <3>1, <3>2, <3>3 DEF WireTypes
  <2>5. OneCallOnWire
    BY <2>2, <2>3, Roles DEF OneCallOnWire
  <2>6. CallersAsk
    BY <2>2, Roles DEF CallersAsk
  <2>7. Settled
    BY <2>2, Roles DEF Settled, Alone, Active, UpToDate
  <2>8. QED
    BY <2>4, <2>5, <2>6, <2>7 DEF Wired
<1>2. ASSUME ConnectionInv, [ServicesNext]_servicesVars PROVE ConnectionInv'
  <2>1. CASE UNCHANGED connectionVars
    <3>1. UNCHANGED <<task, held, waits, rpc, holder, stdin, stdout, dead, serving, has, tell,
                      registered, published, excused>>
      BY <2>1 DEF connectionVars
    <3>2. Answers' = Answers
      BY <3>1 DEF Answers
    <3>3. ASSUME Wired PROVE Wired'
      <4>1. WireTypes' /\ CallersAsk'
        BY <3>1, <3>3 DEF Wired, WireTypes, CallersAsk
      <4>2. OneCallOnWire'
        BY <3>1, <3>2, <3>3 DEF Wired, OneCallOnWire
      <4>3. Settled'
        BY <3>1, <3>2, <3>3 DEF Wired, Settled, Alone, Active, Told, UpToDate
      <4>4. QED
        BY <4>1, <4>2, <4>3 DEF Wired
    <3>4. QED
      BY <1>2, <3>1, <3>3 DEF ConnectionInv
  <2>2. CASE Connection!Next
    BY <1>2, <2>2, ConnectionSteps DEF ConnectionInv
  <2>3. QED
    BY <1>2, <2>1, <2>2 DEF ServicesNext, servicesVars
<1>3. ServicesInit => ConnectionInv
  BY <1>1 DEF ConnectionInv
<1>4. QED
  BY <1>2, <1>3, PTL DEF ServicesSpec

\* A client that is in the map and whose plugin has told its changes lists the
\* tools the plugin has, once every refresh is over and none has failed or
\* overlapped another (callJSONRPCWithTimeout, attachNotifications, refreshTools).
THEOREM RefreshedToolsAreListed == ServicesSpec => []ToolsPublished
<1>1. ASSUME ConnectionInv PROVE ToolsPublished
  <2> SUFFICES ASSUME registered, ~ dead, ~ excused, ~ tell,
                      \A i \in DOMAIN stdout : stdout[i].kind # "notification",
                      \A r \in Refreshers : task[r] = "idle"
               PROVE  published = has
    BY DEF ToolsPublished, Connection!ToolsPublished
  <2>1. Wired
    BY <1>1 DEF ConnectionInv
  <2>2. UpToDate
    BY <2>1 DEF Wired, Settled, Told
  <2>3. \A c \in Publishers : ~ Active(c)
    BY <2>1 DEF Wired, CallersAsk, Active
  <2>4. QED
    BY <2>2, <2>3 DEF UpToDate
<1>2. QED
  BY <1>1, ConnectionInvariant, PTL

HIDE DEF Connection!Callers, Publishers

-----------------------------------------------------------------------------
(* The newest of a set of messages                                           *)

LEMMA Least ==
  ASSUME NEW S \in SUBSET Nat, S # {}
  PROVE  \E i \in S : \A j \in S : i <= j
<1> DEFINE R == OpToRel(<, Nat)
<1>1. IsWellFoundedOn(R, Nat)
  BY NatLessThanWellFounded
<1>2. \A i, j \in Nat : <<j, i>> \in R <=> j < i
  BY DEF OpToRel
<1> HIDE DEF R
<1>3. PICK i \in S : \A j \in S : <<j, i>> \notin R
  BY <1>1, WFMin
<1>4. i \in Nat /\ \A j \in S : j \in Nat /\ ~ (j < i)
  BY <1>2, <1>3
<1>5. QED
  BY <1>4

\* The oldest of the messages, as the code reads it from the end of a page.
LEMMA OldestIsLeast ==
  ASSUME NEW S \in SUBSET Nat, S # {}
  PROVE  History!Oldest(S) \in S /\ \A j \in S : History!Oldest(S) <= j
BY Least DEF History!Oldest

\* A finite set of numbers has a greatest: the least of its upper bounds.
LEMMA Greatest ==
  ASSUME NEW n \in Nat, NEW S \in SUBSET (1..n), S # {}
  PROVE  \E i \in S : \A j \in S : j <= i
<1> DEFINE U == {u \in Nat : \A j \in S : j <= u}
<1>1. n \in U
  OBVIOUS
<1>2. PICK u \in U : \A v \in U : u <= v
  BY <1>1, Least
<1>3. u \in Nat /\ \A j \in S : j <= u /\ j \in Nat \ {0}
  OBVIOUS
<1>4. u \in S
  <2> SUFFICES ASSUME u \notin S PROVE FALSE
    OBVIOUS
  <2>1. \A j \in S : j <= u - 1
    BY <1>3
  <2>2. u - 1 \in Nat
    <3>1. PICK j \in S : TRUE
      OBVIOUS
    <3>2. j \in Nat /\ j # 0 /\ j <= u /\ u \in Nat
      BY <1>3
    <3>3. QED
      BY <3>2
  <2>3. u - 1 \in U
    BY <2>1, <2>2
  <2>4. QED
    BY <1>2, <1>3, <2>3
<1>5. QED
  BY <1>3, <1>4

LEMMA MessagesFinite ==
  ASSUME NEW n \in Nat, NEW S \in SUBSET (1..n)
  PROVE  IsFiniteSet(S) /\ Cardinality(S) \in Nat
<1>1. IsFiniteSet(1..n)
  BY FS_Interval
<1>2. IsFiniteSet(S)
  BY <1>1, FS_Subset
<1>3. QED
  BY <1>2, FS_CardinalityType

NewerThan(x, S) == {j \in S : j > x}

\* The module of the history counts as this one does.
LEMMA SameCount == \A S : History!Cardinality(S) = Cardinality(S)
BY Zenon DEF History!Cardinality, Cardinality, History!IsFiniteSet, IsFiniteSet

\* The newest c of a set are no more than k, no older member is newer, they are
\* all of it when there are fewer, and there is one.
LEMMA NewestFacts ==
  ASSUME NEW n \in Nat, NEW S \in SUBSET (1..n), NEW c \in Int
  PROVE  /\ History!Newest(c, S) \in SUBSET S
         /\ \A m \in S : \A x \in History!Newest(c, S) : m >= x => m \in History!Newest(c, S)
         /\ c >= 0 => Cardinality(History!Newest(c, S)) <= c
         /\ Cardinality(History!Newest(c, S)) < c => History!Newest(c, S) = S
         /\ c > 0 /\ S # {} => History!Newest(c, S) # {}
<1> DEFINE N == History!Newest(c, S)
<1>1. \A m : m \in N <=> m \in S /\ Cardinality(NewerThan(m, S)) < c
  <2>1. \A m : {k \in S : k > m} = NewerThan(m, S)
    BY Zenon DEF NewerThan
  <2>2. N = {m \in S : Cardinality({k \in S : k > m}) < c}
    BY SameCount DEF History!Newest
  <2>3. QED
    BY <2>1, <2>2
<1> HIDE DEF N
<1>2. /\ \A m \in S : m \in Nat
      /\ \A m, j \in S : j \in NewerThan(m, S) <=> j > m
      /\ \A m \in S : NewerThan(m, S) \in SUBSET S
  BY DEF NewerThan
<1>3. \A T \in SUBSET S : IsFiniteSet(T) /\ Cardinality(T) \in Nat
  BY MessagesFinite
<1>4. \A T, V \in SUBSET S : T \subseteq V => Cardinality(T) <= Cardinality(V)
  BY <1>3, FS_Subset
<1>5. ASSUME NEW m \in S, NEW x \in N, m >= x PROVE m \in N
  <2>1. /\ NewerThan(m, S) \subseteq NewerThan(x, S)
        /\ NewerThan(x, S) \in SUBSET S /\ NewerThan(m, S) \in SUBSET S
    <3>1. x \in S /\ m \in S
      BY <1>1, <1>5
    <3>2. \A j \in S : j > m => j > x
      BY <1>2, <1>5, <3>1
    <3>3. QED
      BY <1>2, <3>1, <3>2
  <2>2. Cardinality(NewerThan(m, S)) <= Cardinality(NewerThan(x, S))
    BY <1>4, <2>1
  <2>3. Cardinality(NewerThan(m, S)) \in Nat /\ Cardinality(NewerThan(x, S)) \in Nat
    BY <1>3, <2>1
  <2>4. QED
    BY <1>1, <2>2, <2>3
<1>6. ASSUME c >= 0, N # {} PROVE Cardinality(N) <= c
  <2>1. PICK y \in N : \A j \in N : y <= j
    BY <1>1, <1>2, <1>6, Least
  <2>2. N \ {y} \subseteq NewerThan(y, S)
    <3>1. y \in S /\ \A j \in N \ {y} : j \in S /\ j \in Nat /\ y \in Nat /\ j # y /\ y <= j
      BY <1>1, <1>2, <2>1
    <3>2. \A j \in N \ {y} : j > y
      BY <3>1
    <3>3. QED
      BY <1>2, <3>1, <3>2
  <2>3. Cardinality(NewerThan(y, S)) < c /\ NewerThan(y, S) \in SUBSET S /\ N \in SUBSET S
    BY <1>1, <1>2
  <2>4. Cardinality(N \ {y}) <= Cardinality(NewerThan(y, S))
    BY <1>4, <2>2, <2>3
  <2>5. Cardinality(N \ {y}) = Cardinality(N) - 1
    BY <1>3, <2>1, <2>3, FS_RemoveElement
  <2>6. Cardinality(N) \in Nat /\ Cardinality(NewerThan(y, S)) \in Nat
    BY <1>3, <2>3
  <2>7. QED
    BY <2>3, <2>4, <2>5, <2>6
<1>7. c >= 0 => Cardinality(N) <= c
  BY <1>6, FS_EmptySet
<1>8. ASSUME Cardinality(N) < c, N # S PROVE FALSE
  <2>1. S \ N \in SUBSET (1..n) /\ S \ N # {}
    BY <1>1, <1>8
  <2>2. PICK x \in S \ N : \A j \in S \ N : j <= x
    BY <2>1, Greatest
  <2>3. NewerThan(x, S) \subseteq N /\ NewerThan(x, S) \in SUBSET S /\ N \in SUBSET S
    <3>1. x \in S /\ \A j \in S : j > x => j \in N
      BY <1>2, <2>2
    <3>2. N \in SUBSET S
      BY <1>1
    <3>3. QED
      BY <1>2, <3>1, <3>2
  <2>4. ~ Cardinality(NewerThan(x, S)) < c
    BY <1>1, <2>2
  <2>5. /\ Cardinality(NewerThan(x, S)) <= Cardinality(N)
        /\ Cardinality(NewerThan(x, S)) \in Nat /\ Cardinality(N) \in Nat
    BY <1>3, <1>4, <2>3
  <2>6. QED
    BY <1>8, <2>4, <2>5
<1>9. ASSUME c > 0, S # {} PROVE N # {}
  <2>1. PICK x \in S : \A j \in S : j <= x
    BY <1>9, Greatest
  <2>2. NewerThan(x, S) = {}
    <3>1. \A j \in S : ~ (j > x)
      BY <1>2, <2>1
    <3>2. QED
      BY <1>2, <3>1
  <2>3. Cardinality(NewerThan(x, S)) = 0
    BY <2>2, FS_EmptySet
  <2>4. QED
    BY <1>1, <1>9, <2>1, <2>3
<1>10. N \in SUBSET S
  BY <1>1
<1>11. QED
  BY <1>5, <1>7, <1>8, <1>9, <1>10 DEF N

-----------------------------------------------------------------------------
(* The history of a channel                                                  *)

HistoryTypes ==
  /\ posted \in Nat /\ deleted \in SUBSET (1..posted) /\ given \in SUBSET (1..posted)
  /\ fetching \in [Replies -> {"idle", "fetch", "cut", "apply"}]
  /\ got \in [Replies -> SUBSET (1..posted)] /\ before \in [Replies -> Nat]
  /\ broken \in [Replies -> BOOLEAN] /\ shared \in [Replies -> BOOLEAN]
  /\ cutoff \in Nat /\ anchor \in Nat /\ clear \in {"idle", "reset"}

\* A reply that has the history to itself has it to itself.
Undisturbed(r) == fetching[r] # "idle" /\ ~ shared[r]

OneUndisturbed ==
  /\ \A r \in Replies : Undisturbed(r) => /\ clear = "idle"
                                          /\ \A q \in Replies : q # r => fetching[q] = "idle"
  /\ clear = "reset" => given = {}

InReach(m) == m >= anchor /\ m > cutoff
Newer(m, S) == \A k \in S : m > k

\* The window that was given has no gap that an older message could fill.
GivenIsWhole ==
  given # {} =>
    /\ anchor # 0 /\ \A m \in given : InReach(m)
    /\ \A m \in History!Existing : InReach(m) => m \in given \/ Newer(m, given)

\* What was fetched: down to b, all of what exists and was given; no message
\* that the given window has no room for; and, in the end, no gap, and all
\* that a window can show unless that is too much.
ReadDownTo(r, b) ==
  /\ \A x \in got[r] : x >= b
  /\ \A m \in History!Existing : m >= b => m \in got[r] \/ Newer(m, got[r])
  /\ \A m \in given : m >= b => m \in got[r] \cup deleted

FitsGiven(r) == \A m \in got[r] : InReach(m) => m \in given \/ Newer(m, given)

Gapless(r) ==
  \A m \in History!Existing : \A x \in got[r] : m >= x => m \in got[r] \/ Newer(m, got[r])

Complete(r) ==
  /\ given \subseteq got[r] \cup deleted
  /\ \A m \in History!Existing : InReach(m) => m \in got[r] \/ Newer(m, got[r])

Overflowed(r) == Cardinality({m \in got[r] : InReach(m)}) > Limit + Flush

WellRead(r) ==
  /\ FitsGiven(r)
  /\ fetching[r] = "fetch" => ReadDownTo(r, before[r])
  /\ fetching[r] \in {"cut", "apply"} =>
       Gapless(r) /\ (broken[r] \/ Complete(r) \/ Overflowed(r))
  /\ fetching[r] = "apply" => \A m \in got[r] : m > cutoff

WindowInv == GivenIsWhole /\ \A r \in Replies : Undisturbed(r) => WellRead(r)

HistoryInv == HistoryTypes /\ OneUndisturbed /\ (Flush # 0 => WindowInv)

LEMMA HistoryConstants ==
  /\ Limit \in Nat \ {0} /\ Flush \in Nat /\ PageLimit \in Nat \ {0}
  /\ Limit \in Int /\ Limit >= 0 /\ Limit > 0
BY ServicesAssumption DEF ServicesAssumption, History!HistoryAssumption

\* While a reply is at work, no other has the history to itself.
LEMMA NoOtherUndisturbed ==
  ASSUME OneUndisturbed, NEW r \in Replies, fetching[r] # "idle", NEW q \in Replies, q # r
  PROVE  ~ Undisturbed(q)
BY DEF OneUndisturbed

\* Discord: messages are posted and deleted at any time.
LEMMA MessagesKeep ==
  ASSUME HistoryInv, History!Post \/ \E m \in 1..posted : History!Delete(m)
  PROVE  HistoryInv'
<1>1. UNCHANGED <<fetching, got, before, broken, shared, cutoff, anchor, clear, given>>
  BY DEF History!Post, History!Delete, History!fetchVars, History!windowVars
<1>2. /\ posted \in Nat /\ posted' \in {posted, posted + 1}
      /\ deleted \subseteq deleted' /\ deleted' \in SUBSET (1..posted')
  <2>1. posted \in Nat /\ deleted \in SUBSET (1..posted)
    BY DEF HistoryInv, HistoryTypes
  <2>2. CASE History!Post
    <3>1. posted' = posted + 1 /\ deleted' = deleted
      BY <2>2 DEF History!Post
    <3>2. QED
      BY <2>1, <3>1
  <2>3. CASE \E m \in 1..posted : History!Delete(m)
    <3>1. PICK m \in 1..posted : posted' = posted /\ deleted' = deleted \cup {m}
      BY <2>3 DEF History!Delete
    <3>2. QED
      BY <2>1, <3>1
  <2>4. QED
    BY <2>2, <2>3
<1>3. \A m \in History!Existing' : m \in History!Existing \/ m = posted + 1
  BY <1>2 DEF History!Existing
<1>4. ASSUME NEW S \in SUBSET (1..posted), NEW m \in History!Existing'
      PROVE  m \in History!Existing \/ Newer(m, S)
  BY <1>2, <1>3 DEF Newer
<1>5. \A S : S \in SUBSET (1..posted) => S \in SUBSET (1..posted')
  BY <1>2
<1>6. got \in [Replies -> SUBSET (1..posted)] /\ given \in SUBSET (1..posted)
  BY DEF HistoryInv, HistoryTypes
<1>7. HistoryTypes'
  BY <1>1, <1>2, <1>5, <1>6 DEF HistoryInv, HistoryTypes
<1>8. \A r \in Replies : Undisturbed(r)' <=> Undisturbed(r)
  BY <1>1 DEF Undisturbed
<1>9. OneUndisturbed'
  BY <1>1, <1>8 DEF HistoryInv, OneUndisturbed
<1>10. ASSUME Flush # 0 PROVE WindowInv'
  <2>1. GivenIsWhole'
    BY <1>1, <1>4, <1>6, <1>10 DEF HistoryInv, WindowInv, GivenIsWhole, InReach, Newer
  <2>2. ASSUME NEW r \in Replies, Undisturbed(r) PROVE WellRead(r)'
    <3>1. WellRead(r) /\ got[r] \in SUBSET (1..posted)
      BY <1>6, <1>10, <2>2 DEF HistoryInv, WindowInv
    <3>2. FitsGiven(r)'
      BY <1>1, <3>1 DEF WellRead, FitsGiven, InReach, Newer
    <3>3. ASSUME fetching[r] = "fetch" PROVE ReadDownTo(r, before[r])'
      BY <1>1, <1>2, <1>4, <3>1, <3>3 DEF WellRead, ReadDownTo, Newer
    <3>4. Gapless(r) => Gapless(r)'
      BY <1>1, <1>4, <3>1 DEF Gapless, Newer
    <3>5. Complete(r) => Complete(r)'
      BY <1>1, <1>2, <1>4, <3>1 DEF Complete, InReach, Newer
    <3>6. Overflowed(r) => Overflowed(r)'
      BY <1>1 DEF Overflowed, InReach
    <3>7. QED
      BY <1>1, <3>1, <3>2, <3>3, <3>4, <3>5, <3>6 DEF WellRead
  <2>3. QED
    BY <1>8, <2>1, <2>2 DEF WindowInv
<1>11. QED
  BY <1>7, <1>9, <1>10 DEF HistoryInv

LEMMA BeginKeeps ==
  ASSUME HistoryInv, NEW r \in Replies, History!Begin(r)
  PROVE  HistoryInv'
<1>1. /\ fetching[r] = "idle" /\ fetching' = [fetching EXCEPT ![r] = "fetch"]
      /\ got' = [got EXCEPT ![r] = {}] /\ before' = [before EXCEPT ![r] = posted + 1]
      /\ broken' = [broken EXCEPT ![r] = FALSE]
      /\ UNCHANGED <<posted, deleted, cutoff, anchor, clear, given>>
  BY DEF History!Begin, History!windowVars
<1>2. shared' = [q \in Replies |-> IF q = r THEN History!Active # {} \/ clear # "idle"
                                   ELSE shared[q] \/ q \in History!Active]
  BY DEF History!Begin
<1>3. HistoryTypes'
  <2>1. shared' \in [Replies -> BOOLEAN]
    BY <1>2 DEF HistoryInv, HistoryTypes
  <2>2. /\ fetching' \in [Replies -> {"idle", "fetch", "cut", "apply"}]
        /\ broken' \in [Replies -> BOOLEAN]
    BY <1>1 DEF HistoryInv, HistoryTypes
  <2>3. got' \in [Replies -> SUBSET (1..posted)] /\ before' \in [Replies -> Nat]
    BY <1>1 DEF HistoryInv, HistoryTypes
  <2>4. QED
    BY <1>1, <2>1, <2>2, <2>3 DEF HistoryInv, HistoryTypes
<1>4. ASSUME NEW q \in Replies, Undisturbed(q)'
      PROVE  q = r /\ clear = "idle" /\ \A p \in Replies : fetching[p] = "idle"
  <2>1. q = r
    BY <1>1, <1>2, <1>4 DEF Undisturbed, History!Active, HistoryInv, HistoryTypes
  <2>2. History!Active = {} /\ clear = "idle"
    BY <1>2, <1>4, <2>1 DEF Undisturbed
  <2>3. QED
    BY <2>1, <2>2 DEF History!Active
<1>5. OneUndisturbed'
  BY <1>1, <1>4 DEF HistoryInv, HistoryTypes, OneUndisturbed
<1>6. ASSUME Flush # 0 PROVE WindowInv'
  <2>1. GivenIsWhole'
    BY <1>1, <1>6 DEF HistoryInv, WindowInv, GivenIsWhole, InReach, Newer, History!Existing
  <2>2. /\ got'[r] = {} /\ before'[r] = posted + 1 /\ fetching'[r] = "fetch"
        /\ \A m \in given : m \in Nat /\ ~ (m >= posted + 1)
    BY <1>1 DEF HistoryInv, HistoryTypes
  <2>3. WellRead(r)'
    BY <1>1, <2>2 DEF WellRead, FitsGiven, ReadDownTo, Newer
  <2>4. QED
    BY <1>4, <2>1, <2>3 DEF WindowInv
<1>7. QED
  BY <1>3, <1>5, <1>6 DEF HistoryInv

\* A fetch that goes on or ends: only its reply can have the history to itself.
LEMMA OnlyThisReads ==
  ASSUME HistoryInv, NEW r \in Replies, fetching[r] # "idle", HistoryTypes',
         \A q \in Replies : q # r => fetching'[q] = fetching[q] /\ shared'[q] = shared[q],
         UNCHANGED <<posted, deleted, cutoff, anchor, clear, given>>,
         Undisturbed(r)' => Undisturbed(r),
         Flush # 0 /\ Undisturbed(r) /\ Undisturbed(r)' /\ WellRead(r) /\ GivenIsWhole => WellRead(r)'
  PROVE  HistoryInv'
<1>1. \A q \in Replies : Undisturbed(q)' => q = r /\ Undisturbed(r)
  BY NoOtherUndisturbed DEF HistoryInv, Undisturbed
<1>2. OneUndisturbed'
  BY <1>1 DEF HistoryInv, OneUndisturbed
<1>3. GivenIsWhole' <=> GivenIsWhole
  BY DEF GivenIsWhole, InReach, Newer, History!Existing
<1>4. Flush # 0 => WindowInv'
  BY <1>1, <1>3 DEF HistoryInv, WindowInv
<1>5. QED
  BY <1>2, <1>4 DEF HistoryInv

LEMMA FetchFailsKeeps ==
  ASSUME HistoryInv, NEW r \in Replies, History!FetchFails(r)
  PROVE  HistoryInv'
<1>1. /\ fetching[r] = "fetch"
      /\ fetching' = [fetching EXCEPT ![r] = IF got[r] = {} THEN "idle" ELSE "cut"]
      /\ got' = got /\ before' = [before EXCEPT ![r] = 0]
      /\ broken' = [broken EXCEPT ![r] = got[r] # {}]
      /\ shared' = [shared EXCEPT ![r] = @ /\ got[r] # {}]
      /\ UNCHANGED <<posted, deleted, cutoff, anchor, clear, given>>
  BY DEF History!FetchFails, History!windowVars
<1>2. HistoryTypes'
  BY <1>1 DEF HistoryInv, HistoryTypes
<1>3. \A q \in Replies : q # r => fetching'[q] = fetching[q] /\ shared'[q] = shared[q]
  BY <1>1 DEF HistoryInv, HistoryTypes
<1>4. Undisturbed(r)' => Undisturbed(r) /\ fetching'[r] = "cut" /\ broken'[r]
  BY <1>1 DEF HistoryInv, HistoryTypes, Undisturbed
<1>5. ASSUME WellRead(r), fetching'[r] = "cut", broken'[r] PROVE WellRead(r)'
  <2>1. FitsGiven(r)'
    BY <1>1, <1>5 DEF WellRead, FitsGiven, InReach, Newer
  <2>2. ReadDownTo(r, before[r])
    BY <1>1, <1>5 DEF WellRead
  <2>3. /\ \A m \in History!Existing : m \in Nat
        /\ \A x \in got[r] : x \in Nat /\ before[r] \in Nat
    BY DEF History!Existing, HistoryInv, HistoryTypes
  <2>4. Gapless(r)
    <3> SUFFICES ASSUME NEW m \in History!Existing, NEW x \in got[r], m >= x
                 PROVE  m \in got[r] \/ Newer(m, got[r])
      BY DEF Gapless
    <3>1. m >= before[r]
      BY <2>2, <2>3 DEF ReadDownTo
    <3>2. QED
      BY <2>2, <3>1 DEF ReadDownTo
  <2>5. Gapless(r)'
    BY <1>1, <2>4 DEF Gapless, Newer, History!Existing
  <2>6. QED
    BY <1>5, <2>1, <2>5 DEF WellRead
<1>6. QED
  BY <1>1, <1>2, <1>3, <1>4, <1>5, OnlyThisReads

LEMMA CutKeeps ==
  ASSUME HistoryInv, NEW r \in Replies, History!Cut(r)
  PROVE  HistoryInv'
<1>1. /\ fetching[r] = "cut" /\ fetching' = [fetching EXCEPT ![r] = "apply"]
      /\ got' = [got EXCEPT ![r] = {m \in @ : m > cutoff}]
      /\ UNCHANGED <<posted, deleted, before, broken, shared, cutoff, anchor, clear, given>>
  BY DEF History!Cut, History!windowVars
<1>2. HistoryTypes'
  BY <1>1 DEF HistoryInv, HistoryTypes
<1>3. /\ \A q \in Replies : q # r => fetching'[q] = fetching[q]
      /\ fetching'[r] = "apply" /\ \A m : m \in got'[r] <=> m \in got[r] /\ m > cutoff
  BY <1>1 DEF HistoryInv, HistoryTypes
<1>4. Undisturbed(r)' => Undisturbed(r)
  BY <1>1 DEF Undisturbed
<1>5. ASSUME WellRead(r), GivenIsWhole PROVE WellRead(r)'
  <2>1. FitsGiven(r)'
    BY <1>1, <1>3, <1>5 DEF WellRead, FitsGiven, InReach, Newer
  <2>2. \A m : Newer(m, got[r]) => Newer(m, got[r])'
    BY <1>3 DEF Newer
  <2>3. Gapless(r)'
    <3> SUFFICES ASSUME NEW m \in History!Existing, NEW x \in got'[r], m >= x
                 PROVE  m \in got'[r] \/ Newer(m, got[r])'
      BY <1>1 DEF Gapless, Newer, History!Existing
    <3>1. m \in got[r] \/ Newer(m, got[r])
      BY <1>1, <1>3, <1>5 DEF WellRead, Gapless
    <3>2. m > cutoff
      <4>1. m \in Nat /\ x \in Nat /\ cutoff \in Nat /\ x > cutoff
        BY <1>3, <1>2 DEF History!Existing, HistoryInv, HistoryTypes
      <4>2. QED
        BY <4>1
    <3>3. QED
      BY <1>3, <2>2, <3>1, <3>2
  <2>4. Complete(r) => Complete(r)'
    <3> SUFFICES ASSUME Complete(r) PROVE Complete(r)'
      OBVIOUS
    <3>1. given \subseteq got'[r] \cup deleted
      BY <1>3, <1>5 DEF Complete, GivenIsWhole, InReach
    <3>2. \A m \in History!Existing : InReach(m) => m \in got'[r] \/ Newer(m, got[r])'
      BY <1>3, <2>2 DEF Complete, InReach
    <3>3. QED
      BY <1>1, <3>1, <3>2 DEF Complete, InReach, Newer, History!Existing
  <2>5. Overflowed(r) => Overflowed(r)'
    <3>1. {m \in got'[r] : InReach(m)} = {m \in got[r] : InReach(m)}
      BY <1>3 DEF InReach
    <3>2. {m \in got'[r] : InReach(m)'} = {m \in got'[r] : InReach(m)}
      BY <1>1 DEF InReach
    <3>3. QED
      BY <3>1, <3>2 DEF Overflowed
  <2>6. \A m \in got'[r] : m > cutoff'
    BY <1>1, <1>3
  <2>7. QED
    BY <1>1, <1>3, <1>5, <2>1, <2>3, <2>4, <2>5, <2>6 DEF WellRead
<1>6. QED
  BY <1>1, <1>2, <1>3, <1>4, <1>5, OnlyThisReads

\* A page, which may overlap the one before it by the message at its end: the
\* newest messages below b.
LEMMA PageKeeps ==
  ASSUME HistoryInv, NEW r \in Replies, fetching[r] = "fetch",
         NEW size \in Int, NEW b \in {before[r], before[r] + 1}, NEW batch,
         batch = History!Newest(size, {m \in History!Existing : m < b}),
         History!TakePage(r, batch, size),
         UNCHANGED <<posted, deleted, cutoff, anchor, clear, given, shared>>
  PROVE  HistoryInv'
<1> DEFINE S     == {m \in History!Existing : m < b}
           all   == got[r] \cup batch
           low   == History!Oldest(batch)
           moved == batch # {} /\ (got[r] = {} \/ low < before[r])
           short == Cardinality(batch) < size
           done  == Cardinality(all) >= History!FetchSize \/ short \/ ~ moved
<1>1. /\ got' = [got EXCEPT ![r] = all]
      /\ before' = [before EXCEPT ![r] = IF done THEN 0 ELSE low]
      /\ broken' = [broken EXCEPT ![r] = ~ short /\ ~ moved]
      /\ fetching' = [fetching EXCEPT ![r] = IF done THEN "cut" ELSE "fetch"]
  BY SameCount DEF History!TakePage
<1>2. /\ posted \in Nat /\ before[r] \in Nat /\ cutoff \in Nat /\ anchor \in Nat
      /\ got[r] \in SUBSET (1..posted) /\ given \in SUBSET (1..posted)
  BY DEF HistoryInv, HistoryTypes
<1>3. History!Existing \in SUBSET (1..posted) /\ S \in SUBSET History!Existing
  BY DEF History!Existing
<1>4. /\ batch \in SUBSET S /\ (short => batch = S)
      /\ \A m \in S : \A x \in batch : m >= x => m \in batch
  BY <1>2, <1>3, NewestFacts
<1>5. /\ b \in Nat /\ (b = before[r] \/ b = before[r] + 1)
      /\ \A m \in History!Existing : m \in 1..posted /\ m \in Nat
      /\ \A m \in S : m < b
  BY <1>2, <1>3
<1>6. \A m \in History!Existing : m < b => m \in S
  OBVIOUS
<1>7. batch \in SUBSET (1..posted) /\ all \in SUBSET (1..posted)
  BY <1>2, <1>3, <1>4
<1>8. batch # {} => low \in batch /\ low \in Nat /\ \A x \in batch : low <= x
  BY <1>7, OldestIsLeast
<1> HIDE DEF S, low, short
<1>9. HistoryTypes'
  <2>1. done \/ low \in Nat
    BY <1>8
  <2> HIDE DEF done, all, moved
  <2>2. got' \in [Replies -> SUBSET (1..posted)]
    BY <1>1, <1>7 DEF HistoryInv, HistoryTypes
  <2>3. before' \in [Replies -> Nat]
    BY <1>1, <2>1 DEF HistoryInv, HistoryTypes
  <2>4. /\ broken' \in [Replies -> BOOLEAN]
        /\ fetching' \in [Replies -> {"idle", "fetch", "cut", "apply"}]
    BY <1>1 DEF HistoryInv, HistoryTypes
  <2>5. QED
    BY <2>2, <2>3, <2>4 DEF HistoryInv, HistoryTypes
<1>10. \A q \in Replies : q # r => fetching'[q] = fetching[q] /\ shared'[q] = shared[q]
  BY <1>1 DEF HistoryInv, HistoryTypes
<1>11. Undisturbed(r)' => Undisturbed(r)
  BY DEF Undisturbed
<1>12. /\ got'[r] = all /\ before'[r] = (IF done THEN 0 ELSE low)
       /\ broken'[r] = (~ short /\ ~ moved)
       /\ fetching'[r] = IF done THEN "cut" ELSE "fetch"
  <2> HIDE DEF done, all, moved
  <2>1. QED
    BY <1>1 DEF HistoryInv, HistoryTypes
<1>13. ASSUME Flush # 0, WellRead(r), GivenIsWhole PROVE WellRead(r)'
  <2>1. ReadDownTo(r, before[r]) /\ FitsGiven(r)
    BY <1>13 DEF WellRead
  <2>2. ASSUME NEW m \in History!Existing, m >= before[r] PROVE m \in all \/ Newer(m, all)
    <3>1. m \in got[r] \/ Newer(m, got[r])
      BY <2>1, <2>2 DEF ReadDownTo
    <3>2. ASSUME NEW k \in batch, m # k PROVE m > k
      BY <1>2, <1>4, <1>5, <1>7, <2>2, <3>2
    <3>3. m \in batch \/ Newer(m, batch)
      BY <3>2 DEF Newer
    <3>4. QED
      BY <3>1, <3>3 DEF Newer
  <2>3. \A m \in History!Existing : m < b \/ m >= before[r]
    BY <1>2, <1>5
  <2>4. ASSUME NEW x \in batch, NEW m \in History!Existing, m >= x
        PROVE  m \in all \/ Newer(m, all)
    BY <1>4, <1>6, <2>2, <2>3, <2>4
  <2>5. ASSUME NEW x \in batch, NEW m \in given, m >= x PROVE m \in all \cup deleted
    <3>1. m \in deleted \/ m \in History!Existing
      BY <1>2 DEF History!Existing
    <3>2. m >= before[r] => m \in all \cup deleted
      BY <2>1 DEF ReadDownTo
    <3>3. QED
      BY <1>4, <1>6, <2>3, <2>5, <3>1, <3>2
  <2>6. ASSUME NEW x \in all, NEW m \in History!Existing, m >= x
        PROVE  m \in all \/ Newer(m, all)
    <3>1. CASE x \in batch
      BY <2>4, <2>6, <3>1
    <3>2. CASE x \in got[r]
      <4>1. x >= before[r] /\ x \in Nat /\ m \in Nat
        BY <1>2, <1>5, <2>1, <3>2 DEF ReadDownTo
      <4>2. m >= before[r]
        BY <1>2, <2>6, <4>1
      <4>3. QED
        BY <2>2, <4>2
    <3>3. QED
      BY <2>6, <3>1, <3>2
  <2>7. ASSUME NEW x \in all, NEW m \in given, m >= x PROVE m \in all \cup deleted
    <3>1. CASE x \in batch
      BY <2>5, <2>7, <3>1
    <3>2. CASE x \in got[r]
      <4>1. x >= before[r] /\ x \in Nat /\ m \in Nat
        BY <1>2, <2>1, <3>2 DEF ReadDownTo
      <4>2. m >= before[r]
        BY <1>2, <2>7, <4>1
      <4>3. QED
        BY <2>1, <4>2 DEF ReadDownTo
    <3>3. QED
      BY <2>7, <3>1, <3>2
  <2>8. \A m \in all : InReach(m) => m \in given \/ Newer(m, given)
    BY <1>3, <1>4, <1>13, <2>1 DEF FitsGiven, GivenIsWhole, Newer
  <2>9. FitsGiven(r)'
    BY <1>12, <2>8 DEF FitsGiven, InReach, Newer
  <2>10. ASSUME ~ done PROVE ReadDownTo(r, before[r])'
    <3>1. batch # {} /\ (got[r] = {} \/ low < before[r]) /\ before'[r] = low
      BY <1>12, <2>10
    <3>2. \A x \in all : x >= low
      BY <1>2, <1>7, <1>8, <2>1, <3>1 DEF ReadDownTo
    <3>3. \A m \in History!Existing : m >= low => m \in all \/ Newer(m, all)
      BY <1>8, <2>4, <3>1
    <3>4. \A m \in given : m >= low => m \in all \cup deleted
      BY <1>8, <2>5, <3>1
    <3> HIDE DEF all
    <3>5. History!Existing' = History!Existing
      BY DEF History!Existing
    <3>6. QED
      BY <1>12, <3>1, <3>2, <3>3, <3>4, <3>5 DEF ReadDownTo, Newer
  <2>11. Gapless(r)'
    BY <1>12, <2>6 DEF Gapless, Newer, History!Existing
  <2>12. ASSUME done, ~ broken'[r] PROVE Complete(r)' \/ Overflowed(r)'
    <3>1. ASSUME given \subseteq all \cup deleted,
                 \A m \in History!Existing : InReach(m) => m \in all \/ Newer(m, all)
          PROVE  Complete(r)'
      BY <1>12, <3>1 DEF Complete, InReach, Newer, History!Existing
    <3>2. CASE short
      <4>1. batch = S
        BY <1>4, <3>2
      <4>2. \A m \in History!Existing : m \in all \/ Newer(m, all)
        BY <1>6, <2>2, <2>3, <4>1
      <4>3. \A m \in given : m \in all \cup deleted
        <5> SUFFICES ASSUME NEW m \in given, m \notin deleted PROVE m \in all \cup deleted
          OBVIOUS
        <5>1. m \in History!Existing
          BY <1>2 DEF History!Existing
        <5>2. m \in batch \/ m >= before[r]
          BY <1>6, <2>3, <4>1, <5>1
        <5>3. QED
          BY <2>1, <5>2 DEF ReadDownTo
      <4>4. QED
        BY <3>1, <4>2, <4>3
    <3>3. CASE ~ short
      <4>1. moved
        BY <1>12, <2>12, <3>3
      <4>2. Cardinality(all) >= History!FetchSize
        BY <2>12, <3>3, <4>1
      <4>3. CASE \A x \in all : InReach(x)
        <5>1. {m \in all : InReach(m)} = all
          BY <4>3
        <5>2. Cardinality(all) \in Nat
          BY <1>2, <1>7, MessagesFinite
        <5> HIDE DEF all
        <5>3. Cardinality(all) > Limit + Flush
          BY <1>13, <4>2, <5>2, HistoryConstants DEF History!FetchSize
        <5>4. {m \in got'[r] : InReach(m)'} = {m \in all : InReach(m)}
          BY <1>12 DEF InReach
        <5>5. QED
          BY <5>1, <5>3, <5>4 DEF Overflowed
      <4>4. ASSUME NEW x \in all, ~ InReach(x) PROVE Complete(r)'
        <5>1. x \in Nat
          BY <1>7
        <5>2. ASSUME NEW m \in Nat, InReach(m) PROVE m >= x
          BY <1>2, <4>4, <5>1, <5>2 DEF InReach
        <5>3. \A m \in History!Existing : InReach(m) => m \in all \/ Newer(m, all)
          BY <1>5, <2>6, <5>2
        <5>4. \A m \in given : m \in Nat /\ InReach(m)
          BY <1>2, <1>13 DEF GivenIsWhole
        <5>5. given \subseteq all \cup deleted
          BY <2>7, <5>2, <5>4
        <5>6. QED
          BY <3>1, <5>3, <5>5
      <4>5. QED
        BY <4>3, <4>4
    <3>4. QED
      BY <3>2, <3>3
  <2>13. fetching'[r] # "apply" /\ (fetching'[r] = "fetch" <=> ~ done)
    <3> HIDE DEF done
    <3>1. QED
      BY <1>12
  <2> HIDE DEF done, all, moved
  <2>14. QED
    BY <2>9, <2>10, <2>11, <2>12, <2>13, <1>9 DEF WellRead, HistoryTypes
<1>14. QED
  BY <1>9, <1>10, <1>11, <1>13, OnlyThisReads

\* What a reply that had the history to itself makes of an unbroken fetch, or
\* of a window that starts over.
LEMMA ApplyKeeps ==
  ASSUME HistoryInv, NEW r \in Replies, History!Apply(r)
  PROVE  HistoryInv'
<1> DEFINE N    == History!Newest(Limit, got[r])
           over == History!StartsOver(got[r])
<1>1. /\ fetching[r] = "apply" /\ fetching' = [fetching EXCEPT ![r] = "idle"]
      /\ got' = [got EXCEPT ![r] = {}]
      /\ broken' = [broken EXCEPT ![r] = FALSE] /\ shared' = [shared EXCEPT ![r] = FALSE]
      /\ anchor' = IF Flush # 0 /\ got[r] # {} /\ over THEN History!Oldest(N) ELSE anchor
      /\ given' = IF shared[r] THEN {}
                  ELSE IF broken[r] /\ (got[r] = {} \/ ~ over) THEN given
                  ELSE History!Window(got[r])
      /\ UNCHANGED <<posted, deleted, before, cutoff, clear>>
  BY DEF History!Apply
<1>2. /\ posted \in Nat /\ got[r] \in SUBSET (1..posted) /\ given \in SUBSET (1..posted)
      /\ cutoff \in Nat /\ anchor \in Nat
  BY DEF HistoryInv, HistoryTypes
<1>3. /\ N \in SUBSET got[r] /\ (got[r] # {} => N # {})
      /\ \A m \in got[r] : \A x \in N : m >= x => m \in N
  BY <1>2, NewestFacts, HistoryConstants
<1>4. N # {} => /\ History!Oldest(N) \in N /\ History!Oldest(N) \in Nat
                /\ \A x \in N : History!Oldest(N) <= x
  BY <1>2, <1>3, OldestIsLeast
<1>5. /\ History!Visible(got[r]) = {m \in got[r] : m >= anchor}
      /\ History!Window(got[r]) = IF Flush = 0 \/ over THEN N ELSE History!Visible(got[r])
  BY DEF History!Visible, History!Window
<1> HIDE DEF N, over
<1>6. given' \in SUBSET (1..posted) /\ anchor' \in Nat
  BY <1>1, <1>2, <1>3, <1>4, <1>5
<1>7. HistoryTypes'
  BY <1>1, <1>6 DEF HistoryInv, HistoryTypes
<1>8. \A q \in Replies : ~ Undisturbed(q)'
  <2>1. fetching'[r] = "idle" /\ \A q \in Replies : q # r => /\ fetching'[q] = fetching[q]
                                                            /\ shared'[q] = shared[q]
    BY <1>1 DEF HistoryInv, HistoryTypes
  <2>2. QED
    BY <1>1, <2>1, NoOtherUndisturbed DEF HistoryInv, Undisturbed
<1>9. OneUndisturbed'
  BY <1>1, <1>8 DEF HistoryInv, OneUndisturbed, Undisturbed
<1>10. ASSUME Flush # 0, given' # {} PROVE GivenIsWhole'
  <2>1. ~ shared[r] /\ Undisturbed(r)
    BY <1>1, <1>10 DEF Undisturbed
  <2>2. WellRead(r) /\ GivenIsWhole /\ Gapless(r)
    BY <1>1, <1>10, <2>1 DEF HistoryInv, WindowInv, WellRead
  <2>3. \A m \in got[r] : m > cutoff
    BY <1>1, <2>2 DEF WellRead
  <2>4. CASE given' = given /\ anchor' = anchor
    BY <1>1, <2>2, <2>4 DEF GivenIsWhole, InReach, Newer, History!Existing
  <2>5. CASE over /\ got[r] # {} /\ given' = N /\ anchor' = History!Oldest(N)
    <3>1. anchor' \in N /\ anchor' \in got[r] /\ anchor' # 0
      BY <1>2, <1>3, <1>4, <2>5
    <3>2. \A m \in N : m >= anchor' /\ m > cutoff
      BY <1>2, <1>3, <1>4, <2>3, <2>5
    <3>3. ASSUME NEW m \in History!Existing, m >= anchor' PROVE m \in N \/ Newer(m, N)
      <4>1. m \in got[r] \/ Newer(m, got[r])
        BY <2>2, <3>1, <3>3 DEF Gapless
      <4>2. QED
        BY <1>3, <3>1, <3>3, <4>1 DEF Newer
    <3>4. QED
      BY <1>1, <2>5, <3>1, <3>2, <3>3 DEF GivenIsWhole, InReach, Newer, History!Existing
  <2>6. CASE ~ over /\ ~ broken[r] /\ given' = History!Visible(got[r]) /\ anchor' = anchor
    <3>1. anchor # 0 /\ ~ (Cardinality(History!Visible(got[r])) > Limit + Flush)
      BY <2>6, SameCount DEF over, History!StartsOver
    <3>2. History!Visible(got[r]) = {m \in got[r] : InReach(m)}
      BY <1>5, <2>3 DEF InReach
    <3>3. Complete(r)
      BY <1>1, <2>2, <2>6, <3>1, <3>2 DEF WellRead, Overflowed
    <3>4. \A m \in given' : m \in got[r] /\ InReach(m)
      BY <2>6, <3>2
    <3>5. \A m \in History!Existing : InReach(m) => m \in given' \/ Newer(m, given')
      BY <2>6, <3>2, <3>3, <3>4 DEF Complete, Newer
    <3>6. QED
      BY <1>1, <2>6, <3>1, <3>4, <3>5 DEF GivenIsWhole, InReach, Newer, History!Existing
  <2>7. CASE got[r] = {} /\ given' = History!Window(got[r])
    BY <1>3, <1>5, <1>10, <2>7
  <2>8. QED
    BY <1>1, <1>5, <1>10, <2>1, <2>4, <2>5, <2>6, <2>7
<1>11. Flush # 0 => WindowInv'
  BY <1>8, <1>10 DEF WindowInv, GivenIsWhole
<1>12. QED
  BY <1>7, <1>9, <1>11 DEF HistoryInv

\* /clear-context, and a request that is tried again.
LEMMA ClearKeeps ==
  ASSUME HistoryInv, History!SetCutoff \/ History!ResetAnchor
  PROVE  HistoryInv'
<1>1. /\ given' = {} /\ HistoryTypes'
      /\ \A r \in Replies : ~ Undisturbed(r)'
  <2>1. CASE History!SetCutoff
    <3>1. /\ given' = {} /\ cutoff' = posted /\ clear' = "reset"
          /\ shared' = [r \in Replies |-> shared[r] \/ r \in History!Active]
          /\ UNCHANGED <<posted, deleted, fetching, got, before, broken, anchor>>
      BY <2>1 DEF History!SetCutoff, History!fetchVars
    <3>2. shared' \in [Replies -> BOOLEAN]
      BY <3>1 DEF HistoryInv, HistoryTypes
    <3>3. HistoryTypes'
      BY <3>1, <3>2 DEF HistoryInv, HistoryTypes
    <3>4. QED
      BY <3>1, <3>3 DEF Undisturbed, History!Active
  <2>2. CASE History!ResetAnchor
    <3>1. /\ clear = "reset" /\ clear' = "idle" /\ anchor' = 0
          /\ UNCHANGED <<posted, deleted, fetching, got, before, broken, shared, cutoff, given>>
      BY <2>2 DEF History!ResetAnchor, History!fetchVars
    <3>2. QED
      BY <3>1 DEF HistoryInv, HistoryTypes, OneUndisturbed, Undisturbed
  <2>3. QED
    BY <2>1, <2>2
<1>2. QED
  BY <1>1 DEF HistoryInv, OneUndisturbed, WindowInv, GivenIsWhole

LEMMA SameHistory ==
  ASSUME HistoryInv,
         UNCHANGED <<posted, deleted, given, fetching, got, before, broken, shared, cutoff, anchor, clear>>
  PROVE  HistoryInv'
<1>1. HistoryTypes' /\ OneUndisturbed'
  BY DEF HistoryInv, HistoryTypes, OneUndisturbed, Undisturbed
<1>2. GivenIsWhole => GivenIsWhole'
  BY DEF GivenIsWhole, InReach, Newer, History!Existing
<1>3. ASSUME NEW r \in Replies, WellRead(r) PROVE WellRead(r)'
  BY <1>3 DEF WellRead, FitsGiven, ReadDownTo, Gapless, Complete, Overflowed, InReach, Newer,
     History!Existing
<1>4. QED
  BY <1>1, <1>2, <1>3 DEF HistoryInv, WindowInv, Undisturbed

LEMMA HistoryStep == ASSUME HistoryInv, [ServicesNext]_servicesVars PROVE HistoryInv'
<1>1. CASE UNCHANGED historyVars
  BY <1>1, SameHistory DEF historyVars
<1>2. ASSUME NEW r \in Replies, History!FetchPage(r) \/ History!FetchOverlappingPage(r)
      PROVE  HistoryInv'
  <2>1. PICK b \in {before[r], before[r] + 1} :
          History!TakePage(r, History!Newest(History!Size(r), {m \in History!Existing : m < b}),
                           History!Size(r))
    <3>1. CASE History!FetchPage(r)
      BY <3>1 DEF History!FetchPage, History!Page
    <3>2. CASE History!FetchOverlappingPage(r)
      <4>1. {m \in History!Existing : m <= before[r]} = {m \in History!Existing : m < before[r] + 1}
        <5>1. before[r] \in Nat /\ \A m \in History!Existing : m \in Nat
          BY DEF HistoryInv, HistoryTypes, History!Existing
        <5>2. \A m \in History!Existing : m <= before[r] <=> m < before[r] + 1
          BY <5>1
        <5>3. QED
          BY <5>2
      <4>2. QED
        BY <3>2, <4>1 DEF History!FetchOverlappingPage, History!OverlappingPage
    <3>3. QED
      BY <1>2, <3>1, <3>2
  <2>2. /\ fetching[r] = "fetch"
        /\ UNCHANGED <<posted, deleted, cutoff, anchor, clear, given, shared>>
    BY <1>2 DEF History!FetchPage, History!FetchOverlappingPage, History!windowVars
  <2>3. History!Size(r) \in Int
    <3>1. Cardinality(got[r]) \in Nat
      BY MessagesFinite DEF HistoryInv, HistoryTypes
    <3>2. QED
      BY <3>1, SameCount, HistoryConstants DEF History!Size, History!Smaller, History!FetchSize
  <2>4. QED
    BY <2>1, <2>2, <2>3, PageKeeps
<1>3. ASSUME NEW r \in Replies, History!RateLimited(r) PROVE HistoryInv'
  BY <1>3, SameHistory DEF History!RateLimited, History!windowVars
<1>4. CASE History!Next
  BY <1>2, <1>3, <1>4, BeginKeeps, FetchFailsKeeps, CutKeeps, ApplyKeeps, ClearKeeps, MessagesKeep
     DEF History!Next
<1>5. QED
  BY <1>1, <1>4 DEF ServicesNext, servicesVars

LEMMA HistoryInvariant == ServicesSpec => []HistoryInv
<1>1. ASSUME ServicesInit PROVE HistoryInv
  <2>1. History!Init
    BY <1>1 DEF ServicesInit
  <2>2. /\ posted = 1 /\ deleted = {} /\ given = {} /\ cutoff = 0 /\ anchor = 0 /\ clear = "idle"
        /\ fetching = [r \in Replies |-> "idle"] /\ got = [r \in Replies |-> {}]
        /\ before = [r \in Replies |-> 0] /\ broken = [r \in Replies |-> FALSE]
        /\ shared = [r \in Replies |-> FALSE]
    BY <2>1 DEF History!Init
  <2>3. HistoryTypes
    BY <2>2 DEF HistoryTypes
  <2>4. QED
    BY <2>2, <2>3 DEF HistoryInv, OneUndisturbed, Undisturbed, WindowInv, GivenIsWhole
<1>2. QED
  BY <1>1, HistoryStep, PTL DEF ServicesSpec

\* The window of a reply that had the history to itself, from an unbroken
\* fetch, extends the one before or starts over for a good reason, for any
\* limits and any number of pages (FetchMessages, contextWindow.apply).
THEOREM WindowsAreExtended == ServicesSpec => WindowExtends
<1>1. ASSUME HistoryInv, NEW r \in Replies, fetching[r] = "apply", ~ shared[r], ~ broken[r],
             given # {}, Flush # 0
      PROVE  LET w == History!Window(got[r]) IN
             \/ History!Extends(w, given) /\ Cardinality(w) <= Limit + Flush
             \/ /\ Cardinality(w) <= Limit
                /\ \/ given \subseteq deleted
                   \/ Cardinality({m \in got[r] : m >= History!Oldest(given)}) > Limit + Flush
  <2> DEFINE w == History!Window(got[r])
             V == History!Visible(got[r])
             old == History!Oldest(given)
  <2>1. /\ posted \in Nat /\ got[r] \in SUBSET (1..posted) /\ given \in SUBSET (1..posted)
        /\ cutoff \in Nat /\ anchor \in Nat
    BY <1>1 DEF HistoryInv, HistoryTypes
  <2>2. WellRead(r) /\ GivenIsWhole
    BY <1>1 DEF HistoryInv, WindowInv, Undisturbed
  <2>3. /\ anchor # 0 /\ \A m \in given : InReach(m)
        /\ \A m \in got[r] : m > cutoff
        /\ Complete(r) \/ Overflowed(r)
        /\ FitsGiven(r)
    BY <1>1, <2>2 DEF WellRead, GivenIsWhole
  <2>4. V = {m \in got[r] : m >= anchor} /\ V = {m \in got[r] : InReach(m)}
    BY <2>3 DEF History!Visible, InReach
  <2>5. old \in given /\ \A m \in given : old <= m
    BY <1>1, <2>1, OldestIsLeast
  <2> HIDE DEF old
  <2>6. V = {m \in got[r] : m >= old}
    <3>0. old \in Nat /\ (\A m \in got[r] : m \in Nat) /\ InReach(old)
      BY <2>1, <2>3, <2>5
    <3>1. ASSUME NEW m \in got[r], InReach(m) PROVE m >= old
      <4>1. CASE m \in given
        BY <2>5, <3>0, <4>1
      <4>2. CASE Newer(m, given)
        BY <2>5, <3>0, <4>2 DEF Newer
      <4>3. QED
        BY <2>3, <3>1, <4>1, <4>2 DEF FitsGiven
    <3>2. ASSUME NEW m \in got[r], m >= old PROVE InReach(m)
      BY <2>1, <3>0, <3>2 DEF InReach
    <3>3. QED
      BY <2>4, <3>1, <3>2
  <2>7. CASE History!StartsOver(got[r])
    <3>1. w = History!Newest(Limit, got[r])
      BY <2>7 DEF History!Window
    <3>2. Cardinality(w) <= Limit
      BY <2>1, <3>1, NewestFacts, HistoryConstants
    <3>3. Cardinality(V) > Limit + Flush \/ V = {}
      BY <2>3, <2>7, SameCount DEF History!StartsOver
    <3>4. CASE Cardinality(V) > Limit + Flush
      BY <2>6, <3>2, <3>4 DEF old
    <3>5. CASE V = {} /\ ~ (Cardinality(V) > Limit + Flush)
      <4>1. Complete(r)
        BY <2>3, <2>4, <3>5 DEF Overflowed
      <4>2. given \subseteq deleted
        BY <2>3, <2>4, <3>5, <4>1 DEF Complete
      <4>3. QED
        BY <3>2, <4>2
    <3>6. QED
      BY <3>3, <3>4, <3>5
  <2>8. CASE ~ History!StartsOver(got[r])
    <3>1. w = V
      BY <1>1, <2>8 DEF History!Window
    <3>2. ~ (Cardinality(V) > Limit + Flush)
      BY <2>8, SameCount DEF History!StartsOver
    <3>3. Cardinality(V) \in Nat
      BY <2>1, <2>4, MessagesFinite
    <3>4. Cardinality(V) <= Limit + Flush
      BY <3>2, <3>3, HistoryConstants
    <3>5. Complete(r)
      BY <2>3, <2>4, <3>2 DEF Overflowed
    <3>6. \A m \in given : m \in V \cup deleted
      BY <2>3, <2>4, <3>5 DEF Complete
    <3>7. \A m \in V : m \in given \/ \A k \in given : m > k
      BY <2>3, <2>4 DEF FitsGiven, Newer
    <3> HIDE DEF V
    <3>8. History!Extends(w, given)
      BY <3>1, <3>6, <3>7 DEF History!Extends
    <3>9. QED
      BY <3>1, <3>4, <3>8
  <2>9. QED
    BY <2>7, <2>8
<1>2. ASSUME HistoryInv
      PROVE  [\A r \in Replies :
                (fetching[r] = "apply" /\ fetching'[r] = "idle" /\ ~ shared[r] /\ ~ broken[r]
                   /\ given # {} /\ Flush # 0) =>
                  LET w == History!Window(got[r]) IN
                  \/ History!Extends(w, given) /\ History!Cardinality(w) <= Limit + Flush
                  \/ /\ History!Cardinality(w) <= Limit
                     /\ \/ given \subseteq deleted
                        \/ History!Cardinality({m \in got[r] : m >= History!Oldest(given)})
                             > Limit + Flush]_(History!vars)
  BY <1>1, <1>2, SameCount
<1>3. QED
  BY <1>2, HistoryInvariant, PTL DEF WindowExtends, History!WindowExtends

-----------------------------------------------------------------------------
(* The decision to answer                                                    *)

\* From the end of a list its sums are there for any number of its entries: a
\* least number without them has a predecessor that has them.
LEMMA SumsExist ==
  ASSUME NEW l \in Nat, NEW h \in [1..l -> Nat]
  PROVE  \E f \in [0..l -> Nat] : f[l] = 0 /\ \A n \in 0..l-1 : f[n] = h[n + 1] + f[n + 1]
<1> DEFINE Sums(m) == \E g \in [0..m -> Nat] :
                        g[0] = 0 /\ \A j \in 1..m : g[j] = h[l - j + 1] + g[j - 1]
           Bad == {m \in 0..l : ~ Sums(m)}
<1>1. Sums(0)
  <2> DEFINE g == [j \in 0..0 |-> 0]
  <2>1. g \in [0..0 -> Nat] /\ g[0] = 0 /\ \A j \in 1..0 : g[j] = h[l - j + 1] + g[j - 1]
    OBVIOUS
  <2>2. QED
    BY <2>1
<1>2. ASSUME NEW m \in 1..l, Sums(m - 1) PROVE Sums(m)
  <2>1. PICK g \in [0..m-1 -> Nat] :
          g[0] = 0 /\ \A j \in 1..m-1 : g[j] = h[l - j + 1] + g[j - 1]
    BY <1>2
  <2> DEFINE f == [j \in 0..m |-> IF j = m THEN h[l - m + 1] + g[m - 1] ELSE g[j]]
  <2>2. m \in Nat /\ m - 1 \in 0..m-1 /\ l - m + 1 \in 1..l
    OBVIOUS
  <2>3. h[l - m + 1] + g[m - 1] \in Nat
    BY <2>1, <2>2
  <2>4. f \in [0..m -> Nat]
    BY <2>1, <2>3
  <2>5. f[0] = 0
    BY <2>1, <2>2
  <2>6. ASSUME NEW j \in 1..m PROVE f[j] = h[l - j + 1] + f[j - 1]
    <3>1. j \in 0..m /\ j - 1 \in 0..m /\ j - 1 # m
      OBVIOUS
    <3>2. f[j - 1] = g[j - 1]
      BY <3>1
    <3>3. CASE j = m
      BY <2>2, <3>2, <3>3
    <3>4. CASE j # m
      <4>1. j \in 1..m-1
        BY <3>4
      <4>2. QED
        BY <2>1, <3>1, <3>2, <3>4, <4>1
    <3>5. QED
      BY <3>3, <3>4
  <2> HIDE DEF f
  <2>7. QED
    BY <2>4, <2>5, <2>6
<1> HIDE DEF Sums
<1>3. Bad = {}
  <2>1. SUFFICES ASSUME Bad # {} PROVE FALSE
    OBVIOUS
  <2>2. PICK m \in Bad : \A j \in Bad : m <= j
    <3>1. Bad \in SUBSET Nat
      OBVIOUS
    <3> HIDE DEF Bad
    <3>2. QED
      BY <2>1, <3>1, Least
  <2>3. m \in 1..l /\ m - 1 \in 0..l /\ m - 1 \notin Bad
    BY <1>1, <2>2
  <2>4. QED
    BY <1>2, <2>2, <2>3
<1>4. Sums(l)
  BY <1>3
<1>5. PICK g \in [0..l -> Nat] : g[0] = 0 /\ \A j \in 1..l : g[j] = h[l - j + 1] + g[j - 1]
  BY <1>4 DEF Sums
<1> DEFINE f == [n \in 0..l |-> g[l - n]]
<1>6. f \in [0..l -> Nat] /\ f[l] = 0
  BY <1>5
<1>7. ASSUME NEW n \in 0..l-1 PROVE f[n] = h[n + 1] + f[n + 1]
  <2>1. l - n \in 1..l /\ n + 1 \in 0..l /\ l - (l - n) + 1 = n + 1 /\ l - n - 1 = l - (n + 1)
    OBVIOUS
  <2>2. g[l - n] = h[n + 1] + g[l - (n + 1)]
    BY <1>5, <2>1
  <2>3. QED
    BY <2>1, <2>2
<1> HIDE DEF f
<1>8. QED
  BY <1>6, <1>7

\* Rest is what its definition says: the sums of the newest messages, which
\* grow with each older one.
LEMMA RestFacts ==
  ASSUME NEW l \in Nat, history \in [1..l -> Nat], Len(history) = l
  PROVE  /\ Decision!Rest \in [0..l -> Nat] /\ Decision!Rest[l] = 0
         /\ \A n \in 0..l-1 : Decision!Rest[n] = history[n + 1] + Decision!Rest[n + 1]
         /\ \A m \in 0..l : \A n \in 0..m : Decision!Rest[m] <= Decision!Rest[n]
<1> DEFINE R == Decision!Rest
<1>1. PICK f \in [0..l -> Nat] : f[l] = 0 /\ \A n \in 0..l-1 : f[n] = history[n + 1] + f[n + 1]
  BY SumsExist
<1>2. f = [n \in 0..Len(history) |-> IF n = Len(history) THEN 0 ELSE history[n + 1] + f[n + 1]]
  BY <1>1
<1>3. R = [n \in 0..Len(history) |-> IF n = Len(history) THEN 0 ELSE history[n + 1] + R[n + 1]]
  BY <1>2 DEF Decision!Rest
<1> HIDE DEF R
<1>4. R[l] = 0 /\ \A n \in 0..l-1 : R[n] = history[n + 1] + R[n + 1]
  BY <1>3
<1>5. \A n \in 0..l : R[n] = f[n]
  <2> DEFINE Bad == {k \in 0..l : R[l - k] # f[l - k]}
  <2>1. Bad = {}
    <3>1. SUFFICES ASSUME Bad # {} PROVE FALSE
      OBVIOUS
    <3>2. PICK k \in Bad : \A j \in Bad : k <= j
      <4>1. Bad \in SUBSET Nat
        OBVIOUS
      <4> HIDE DEF Bad
      <4>2. QED
        BY <3>1, <4>1, Least
    <3>3. k \in 1..l /\ k - 1 \notin Bad
      <4>1. k \in 0..l /\ k # 0
        BY <1>1, <1>4, <3>2
      <4>2. k - 1 \in Nat /\ ~ (k <= k - 1)
        BY <4>1
      <4>3. k \in 1..l
        BY <4>1
      <4>4. k - 1 \notin Bad
        <5> HIDE DEF Bad
        <5>1. QED
          BY <3>2, <4>2
      <4>5. QED
        BY <4>3, <4>4
    <3>4. l - k \in 0..l-1 /\ l - (k - 1) = l - k + 1 /\ k - 1 \in 0..l
      BY <3>3
    <3>5. R[l - k + 1] = f[l - k + 1]
      BY <3>3, <3>4
    <3>6. QED
      BY <1>1, <1>4, <3>2, <3>4, <3>5
  <2>2. ASSUME NEW n \in 0..l PROVE R[n] = f[n]
    <3>1. l - n \in 0..l /\ l - (l - n) = n
      OBVIOUS
    <3>2. QED
      BY <2>1, <3>1
  <2>3. QED
    BY <2>2
<1>6. R \in [0..l -> Nat]
  BY <1>1, <1>3, <1>5
<1>7. ASSUME NEW m \in 0..l, NEW n \in 0..m PROVE R[m] <= R[n]
  <2> DEFINE Bad == {k \in 0..m : ~ (R[m] <= R[m - k])}
  <2>1. Bad = {}
    <3>1. SUFFICES ASSUME Bad # {} PROVE FALSE
      OBVIOUS
    <3>2. PICK k \in Bad : \A j \in Bad : k <= j
      <4>1. Bad \in SUBSET Nat
        OBVIOUS
      <4> HIDE DEF Bad
      <4>2. QED
        BY <3>1, <4>1, Least
    <3>3. R[m] \in Nat
      BY <1>6
    <3>4. k \in 1..m /\ k - 1 \notin Bad
      <4>1. k \in 0..m /\ k # 0
        BY <3>2, <3>3
      <4>2. k - 1 \in Nat /\ ~ (k <= k - 1)
        BY <4>1
      <4>3. k \in 1..m
        BY <4>1
      <4>4. k - 1 \notin Bad
        <5> HIDE DEF Bad
        <5>1. QED
          BY <3>2, <4>2
      <4>5. QED
        BY <4>3, <4>4
    <3>5. m - k \in 0..l-1 /\ m - (k - 1) = m - k + 1 /\ k - 1 \in 0..m /\ m - k + 1 \in 0..l
      BY <3>4
    <3>6. R[m] <= R[m - k + 1]
      BY <3>4, <3>5
    <3>7. R[m - k] = history[m - k + 1] + R[m - k + 1] /\ history[m - k + 1] \in Nat
      BY <1>4, <3>5
    <3>8. R[m - k + 1] \in Nat /\ R[m - k] \in Nat
      BY <1>6, <3>5
    <3>9. R[m] <= R[m - k]
      BY <3>3, <3>6, <3>7, <3>8
    <3>10. QED
      BY <3>2, <3>9
  <2>2. m - n \in 0..m /\ m - (m - n) = n
    OBVIOUS
  <2>3. QED
    BY <2>1, <2>2
<1>8. QED
  BY <1>4, <1>6, <1>7 DEF R

\* What the state would take without the first n messages, the content whole.
Whole(n) == Decision!Size(n, content, FALSE)

\* It fits, with as many messages as fit, and is cut only without any.
NewestFit(s, k, mark) ==
  /\ Decision!Size(s, k, mark) <= budget
  /\ \A n \in 0..Len(history) : Whole(n) <= budget => s <= n
  /\ k < content => s = Len(history)

PackTypes ==
  /\ history \in Seq(Nat) /\ budget \in Nat /\ content \in Nat /\ width \in Nat
  /\ start \in 0..Len(history) /\ kept \in Nat /\ marked \in BOOLEAN /\ feedback \in BOOLEAN
  /\ requests \in Seq([start : Nat, kept : Nat, marked : BOOLEAN, feedback : BOOLEAN])

\* The estimate is the size without the field of the messages left out: what
\* was left out for it does not fit, and neither does what Confirm drops.
Packing ==
  /\ step = "estimate" =>
       kept = content /\ ~ marked /\ total = Base + width * content - 1 + Decision!Rest[start]
  /\ step = "confirm" =>
       kept = content /\ ~ marked /\ \A n \in 0..Len(history) : n < start => Whole(n) > budget
  /\ step = "cut" => start = Len(history) /\ \A n \in 0..Len(history) : Whole(n) > budget

\* Every request has what is packed; the decision is given up before the
\* first of them when the context ends or nothing can be cut.
Requesting ==
  /\ step \in {"ask", "answered", "wait"} => NewestFit(start, kept, marked)
  /\ \A i \in DOMAIN requests : NewestFit(requests[i].start, requests[i].kept, requests[i].marked)
  /\ step \in {"answered", "wait"} => requests # <<>>
  /\ verdict = "chance" => step = "done"
  /\ (verdict = "chance" /\ requests = <<>> /\ ~ expired) =>
       Decision!Size(Len(history), 0, FALSE) > budget

DecisionInv == PackTypes /\ (provider = "system_one" => Packing /\ Requesting)

LEMMA DecisionConstants ==
  /\ \A n \in Sizes \cup Contents \cup Widths \cup Budgets : n \in Nat
  /\ Base \in Nat /\ Omitted \in Nat /\ Marker \in Nat /\ DecisionRetries \in Nat
BY ServicesAssumption DEF Decision!DecisionAssumption

LEMMA RestOfHistory ==
  ASSUME history \in Seq(Nat)
  PROVE  /\ Decision!Rest \in [0..Len(history) -> Nat] /\ Decision!Rest[Len(history)] = 0
         /\ \A n \in 0..Len(history)-1 : Decision!Rest[n] = history[n + 1] + Decision!Rest[n + 1]
         /\ \A m \in 0..Len(history) : \A n \in 0..m : Decision!Rest[m] <= Decision!Rest[n]
<1>1. history \in [1..Len(history) -> Nat] /\ Len(history) \in Nat
  OBVIOUS
<1>2. QED
  BY <1>1, RestFacts

\* A message left out takes at least a byte less than the messages do.
LEMMA SizeType ==
  ASSUME PackTypes, NEW n \in 0..Len(history), NEW k \in Nat, NEW mark \in BOOLEAN
  PROVE  Decision!Size(n, k, mark) \in Int
<1>1. width * k \in Nat
  BY DEF PackTypes
<1>2. Decision!Rest[n] \in Nat
  BY RestOfHistory DEF PackTypes
<1>3. (IF mark THEN Marker ELSE 0) \in Nat /\ (IF n > 0 THEN Omitted ELSE 0) \in Nat /\ Base \in Nat
  BY DecisionConstants
<1>4. (IF n = Len(history) THEN 0 ELSE Decision!Rest[n] - 1) \in Int
  BY <1>2
<1>5. QED
  BY <1>1, <1>3, <1>4 DEF Decision!Size

\* When the estimate stops, the messages left out do not fit.
LEMMA LeftOutDoesNotFit ==
  ASSUME PackTypes, start > 0,
         total = Base + width * content - 1 + Decision!Rest[start],
         ~ (total + history[start] <= budget),
         NEW n \in 0..Len(history), n < start
  PROVE  Whole(n) > budget
<1> DEFINE R == Decision!Rest
           W == width * content
           o == IF n > 0 THEN Omitted ELSE 0
<1>1. W \in Nat /\ budget \in Nat /\ start \in 1..Len(history) /\ o \in Nat /\ Base \in Nat
  BY DecisionConstants DEF PackTypes
<1>2. R[start - 1] = history[start] + R[start] /\ R[start - 1] <= R[n]
  <2>1. start - 1 \in 0..Len(history)-1 /\ n \in 0..start-1 /\ start - 1 + 1 = start
    BY <1>1
  <2>2. QED
    BY <2>1, RestOfHistory DEF PackTypes
<1>3. R[n] \in Nat /\ R[start] \in Nat /\ history[start] \in Nat
  <2>1. R \in [0..Len(history) -> Nat]
    BY RestOfHistory DEF PackTypes
  <2> HIDE DEF R
  <2>2. start \in 0..Len(history)
    BY DEF PackTypes
  <2>3. history[start] \in Nat
    BY <1>1 DEF PackTypes
  <2>4. QED
    BY <2>1, <2>2, <2>3
<1>4. Whole(n) = Base + W + 0 + o + (R[n] - 1)
  BY <1>1 DEF Whole, Decision!Size
<1>5. ~ (Base + W - 1 + R[start] + history[start] <= budget)
  OBVIOUS
<1> HIDE DEF R, W, o
<1>6. Base + W - 1 + R[start] + history[start] > budget
  BY <1>1, <1>3, <1>5
<1>7. R[start] + history[start] <= R[n]
  BY <1>2, <1>3
<1>8. Base + W + 0 + o + (R[n] - 1) > budget
  BY <1>1, <1>3, <1>6, <1>7
<1>9. QED
  BY <1>4, <1>8

\* What was given is not changed by the decision, and neither is what fits.
LEMMA FitsAsBefore ==
  ASSUME UNCHANGED Decision!given
  PROVE  /\ Decision!Rest' = Decision!Rest
         /\ UNCHANGED <<provider, history, budget, content, width>>
BY DEF Decision!given, Decision!Rest

LEMMA EstimateKeeps ==
  ASSUME DecisionInv, Decision!Estimate
  PROVE  DecisionInv'
<1>1. /\ step = "estimate" /\ UNCHANGED <<provider, history, budget, content, width>>
      /\ UNCHANGED <<kept, marked, answerTry, answer, feedback, verdict, requests, expired>>
      /\ Decision!Rest' = Decision!Rest
  BY FitsAsBefore DEF Decision!Estimate, Decision!given, Decision!askVars
<1>2. PackTypes'
  <2>1. start' \in 0..Len(history)
    BY DEF Decision!Estimate, DecisionInv, PackTypes
  <2>2. QED
    BY <1>1, <2>1 DEF DecisionInv, PackTypes
<1>3. ASSUME provider = "system_one" PROVE Packing' /\ Requesting'
  <2>1. /\ kept = content /\ ~ marked /\ verdict # "chance"
        /\ total = Base + width * content - 1 + Decision!Rest[start]
        /\ \A i \in DOMAIN requests : NewestFit(requests[i].start, requests[i].kept, requests[i].marked)
    BY <1>1, <1>3 DEF DecisionInv, Packing, Requesting
  <2>2. \A i \in DOMAIN requests' : NewestFit(requests[i].start, requests[i].kept, requests[i].marked)'
    BY <1>1, <2>1 DEF NewestFit, Whole, Decision!Size
  <2>3. CASE start > 0 /\ total + history[start] <= budget
    <3>1. start' = start - 1 /\ total' = total + history[start] /\ step' = "estimate"
      BY <1>1, <2>3 DEF Decision!Estimate
    <3>2. total' = Base + width * content - 1 + Decision!Rest[start - 1]
      <4>1. /\ start - 1 \in 0..Len(history)-1 /\ start - 1 + 1 = start
            /\ start \in 0..Len(history)
        BY <2>3 DEF DecisionInv, PackTypes
      <4>2. Decision!Rest[start - 1] = history[start] + Decision!Rest[start]
        BY <4>1, RestOfHistory DEF DecisionInv, PackTypes
      <4>3. Decision!Rest[start] \in Nat /\ history[start] \in Nat /\ width * content \in Nat
        BY <2>3, <4>1, RestOfHistory DEF DecisionInv, PackTypes
      <4>4. QED
        BY <2>1, <3>1, <4>2, <4>3, DecisionConstants
    <3>3. Packing'
      BY <1>1, <2>1, <3>1, <3>2 DEF Packing
    <3>4. QED
      BY <1>1, <2>1, <2>2, <3>1, <3>3 DEF Requesting
  <2>4. CASE ~ (start > 0 /\ total + history[start] <= budget)
    <3>1. step' = "confirm" /\ start' = start /\ total' = total
      BY <2>4 DEF Decision!Estimate
    <3>2. \A n \in 0..Len(history) : n < start => Whole(n) > budget
      <4>1. SUFFICES ASSUME NEW n \in 0..Len(history), n < start PROVE Whole(n) > budget
        OBVIOUS
      <4>2. PackTypes /\ start > 0
        BY <4>1 DEF DecisionInv, PackTypes
      <4>3. QED
        BY <2>1, <2>4, <4>1, <4>2, LeftOutDoesNotFit
    <3>3. Packing'
      BY <1>1, <2>1, <3>1, <3>2 DEF Packing, Whole, Decision!Size
    <3>4. QED
      BY <1>1, <2>1, <2>2, <3>1, <3>3 DEF Requesting
  <2>5. QED
    BY <2>3, <2>4
<1>4. QED
  BY <1>1, <1>2, <1>3 DEF DecisionInv

LEMMA ConfirmKeeps ==
  ASSUME DecisionInv, Decision!Confirm
  PROVE  DecisionInv'
<1>1. /\ step = "confirm" /\ UNCHANGED <<provider, history, budget, content, width>>
      /\ UNCHANGED <<kept, marked, answerTry, answer, feedback, verdict, requests, expired>>
      /\ Decision!Rest' = Decision!Rest
  BY FitsAsBefore DEF Decision!Confirm, Decision!given, Decision!askVars
<1>2. PackTypes'
  <2>1. start' \in 0..Len(history)
    BY DEF Decision!Confirm, DecisionInv, PackTypes
  <2>2. QED
    BY <1>1, <2>1 DEF DecisionInv, PackTypes
<1>3. ASSUME provider = "system_one" PROVE Packing' /\ Requesting'
  <2>1. /\ kept = content /\ ~ marked /\ verdict # "chance"
        /\ \A n \in 0..Len(history) : n < start => Whole(n) > budget
        /\ \A i \in DOMAIN requests : NewestFit(requests[i].start, requests[i].kept, requests[i].marked)
    BY <1>1, <1>3 DEF DecisionInv, Packing, Requesting
  <2>2. \A i \in DOMAIN requests' : NewestFit(requests[i].start, requests[i].kept, requests[i].marked)'
    BY <1>1, <2>1 DEF NewestFit, Whole, Decision!Size
  <2>3. /\ start \in 0..Len(history) /\ Len(history) \in Nat /\ budget \in Nat /\ content \in Nat
        /\ Whole(start) \in Int /\ \A n \in 0..Len(history) : Whole(n) \in Int
    <3>1. start \in 0..Len(history) /\ Len(history) \in Nat /\ budget \in Nat /\ content \in Nat
      BY DEF DecisionInv, PackTypes
    <3>2. \A n \in 0..Len(history) : Whole(n) \in Int
      BY <3>1, SizeType DEF DecisionInv, Whole
    <3>3. QED
      BY <3>1, <3>2
  <2>4. Decision!Size(start, kept, marked) = Whole(start)
    BY <2>1 DEF Whole, Decision!Size
  <2>5. CASE Whole(start) <= budget
    <3>1. step' = "ask" /\ start' = start
      BY <2>4, <2>5 DEF Decision!Confirm
    <3>2. \A n \in 0..Len(history) : Whole(n) <= budget => start <= n
      BY <2>1, <2>3
    <3>3. NewestFit(start, kept, marked)
      BY <2>1, <2>3, <2>4, <2>5, <3>2 DEF NewestFit
    <3>4. NewestFit(start, kept, marked)'
      BY <1>1, <3>1, <3>3 DEF NewestFit, Whole, Decision!Size
    <3>5. QED
      BY <1>1, <2>1, <2>2, <3>1, <3>4 DEF Packing, Requesting
  <2>6. CASE ~ (Whole(start) <= budget)
    <3>1. \A n \in 0..Len(history) : n <= start => Whole(n) > budget
      BY <2>1, <2>3, <2>6
    <3>2. CASE start = Len(history)
      <4>1. step' = "cut" /\ start' = start
        BY <2>4, <2>6, <3>2 DEF Decision!Confirm
      <4>2. \A n \in 0..Len(history) : Whole(n) > budget
        BY <3>1, <3>2
      <4>3. Packing'
        BY <1>1, <3>2, <4>1, <4>2 DEF Packing, Whole, Decision!Size
      <4>4. QED
        BY <1>1, <2>1, <2>2, <4>1, <4>3 DEF Requesting
    <3>3. CASE start # Len(history)
      <4>1. step' = "confirm" /\ start' = start + 1
        BY <1>1, <2>4, <2>6, <3>3 DEF Decision!Confirm
      <4>2. \A n \in 0..Len(history) : n < start + 1 => Whole(n) > budget
        BY <2>3, <3>1
      <4>3. Packing'
        BY <1>1, <2>1, <4>1, <4>2 DEF Packing, Whole, Decision!Size
      <4>4. QED
        BY <1>1, <2>1, <2>2, <4>1, <4>3 DEF Requesting
    <3>4. QED
      BY <3>2, <3>3
  <2>7. QED
    BY <2>5, <2>6
<1>4. QED
  BY <1>1, <1>2, <1>3 DEF DecisionInv

LEMMA CutContentKeeps ==
  ASSUME DecisionInv, Decision!Cut
  PROVE  DecisionInv'
<1> DEFINE size == Decision!Size(start, kept, marked)
           less == size - budget + Marker
<1>1. /\ step = "cut" /\ UNCHANGED <<provider, history, budget, content, width>>
      /\ UNCHANGED <<start, total, answerTry, answer, feedback, requests, expired>>
      /\ Decision!Rest' = Decision!Rest
  BY FitsAsBefore DEF Decision!Cut, Decision!given
<1>2. size \in Int /\ budget \in Nat /\ Marker \in Nat /\ kept \in Nat /\ marked \in BOOLEAN
  BY SizeType, DecisionConstants DEF DecisionInv, PackTypes
<1>3. \/ size <= budget /\ step' = "ask" /\ UNCHANGED <<kept, marked, verdict>>
      \/ ~ (size <= budget) /\ kept = 0 /\ ~ marked /\ step' = "done" /\ verdict' = "chance"
           /\ UNCHANGED <<kept, marked>>
      \/ ~ (size <= budget) /\ kept <= less /\ kept' = 0 /\ marked' = FALSE
           /\ UNCHANGED <<step, verdict>>
      \/ ~ (size <= budget) /\ kept > less /\ marked' = TRUE
           /\ kept' \in {kept - less, kept - less - 1} /\ UNCHANGED <<step, verdict>>
  BY DEF Decision!Cut, Decision!Fail
<1> HIDE DEF size
<1>4. kept' \in Nat /\ marked' \in BOOLEAN
  <2>1. CASE ~ (size <= budget) /\ kept > less /\ marked' = TRUE /\ kept' \in {kept - less, kept - less - 1}
    <3>1. less \in Int
      BY <1>2
    <3> HIDE DEF less
    <3>2. QED
      BY <1>2, <2>1, <3>1
  <2>2. CASE kept' = kept /\ marked' = marked
    BY <1>2, <2>2
  <2>3. CASE kept' = 0 /\ marked' = FALSE
    BY <2>3
  <2> HIDE DEF less
  <2>4. QED
    BY <1>3, <2>1, <2>2, <2>3
<1>5. PackTypes'
  BY <1>1, <1>4 DEF DecisionInv, PackTypes
<1>6. ASSUME provider = "system_one" PROVE Packing' /\ Requesting'
  <2>1. /\ start = Len(history) /\ verdict # "chance"
        /\ \A n \in 0..Len(history) : Whole(n) > budget
        /\ \A i \in DOMAIN requests : NewestFit(requests[i].start, requests[i].kept, requests[i].marked)
    BY <1>1, <1>6 DEF DecisionInv, Packing, Requesting
  <2>2. \A i \in DOMAIN requests' : NewestFit(requests[i].start, requests[i].kept, requests[i].marked)'
    BY <1>1, <2>1 DEF NewestFit, Whole, Decision!Size
  <2>3. (\A n \in 0..Len(history) : Whole(n) > budget)'
    BY <1>1, <2>1 DEF Whole, Decision!Size
  <2>4. CASE size <= budget /\ step' = "ask" /\ UNCHANGED <<kept, marked, verdict>>
    <3>1. \A n \in 0..Len(history) : Whole(n) \in Int
      BY SizeType DEF DecisionInv, PackTypes, Whole
    <3>2. NewestFit(start, kept, marked)
      BY <1>2, <2>1, <2>4, <3>1 DEF NewestFit, size
    <3>3. NewestFit(start, kept, marked)'
      BY <1>1, <2>4, <3>2 DEF NewestFit, Whole, Decision!Size
    <3>4. QED
      BY <1>1, <2>1, <2>2, <2>4, <3>3 DEF Packing, Requesting
  <2>5. CASE ~ (size <= budget) /\ kept = 0 /\ ~ marked /\ step' = "done" /\ verdict' = "chance"
    <3>1. size = Decision!Size(Len(history), 0, FALSE)
      BY <2>1, <2>5 DEF size, Decision!Size
    <3>2. size > budget
      BY <1>2, <2>5
    <3>3. Decision!Size(Len(history), 0, FALSE) > budget
      BY <3>1, <3>2
    <3>4. (Decision!Size(Len(history), 0, FALSE) > budget)'
      BY <1>1, <3>3 DEF Decision!Size
    <3>5. QED
      BY <2>2, <2>5, <3>4 DEF Packing, Requesting
  <2>6. CASE UNCHANGED <<step, verdict>>
    BY <1>1, <2>1, <2>2, <2>3, <2>6 DEF Packing, Requesting
  <2>7. QED
    BY <1>3, <2>4, <2>5, <2>6
<1>7. QED
  BY <1>1, <1>5, <1>6 DEF DecisionInv

LEMMA AskKeeps ==
  ASSUME DecisionInv, Decision!Ask
  PROVE  DecisionInv'
<1>1. /\ step = "ask" /\ UNCHANGED <<provider, history, budget, content, width>>
      /\ UNCHANGED <<kept, marked, start, total, answerTry, feedback, expired>>
      /\ Decision!Rest' = Decision!Rest
  BY FitsAsBefore DEF Decision!Ask, Decision!given, Decision!packVars
<1>2. \/ expired /\ step' = "done" /\ verdict' = "chance" /\ requests' = requests
      \/ ~ expired /\ requests' = Append(requests, Decision!Request) /\ step' = "answered"
           /\ verdict' = verdict
  BY DEF Decision!Ask, Decision!Fail
<1>3. Decision!Request \in [start : Nat, kept : Nat, marked : BOOLEAN, feedback : BOOLEAN]
  BY DEF Decision!Request, DecisionInv, PackTypes
<1>4. PackTypes'
  <2> DEFINE Sent == [start : Nat, kept : Nat, marked : BOOLEAN, feedback : BOOLEAN]
  <2>1. requests' \in Seq(Sent)
    <3>1. requests \in Seq(Sent) /\ Decision!Request \in Sent
      BY <1>3 DEF DecisionInv, PackTypes
    <3> HIDE DEF Sent
    <3>2. QED
      BY <1>2, <3>1
  <2>2. QED
    BY <1>1, <2>1 DEF DecisionInv, PackTypes
<1>5. ASSUME provider = "system_one" PROVE Packing' /\ Requesting'
  <2>1. /\ NewestFit(start, kept, marked) /\ verdict # "chance"
        /\ \A i \in DOMAIN requests : NewestFit(requests[i].start, requests[i].kept, requests[i].marked)
    BY <1>1, <1>5 DEF DecisionInv, Requesting
  <2>2. NewestFit(start, kept, marked)'
    BY <1>1, <2>1 DEF NewestFit, Whole, Decision!Size
  <2>3. CASE expired /\ step' = "done" /\ verdict' = "chance" /\ requests' = requests
    <3>1. \A i \in DOMAIN requests' : NewestFit(requests[i].start, requests[i].kept, requests[i].marked)'
      BY <1>1, <2>1, <2>3 DEF NewestFit, Whole, Decision!Size
    <3>2. QED
      BY <1>1, <2>3, <3>1 DEF Packing, Requesting
  <2>4. CASE /\ ~ expired /\ requests' = Append(requests, Decision!Request) /\ step' = "answered"
             /\ verdict' = verdict
    <3>1. \A i \in DOMAIN requests' :
            \/ i \in DOMAIN requests /\ requests'[i] = requests[i]
            \/ requests'[i] = Decision!Request
      BY <2>4 DEF DecisionInv, PackTypes
    <3>2. /\ Decision!Request.start = start /\ Decision!Request.kept = kept
          /\ Decision!Request.marked = marked
      BY DEF Decision!Request
    <3>3. \A i \in DOMAIN requests' :
            NewestFit(requests'[i].start, requests'[i].kept, requests'[i].marked)
      BY <2>1, <3>1, <3>2
    <3>4. \A i \in DOMAIN requests' : NewestFit(requests[i].start, requests[i].kept, requests[i].marked)'
      BY <1>1, <3>3 DEF NewestFit, Whole, Decision!Size
    <3>5. requests' # <<>>
      BY <2>4 DEF DecisionInv, PackTypes
    <3>6. QED
      BY <2>1, <2>2, <2>4, <3>4, <3>5 DEF Packing, Requesting
  <2>5. QED
    BY <1>2, <2>3, <2>4
<1>6. QED
  BY <1>1, <1>4, <1>5 DEF DecisionInv

\* An answer, its delay and the end of the context leave what was packed and
\* sent as it is.
LEMMA AnswersKeep ==
  ASSUME DecisionInv, Decision!Answered \/ Decision!Wait \/ Decision!Expire
  PROVE  DecisionInv'
<1>1. /\ UNCHANGED <<provider, history, budget, content, width>>
      /\ UNCHANGED <<kept, marked, start, total, requests>>
      /\ Decision!Rest' = Decision!Rest
  BY FitsAsBefore DEF Decision!Answered, Decision!Wait, Decision!Expire, Decision!given,
     Decision!packVars, Decision!askVars
<1>2. PackTypes'
  <2>1. feedback' \in BOOLEAN
    BY DEF Decision!Answered, Decision!Wait, Decision!Expire, Decision!askVars, DecisionInv, PackTypes
  <2>2. QED
    BY <1>1, <2>1 DEF DecisionInv, PackTypes
<1>3. ASSUME provider = "system_one" PROVE Packing' /\ Requesting'
  <2>1. Packing /\ Requesting
    BY <1>3 DEF DecisionInv
  <2>2. \A i \in DOMAIN requests' : NewestFit(requests[i].start, requests[i].kept, requests[i].marked)'
    BY <1>1, <2>1 DEF Requesting, NewestFit, Whole, Decision!Size
  <2>3. NewestFit(start, kept, marked) => NewestFit(start, kept, marked)'
    BY <1>1 DEF NewestFit, Whole, Decision!Size
  <2>4. CASE Decision!Expire
    <3>1. expired' = TRUE /\ UNCHANGED <<step, verdict>>
      BY <2>4 DEF Decision!Expire, Decision!askVars
    <3>2. Packing'
      BY <1>1, <2>1, <3>1 DEF Packing, Whole, Decision!Size
    <3>3. QED
      BY <1>1, <2>1, <2>2, <2>3, <3>1, <3>2 DEF Requesting
  <2>5. CASE Decision!Answered \/ Decision!Wait
    <3>1. /\ step \in {"answered", "wait"}
          /\ \/ step' \in {"ask", "wait"} /\ verdict' = verdict
             \/ step' = "done"
      BY <2>5 DEF Decision!Answered, Decision!Wait, Decision!Fail
    <3>2. requests # <<>> /\ verdict # "chance" /\ NewestFit(start, kept, marked)
      BY <2>1, <3>1 DEF Requesting
    <3>3. Packing'
      BY <3>1 DEF Packing
    <3>4. QED
      BY <1>1, <2>2, <2>3, <3>1, <3>2, <3>3 DEF Requesting
  <2>6. QED
    BY <2>4, <2>5
<1>4. QED
  BY <1>1, <1>2, <1>3 DEF DecisionInv

LEMMA DecisionStep ==
  ASSUME DecisionInv, [ServicesNext]_servicesVars
  PROVE  DecisionInv'
<1>1. CASE UNCHANGED decisionVars
  <2>1. /\ UNCHANGED <<provider, history, budget, content, width>>
        /\ UNCHANGED <<kept, marked, start, total, step, feedback, expired, verdict, requests>>
    BY <1>1 DEF decisionVars
  <2>2. Decision!Rest' = Decision!Rest
    BY <2>1, FitsAsBefore DEF Decision!given
  <2>3. QED
    BY <2>1, <2>2 DEF DecisionInv, PackTypes, Packing, Requesting, NewestFit, Whole, Decision!Size
<1>2. CASE Decision!Next
  BY <1>2, EstimateKeeps, ConfirmKeeps, CutContentKeeps, AskKeeps, AnswersKeep DEF Decision!Next
<1>3. QED
  BY <1>1, <1>2 DEF ServicesNext, servicesVars

LEMMA DecisionInvariant == ServicesSpec => []DecisionInv
<1>1. ASSUME ServicesInit PROVE DecisionInv
  <2>1. Decision!Init
    BY <1>1 DEF ServicesInit
  <2>2. /\ kept = content /\ ~ marked /\ marked = FALSE /\ feedback = FALSE /\ verdict = "none"
        /\ requests = <<>> /\ start = Len(history) /\ total = Base + width * content - 1
        /\ step = IF provider = "llm" THEN "ask" ELSE "estimate"
    BY <2>1 DEF Decision!Init
  <2>3. history \in Seq(Nat)
    <3>1. PICK n \in 0..MaxHistory : history \in [1..n -> Sizes]
      BY <2>1 DEF Decision!Init
    <3>2. history \in [1..n -> Nat] /\ n \in Nat
      BY <3>1, DecisionConstants
    <3>3. QED
      BY <3>2
  <2>4. budget \in Nat /\ content \in Nat /\ width \in Nat
    BY <2>1, DecisionConstants DEF Decision!Init
  <2>5. PackTypes
    <3>1. start \in 0..Len(history) /\ requests \in Seq([start : Nat, kept : Nat, marked : BOOLEAN, feedback : BOOLEAN])
      BY <2>2, <2>3
    <3>2. QED
      BY <2>2, <2>3, <2>4, <3>1 DEF PackTypes
  <2>6. width * content \in Nat /\ Base \in Nat
    BY <2>4, DecisionConstants
  <2>7. ASSUME provider = "system_one" PROVE Packing /\ Requesting
    <3>1. total = Base + width * content - 1 + Decision!Rest[start]
      BY <2>2, <2>3, <2>6, RestOfHistory
    <3>2. QED
      BY <2>2, <2>7, <3>1 DEF Packing, Requesting
  <2>8. QED
    BY <2>5, <2>7 DEF DecisionInv
<1>2. QED
  BY <1>1, DecisionStep, PTL DEF ServicesSpec

\* Every state sent to System One fits max_state_bytes and has as much of the
\* history as fits, for any sizes, budgets and lengths of the history
\* (buildDecisionState): the estimate and the confirmation lose no message.
THEOREM RequestsHaveNewestThatFits == ServicesSpec => []NewestThatFits
<1>1. ASSUME DecisionInv PROVE NewestThatFits
  BY <1>1 DEF DecisionInv, Requesting, NewestFit, Whole, NewestThatFits, Decision!NewestThatFits
<1>2. QED
  BY <1>1, DecisionInvariant, PTL
==============================================================================
