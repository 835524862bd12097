---------------------------- MODULE Application ----------------------------
(***************************************************************************)
(* The life of the process (src/src/miairx/app.py, core/lifecycle.py,      *)
(* cli.py): start() brings the servers up, a saved configuration reloads   *)
(* some of them from a handler of the management console, and a signal, a  *)
(* failed start or too many failed calls of the speaker shut all of them   *)
(* down.  The three run in one event loop without a lock and interleave at *)
(* their awaits: a step is what runs between two of them.                  *)
(*                                                                         *)
(* Servers are numbered as they are made.  There is one speaker, so one    *)
(* AirPlay service at a time; the HTTP server and the SSDP server that     *)
(* DLNA makes together share their number.  What the account does is in    *)
(* MiAccount, what the servers do in the modules of their own.             *)
(***************************************************************************)
EXTENDS Naturals

CONSTANTS
  Handlers,  \* bound: requests that save a configuration and may overlap
  MaxMade    \* bound: servers of a kind, and sets of controllers

ASSUME ApplicationAssumption == "main" \notin Handlers /\ MaxMade \in Nat \ {0}

VARIABLES
  at,           \* what async_main and each reload wait for
  held,         \* the servers that they start or stop meanwhile
  made,         \* DLNA servers made so far: dlna_server and ssdp are the last
  httpUp,       \* the ones that have their port
  ssdpUp,       \* the ones whose SSDP server has its socket
  dlnaFor,      \* the controllers that the renderers have
  airMade,      \* AirPlay services made so far
  air,          \* _airplay_services
  airUp,        \* the services that have their ports
  airFor,       \* the controllers that the last service has
  cut,          \* history: services that were forgotten before they had stopped
  built,        \* sets of controllers made so far
  controllers,  \* the one that speaker_manager has; 0 is none
  web,          \* the management console: "off", "starting", "on"
  session,      \* the shared HTTP session is open
  registered,   \* stop() is a shutdown callback
  stop,         \* what stop() waits for, "no" or "done"
  taken,        \* the servers that it stops meanwhile
  lifecycle,    \* "run", "shutting" (_is_shutting_down), "down" (the event)
  calm,         \* history: no two reloads have overlapped, and no shutdown has
                \* come during start() or cut the start of an AirPlay service
  intact        \* history: no reload has failed

dlna == <<made, httpUp, ssdpUp, dlnaFor>>
airplay == <<airMade, air, airUp, airFor, cut>>
speakers == <<built, controllers>>
shutdown == <<registered, stop, taken, lifecycle>>
vars == <<at, held, dlna, airplay, speakers, web, session, shutdown, calm, intact>>

Workers == {"main"} \cup Handlers

Init ==
  /\ at = [w \in Workers |-> IF w = "main" THEN "init" ELSE "idle"]
  /\ held = [w \in Workers |-> {}]
  /\ made = 0 /\ httpUp = {} /\ ssdpUp = {} /\ dlnaFor = 0
  /\ airMade = 0 /\ air = {} /\ airUp = {} /\ airFor = 0 /\ cut = {}
  /\ built = 0 /\ controllers = 0 /\ web = "off" /\ session = TRUE
  /\ registered = FALSE /\ stop = "no" /\ taken = {} /\ lifecycle = "run"
  /\ calm = TRUE /\ intact = TRUE

\* w has waited for `where`, and nothing runs once async_main has returned.
At(w, where) == at[w] = where /\ at["main"] # "exit"

\* w goes on to wait for `where`, with these servers in hand.
Goes(w, where, servers) ==
  /\ at' = [at EXCEPT ![w] = where]
  /\ held' = [held EXCEPT ![w] = servers]

\* self.dlna_server and self.ssdp.
Last == IF made = 0 THEN {} ELSE {made}

----------------------------------------------------------------------------
(* _start_dlna_server and _start_airplay_server, of start() and a reload.  *)

\* New servers, for the controllers ctl, take the place of the last ones, and
\* wait for their port.
MakeDlna(w, ctl) ==
  /\ made < MaxMade
  /\ made' = made + 1 /\ dlnaFor' = ctl
  /\ Goes(w, "bind", {made + 1})

\* Without a controller there is no service to start.
MakeAir(w) ==
  /\ airMade < MaxMade
  /\ airMade' = airMade + 1 /\ airFor' = controllers
  /\ air' = {}
  /\ Goes(w, "startAir", IF controllers = 0 THEN {} ELSE {airMade + 1})

\* An exception ends start(), or the reload: the handler answers 500.
Fails(w) ==
  /\ Goes(w, IF w = "main" THEN "failed" ELSE "idle", {})
  /\ intact' = (intact /\ w = "main")

\* The port may be another program's, or one of ours that is still up where
\* the configuration has not moved it.
HttpBinds(w) ==
  /\ At(w, "bind")
  /\ \/ /\ httpUp' = httpUp \cup held[w]
        /\ Goes(w, "ssdp", {made}) /\ UNCHANGED intact
     \/ Fails(w) /\ UNCHANGED httpUp
  /\ UNCHANGED <<made, ssdpUp, dlnaFor, airplay, speakers, web, session, shutdown, calm>>

\* start() goes on to AirPlay; a reload stops the service of before first.
SsdpStarts(w) ==
  /\ At(w, "ssdp")
  /\ \/ /\ ssdpUp' = ssdpUp \cup held[w]
        /\ IF w = "main" THEN MakeAir(w) /\ UNCHANGED <<airUp, cut>>
           ELSE Goes(w, "stopAir", air) /\ UNCHANGED airplay
        /\ UNCHANGED intact
     \/ Fails(w) /\ UNCHANGED <<ssdpUp, airplay>>
  /\ UNCHANGED <<made, httpUp, dlnaFor, speakers, web, session, shutdown, calm>>

\* AirplayServer.start closes what it has opened when it fails.
AirStarts(w) ==
  /\ At(w, "startAir")
  /\ \/ /\ airUp' = airUp \cup held[w] /\ air' = air \cup held[w]
        /\ Goes(w, IF w = "main" THEN "web" ELSE "idle", {})
        /\ web' = IF w = "main" THEN "starting" ELSE web
        /\ UNCHANGED intact
     \/ Fails(w) /\ UNCHANGED <<airUp, air, web>>
  /\ UNCHANGED <<dlna, airMade, airFor, cut, speakers, session, shutdown, calm>>

\* _stop_one, of stop() and a reload: airplay.stop() has five seconds, and an
\* exception is swallowed too.  Where it is cut, before _audio_server.stop(),
\* a port stays open, though _airplay_services forgets the service all the same.
ClosesAir(services) ==
  \/ airUp' = airUp \ services /\ UNCHANGED cut
  \/ UNCHANGED airUp /\ cut' = cut \cup (services \cap airUp)

----------------------------------------------------------------------------
(* async_main and Application.start. *)

\* speaker_manager.initialize() is over; stop() becomes a shutdown callback.
Initialized ==
  /\ At("main", "init")
  /\ built' = 1 /\ controllers' = 1 /\ registered' = TRUE
  /\ MakeDlna("main", 1)
  /\ UNCHANGED <<httpUp, ssdpUp, airplay, web, session, stop, taken, lifecycle, calm, intact>>

WebStarts ==
  /\ At("main", "web")
  /\ \/ Goes("main", "wait", {}) /\ web' = "on" /\ UNCHANGED intact
     \/ Fails("main") /\ UNCHANGED web
  /\ UNCHANGED <<dlna, airplay, speakers, session, shutdown, calm>>

\* The end of async_main: the event has been set, or it failed while another
\* shutdown is under way, for which nobody waits then.
MainExits ==
  /\ \/ at["main"] \in {"wait", "ending"} /\ lifecycle = "down"
     \/ at["main"] = "failed" /\ lifecycle # "run"
  /\ Goes("main", "exit", {})
  /\ UNCHANGED <<dlna, airplay, speakers, web, session, shutdown, calm, intact>>

----------------------------------------------------------------------------
(* reload_after_config_change, in a handler of the console. *)

Reloading == \E h \in Handlers : at[h] # "idle"

\* Saving the configuration and invalidating the session do not wait; other
\* speakers or credentials rebuild the controllers first.
ReloadBegins(h) ==
  /\ At(h, "idle") /\ web = "on" /\ stop = "no"
  /\ \/ Goes(h, "rebuild", {})
     \/ Goes(h, "stopSsdp", Last)
  /\ calm' = (calm /\ ~Reloading)
  /\ UNCHANGED <<dlna, airplay, speakers, web, session, shutdown, intact>>

\* The speakers have been stopped: the controllers are dropped.
Cleared(h) ==
  /\ At(h, "rebuild")
  /\ controllers' = 0
  /\ Goes(h, "discover", {})
  /\ UNCHANGED <<dlna, airplay, built, web, session, shutdown, calm, intact>>

\* The account has been asked for the speakers, with or without an answer.
Rebuilt(h) ==
  /\ At(h, "discover")
  /\ IF controllers # 0 THEN UNCHANGED speakers
     ELSE built < MaxMade /\ built' = built + 1 /\ controllers' = built + 1
  /\ Goes(h, "stopSsdp", Last)
  /\ UNCHANGED <<dlna, airplay, web, session, shutdown, calm, intact>>

SsdpStopped(h) ==
  /\ At(h, "stopSsdp")
  /\ ssdpUp' = ssdpUp \ held[h]
  /\ Goes(h, "stopHttp", Last)
  /\ UNCHANGED <<made, httpUp, dlnaFor, airplay, speakers, web, session, shutdown, calm, intact>>

HttpStopped(h) ==
  /\ At(h, "stopHttp")
  /\ httpUp' = httpUp \ held[h]
  /\ MakeDlna(h, controllers)
  /\ UNCHANGED <<ssdpUp, airplay, speakers, web, session, shutdown, calm, intact>>

\* Mutant of AirStopped: the AirPlay service goes on as it is.
AirStoppedKeeps(h) ==
  /\ At(h, "stopAir")
  /\ Goes(h, "idle", {})
  /\ UNCHANGED <<dlna, airplay, speakers, web, session, shutdown, calm, intact>>

\* Mutant of AirStopped: the service is forgotten without being stopped.
AirStoppedForgets(h) ==
  /\ At(h, "stopAir")
  /\ MakeAir(h)
  /\ UNCHANGED <<dlna, airUp, cut, speakers, web, session, shutdown, calm, intact>>

AirStopped(h) ==
  /\ At(h, "stopAir")
  /\ ClosesAir(held[h])
  /\ MakeAir(h)
  /\ UNCHANGED <<dlna, speakers, web, session, shutdown, calm, intact>>

----------------------------------------------------------------------------
(* LifecycleManager.shutdown and Application.stop. *)

\* Before stop() is registered there is nothing to call.
ShutdownBegins ==
  /\ lifecycle' = IF registered THEN "shutting" ELSE "down"
  /\ stop' = IF registered THEN "web" ELSE "no"
  /\ UNCHANGED <<dlna, airplay, speakers, web, session, registered, taken, intact>>

\* A signal, or a controller whose calls have failed six times in a row.
Triggered ==
  /\ lifecycle = "run" /\ at["main"] \notin {"failed", "exit"}
  /\ ShutdownBegins
  /\ calm' = (calm /\ at["main"] = "wait")
  /\ UNCHANGED <<at, held>>

StartFailed ==
  /\ lifecycle = "run" /\ At("main", "failed")
  /\ ShutdownBegins
  /\ Goes("main", "ending", {})
  /\ UNCHANGED calm

\* stop() goes on to wait for `where`, with these servers in hand.
StopGoes(from, where, servers) ==
  /\ stop = from /\ at["main"] # "exit"
  /\ stop' = where /\ taken' = servers
  /\ UNCHANGED registered

\* Mutant of WebStops: requests that are under way are not waited for.
WebStopsAtOnce ==
  /\ StopGoes("web", "air", air)
  /\ web' = "off"
  /\ UNCHANGED <<at, held, dlna, airplay, speakers, session, lifecycle, calm, intact>>

\* The console takes no more requests, and waits 60 s for the ones under way
\* before it cancels them.
WebStops ==
  /\ StopGoes("web", "air", air)
  /\ web' = "off"
  /\ at' = [w \in Workers |-> IF w = "main" THEN at[w] ELSE "idle"]
  /\ held' = [w \in Workers |-> IF w = "main" THEN held[w] ELSE {}]
  /\ calm' = (calm /\ \A h \in Handlers : at[h] # "startAir")
  /\ UNCHANGED <<dlna, airplay, speakers, session, lifecycle, intact>>

AirStops ==
  /\ StopGoes("air", "ssdp", Last)
  /\ ClosesAir(taken) /\ air' = {}
  /\ UNCHANGED <<at, held, dlna, airMade, airFor, speakers, web, session, lifecycle, calm, intact>>

SsdpStops ==
  /\ StopGoes("ssdp", "http", Last)
  /\ ssdpUp' = ssdpUp \ taken
  /\ UNCHANGED <<at, held, made, httpUp, dlnaFor, airplay, speakers, web, session, lifecycle, calm, intact>>

HttpStops ==
  /\ StopGoes("http", "rest", {})
  /\ httpUp' = httpUp \ taken
  /\ UNCHANGED <<at, held, made, ssdpUp, dlnaFor, airplay, speakers, web, session, lifecycle, calm, intact>>

\* Mutant of RestStops: nobody tells async_main.
RestStopsSilent ==
  /\ StopGoes("rest", "done", {})
  /\ session' = FALSE
  /\ UNCHANGED <<at, held, dlna, airplay, speakers, web, lifecycle, calm, intact>>

\* The speakers, the account, the QR logins and the session.
RestStops ==
  /\ StopGoes("rest", "done", {})
  /\ session' = FALSE /\ lifecycle' = "down"
  /\ UNCHANGED <<at, held, dlna, airplay, speakers, web, calm, intact>>

----------------------------------------------------------------------------
Reload(h) ==
  \/ ReloadBegins(h) \/ Cleared(h) \/ Rebuilt(h)
  \/ SsdpStopped(h) \/ HttpStopped(h) \/ AirStopped(h)

Starts(w) == HttpBinds(w) \/ SsdpStarts(w) \/ AirStarts(w)

Main == Initialized \/ WebStarts \/ MainExits \/ StartFailed

Stops == WebStops \/ AirStops \/ SsdpStops \/ HttpStops \/ RestStops

Next ==
  \/ Main \/ Stops \/ Triggered
  \/ \E w \in Workers : Starts(w)
  \/ \E h \in Handlers : Reload(h)

Spec == Init /\ [][Next]_vars

\* Every await of start() and stop() ends: sockets answer, requests time out.
FairSpec == Spec /\ WF_vars(Main \/ Starts("main")) /\ WF_vars(Stops)

----------------------------------------------------------------------------
Numbers == 0..MaxMade

TypeOK ==
  /\ at \in [Workers -> {"init", "web", "wait", "failed", "ending", "exit", "idle",
                         "rebuild", "discover", "stopSsdp", "stopHttp", "stopAir",
                         "bind", "ssdp", "startAir"}]
  /\ held \in [Workers -> SUBSET Numbers] /\ taken \in SUBSET Numbers
  /\ made \in Numbers /\ dlnaFor \in Numbers /\ airMade \in Numbers /\ airFor \in Numbers
  /\ built \in Numbers /\ controllers \in Numbers
  /\ httpUp \in SUBSET Numbers /\ ssdpUp \in SUBSET Numbers
  /\ air \in SUBSET Numbers /\ airUp \in SUBSET Numbers /\ cut \in SUBSET Numbers
  /\ web \in {"off", "starting", "on"} /\ session \in BOOLEAN /\ registered \in BOOLEAN
  /\ stop \in {"no", "web", "air", "ssdp", "http", "rest", "done"}
  /\ lifecycle \in {"run", "shutting", "down"}
  /\ calm \in BOOLEAN /\ intact \in BOOLEAN

\* Where reloads come one by one, every server that has a port is one that
\* Application knows, so that the next reload, or stop(), can close it, or an
\* AirPlay service whose stop was cut (app.py:412-430).
ServersKnown ==
  calm => httpUp \subseteq Last /\ ssdpUp \subseteq Last /\ airUp \subseteq air \cup cut

\* A shutdown leaves nothing on but what its own five seconds, or those of an
\* earlier reload, have cut, whether start() failed half-way or a reload was
\* under way when it came, and async_main does not return before that ("避免遗留
\* ClientSession", docs/ARCHITECTURE.md:60; app.py:357-398, 416-430).
StoppedIsOff ==
  calm /\ (lifecycle = "down" \/ at["main"] = "exit") =>
    httpUp = {} /\ ssdpUp = {} /\ airUp \subseteq cut /\ web # "on" /\ ~session

\* After a reload DLNA and AirPlay both play on the controllers that the
\* manager has, not on ones that it has dropped, though an old service whose
\* stop was cut may keep its port.
ServicesAgree ==
  calm /\ intact /\ at["main"] = "wait" /\ stop = "no" /\ ~Reloading =>
    /\ dlnaFor = controllers /\ airFor = controllers
    /\ httpUp = Last /\ ssdpUp = Last /\ airUp \ cut = air /\ air # {}

\* A shutdown comes to its end, whatever runs when it is triggered, and the
\* process exits.
ShutdownEnds == lifecycle = "shutting" ~> at["main"] = "exit"
=============================================================================
