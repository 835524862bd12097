-------------------------- MODULE ApplicationProofs --------------------------
(***************************************************************************)
(* What Application keeps for any number of requests and of servers.       *)
(***************************************************************************)
EXTENDS Application, TLAPS

----------------------------------------------------------------------------
(* Types. *)

Places == {"init", "web", "wait", "failed", "ending", "exit", "idle",
           "rebuild", "discover", "stopSsdp", "stopHttp", "stopAir",
           "bind", "ssdp", "startAir"}

\* The two halves of TypeOK: what Goes changes, and the rest.
HandsOK == at \in [Workers -> Places] /\ held \in [Workers -> SUBSET Numbers]

RestOK ==
  /\ taken \in SUBSET Numbers
  /\ made \in Numbers /\ dlnaFor \in Numbers /\ airMade \in Numbers /\ airFor \in Numbers
  /\ built \in Numbers /\ controllers \in Numbers
  /\ httpUp \in SUBSET Numbers /\ ssdpUp \in SUBSET Numbers
  /\ air \in SUBSET Numbers /\ airUp \in SUBSET Numbers /\ cut \in SUBSET Numbers
  /\ web \in {"off", "starting", "on"} /\ session \in BOOLEAN /\ registered \in BOOLEAN
  /\ stop \in {"no", "web", "air", "ssdp", "http", "rest", "done"}
  /\ lifecycle \in {"run", "shutting", "down"}
  /\ calm \in BOOLEAN /\ intact \in BOOLEAN

LEMMA Halves == TypeOK <=> HandsOK /\ RestOK
  BY DEF TypeOK, HandsOK, RestOK, Places

LEMMA Constants == /\ "main" \in Workers /\ Handlers \subseteq Workers
                   /\ 0 \in Numbers /\ 1 \in Numbers
                   /\ \A n \in Numbers : n < MaxMade => n + 1 \in Numbers
  BY ApplicationAssumption DEF Workers, Numbers

LEMMA InitTyped == Init => TypeOK
  <1>. SUFFICES ASSUME Init PROVE HandsOK /\ RestOK
    BY Halves
  <1>1. HandsOK
    BY DEF Init, HandsOK, Places
  <1>2. RestOK
    BY Constants DEF Init, RestOK
  <1>. QED BY <1>1, <1>2

LEMMA GoesTyped ==
  ASSUME HandsOK, NEW w \in Workers, NEW where \in Places, NEW servers \in SUBSET Numbers,
         Goes(w, where, servers)
  PROVE  HandsOK'
  BY DEF HandsOK, Goes

\* A worker that fails has nothing in hand.
LEMMA FailsTyped ==
  ASSUME HandsOK, RestOK, NEW w \in Workers, Fails(w)
  PROVE  HandsOK' /\ intact' \in BOOLEAN
  <1>1. (IF w = "main" THEN "failed" ELSE "idle") \in Places
    BY DEF Places
  <1>2. HandsOK'
    BY <1>1, GoesTyped DEF Fails
  <1>. QED BY <1>2 DEF Fails, RestOK

LEMMA LastTyped == ASSUME RestOK PROVE Last \in SUBSET Numbers
  BY Constants DEF RestOK, Last

\* Closed or cut, services keep their numbers.
LEMMA ClosesTyped ==
  ASSUME RestOK, NEW services, ClosesAir(services)
  PROVE  /\ airUp' \in SUBSET Numbers /\ cut' \in SUBSET Numbers
         /\ airUp' \subseteq airUp /\ cut' \subseteq cut \cup airUp
  BY DEF ClosesAir, RestOK

LEMMA MakeDlnaTyped ==
  ASSUME HandsOK, RestOK, NEW w \in Workers, NEW ctl \in Numbers, MakeDlna(w, ctl)
  PROVE  HandsOK' /\ made' \in Numbers /\ dlnaFor' \in Numbers
  <1>1. made + 1 \in Numbers /\ {made + 1} \in SUBSET Numbers /\ "bind" \in Places
    BY Constants DEF MakeDlna, RestOK, Places
  <1>2. HandsOK'
    BY <1>1, GoesTyped DEF MakeDlna
  <1>. QED BY <1>1, <1>2 DEF MakeDlna

LEMMA MakeAirTyped ==
  ASSUME HandsOK, RestOK, NEW w \in Workers, MakeAir(w)
  PROVE  HandsOK' /\ airMade' \in Numbers /\ airFor' \in Numbers /\ air' \in SUBSET Numbers
  <1>1. airMade + 1 \in Numbers /\ {airMade + 1} \in SUBSET Numbers /\ "startAir" \in Places
    BY Constants DEF MakeAir, RestOK, Places
  <1>2. (IF controllers = 0 THEN {} ELSE {airMade + 1}) \in SUBSET Numbers
    BY <1>1
  <1>3. HandsOK'
    BY <1>1, <1>2, GoesTyped DEF MakeAir
  <1>. QED BY <1>1, <1>3 DEF MakeAir, RestOK

LEMMA MainTyped ==
  ASSUME HandsOK, RestOK, Main
  PROVE  HandsOK' /\ RestOK'
  <1>. "main" \in Workers /\ {"exit", "ending", "wait"} \subseteq Places /\ {} \in SUBSET Numbers
    BY Constants DEF Places
  <1>1. CASE Initialized
    <2>1. HandsOK' /\ made' \in Numbers /\ dlnaFor' \in Numbers
      BY <1>1, Constants, MakeDlnaTyped DEF Initialized
    <2>. QED BY <1>1, <2>1, Constants DEF Initialized, RestOK, airplay
  <1>2. CASE WebStarts
    <2>1. HandsOK' /\ intact' \in BOOLEAN
      BY <1>2, GoesTyped, FailsTyped DEF WebStarts, RestOK
    <2>. QED BY <1>2, <2>1 DEF WebStarts, RestOK, dlna, airplay, speakers, shutdown
  <1>3. CASE MainExits
    <2>1. HandsOK'
      BY <1>3, GoesTyped DEF MainExits
    <2>. QED BY <1>3, <2>1 DEF MainExits, RestOK, dlna, airplay, speakers, shutdown
  <1>4. CASE StartFailed
    <2>1. HandsOK'
      BY <1>4, GoesTyped DEF StartFailed
    <2>. QED BY <1>4, <2>1 DEF StartFailed, ShutdownBegins, RestOK, dlna, airplay, speakers
  <1>. QED BY <1>1, <1>2, <1>3, <1>4 DEF Main

LEMMA StopsTyped ==
  ASSUME HandsOK, RestOK, Stops \/ Triggered
  PROVE  HandsOK' /\ RestOK'
  <1>. Last \in SUBSET Numbers /\ {} \in SUBSET Numbers
    BY LastTyped
  <1>1. HandsOK'
    BY DEF Stops, Triggered, WebStops, AirStops, SsdpStops, HttpStops, RestStops, HandsOK, Places
  <1>2. CASE WebStops
    BY <1>1, <1>2 DEF WebStops, StopGoes, RestOK, dlna, airplay, speakers
  <1>3. CASE AirStops
    BY <1>1, <1>3, ClosesTyped DEF AirStops, StopGoes, RestOK, dlna, speakers
  <1>4. CASE SsdpStops \/ HttpStops
    BY <1>1, <1>4 DEF SsdpStops, HttpStops, StopGoes, RestOK, airplay, speakers
  <1>5. CASE RestStops
    BY <1>1, <1>5 DEF RestStops, StopGoes, RestOK, dlna, airplay, speakers
  <1>6. CASE Triggered
    BY <1>1, <1>6 DEF Triggered, ShutdownBegins, RestOK, dlna, airplay, speakers
  <1>. QED BY <1>1, <1>2, <1>3, <1>4, <1>5, <1>6 DEF Stops

LEMMA StartsTyped ==
  ASSUME HandsOK, RestOK, NEW w \in Workers, Starts(w)
  PROVE  HandsOK' /\ RestOK'
  <1>. held[w] \in SUBSET Numbers /\ {"ssdp", "stopAir", "web", "idle"} \subseteq Places
    BY DEF HandsOK, Places
  <1>1. CASE HttpBinds(w)
    <2>1. HandsOK' /\ intact' \in BOOLEAN
      <3>1. CASE Fails(w)
        BY <3>1, FailsTyped
      <3>2. CASE Goes(w, "ssdp", {made}) /\ UNCHANGED intact
        BY <3>2, GoesTyped DEF RestOK
      <3>. QED BY <1>1, <3>1, <3>2 DEF HttpBinds
    <2>. QED BY <1>1, <2>1 DEF HttpBinds, RestOK, airplay, speakers, shutdown
  <1>2. CASE SsdpStarts(w)
    <2>1. CASE Fails(w) /\ UNCHANGED <<ssdpUp, airplay>>
      BY <1>2, <2>1, FailsTyped DEF SsdpStarts, RestOK, airplay, speakers, shutdown
    <2>2. CASE /\ ssdpUp' = ssdpUp \cup held[w] /\ UNCHANGED intact
               /\ MakeAir(w) /\ UNCHANGED <<airUp, cut>>
      BY <1>2, <2>2, MakeAirTyped DEF SsdpStarts, RestOK, speakers, shutdown
    <2>3. CASE /\ ssdpUp' = ssdpUp \cup held[w] /\ UNCHANGED intact
               /\ Goes(w, "stopAir", air) /\ UNCHANGED airplay
      <3>1. HandsOK'
        BY <2>3, GoesTyped DEF RestOK
      <3>. QED BY <1>2, <2>3, <3>1 DEF SsdpStarts, RestOK, airplay, speakers, shutdown
    <2>. QED BY <1>2, <2>1, <2>2, <2>3 DEF SsdpStarts
  <1>3. CASE AirStarts(w)
    <2>1. HandsOK' /\ intact' \in BOOLEAN
      <3>1. CASE Fails(w)
        BY <3>1, FailsTyped
      <3>2. CASE Goes(w, IF w = "main" THEN "web" ELSE "idle", {}) /\ UNCHANGED intact
        BY <3>2, GoesTyped DEF RestOK
      <3>. QED BY <1>3, <3>1, <3>2 DEF AirStarts
    <2>. QED BY <1>3, <2>1 DEF AirStarts, RestOK, dlna, speakers, shutdown
  <1>. QED BY <1>1, <1>2, <1>3 DEF Starts

LEMMA ReloadTyped ==
  ASSUME HandsOK, RestOK, NEW h \in Handlers, Reload(h)
  PROVE  HandsOK' /\ RestOK'
  <1>. /\ h \in Workers /\ held[h] \in SUBSET Numbers
       /\ Last \in SUBSET Numbers /\ {} \in SUBSET Numbers /\ air \in SUBSET Numbers
       /\ {"rebuild", "discover", "stopSsdp", "stopHttp"} \subseteq Places
    BY Constants, LastTyped DEF HandsOK, RestOK, Places
  <1>1. CASE ReloadBegins(h)
    <2>1. HandsOK'
      BY <1>1, GoesTyped DEF ReloadBegins
    <2>. QED BY <1>1, <2>1 DEF ReloadBegins, RestOK, dlna, airplay, speakers, shutdown
  <1>2. CASE Cleared(h)
    <2>1. HandsOK'
      BY <1>2, GoesTyped DEF Cleared
    <2>. QED BY <1>2, <2>1, Constants DEF Cleared, RestOK, dlna, airplay, shutdown
  <1>3. CASE Rebuilt(h)
    <2>1. HandsOK'
      BY <1>3, GoesTyped DEF Rebuilt
    <2>. QED BY <1>3, <2>1, Constants DEF Rebuilt, RestOK, dlna, airplay, speakers, shutdown
  <1>4. CASE SsdpStopped(h)
    <2>1. HandsOK'
      BY <1>4, GoesTyped DEF SsdpStopped
    <2>. QED BY <1>4, <2>1 DEF SsdpStopped, RestOK, airplay, speakers, shutdown
  <1>5. CASE HttpStopped(h)
    <2>1. HandsOK' /\ made' \in Numbers /\ dlnaFor' \in Numbers
      BY <1>5, MakeDlnaTyped DEF HttpStopped, RestOK
    <2>. QED BY <1>5, <2>1 DEF HttpStopped, RestOK, airplay, speakers, shutdown
  <1>6. CASE AirStopped(h)
    <2>1. HandsOK' /\ airMade' \in Numbers /\ airFor' \in Numbers /\ air' \in SUBSET Numbers
      BY <1>6, MakeAirTyped DEF AirStopped
    <2>. QED BY <1>6, <2>1, ClosesTyped DEF AirStopped, RestOK, dlna, speakers, shutdown
  <1>. QED BY <1>1, <1>2, <1>3, <1>4, <1>5, <1>6 DEF Reload

LEMMA NextTyped ==
  ASSUME TypeOK, [Next]_vars
  PROVE  TypeOK'
  <1>1. HandsOK /\ RestOK
    BY Halves
  <1>2. HandsOK' /\ RestOK'
    <2>1. CASE UNCHANGED vars
      BY <1>1, <2>1 DEF vars, HandsOK, RestOK, dlna, airplay, speakers, shutdown
    <2>. QED BY <1>1, <2>1, MainTyped, StopsTyped, StartsTyped, ReloadTyped DEF Next
  <1>. QED BY <1>2 DEF TypeOK, HandsOK, RestOK, Places

\* Every variable keeps its type.
THEOREM TypeCorrect == Spec => []TypeOK
  <1>1. TypeOK /\ [Next]_vars => TypeOK'
    BY NextTyped
  <1>. QED BY <1>1, InitTyped, PTL DEF Spec

----------------------------------------------------------------------------
(* Where reloads do not overlap and no shutdown comes during start().       *)

HandlersIdle == \A h \in Handlers : at[h] = "idle"

\* What each place of a start or of a reload knows.
StartInv(w) ==
  /\ at[w] = "bind" => httpUp = {} /\ ssdpUp = {} /\ made # 0 /\ held[w] = Last
  /\ at[w] = "ssdp" => ssdpUp = {} /\ made # 0 /\ held[w] = Last
  /\ at[w] = "startAir" => airUp \subseteq cut /\ air = {}

ReloadInv(h) ==
  /\ at[h] = "stopSsdp" => held[h] = Last
  /\ at[h] = "stopHttp" => held[h] = Last /\ ssdpUp = {}
  /\ at[h] = "stopAir" => held[h] = air

\* start() is alone; only main waits while the console is on.
MainInv ==
  /\ at["main"] = "init" => httpUp = {} /\ ssdpUp = {}
  /\ at["main"] \in {"init", "bind", "ssdp"} => air = {} /\ airUp = {}
  /\ at["main"] # "init" => registered
  /\ at["main"] \notin {"wait", "exit"} => web # "on" /\ HandlersIdle

\* stop() runs when main does not, and switches one thing off after the other.
StopInv ==
  /\ lifecycle = "run" <=> stop = "no"
  /\ lifecycle = "down" => stop = "done"
  /\ stop # "no" => at["main"] \in {"wait", "ending", "exit"}
  /\ at["main"] = "exit" => lifecycle = "down"
  /\ stop \notin {"no", "web"} => web = "off" /\ HandlersIdle
  /\ stop = "air" => taken = air
  /\ stop \in {"ssdp", "http"} => taken = Last
  /\ stop \in {"ssdp", "http", "rest", "done"} => airUp \subseteq cut
  /\ stop \in {"http", "rest", "done"} => ssdpUp = {}
  /\ stop \in {"rest", "done"} => httpUp = {}
  /\ stop = "done" => ~session

KnownInv ==
  /\ httpUp \subseteq Last /\ ssdpUp \subseteq Last /\ airUp \subseteq air \cup cut
  /\ \A g, h \in Handlers : at[g] # "idle" /\ at[h] # "idle" => g = h

CalmInv ==
  /\ MainInv /\ StopInv /\ KnownInv
  /\ \A w \in Workers : StartInv(w)
  /\ \A h \in Handlers : ReloadInv(h)

LEMMA InitCalm == Init => CalmInv
  BY ApplicationAssumption
  DEF Init, CalmInv, MainInv, StopInv, KnownInv, StartInv, ReloadInv, HandlersIdle, Workers, Last

\* Places between the two ends of a start, or of a reload's stops.
Serving == {"bind", "ssdp", "startAir", "stopSsdp", "stopHttp", "stopAir"}

\* One worker at a time is in such a place, and stop() has switched nothing off.
LEMMA Alone ==
  ASSUME TypeOK, CalmInv, NEW w \in Workers, at[w] \in Serving
  PROVE  /\ \A v \in Workers : v # w => at[v] \notin Serving
         /\ stop \in {"no", "web"} /\ (w = "main" => stop = "no" /\ HandlersIdle)
         /\ w # "main" => w \in Handlers /\ at["main"] \in {"wait", "exit"}
  <1>. stop \in {"no", "web", "air", "ssdp", "http", "rest", "done"}
    BY DEF TypeOK
  <1>. "main" \in Workers /\ \A v \in Workers : v # "main" => v \in Handlers
    BY DEF Workers
  <1>. QED
    BY ApplicationAssumption
    DEF CalmInv, MainInv, StopInv, KnownInv, HandlersIdle, Serving

\* The servers that take the place of the last ones.
LEMMA MakeDlnaMakes ==
  ASSUME TypeOK, NEW w \in Workers, NEW ctl, MakeDlna(w, ctl)
  PROVE  /\ made' # 0 /\ Last' = {made'} /\ dlnaFor' = ctl
         /\ Goes(w, "bind", Last')
  <1>1. made' = made + 1 /\ made' # 0 /\ Last' = {made + 1}
    BY DEF TypeOK, Numbers, MakeDlna, Last
  <1>. QED BY <1>1 DEF MakeDlna

LEMMA MainCalm ==
  ASSUME TypeOK, CalmInv, Main
  PROVE  CalmInv'
  <1>. /\ at \in [Workers -> Places] /\ held \in [Workers -> SUBSET Numbers] /\ made \in Nat
       /\ "main" \in Workers /\ Handlers \subseteq Workers /\ "main" \notin Handlers
    BY Constants, ApplicationAssumption DEF TypeOK, Places, Numbers
  <1>1. CASE Initialized
    <2>1. /\ made' # 0 /\ at["main"] = "init" /\ registered' = TRUE
          /\ at' = [at EXCEPT !["main"] = "bind"] /\ held' = [held EXCEPT !["main"] = Last']
          /\ UNCHANGED <<httpUp, ssdpUp, airMade, air, airUp, airFor, cut, web, session, stop, taken, lifecycle>>
      BY <1>1, MakeDlnaMakes DEF Initialized, Goes, At, airplay
    <2>2. HandlersIdle /\ stop = "no" /\ httpUp = {} /\ ssdpUp = {} /\ air = {} /\ airUp = {} /\ web # "on"
      BY <2>1 DEF CalmInv, MainInv, StopInv
    <2>11. MainInv'
      BY <2>1, <2>2
      DEF Workers, CalmInv, MainInv, KnownInv, HandlersIdle
    <2>12. StopInv'
      BY <2>1, <2>2
      DEF Workers, CalmInv, MainInv, StopInv, KnownInv, HandlersIdle
    <2>13. KnownInv'
      BY <2>1, <2>2
      DEF Workers, CalmInv, MainInv, StopInv, KnownInv, StartInv, ReloadInv, HandlersIdle
    <2>14. \A v \in Workers : StartInv(v)'
      BY <2>1, <2>2
      DEF Workers, CalmInv, MainInv, StartInv, HandlersIdle
    <2>15. \A g \in Handlers : ReloadInv(g)'
      BY <2>1, <2>2
      DEF Workers, HandlersIdle, ReloadInv
    <2>. QED BY <2>11, <2>12, <2>13, <2>14, <2>15 DEF CalmInv
  <1>2. CASE WebStarts
    BY SMTT(30), <1>2
    DEF WebStarts, Fails, Goes, At, dlna, airplay, speakers, shutdown, Last,
        CalmInv, MainInv, StopInv, KnownInv, StartInv, ReloadInv, HandlersIdle
  <1>3. CASE MainExits
    BY <1>3
    DEF MainExits, Goes, At, dlna, airplay, speakers, shutdown, Last,
        CalmInv, MainInv, StopInv, KnownInv, StartInv, ReloadInv, HandlersIdle
  <1>4. CASE StartFailed
    BY <1>4
    DEF StartFailed, ShutdownBegins, Goes, At, dlna, airplay, speakers, Last,
        CalmInv, MainInv, StopInv, KnownInv, StartInv, ReloadInv, HandlersIdle
  <1>. QED BY <1>1, <1>2, <1>3, <1>4 DEF Main

LEMMA StopsCalm ==
  ASSUME TypeOK, CalmInv, Stops \/ Triggered, calm'
  PROVE  CalmInv'
  <1>. /\ at \in [Workers -> Places] /\ held \in [Workers -> SUBSET Numbers] /\ made \in Nat
       /\ "main" \in Workers /\ Handlers \subseteq Workers /\ "main" \notin Handlers
    BY Constants, ApplicationAssumption DEF TypeOK, Places, Numbers
  <1>1. CASE WebStops
    BY <1>1
    DEF WebStops, StopGoes, dlna, airplay, speakers, Last, Workers,
        CalmInv, MainInv, StopInv, KnownInv, StartInv, ReloadInv, HandlersIdle
  <1>2. CASE AirStops
    BY <1>2
    DEF AirStops, ClosesAir, StopGoes, dlna, speakers, Last,
        CalmInv, MainInv, StopInv, KnownInv, StartInv, ReloadInv, HandlersIdle
  <1>3. CASE SsdpStops
    BY <1>3
    DEF SsdpStops, StopGoes, airplay, speakers, Last,
        CalmInv, MainInv, StopInv, KnownInv, StartInv, ReloadInv, HandlersIdle
  <1>4. CASE HttpStops
    BY <1>4
    DEF HttpStops, StopGoes, airplay, speakers, Last,
        CalmInv, MainInv, StopInv, KnownInv, StartInv, ReloadInv, HandlersIdle
  <1>5. CASE RestStops
    BY <1>5
    DEF RestStops, StopGoes, dlna, airplay, speakers, Last,
        CalmInv, MainInv, StopInv, KnownInv, StartInv, ReloadInv, HandlersIdle
  <1>6. CASE Triggered
    BY <1>6
    DEF Triggered, ShutdownBegins, dlna, airplay, speakers, Last,
        CalmInv, MainInv, StopInv, KnownInv, StartInv, ReloadInv, HandlersIdle
  <1>. QED BY <1>1, <1>2, <1>3, <1>4, <1>5, <1>6 DEF Stops

LEMMA StartsCalm ==
  ASSUME TypeOK, CalmInv, NEW w \in Workers, Starts(w)
  PROVE  CalmInv'
  <1>. /\ at \in [Workers -> Places] /\ held \in [Workers -> SUBSET Numbers] /\ made \in Nat
       /\ "main" \in Workers /\ Handlers \subseteq Workers /\ "main" \notin Handlers
       /\ w # "main" => w \in Handlers
    BY Constants, ApplicationAssumption DEF TypeOK, Places, Numbers, Workers
  <1>. made # 0 => Last = {made}
    BY DEF Last
  <1>0. ASSUME Fails(w), at[w] \in {"bind", "ssdp", "startAir", "web"},
               UNCHANGED <<dlna, airplay, web, session, shutdown>>
        PROVE  CalmInv'
    BY <1>0
    DEF Fails, Goes, dlna, airplay, shutdown, Last,
        CalmInv, MainInv, StopInv, KnownInv, StartInv, ReloadInv, HandlersIdle
  <1>1. CASE HttpBinds(w)
    <2>1. CASE Fails(w) /\ UNCHANGED httpUp
      BY <1>0, <1>1, <2>1 DEF HttpBinds, At, dlna
    <2>2. CASE httpUp' = httpUp \cup held[w] /\ Goes(w, "ssdp", {made})
      <3>1. UNCHANGED Last
        BY <1>1 DEF HttpBinds, Last
      <3>2. /\ at[w] = "bind" /\ held[w] = Last /\ Last = {made} /\ made # 0 /\ ssdpUp = {}
            /\ httpUp = {}
        BY <1>1 DEF HttpBinds, At, CalmInv, StartInv
      <3>3. /\ httpUp' = Last /\ at' = [at EXCEPT ![w] = "ssdp"] /\ held' = [held EXCEPT ![w] = Last]
            /\ UNCHANGED <<made, ssdpUp, airMade, air, airUp, airFor, cut, web, session,
                           registered, stop, taken, lifecycle>>
        BY <1>1, <2>2, <3>2 DEF HttpBinds, Goes, airplay, shutdown
      <3>4. /\ \A v \in Workers : v # w => at[v] \notin Serving
            /\ stop \in {"no", "web"} /\ (w = "main" => stop = "no" /\ HandlersIdle)
            /\ w # "main" => w \in Handlers /\ at["main"] \in {"wait", "exit"}
        BY <3>2, Alone DEF Serving
      <3>11. MainInv'
        BY <3>1, <3>2, <3>3, <3>4
        DEF Workers, CalmInv, MainInv, KnownInv, HandlersIdle
      <3>12. StopInv'
        BY <3>1, <3>2, <3>3, <3>4
        DEF Workers, CalmInv, MainInv, StopInv, KnownInv, HandlersIdle
      <3>13. KnownInv'
        BY <3>1, <3>2, <3>3, <3>4
        DEF Workers, CalmInv, MainInv, StopInv, KnownInv, StartInv, ReloadInv, HandlersIdle
      <3>14. \A v \in Workers : StartInv(v)'
        BY <3>1, <3>2, <3>3, <3>4
        DEF Workers, CalmInv, MainInv, StartInv, ReloadInv, Serving
      <3>15. \A g \in Handlers : ReloadInv(g)'
        BY <3>1, <3>2, <3>3, <3>4
        DEF Workers, CalmInv, ReloadInv, Serving
      <3>. QED BY <3>11, <3>12, <3>13, <3>14, <3>15 DEF CalmInv
    <2>. QED BY <1>1, <2>1, <2>2 DEF HttpBinds
  <1>2. CASE SsdpStarts(w)
    <2>1. CASE Fails(w) /\ UNCHANGED <<ssdpUp, airplay>>
      BY <1>0, <1>2, <2>1 DEF SsdpStarts, At, dlna
    <2>. UNCHANGED Last
      BY <1>2 DEF SsdpStarts, Last
    <2>. at[w] = "ssdp" /\ held[w] = Last /\ ssdpUp = {}
      BY <1>2 DEF SsdpStarts, At, CalmInv, StartInv
    <2>4. /\ \A v \in Workers : v # w => at[v] \notin Serving
          /\ stop \in {"no", "web"} /\ (w = "main" => stop = "no" /\ HandlersIdle)
          /\ w # "main" => w \in Handlers /\ at["main"] \in {"wait", "exit"}
      BY Alone DEF Serving
    <2>2. CASE /\ ssdpUp' = ssdpUp \cup held[w] /\ w = "main"
               /\ MakeAir(w) /\ UNCHANGED <<airUp, cut>>
      <3>1. /\ ssdpUp' = Last /\ air' = {} /\ at' = [at EXCEPT ![w] = "startAir"]
            /\ \A v \in Workers : v # w => held'[v] = held[v]
            /\ UNCHANGED <<made, httpUp, airUp, cut, web, session, registered, stop, taken, lifecycle>>
        BY <1>2, <2>2 DEF SsdpStarts, MakeAir, Goes, shutdown
      <3>2. air = {} /\ airUp = {}
        BY <2>2 DEF CalmInv, MainInv
      <3>11. MainInv'
        BY <2>2, <2>4, <3>1, <3>2
        DEF Workers, CalmInv, MainInv, KnownInv, HandlersIdle
      <3>12. StopInv'
        BY <2>2, <2>4, <3>1, <3>2
        DEF Workers, CalmInv, MainInv, StopInv, KnownInv, HandlersIdle
      <3>13. KnownInv'
        BY <2>2, <2>4, <3>1, <3>2
        DEF Workers, CalmInv, MainInv, StopInv, KnownInv, StartInv, ReloadInv, HandlersIdle
      <3>14. \A v \in Workers : StartInv(v)'
        BY <2>2, <2>4, <3>1, <3>2
        DEF Workers, CalmInv, MainInv, StartInv, ReloadInv, Serving
      <3>15. \A g \in Handlers : ReloadInv(g)'
        BY <2>2, <2>4, <3>1, <3>2
        DEF Workers, CalmInv, ReloadInv, Serving
      <3>. QED BY <3>11, <3>12, <3>13, <3>14, <3>15 DEF CalmInv
    <2>3. CASE /\ ssdpUp' = ssdpUp \cup held[w] /\ w # "main"
               /\ Goes(w, "stopAir", air) /\ UNCHANGED airplay
      <3>1. /\ ssdpUp' = Last /\ at' = [at EXCEPT ![w] = "stopAir"] /\ held' = [held EXCEPT ![w] = air]
            /\ UNCHANGED <<made, httpUp, air, airUp, cut, web, session, registered, stop, taken, lifecycle>>
        BY <1>2, <2>3 DEF SsdpStarts, Goes, airplay, shutdown
      <3>11. MainInv'
        BY <2>3, <2>4, <3>1
        DEF Workers, CalmInv, MainInv, KnownInv, HandlersIdle
      <3>12. StopInv'
        BY <2>3, <2>4, <3>1
        DEF Workers, CalmInv, MainInv, StopInv, KnownInv, HandlersIdle
      <3>13. KnownInv'
        BY <2>3, <2>4, <3>1
        DEF Workers, CalmInv, MainInv, StopInv, KnownInv, StartInv, ReloadInv, HandlersIdle
      <3>14. \A v \in Workers : StartInv(v)'
        BY <2>3, <2>4, <3>1
        DEF Workers, CalmInv, MainInv, StartInv, ReloadInv, Serving
      <3>15. \A g \in Handlers : ReloadInv(g)'
        BY <2>3, <2>4, <3>1
        DEF Workers, CalmInv, ReloadInv, Serving
      <3>. QED BY <3>11, <3>12, <3>13, <3>14, <3>15 DEF CalmInv
    <2>. QED BY <1>2, <2>1, <2>2, <2>3 DEF SsdpStarts
  <1>3. CASE AirStarts(w)
    <2>1. CASE Fails(w) /\ UNCHANGED <<airUp, air, web>>
      BY <1>0, <1>3, <2>1 DEF AirStarts, At, airplay
    <2>. UNCHANGED Last
      BY <1>3 DEF AirStarts, dlna, Last
    <2>2. CASE /\ airUp' = airUp \cup held[w] /\ air' = air \cup held[w]
               /\ Goes(w, IF w = "main" THEN "web" ELSE "idle", {})
               /\ web' = IF w = "main" THEN "starting" ELSE web
      <3>1. /\ at[w] = "startAir" /\ airUp' \subseteq held[w] \cup cut /\ air' = held[w]
            /\ cut' = cut
            /\ at' = [at EXCEPT ![w] = IF w = "main" THEN "web" ELSE "idle"]
            /\ held' = [held EXCEPT ![w] = {}]
            /\ w = "main" => web' = "starting"
            /\ w # "main" => web' = web
            /\ UNCHANGED <<made, httpUp, ssdpUp, session, registered, stop, taken, lifecycle>>
        BY <1>3, <2>2 DEF AirStarts, Goes, At, dlna, shutdown, CalmInv, StartInv
      <3>2. /\ \A v \in Workers : v # w => at[v] \notin Serving
            /\ stop \in {"no", "web"} /\ (w = "main" => stop = "no" /\ HandlersIdle)
            /\ w # "main" => w \in Handlers /\ at["main"] \in {"wait", "exit"}
        BY <3>1, Alone DEF Serving
      <3>11. MainInv'
        BY <2>2, <3>1, <3>2
        DEF Workers, CalmInv, MainInv, KnownInv, HandlersIdle
      <3>12. StopInv'
        BY <2>2, <3>1, <3>2
        DEF Workers, CalmInv, MainInv, StopInv, KnownInv, HandlersIdle
      <3>13. KnownInv'
        BY <2>2, <3>1, <3>2
        DEF Workers, CalmInv, MainInv, StopInv, KnownInv, StartInv, ReloadInv, HandlersIdle
      <3>14. \A v \in Workers : StartInv(v)'
        BY <2>2, <3>1, <3>2
        DEF Workers, CalmInv, MainInv, StartInv, ReloadInv, Serving
      <3>15. \A g \in Handlers : ReloadInv(g)'
        BY <2>2, <3>1, <3>2
        DEF Workers, CalmInv, ReloadInv, Serving
      <3>. QED BY <3>11, <3>12, <3>13, <3>14, <3>15 DEF CalmInv
    <2>. QED BY <1>3, <2>1, <2>2 DEF AirStarts
  <1>. QED BY <1>1, <1>2, <1>3 DEF Starts

LEMMA ReloadCalm ==
  ASSUME TypeOK, CalmInv, NEW h \in Handlers, Reload(h), calm'
  PROVE  CalmInv'
  <1>. /\ at \in [Workers -> Places] /\ held \in [Workers -> SUBSET Numbers] /\ made \in Nat
       /\ "main" \in Workers /\ Handlers \subseteq Workers /\ "main" \notin Handlers
    BY Constants, ApplicationAssumption DEF TypeOK, Places, Numbers
  <1>1. CASE ReloadBegins(h)
    BY ZenonT(60), <1>1
    DEF ReloadBegins, Reloading, Goes, At, dlna, airplay, speakers, shutdown, Last,
        CalmInv, MainInv, StopInv, KnownInv, StartInv, ReloadInv, HandlersIdle
  <1>2. CASE Cleared(h) \/ Rebuilt(h)
    BY ZenonT(60), <1>2
    DEF Cleared, Rebuilt, Goes, At, dlna, airplay, speakers, shutdown, Last,
        CalmInv, MainInv, StopInv, KnownInv, StartInv, ReloadInv, HandlersIdle
  <1>3. CASE SsdpStopped(h)
    BY <1>3
    DEF SsdpStopped, Goes, At, airplay, speakers, shutdown, Last,
        CalmInv, MainInv, StopInv, KnownInv, StartInv, ReloadInv, HandlersIdle
  <1>4. CASE HttpStopped(h)
    <2>1. /\ made' # 0 /\ at[h] = "stopHttp" /\ httpUp' = httpUp \ held[h]
          /\ at' = [at EXCEPT ![h] = "bind"] /\ held' = [held EXCEPT ![h] = Last']
          /\ UNCHANGED <<ssdpUp, airMade, air, airUp, airFor, cut, web, session, registered, stop, taken, lifecycle>>
      BY <1>4, MakeDlnaMakes DEF HttpStopped, Goes, At, airplay, shutdown
    <2>2. /\ \A v \in Workers : v # h => at[v] \notin Serving
          /\ stop \in {"no", "web"} /\ at["main"] \in {"wait", "exit"}
      BY <2>1, Alone DEF Serving
    <2>3. httpUp' = {} /\ ssdpUp = {}
      BY <2>1 DEF CalmInv, KnownInv, ReloadInv
    <2>11. MainInv'
      BY <2>1, <2>2, <2>3
      DEF Workers, CalmInv, MainInv, KnownInv, HandlersIdle
    <2>12. StopInv'
      BY <2>1, <2>2, <2>3
      DEF Workers, CalmInv, MainInv, StopInv, KnownInv, HandlersIdle
    <2>13. KnownInv'
      BY <2>1, <2>2, <2>3
      DEF Workers, CalmInv, MainInv, StopInv, KnownInv, StartInv, ReloadInv, HandlersIdle
    <2>14. \A v \in Workers : StartInv(v)'
      BY <2>1, <2>2, <2>3
      DEF Workers, CalmInv, MainInv, StartInv, ReloadInv, Serving
    <2>15. \A g \in Handlers : ReloadInv(g)'
      BY <2>1, <2>2, <2>3
      DEF Workers, CalmInv, ReloadInv, Serving
    <2>. QED BY <2>11, <2>12, <2>13, <2>14, <2>15 DEF CalmInv
  <1>5. CASE AirStopped(h)
    BY <1>5
    DEF AirStopped, ClosesAir, MakeAir, Goes, At, dlna, speakers, shutdown, Last,
        CalmInv, MainInv, StopInv, KnownInv, StartInv, ReloadInv, HandlersIdle
  <1>. QED BY <1>1, <1>2, <1>3, <1>4, <1>5 DEF Reload

----------------------------------------------------------------------------
(* Services are numbered as they are made. *)

CountInv ==
  /\ airUp \cup cut \subseteq 0 .. airMade
  /\ \A w \in Workers : at[w] = "startAir" => held[w] \subseteq 0 .. airMade

LEMMA InitCounts == Init => CountInv
  BY DEF Init, CountInv

\* A new service has a number that none has had.
LEMMA MakeAirCounts ==
  ASSUME TypeOK, CountInv, NEW w \in Workers, MakeAir(w),
         airUp' \cup cut' \subseteq airUp \cup cut
  PROVE  CountInv' /\ held'[w] \cap cut' = {}
  <1>1. airMade \in Nat /\ airMade' = airMade + 1 /\ 0 .. airMade \subseteq 0 .. airMade'
    BY DEF MakeAir, TypeOK, Numbers
  <1>2. held'[w] \subseteq {airMade'} /\ \A v \in Workers : v # w =>
          held'[v] = held[v] /\ at'[v] = at[v]
    BY <1>1 DEF MakeAir, Goes, TypeOK
  <1>3. airMade' \in 0 .. airMade' /\ airMade' \notin 0 .. airMade
    BY <1>1
  <1>. QED BY <1>1, <1>2, <1>3 DEF CountInv

\* Whoever does not make or start a service leaves the numbers alone.
LEMMA NumbersStay ==
  ASSUME CountInv, airMade' = airMade, airUp' \cup cut' \subseteq airUp \cup cut,
         \A w \in Workers : at'[w] = "startAir" => at[w] = "startAir" /\ held'[w] = held[w]
  PROVE  CountInv'
  BY DEF CountInv

\* Every step keeps to the numbers.
LEMMA NextCounts ==
  ASSUME TypeOK, CountInv, [Next]_vars
  PROVE  CountInv'
  <1>. /\ at \in [Workers -> Places] /\ held \in [Workers -> SUBSET Numbers] /\ RestOK
       /\ "main" \in Workers /\ Handlers \subseteq Workers
    BY Constants, Halves DEF HandsOK
  <1>1. CASE Main \/ Triggered
    BY <1>1, NumbersStay
    DEF Main, Initialized, WebStarts, MainExits, StartFailed, Triggered, ShutdownBegins,
        MakeDlna, Fails, Goes, airplay
  <1>2. CASE Stops
    <2>1. airUp' \cup cut' \subseteq airUp \cup cut /\ airMade' = airMade
      BY <1>2, ClosesTyped
      DEF Stops, WebStops, AirStops, SsdpStops, HttpStops, RestStops, airplay
    <2>2. \A w \in Workers : at'[w] = "startAir" => at[w] = "startAir" /\ held'[w] = held[w]
      BY <1>2 DEF Stops, WebStops, AirStops, SsdpStops, HttpStops, RestStops
    <2>. QED BY <2>1, <2>2, NumbersStay
  <1>3. ASSUME NEW w \in Workers, Starts(w)
        PROVE  CountInv'
    <2>1. CASE HttpBinds(w)
      BY <2>1, NumbersStay DEF HttpBinds, Fails, Goes, airplay
    <2>2. CASE SsdpStarts(w)
      BY <2>2, NumbersStay, MakeAirCounts DEF SsdpStarts, Fails, Goes, airplay
    <2>3. CASE AirStarts(w)
      <3>1. /\ airMade' = airMade /\ cut' = cut /\ airUp' \subseteq airUp \cup held[w]
            /\ at[w] = "startAir"
        BY <2>3 DEF AirStarts, At, Fails
      <3>2. \A v \in Workers : at'[v] = "startAir" => at[v] = "startAir" /\ held'[v] = held[v]
        BY <2>3 DEF AirStarts, Fails, Goes
      <3>. QED BY <3>1, <3>2 DEF CountInv
    <2>. QED BY <1>3, <2>1, <2>2, <2>3 DEF Starts
  <1>4. ASSUME NEW h \in Handlers, Reload(h)
        PROVE  CountInv'
    <2>1. CASE AirStopped(h)
      BY <2>1, ClosesTyped, MakeAirCounts DEF AirStopped
    <2>2. CASE ~AirStopped(h)
      BY <1>4, <2>2, NumbersStay
      DEF Reload, ReloadBegins, Cleared, Rebuilt, SsdpStopped, HttpStopped, MakeDlna,
          Goes, airplay
    <2>. QED BY <2>1, <2>2
  <1>5. CASE UNCHANGED vars
    BY <1>5, NumbersStay DEF vars, airplay
  <1>. QED BY <1>1, <1>2, <1>3, <1>4, <1>5 DEF Next

----------------------------------------------------------------------------
(* Where no reload has failed either, DLNA and AirPlay agree. *)

AllOn ==
  /\ controllers # 0
  /\ dlnaFor = controllers /\ httpUp = Last /\ ssdpUp = Last
  /\ airFor = controllers /\ airUp \ cut = air /\ air # {}

\* What a start or a reload has done so far.
SoFar(w) ==
  /\ at[w] \in Serving => controllers # 0
  /\ at[w] \in {"bind", "ssdp", "stopAir", "startAir"} => dlnaFor = controllers
  /\ at[w] \in {"ssdp", "stopAir", "startAir"} => httpUp = Last
  /\ at[w] \in {"stopAir", "startAir"} => ssdpUp = Last
  /\ at[w] = "startAir" => airFor = controllers /\ held[w] # {} /\ held[w] \cap cut = {}

AgreeInv ==
  /\ stop = "no" /\ at["main"] \in {"web", "wait"} /\ HandlersIdle => AllOn
  /\ \A w \in Workers : SoFar(w)

LEMMA InitAgree == Init => AgreeInv
  BY ApplicationAssumption DEF Init, AgreeInv, SoFar, Serving, Workers

LEMMA MainAgree ==
  ASSUME TypeOK, CalmInv, AgreeInv, Main
  PROVE  AgreeInv'
  <1>. /\ at \in [Workers -> Places] /\ held \in [Workers -> SUBSET Numbers]
       /\ "main" \in Workers /\ Handlers \subseteq Workers /\ "main" \notin Handlers
    BY Constants, ApplicationAssumption DEF TypeOK, Places
  <1>1. CASE Initialized
    <2>1. /\ dlnaFor' = 1 /\ controllers' = 1 /\ HandlersIdle
          /\ at' = [at EXCEPT !["main"] = "bind"]
      BY <1>1, MakeDlnaMakes DEF Initialized, Goes, At, CalmInv, MainInv
    <2>. QED BY <2>1 DEF AgreeInv, SoFar, HandlersIdle, Serving, Workers
  <1>2. CASE WebStarts
    BY <1>2
    DEF WebStarts, Fails, Goes, At, dlna, airplay, speakers, shutdown, Last,
        AgreeInv, SoFar, HandlersIdle, AllOn, Serving
  <1>3. CASE MainExits
    BY <1>3
    DEF MainExits, Goes, dlna, airplay, speakers, shutdown, Last, AgreeInv, SoFar, Serving
  <1>4. CASE StartFailed
    BY <1>4
    DEF StartFailed, ShutdownBegins, Goes, dlna, airplay, speakers, Last, AgreeInv, SoFar, Serving
  <1>. QED BY <1>1, <1>2, <1>3, <1>4 DEF Main

LEMMA StopsAgree ==
  ASSUME TypeOK, CalmInv, AgreeInv, Stops \/ Triggered, calm'
  PROVE  AgreeInv'
  <1>. /\ at \in [Workers -> Places] /\ held \in [Workers -> SUBSET Numbers]
       /\ "main" \in Workers /\ Handlers \subseteq Workers /\ "main" \notin Handlers
    BY Constants, ApplicationAssumption DEF TypeOK, Places
  <1>1. CASE WebStops
    <2>1. at["main"] \in {"wait", "ending", "exit"}
      BY <1>1 DEF WebStops, StopGoes, CalmInv, StopInv
    <2>. QED BY <1>1, <2>1 DEF WebStops, StopGoes, AgreeInv, SoFar, Serving, Workers
  <1>2. CASE AirStops \/ SsdpStops \/ HttpStops \/ RestStops
    <2>1. HandlersIdle /\ at["main"] \in {"wait", "ending", "exit"} /\ UNCHANGED at /\ stop' # "no"
      BY <1>2
      DEF AirStops, SsdpStops, HttpStops, RestStops, StopGoes, CalmInv, StopInv
    <2>. QED BY <2>1 DEF AgreeInv, SoFar, HandlersIdle, Serving, Workers
  <1>3. CASE Triggered
    <2>1. /\ registered /\ stop' = "web" /\ UNCHANGED <<at, held, dlna, airplay, speakers>>
      BY <1>3 DEF Triggered, ShutdownBegins, CalmInv, MainInv
    <2>. QED BY <2>1 DEF AgreeInv, SoFar, Serving, Last, dlna, airplay, speakers
  <1>. QED BY <1>1, <1>2, <1>3 DEF Stops

LEMMA StartsAgree ==
  ASSUME TypeOK, CountInv, CalmInv, AgreeInv, NEW w \in Workers, Starts(w), intact'
  PROVE  AgreeInv'
  <1>. /\ at \in [Workers -> Places] /\ held \in [Workers -> SUBSET Numbers]
       /\ "main" \in Workers /\ Handlers \subseteq Workers /\ "main" \notin Handlers
    BY Constants, ApplicationAssumption DEF TypeOK, Places
  <1>. at[w] \in {"bind", "ssdp", "startAir"}
    BY DEF Starts, HttpBinds, SsdpStarts, AirStarts, At
  <1>. /\ \A v \in Workers : v # w => at[v] \notin Serving
       /\ stop \in {"no", "web"} /\ (w = "main" => stop = "no" /\ HandlersIdle)
       /\ w # "main" => w \in Handlers /\ at["main"] \in {"wait", "exit"}
    BY Alone DEF Serving
  <1>. SoFar(w) /\ StartInv(w)
    BY DEF AgreeInv, CalmInv
  <1>0. ASSUME Fails(w), UNCHANGED <<stop, cut>>
        PROVE  AgreeInv'
    BY <1>0 DEF Fails, Goes, AgreeInv, SoFar, Serving
  <1>1. CASE HttpBinds(w)
    <2>1. CASE httpUp' = httpUp \cup held[w] /\ Goes(w, "ssdp", {made})
      BY <1>1, <2>1
      DEF HttpBinds, Goes, At, airplay, speakers, Last, AgreeInv, SoFar, StartInv, HandlersIdle, Serving
    <2>. QED BY <1>0, <1>1, <2>1 DEF HttpBinds, airplay, shutdown
  <1>2. CASE SsdpStarts(w)
    <2>. UNCHANGED Last /\ at[w] = "ssdp" /\ ssdpUp = {} /\ held[w] = Last
      BY <1>2 DEF SsdpStarts, Last, At, StartInv
    <2>1. CASE ssdpUp' = ssdpUp \cup held[w] /\ w = "main" /\ MakeAir(w) /\ UNCHANGED <<airUp, cut>>
      <3>1. /\ ssdpUp' = Last /\ airFor' = controllers /\ at' = [at EXCEPT ![w] = "startAir"]
            /\ held'[w] # {} /\ UNCHANGED <<httpUp, dlnaFor, controllers, cut>>
            /\ held'[w] \cap cut' = {}
        BY <1>2, <2>1, MakeAirCounts DEF SsdpStarts, MakeAir, Goes, speakers, SoFar, Serving
      <3>. QED BY <2>1, <3>1 DEF AgreeInv, SoFar, Serving
    <2>2. CASE ssdpUp' = ssdpUp \cup held[w] /\ w # "main" /\ Goes(w, "stopAir", air)
      <3>1. /\ ssdpUp' = Last /\ at' = [at EXCEPT ![w] = "stopAir"]
            /\ UNCHANGED <<httpUp, dlnaFor, controllers, cut>>
        BY <1>2, <2>2 DEF SsdpStarts, Goes, airplay, speakers
      <3>. QED BY <2>2, <3>1 DEF AgreeInv, SoFar, HandlersIdle, Serving
    <2>. QED BY <1>0, <1>2, <2>1, <2>2 DEF SsdpStarts, airplay, shutdown
  <1>3. CASE AirStarts(w)
    <2>1. CASE /\ airUp' = airUp \cup held[w] /\ air' = air \cup held[w]
               /\ Goes(w, IF w = "main" THEN "web" ELSE "idle", {})
      <3>1. /\ at[w] = "startAir" /\ airUp' = airUp \cup held[w] /\ air' = held[w]
            /\ held[w] # {} /\ airUp \subseteq cut /\ cut' = cut /\ held[w] \cap cut = {}
            /\ at' = [at EXCEPT ![w] = IF w = "main" THEN "web" ELSE "idle"]
            /\ UNCHANGED <<made, httpUp, ssdpUp, dlnaFor, airFor, controllers, stop>>
        BY <1>3, <2>1 DEF AirStarts, Goes, At, dlna, speakers, shutdown, StartInv, SoFar
      <3>2. AllOn'
        BY <3>1 DEF AllOn, SoFar, Serving, Last
      <3>. QED BY <3>1, <3>2 DEF AgreeInv, SoFar, Serving
    <2>. QED BY <1>0, <1>3, <2>1 DEF AirStarts, airplay, shutdown
  <1>. QED BY <1>1, <1>2, <1>3 DEF Starts

LEMMA ReloadAgree ==
  ASSUME TypeOK, CountInv, CalmInv, AgreeInv, NEW h \in Handlers, Reload(h), calm'
  PROVE  AgreeInv'
  <1>. /\ at \in [Workers -> Places] /\ held \in [Workers -> SUBSET Numbers]
       /\ "main" \in Workers /\ Handlers \subseteq Workers /\ "main" \notin Handlers
    BY Constants, ApplicationAssumption DEF TypeOK, Places
  <1>. SoFar(h) /\ ReloadInv(h)
    BY DEF AgreeInv, CalmInv
  <1>. ASSUME at[h] # "idle"
       PROVE  /\ \A v \in Workers : v # h => at[v] \notin Serving
              /\ at["main"] \in {"wait", "exit"}
    BY DEF CalmInv, MainInv, KnownInv, HandlersIdle, Serving, Workers
  <1>1. CASE ReloadBegins(h)
    <2>1. /\ HandlersIdle /\ stop = "no" /\ at["main"] = "wait"
      BY <1>1 DEF ReloadBegins, Reloading, At, HandlersIdle, CalmInv, MainInv
    <2>2. AllOn
      BY <2>1 DEF AgreeInv
    <2>3. /\ at' \in {[at EXCEPT ![h] = "rebuild"], [at EXCEPT ![h] = "stopSsdp"]}
          /\ UNCHANGED controllers
      BY <1>1 DEF ReloadBegins, Goes, speakers
    <2>. QED BY <2>1, <2>2, <2>3 DEF AgreeInv, SoFar, AllOn, HandlersIdle, Serving, Workers
  <1>2. CASE Cleared(h)
    BY <1>2 DEF Cleared, Goes, At, AgreeInv, SoFar, HandlersIdle, Serving
  <1>3. CASE Rebuilt(h)
    <2>1. controllers' # 0
      BY <1>3 DEF Rebuilt, speakers, TypeOK, Numbers
    <2>. QED BY <1>3, <2>1 DEF Rebuilt, Goes, At, AgreeInv, SoFar, HandlersIdle, Serving
  <1>4. CASE SsdpStopped(h)
    BY <1>4 DEF SsdpStopped, Goes, At, speakers, AgreeInv, SoFar, HandlersIdle, Serving
  <1>5. CASE HttpStopped(h)
    <2>1. /\ at[h] = "stopHttp" /\ dlnaFor' = controllers /\ UNCHANGED controllers
          /\ at' = [at EXCEPT ![h] = "bind"]
      BY <1>5, MakeDlnaMakes DEF HttpStopped, Goes, At, speakers
    <2>. QED BY <2>1 DEF AgreeInv, SoFar, HandlersIdle, Serving
  <1>6. CASE AirStopped(h)
    <2>0. airUp' \cup cut' \subseteq airUp \cup cut /\ MakeAir(h) /\ h \in Workers
      BY <1>6, ClosesTyped, Halves DEF AirStopped
    <2>1. /\ at[h] = "stopAir" /\ airFor' = controllers /\ held'[h] # {}
          /\ held'[h] \cap cut' = {}
          /\ at' = [at EXCEPT ![h] = "startAir"]
          /\ UNCHANGED <<made, httpUp, ssdpUp, dlnaFor, controllers>>
      BY <1>6, <2>0, MakeAirCounts DEF AirStopped, MakeAir, Goes, At, dlna, speakers, SoFar, Serving
    <2>. QED BY <2>1 DEF AgreeInv, SoFar, HandlersIdle, Serving, Last
  <1>. QED BY <1>1, <1>2, <1>3, <1>4, <1>5, <1>6 DEF Reload

----------------------------------------------------------------------------
(* The inductive invariant, and the theorems. *)

ApplicationInv ==
  /\ TypeOK /\ CountInv
  /\ calm => CalmInv /\ (intact => AgreeInv)

LEMMA NextKeeps ==
  ASSUME ApplicationInv, [Next]_vars
  PROVE  ApplicationInv'
  <1>1. TypeOK' /\ CountInv'
    BY NextTyped, NextCounts DEF ApplicationInv
  <1>2. (calm' => calm) /\ (intact' => intact)
    <2>. calm \in BOOLEAN /\ intact \in BOOLEAN
      BY DEF ApplicationInv, TypeOK
    <2>1. CASE Main
      BY <2>1
      DEF Main, Initialized, WebStarts, MainExits, StartFailed, ShutdownBegins, Fails
    <2>2. CASE Stops \/ Triggered
      BY <2>2
      DEF Stops, Triggered, ShutdownBegins, WebStops, AirStops, SsdpStops, HttpStops, RestStops
    <2>3. ASSUME NEW w \in Workers, Starts(w)
          PROVE  (calm' => calm) /\ (intact' => intact)
      BY <2>3 DEF Starts, HttpBinds, SsdpStarts, AirStarts, Fails
    <2>4. ASSUME NEW h \in Handlers, Reload(h)
          PROVE  (calm' => calm) /\ (intact' => intact)
      BY <2>4 DEF Reload, ReloadBegins, Cleared, Rebuilt, SsdpStopped, HttpStopped, AirStopped
    <2>5. CASE UNCHANGED vars
      BY <2>5 DEF vars
    <2>. QED BY <2>1, <2>2, <2>3, <2>4, <2>5 DEF Next
  <1>3. ASSUME calm'
        PROVE  CalmInv'
    <2>1. TypeOK /\ CalmInv
      BY <1>2, <1>3 DEF ApplicationInv
    <2>2. CASE UNCHANGED vars
      BY <2>1, <2>2
      DEF vars, dlna, airplay, speakers, shutdown, Last,
          CalmInv, MainInv, StopInv, KnownInv, StartInv, ReloadInv, HandlersIdle
    <2>. QED BY <1>3, <2>1, <2>2, MainCalm, StopsCalm, StartsCalm, ReloadCalm DEF Next
  <1>4. ASSUME calm', intact'
        PROVE  AgreeInv'
    <2>1. TypeOK /\ CountInv /\ CalmInv /\ AgreeInv
      BY <1>2, <1>4 DEF ApplicationInv
    <2>2. CASE UNCHANGED vars
      BY <2>1, <2>2
      DEF vars, dlna, airplay, speakers, shutdown, Last, AgreeInv, SoFar, AllOn, HandlersIdle
    <2>. QED BY <1>4, <2>1, <2>2, MainAgree, StopsAgree, StartsAgree, ReloadAgree DEF Next
  <1>. QED BY <1>1, <1>3, <1>4 DEF ApplicationInv

LEMMA Invariance == Spec => []ApplicationInv
  <1>1. Init => ApplicationInv
    BY InitTyped, InitCounts, InitCalm, InitAgree DEF ApplicationInv
  <1>2. ApplicationInv /\ [Next]_vars => ApplicationInv'
    BY NextKeeps
  <1>. QED BY <1>1, <1>2, PTL DEF Spec

\* Every server that has a port is one that a reload, or stop(), will close,
\* or an AirPlay service whose stop was cut (app.py:412-430).
THEOREM ServersAlwaysKnown == Spec => []ServersKnown
  <1>1. ApplicationInv => ServersKnown
    BY DEF ApplicationInv, CalmInv, KnownInv, ServersKnown
  <1>. QED BY <1>1, Invariance, PTL

\* When a shutdown is over, or async_main has returned, nothing is on but what
\* the swallowed timeout or exception of airplay.stop() has left on
\* (app.py:357-398, 416-430), however start() and the reloads ended.
THEOREM StoppedAlwaysOff == Spec => []StoppedIsOff
  <1>1. ApplicationInv => StoppedIsOff
    <2>. SUFFICES ASSUME ApplicationInv, calm, lifecycle = "down" \/ at["main"] = "exit"
                  PROVE  httpUp = {} /\ ssdpUp = {} /\ airUp \subseteq cut
                         /\ web # "on" /\ ~session
      BY DEF StoppedIsOff
    <2>1. stop = "done"
      BY DEF ApplicationInv, CalmInv, StopInv
    <2>. QED BY <2>1 DEF ApplicationInv, CalmInv, StopInv
  <1>. QED BY <1>1, Invariance, PTL

\* DLNA and AirPlay play on the same controllers, which the manager has.
THEOREM ServicesAlwaysAgree == Spec => []ServicesAgree
  <1>1. ApplicationInv => ServicesAgree
    BY DEF ApplicationInv, AgreeInv, AllOn, HandlersIdle, Reloading, ServicesAgree
  <1>. QED BY <1>1, Invariance, PTL

============================================================================
