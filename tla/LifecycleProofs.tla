--------------------------- MODULE LifecycleProofs ---------------------------
(***************************************************************************)
(* Whatever the configurations clients ask for, the number of ports and of *)
(* units on a port, and however often fleets are replaced: the safety      *)
(* properties of Lifecycle.  One inductive invariant carries them all; the *)
(* addresses clients work out come first.                                  *)
(***************************************************************************)
EXTENDS Lifecycle, TLAPS, FiniteSetTheorems

(* ------------------------------- addresses ------------------------------- *)

\* Integer division, as the provers need it.
LEMMA Quotient ==
    ASSUME NEW a \in Nat, NEW size \in Nat \ {0}
    PROVE  /\ a \div size \in Nat /\ a % size \in 0 .. size - 1
           /\ a = size * (a \div size) + (a % size)
BY SMT

LEMMA QuotientBounds ==
    ASSUME NEW a \in Nat, NEW size \in Nat \ {0}
    PROVE  /\ a \div size \in Nat
           /\ (a \div size) * size <= a
           /\ a < (a \div size + 1) * size
BY Quotient, SMT

LEMMA QuotientMonotone ==
    ASSUME NEW a \in Nat, NEW b \in Nat, NEW size \in Nat \ {0}, a <= b
    PROVE  a \div size <= b \div size
<1> DEFINE p == a \div size
           q == b \div size
<1>1. p \in Nat /\ q \in Nat /\ p * size <= a /\ b < (q + 1) * size
  BY Quotient, SMT
<1>2. ASSUME q < p PROVE (q + 1) * size <= p * size
  <2>1. PICK d \in Nat : p = q + 1 + d
    BY <1>1, <1>2, SMT
  <2>2. p * size = (q + 1) * size + d * size /\ d * size >= 0
    BY <1>1, <2>1, SMT
  <2> QED BY <2>2, SMT
<1> QED BY <1>1, <1>2, SMT

\* Of the generators of a fleet, the address a client is given for g (modbus_address, the
\* list of endpoints, the CSV and the pages) reaches g and no other at the listeners,
\* which number their devices on their own (ModbusServerGroup.__init__).
THEOREM AddressReachesUnit ==
    ASSUME NEW n \in Nat \ {0}, NEW base \in Nat, NEW g \in 1 .. n
    PROVE  Reached(n, base, PortOf(g, base), WireUnit(g)) = {g}
<1> USE AddressAssumption
<1> DEFINE q == (g - 1) \div UnitsPerPort
           e == Endpoint(n, base, base + q)
<1>1. /\ q \in Nat /\ q * UnitsPerPort <= g - 1
      /\ g - 1 < (q + 1) * UnitsPerPort
      /\ g - 1 = UnitsPerPort * q + ((g - 1) % UnitsPerPort)
  <2>1. g - 1 \in Nat
    BY SMT
  <2> QED BY <2>1, QuotientBounds, Quotient, Zenon
<1>2. q <= (n - 1) \div UnitsPerPort
  <2>1. g - 1 \in Nat /\ n - 1 \in Nat /\ g - 1 <= n - 1
    BY SMT
  <2> QED BY <2>1, QuotientMonotone, Zenon
<1>3. (n - 1) \div UnitsPerPort \in Nat
  <2>1. n - 1 \in Nat
    BY SMT
  <2> QED BY <2>1, Quotient, Zenon
<1>4. PortOf(g, base) = base + q /\ base + q \in base .. PortOf(n, base)
  BY <1>1, <1>2, <1>3, SMT DEF PortOf
<1>5. e \in Endpoints(n, base) /\ \A f \in Endpoints(n, base) : f.port = base + q => f = e
  <2>1. e \in Endpoints(n, base)
    BY <1>4, Zenon DEF Endpoints
  <2>2. ASSUME NEW f \in Endpoints(n, base), f.port = base + q PROVE f = e
    <3>1. PICK port \in base .. PortOf(n, base) : f = Endpoint(n, base, port)
      BY Zenon DEF Endpoints
    <3>2. f.port = port
      BY <3>1 DEF Endpoint
    <3> QED BY <2>2, <3>1, <3>2, Zenon
  <2> QED BY <2>1, <2>2
<1>6. /\ e.port = base + q
      /\ e.first = q * UnitsPerPort + 1
      /\ e.last = Lower((q + 1) * UnitsPerPort, n)
  <2>1. (base + q) - base = q
    BY <1>1, SMT
  <2> QED BY <2>1 DEF Endpoint, FirstOf, LastOf
<1>7. q * UnitsPerPort \in Int /\ (q + 1) * UnitsPerPort \in Int
      /\ q * UnitsPerPort = UnitsPerPort * q
  BY <1>1, SMT
<1>8. WireUnit(g) = g - e.first + 1
  BY <1>1, <1>6, <1>7, SMT DEF WireUnit
<1>9. g \in e.first .. e.last
  BY <1>1, <1>6, <1>7, SMT DEF Lower
<1> HIDE DEF q, e
<1>10. g \in Reached(n, base, PortOf(g, base), WireUnit(g))
  BY <1>4, <1>5, <1>6, <1>8, <1>9 DEF Reached
<1>11. ASSUME NEW h \in Reached(n, base, PortOf(g, base), WireUnit(g)) PROVE h = g
  <2>1. h \in 1 .. n /\ g - e.first + 1 = h - e.first + 1
    BY <1>4, <1>5, <1>8, <1>11 DEF Reached
  <2>2. e.first \in Int
    BY <1>6, <1>7, SMT
  <2> QED BY <2>1, <2>2, SMT
<1> QED BY <1>10, <1>11

(* ------------------------- the inductive invariant ----------------------- *)

Labels == {"idle", "stop", "wait", "save", "close", "set", "start", "rollback", "restart"}

\* The labels at which a fleet has been taken from the controller and is not gone yet.
Stopping == pc \in {"wait", "save", "close"}

Requests == Configs \cup {First}

\* Every variable has its type; no fleet beyond the last one started has a loop or a port.
Typed ==
    /\ settings \in Requests /\ request \in Requests /\ previous \in Requests
    /\ pc \in Labels /\ was_started \in BOOLEAN /\ failed \in BOOLEAN /\ late \in BOOLEAN
    /\ started \in 0 .. MaxFleets /\ (pc # "idle" => started + 2 <= MaxFleets)
    /\ runtime \in 0 .. started /\ stopping \in 0 .. started /\ exiting \in 0 .. started
    /\ built \in [Fleets -> Requests]
    /\ loop \in [Fleets -> {"none", "created", "running", "ended"}]
    /\ \A f \in Fleets : f > started => loop[f] = "none"
    /\ asked \subseteq 1 .. started
    /\ holder \in [Ports -> Other .. started]

\* The fleet of the controller, while it is there, is the one of the settings.
InService ==
    runtime # 0 =>
        /\ pc \in {"idle", "stop"}
        /\ built[runtime] = settings /\ runtime \notin asked
        /\ Held(runtime) = PortsOf(settings)
        /\ Addressable(settings.fleet, settings.base)

\* What the call in progress knows.
InCall ==
    /\ pc # "idle" =>
          /\ Addressable(request.fleet, request.base)
          /\ was_started => Addressable(previous.fleet, previous.base)
    /\ pc \in {"stop", "wait", "save", "close", "set", "restart"} => settings = previous
    /\ pc = "start" => settings = request
    /\ pc = "restart" => was_started
    /\ pc = "stop" => runtime # 0

\* The fleet being stopped was the one of the settings, and has been told.
BeingStopped ==
    Stopping => stopping # 0 /\ stopping \in asked /\ built[stopping] = settings

\* Every loop but that of the fleet in service has been asked to stop.
OthersAsked == \A f \in Fleets : Alive(f) /\ f # runtime => f \in asked

\* Unless something has outlived its timeout, only the fleet in service and the one being
\* stopped can run or listen, and the latter no longer runs once its loop was waited for.
NothingElseLeft ==
    ~late =>
        /\ \A f \in Fleets :
              f # runtime /\ ~(Stopping /\ f = stopping) => loop[f] # "running" /\ Held(f) = {}
        /\ pc \in {"save", "close"} => loop[stopping] # "running"

Inv ==
    /\ Typed /\ InService /\ InCall /\ BeingStopped /\ OthersAsked /\ NothingElseLeft

(* ------------------------------ the ports ------------------------------- *)

\* The ports of a configuration that is accepted are in a row from its base, all of them
\* exist, and the port of each of its generators is one of them.
LEMMA PortsInRow ==
    ASSUME NEW c \in Requests, Addressable(c.fleet, c.base)
    PROVE  /\ PortsOf(c) \subseteq Ports
           /\ \A g \in 1 .. c.fleet : PortOf(g, c.base) \in PortsOf(c)
<1> USE AddressAssumption
<1> DEFINE n == c.fleet
           base == c.base
           last == PortOf(n, base)
<1>1. n \in Nat \ {0} /\ base \in 1 .. MaxPort /\ last <= MaxPort
  BY ConfigAssumption, SMT DEF Addressable, Requests
<1>2. \A g \in 1 .. n : (g - 1) \div UnitsPerPort \in Nat /\ PortOf(g, base) \in base .. last
  <2> TAKE g \in 1 .. n
  <2>1. g - 1 \in Nat /\ n - 1 \in Nat /\ g - 1 <= n - 1
    BY <1>1, SMT
  <2>2. /\ (g - 1) \div UnitsPerPort \in Nat /\ (n - 1) \div UnitsPerPort \in Nat
        /\ (g - 1) \div UnitsPerPort <= (n - 1) \div UnitsPerPort
    BY <2>1, QuotientMonotone, Quotient, Zenon
  <2> QED BY <1>1, <2>2, SMT DEF PortOf
<1>3. PortsOf(c) = base .. last
  <2>1. \A port : Endpoint(n, base, port).port = port
    BY DEF Endpoint
  <2> HIDE DEF last
  <2>2. EndpointPorts(n, base) = {Endpoint(n, base, port).port : port \in base .. PortOf(n, base)}
    BY Zenon DEF EndpointPorts, Endpoints
  <2> QED BY <2>1, <2>2, Zenon DEF PortsOf, last
<1>4. last \in Int
  BY <1>1, <1>2, SMT
<1>5. base .. last \subseteq Ports
  <2> HIDE DEF last, base
  <2> QED BY <1>1, <1>4, SMT DEF Ports
<1> QED BY <1>2, <1>3, <1>5

(* --------------------- every step keeps the invariant ------------------- *)

\* Ports that are closed are free, and all others stay with those who had them.
LEMMA ReleaseFrees ==
    ASSUME Typed, NEW ports, Release(ports)
    PROVE  /\ holder' \in [Ports -> Other .. started]
           /\ \A f \in Fleets : Held(f)' = Held(f) \ ports
<1>1. 0 \in Other .. started
  BY SMT DEF Typed, Other
<1>2. \A p \in Ports : holder[p] \in Other .. started
  BY Zenon DEF Typed
<1>3. holder' \in [Ports -> Other .. started]
  BY <1>1, <1>2, Zenon DEF Release
<1>4. ASSUME NEW f \in Fleets PROVE Held(f)' = Held(f) \ ports
  BY SMT DEF Release, Held, Fleets
<1> QED BY <1>3, <1>4

\* A fleet that starts is built with the settings, listens on their ports and on no other,
\* and takes nothing from the fleets before it.
LEMMA FleetStarts ==
    ASSUME Typed, pc # "idle", Addressable(settings.fleet, settings.base), StartSucceeds,
           NEW n, n = started + 1
    PROVE  /\ started' = n /\ n \in Fleets /\ runtime' = n
           /\ built' \in [Fleets -> Requests]
           /\ loop' \in [Fleets -> {"none", "created", "running", "ended"}]
           /\ holder' \in [Ports -> Other .. n]
           /\ built'[n] = settings /\ loop'[n] = "created"
           /\ Held(n)' = PortsOf(settings)
           /\ n \notin asked /\ asked' = asked /\ file' = file
           /\ \A f \in Fleets : f # n =>
                 built'[f] = built[f] /\ loop'[f] = loop[f] /\ Held(f)' = Held(f)
<1> DEFINE taken == PortsOf(settings)
<1>1. /\ n \in Fleets /\ n # 0 /\ n # Other
      /\ started' = n /\ runtime' = n /\ asked' = asked /\ file' = file
      /\ n \notin asked /\ \A p \in Ports : holder[p] # n
  BY ConfigAssumption, SMT DEF Typed, StartSucceeds, Fleets, Other
<1>2. /\ built' = [built EXCEPT ![n] = settings]
      /\ loop' = [loop EXCEPT ![n] = "created"]
      /\ holder' = [p \in Ports |-> IF p \in taken THEN n ELSE holder[p]]
      /\ \A p \in taken : holder[p] = 0
  BY DEF StartSucceeds
<1>3. taken \subseteq Ports
  BY PortsInRow DEF Typed
<1>4. /\ built' \in [Fleets -> Requests]
      /\ loop' \in [Fleets -> {"none", "created", "running", "ended"}]
      /\ built'[n] = settings /\ loop'[n] = "created"
      /\ \A f \in Fleets : f # n => built'[f] = built[f] /\ loop'[f] = loop[f]
  BY <1>1, <1>2 DEF Typed
<1>5. holder' \in [Ports -> Other .. n]
  <2>1. \A p \in Ports : holder[p] \in Other .. n /\ n \in Other .. n
    BY <1>1, SMT DEF Typed, Other
  <2> HIDE DEF taken
  <2> QED BY <1>1, <1>2, <2>1, Zenon
<1>6. Held(n)' = taken
  <2> HIDE DEF taken
  <2> QED BY <1>1, <1>2, <1>3 DEF Held
<1>7. ASSUME NEW f \in Fleets, f # n PROVE Held(f)' = Held(f)
  <2>1. f # 0
    BY SMT DEF Fleets
  <2> HIDE DEF taken
  <2> QED BY <1>1, <1>2, <1>3, <1>7, <2>1 DEF Held
<1> HIDE DEF taken
<1> QED BY <1>1, <1>4, <1>5, <1>6, <1>7, Zenon DEF taken

USE DEF Inv, Typed, InService, InCall, BeingStopped, OthersAsked, NothingElseLeft,
        Stopping, Labels, call, world

\* A call takes the lock.  The ports of a fleet in service stay its own.
LEMMA ConfigureKeeps ==
    ASSUME Inv, NEW config \in Configs, Configure(config)
    PROVE  Inv'
<1>1. Typed'
  BY SMT DEF Configure, Requests
<1>2. InService' /\ BeingStopped' /\ OthersAsked' /\ NothingElseLeft'
  BY SMT DEF Configure, Alive, Held
<1>3. InCall'
  <2>1. config = request' /\ previous' = settings /\ settings' = settings
    BY DEF Configure
  <2>2. /\ Addressable(request'.fleet, request'.base)
        /\ was_started' => Addressable(previous'.fleet, previous'.base)
    BY <2>1, Zenon DEF Configure
  <2> QED BY <2>1, <2>2, SMT DEF Configure
<1> QED BY <1>1, <1>2, <1>3

\* The runtime is taken from the controller, and its loop is told to stop.
LEMMA StopRuntimeKeeps == Inv /\ StopRuntime => Inv'
<1> SUFFICES ASSUME Inv, StopRuntime PROVE Inv'
  OBVIOUS
<1> USE DEF StopRuntime, AskToStop
<1>1. runtime \in 1 .. started /\ asked' = asked \cup {runtime}
  BY SMT
<1>2. Typed'
  <2>1. asked' \subseteq 1 .. started
    BY <1>1, SMT
  <2>2. runtime' \in 0 .. started /\ stopping' \in 0 .. started /\ started' = started
    BY <1>1, SMT
  <2> QED BY <2>1, <2>2
<1>3. InService' /\ InCall' /\ BeingStopped' /\ OthersAsked'
  BY <1>1, SMT DEF Alive
<1>4. NothingElseLeft'
  BY <1>1, SMT DEF Held
<1> QED BY <1>2, <1>3, <1>4

\* A loop that was waited for, or has not begun, does not run any more.
LEMMA WaitForLoopKeeps == Inv /\ WaitForLoop => Inv'
<1> SUFFICES ASSUME Inv, WaitForLoop PROVE Inv'
  OBVIOUS
<1> USE DEF WaitForLoop, LoopIsOver
<1>1. Typed' /\ InService' /\ InCall' /\ BeingStopped'
  BY SMT DEF Held, Alive
<1>2. OthersAsked' /\ NothingElseLeft'
  BY SMT DEF Held, Alive
<1> QED BY <1>1, <1>2

LEMMA LoopTimeoutKeeps == Inv /\ LoopTimeout => Inv'
<1> SUFFICES ASSUME Inv, LoopTimeout PROVE Inv'
  OBVIOUS
<1>1. Typed' /\ InService' /\ InCall' /\ BeingStopped'
  BY SMT DEF LoopTimeout, Held, Alive
<1>2. OthersAsked' /\ NothingElseLeft'
  BY SMT DEF LoopTimeout, Held, Alive
<1> QED BY <1>1, <1>2

LEMMA SaveStoppedKeeps == Inv /\ SaveStopped => Inv'
<1> SUFFICES ASSUME Inv, SaveStopped PROVE Inv'
  OBVIOUS
<1> USE DEF SaveStopped, Save
<1>1. Typed' /\ InService' /\ InCall' /\ BeingStopped'
  BY SMT DEF Held, Alive
<1>2. OthersAsked' /\ NothingElseLeft'
  BY SMT DEF Held, Alive
<1> QED BY <1>1, <1>2

\* What does not close in time is recorded; without it, the fleet holds nothing any more.
LEMMA CloseListenersKeeps == Inv /\ CloseListeners => Inv'
<1> SUFFICES ASSUME Inv,
                    NEW stuck \in SUBSET Held(stopping),
                    Release(Held(stopping) \ stuck),
                    CloseListeners,
                    pc' = (IF failed \/ stuck # {} THEN "idle" ELSE "set"),
                    late' = (late \/ stuck # {})
             PROVE  Inv'
  BY Zenon DEF CloseListeners
<1> USE DEF CloseListeners
<1>1. /\ holder' \in [Ports -> Other .. started]
      /\ \A f \in Fleets : Held(f)' = Held(f) \ (Held(stopping) \ stuck)
  BY ReleaseFrees
<1>2. Typed' /\ InService' /\ InCall' /\ BeingStopped' /\ OthersAsked'
  BY <1>1, SMT DEF Alive
<1>3. NothingElseLeft'
  <2> SUFFICES ASSUME ~late'
               PROVE  \A f \in Fleets : loop'[f] # "running" /\ Held(f)' = {}
    BY SMT
  <2>1. ~late /\ stuck = {}
    BY Zenon
  <2>2. pc = "close" /\ runtime = 0 /\ loop' = loop
    BY SMT
  <2>3. ASSUME NEW f \in Fleets PROVE Held(f)' = {}
    <3>1. f # stopping => Held(f) = {}
      BY <2>1, <2>2, SMT DEF Fleets
    <3> QED BY <1>1, <2>1, <3>1
  <2>4. ASSUME NEW f \in Fleets PROVE loop'[f] # "running"
    BY <2>1, <2>2, SMT DEF Fleets
  <2> QED BY <2>3, <2>4
<1> QED BY <1>2, <1>3

LEMMA SetSettingsKeeps == Inv /\ SetSettings => Inv'
<1> SUFFICES ASSUME Inv, SetSettings PROVE Inv'
  OBVIOUS
<1>1. Typed' /\ InService' /\ InCall' /\ BeingStopped'
  BY SMT DEF SetSettings, Held, Alive
<1>2. OthersAsked' /\ NothingElseLeft'
  BY SMT DEF SetSettings, Held, Alive
<1> QED BY <1>1, <1>2

\* A start, of the new fleet or of the previous one, gives the controller a fleet that
\* serves the settings.
LEMMA StartKeeps ==
    ASSUME Inv, pc \in {"start", "restart"}, StartSucceeds, pc' = "idle",
           Addressable(settings.fleet, settings.base),
           UNCHANGED <<settings, request, previous, was_started, stopping, failed, late>>
    PROVE  Inv'
<1>1. PICK n : n = started + 1
  OBVIOUS
<1>2. runtime = 0
  BY SMT
<1>3. /\ started' = n /\ n \in Fleets /\ runtime' = n
      /\ built' \in [Fleets -> Requests]
      /\ loop' \in [Fleets -> {"none", "created", "running", "ended"}]
      /\ holder' \in [Ports -> Other .. n]
      /\ built'[n] = settings /\ loop'[n] = "created"
      /\ Held(n)' = PortsOf(settings)
      /\ n \notin asked /\ asked' = asked /\ file' = file
      /\ \A f \in Fleets : f # n =>
            built'[f] = built[f] /\ loop'[f] = loop[f] /\ Held(f)' = Held(f)
  BY <1>1, FleetStarts, Zenon
<1>4. Typed'
  <2>1. n \in 0 .. MaxFleets /\ asked' \subseteq 1 .. n /\ stopping' \in 0 .. n
        /\ exiting' \in 0 .. n
    BY <1>1, <1>3, SMT DEF Fleets, StartSucceeds
  <2>2. \A f \in Fleets : f > n => loop'[f] = "none"
    BY <1>1, <1>3, SMT DEF Fleets
  <2>3. runtime' \in 0 .. started' /\ started' = n
    BY <1>3, <2>1, SMT
  <2> QED BY <1>3, <2>1, <2>2, <2>3
<1>5. InService'
  <2>1. Held(runtime)' = PortsOf(settings')
    BY <1>3, Zenon DEF Held
  <2> QED BY <1>3, <2>1 DEF Alive
<1>6. InCall' /\ BeingStopped'
  BY <1>3, SMT
<1>7. OthersAsked'
  <2> SUFFICES ASSUME NEW f \in Fleets, loop'[f] \in {"created", "running"}, f # n
               PROVE  f \in asked
    BY <1>3 DEF Alive
  <2>1. loop[f] \in {"created", "running"} /\ f # 0
    BY <1>3, SMT DEF Fleets
  <2> QED BY <1>2, <2>1 DEF Alive
<1>8. NothingElseLeft'
  <2> SUFFICES ASSUME ~late, NEW f \in Fleets, f # n
               PROVE  loop'[f] # "running" /\ Held(f)' = {}
    BY <1>3, SMT
  <2>1. loop[f] # "running" /\ Held(f) = {}
    BY <1>2, SMT DEF Fleets
  <2> QED BY <1>3, <2>1
<1> QED BY <1>4, <1>5, <1>6, <1>7, <1>8

LEMMA StartNewKeeps == Inv /\ StartNew => Inv'
  BY StartKeeps DEF StartNew

LEMMA StartPreviousKeeps == Inv /\ StartPrevious => Inv'
  BY StartKeeps DEF StartPrevious

LEMMA StartNewFailsKeeps == Inv /\ StartNewFails => Inv'
<1> SUFFICES ASSUME Inv, StartNewFails PROVE Inv'
  OBVIOUS
<1>1. Typed' /\ InService' /\ InCall' /\ BeingStopped'
  BY SMT DEF StartNewFails, Held, Alive
<1>2. OthersAsked' /\ NothingElseLeft'
  BY SMT DEF StartNewFails, Held, Alive
<1> QED BY <1>1, <1>2

LEMMA RollBackKeeps == Inv /\ RollBack => Inv'
<1> SUFFICES ASSUME Inv, RollBack PROVE Inv'
  OBVIOUS
<1>1. Typed' /\ InService' /\ InCall' /\ BeingStopped'
  BY SMT DEF RollBack, Held, Alive
<1>2. OthersAsked' /\ NothingElseLeft'
  BY SMT DEF RollBack, Held, Alive
<1> QED BY <1>1, <1>2

LEMMA StartPreviousFailsKeeps == Inv /\ StartPreviousFails => Inv'
<1> SUFFICES ASSUME Inv, StartPreviousFails PROVE Inv'
  OBVIOUS
<1>1. Typed' /\ InService' /\ InCall' /\ BeingStopped'
  BY SMT DEF StartPreviousFails, Held, Alive
<1>2. OthersAsked' /\ NothingElseLeft'
  BY SMT DEF StartPreviousFails, Held, Alive
<1> QED BY <1>1, <1>2

\* A loop that begins after it was asked to stop ends at once.
LEMMA BeginLoopKeeps == ASSUME Inv, NEW f \in Fleets, BeginLoop(f) PROVE Inv'
<1> USE DEF BeginLoop
<1>1. loop' = [loop EXCEPT ![f] = IF f \in asked THEN "ended" ELSE "running"]
  OBVIOUS
<1>2. Typed' /\ InCall' /\ BeingStopped'
  BY SMT
<1>3. InService' /\ OthersAsked'
  BY SMT DEF Held, Alive
<1>4. NothingElseLeft'
  BY SMT DEF Held, Alive
<1> QED BY <1>2, <1>3, <1>4

\* A loop may end at any time: nothing that is known of the fleet in service is about its loop.
LEMMA EndLoopKeeps == ASSUME Inv, NEW f \in Fleets, EndLoop(f) PROVE Inv'
<1> USE DEF EndLoop
<1>1. Typed' /\ InCall' /\ BeingStopped'
  BY SMT
<1>2. InService' /\ OthersAsked' /\ NothingElseLeft'
  BY SMT DEF Held, Alive
<1> QED BY <1>1, <1>2

LEMMA SaveByLoopKeeps == ASSUME Inv, NEW f \in Fleets, SaveByLoop(f) PROVE Inv'
<1> USE DEF SaveByLoop, Save
<1>1. Typed' /\ InService' /\ InCall' /\ BeingStopped' /\ OthersAsked' /\ NothingElseLeft'
  BY SMT DEF Held, Alive
<1> QED BY <1>1

LEMMA ExitTakesKeeps == Inv /\ ExitTakes => Inv'
<1> SUFFICES ASSUME Inv, ExitTakes PROVE Inv'
  OBVIOUS
<1>1. Typed' /\ InService' /\ InCall' /\ BeingStopped'
  BY SMT DEF ExitTakes, Held
<1>2. OthersAsked' /\ NothingElseLeft'
  BY SMT DEF ExitTakes, Held, Alive
<1> QED BY <1>1, <1>2

LEMMA ExitSavesKeeps == Inv /\ ExitSaves => Inv'
<1> SUFFICES ASSUME Inv, ExitSaves PROVE Inv'
  OBVIOUS
<1>1. Typed' /\ InService' /\ InCall' /\ BeingStopped'
  BY SMT DEF ExitSaves, Held
<1>2. OthersAsked' /\ NothingElseLeft'
  BY SMT DEF ExitSaves, Held, Alive
<1> QED BY <1>1, <1>2

LEMMA CloseLateKeeps == ASSUME Inv, NEW f \in Fleets, CloseLate(f) PROVE Inv'
<1>1. PICK p \in Held(f) : Release({p})
  BY DEF CloseLate
<1> USE DEF CloseLate
<1>2. /\ holder' \in [Ports -> Other .. started]
      /\ \A g \in Fleets : Held(g)' = Held(g) \ {p}
  BY <1>1, ReleaseFrees
<1>3. Typed' /\ InCall' /\ BeingStopped' /\ OthersAsked' /\ NothingElseLeft'
  BY <1>2, SMT DEF Alive
<1>4. InService'
  <2>1. ASSUME runtime # 0 PROVE Held(runtime)' = Held(runtime)
    <3>1. runtime' = runtime /\ f # runtime
      OBVIOUS
    <3>2. p \notin Held(runtime)
      BY <1>1, <3>1 DEF Held
    <3>3. runtime \in Fleets
      BY <2>1, ConfigAssumption, SMT DEF Fleets
    <3>4. {q \in Ports : holder'[q] = runtime} = Held(runtime) \ {p}
      BY <1>2, <3>3, Zenon DEF Held
    <3> QED BY <3>1, <3>2, <3>4 DEF Held
  <2> QED BY <2>1, SMT DEF Alive
<1> QED BY <1>3, <1>4

\* Other processes take free ports and give them back.
LEMMA OtherProcessKeeps == ASSUME Inv, NEW p \in Ports, OtherProcess(p) PROVE Inv'
<1> USE DEF OtherProcess
<1>1. Typed'
  BY SMT DEF Other
<1>2. ASSUME NEW f \in 1 .. started PROVE Held(f)' = Held(f)
  <2>1. f # 0 /\ f # Other
    BY SMT DEF Other
  <2> QED BY <2>1 DEF Held
<1>3. InService'
  <2>1. ASSUME runtime # 0 PROVE Held(runtime)' = Held(runtime)
    <3>1. runtime \in 1 .. started /\ runtime' = runtime
      BY <2>1, SMT
    <3>2. {q \in Ports : holder'[q] = runtime} = Held(runtime)
      BY <1>2, <3>1, Zenon DEF Held
    <3> QED BY <3>1, <3>2 DEF Held
  <2> QED BY <2>1, SMT DEF Alive
<1>4. InCall' /\ BeingStopped' /\ OthersAsked'
  BY SMT DEF Alive
<1>5. NothingElseLeft'
  <2>1. ASSUME NEW f \in Fleets PROVE Held(f)' = Held(f)
    <3>1. f # 0 /\ f # Other
      BY SMT DEF Other, Fleets
    <3> QED BY <3>1 DEF Held
  <2> QED BY <2>1, SMT
<1> QED BY <1>1, <1>3, <1>4, <1>5

(* ------------------------------- theorems ------------------------------- *)

LEMMA InitInv == Init => Inv
<1> SUFFICES ASSUME Init PROVE Inv
  OBVIOUS
<1> USE DEF Init
<1>1. Typed
  <2>1. holder \in [Ports -> Other .. started]
    <3>1. {0, Other} \subseteq Other .. 0
      BY SMT DEF Other
    <3> QED BY <3>1
  <2>2. /\ started \in 0 .. MaxFleets /\ runtime \in 0 .. started /\ stopping \in 0 .. started
        /\ asked \subseteq 1 .. started
    BY ConfigAssumption, SMT
  <2>3. /\ built \in [Fleets -> Requests]
        /\ loop \in [Fleets -> {"none", "created", "running", "ended"}]
        /\ \A f \in Fleets : loop[f] = "none"
    BY DEF Requests
  <2> QED BY <2>1, <2>2, <2>3, Zenon DEF Requests
<1>2. \A f \in Fleets : Held(f) = {}
  BY SMT DEF Held, Fleets, Other
<1>3. InService /\ InCall /\ BeingStopped /\ OthersAsked
  BY SMT DEF Alive
<1>4. NothingElseLeft
  BY <1>2, SMT
<1> QED BY <1>1, <1>3, <1>4

LEMMA NextInv == Inv /\ [Next]_vars => Inv'
<1> SUFFICES ASSUME Inv, [Next]_vars PROVE Inv'
  OBVIOUS
<1> HIDE DEF Inv
<1>1. ASSUME NEW config \in Configs, Configure(config) PROVE Inv'
  BY <1>1, ConfigureKeeps
<1>2. CASE Call
  <2> USE <1>2
  <2> QED
    BY StopRuntimeKeeps, WaitForLoopKeeps, LoopTimeoutKeeps, SaveStoppedKeeps,
       CloseListenersKeeps, SetSettingsKeeps, StartNewKeeps, StartNewFailsKeeps,
       RollBackKeeps, StartPreviousKeeps, StartPreviousFailsKeeps, Zenon DEF Call
<1>3. ASSUME NEW f \in Fleets, BeginLoop(f) \/ EndLoop(f) \/ SaveByLoop(f) \/ CloseLate(f)
      PROVE  Inv'
  BY <1>3, BeginLoopKeeps, EndLoopKeeps, SaveByLoopKeeps, CloseLateKeeps
<1>4. ASSUME NEW p \in Ports, OtherProcess(p) PROVE Inv'
  BY <1>4, OtherProcessKeeps
<1>5. CASE ExitTakes \/ ExitSaves
  BY <1>5, ExitTakesKeeps, ExitSavesKeeps
<1>6. CASE UNCHANGED vars
  <2> USE DEF Inv, vars
  <2>1. Typed' /\ InCall' /\ BeingStopped'
    BY <1>6
  <2>2. InService' /\ OthersAsked' /\ NothingElseLeft'
    BY <1>6 DEF Alive, Held
  <2> QED BY <2>1, <2>2
<1> QED BY <1>1, <1>2, <1>3, <1>4, <1>5, <1>6, Zenon DEF Next

\* The invariant behind the properties: what each variable holds, what the call in progress
\* knows, and who may still run or listen (main.py, AppController).
THEOREM LifecycleInvariant == Spec => []Inv
<1> HIDE DEF Inv
<1> QED BY InitInv, NextInv, PTL DEF Spec

\* When no call is in progress, the fleet of the controller is the one of the settings: built
\* with them, listening on their ports and on no other, and not asked to stop, whether its
\* loop still runs or an exception has ended it (configure_simulator, _start_runtime,
\* _stop_runtime).
THEOREM FleetServesSettings == Spec => []ServesItsSettings
<1>1. Inv => ServesItsSettings
  BY DEF ServesItsSettings
<1> HIDE DEF Inv
<1> QED BY <1>1, LifecycleInvariant, PTL

\* The address worked out for a unit from the settings of the moment is that of a listener
\* of the fleet in service and reaches this unit and no other (modbus_address,
\* ModbusServerGroup.__init__, AppController.configure_simulator).
THEOREM AddressesAlwaysServed == Spec => []AddressesServed
<1>1. Inv => AddressesServed
  <2> SUFFICES ASSUME Inv, runtime # 0, NEW g \in 1 .. settings.fleet
               PROVE  /\ PortOf(g, settings.base) \in Ports
                      /\ holder[PortOf(g, settings.base)] = runtime
                      /\ Reached(built[runtime].fleet, built[runtime].base,
                                 PortOf(g, settings.base), WireUnit(g)) = {g}
    BY Zenon DEF AddressesServed
  <2>1. built[runtime] = settings /\ Held(runtime) = PortsOf(settings)
    OBVIOUS
  <2>2. PortsOf(settings) \subseteq Ports /\ PortOf(g, settings.base) \in PortsOf(settings)
    BY PortsInRow, Zenon
  <2>3. PortOf(g, settings.base) \in Ports /\ holder[PortOf(g, settings.base)] = runtime
    BY <2>1, <2>2, Zenon DEF Held
  <2>4. settings.fleet \in Nat \ {0} /\ settings.base \in Nat
    BY ConfigAssumption, SMT DEF Requests, Addressable
  <2> QED BY <2>1, <2>3, <2>4, AddressReachesUnit, Zenon
<1> HIDE DEF Inv
<1> QED BY <1>1, LifecycleInvariant, PTL

\* At most one loop is not asked to stop: every loop but that of the fleet in service is asked
\* before another fleet is built, although it may outlive its timeout (_stop_runtime).
THEOREM OneFleet == Spec => []OneFleetInService
<1>1. Inv => OneFleetInService
  <2> SUFFICES ASSUME Inv PROVE OneFleetInService
    OBVIOUS
  <2> DEFINE active == {f \in Fleets : Alive(f) /\ f \notin asked}
  <2>1. active \subseteq {runtime}
    OBVIOUS
  <2>2. IsFiniteSet({runtime}) /\ Cardinality({runtime}) = 1
    BY FS_Singleton
  <2>3. Cardinality(active) <= Cardinality({runtime})
    BY <2>1, <2>2, FS_Subset
  <2> QED BY <2>2, <2>3 DEF OneFleetInService
<1> HIDE DEF Inv
<1> QED BY <1>1, LifecycleInvariant, PTL

\* Between two calls, the loops and listeners that are left belong to the fleet of the
\* controller, whatever step of a call failed, unless something outlived its timeout.
THEOREM NothingLeft == Spec => []NothingLeftBehind
<1>1. Inv => NothingLeftBehind
  BY SMT DEF NothingLeftBehind
<1> HIDE DEF Inv
<1> QED BY <1>1, LifecycleInvariant, PTL

\* Unless a loop has outlived its timeout, the only save that writes units under the
\* configuration of another fleet is one on exit, which does not take the lock, whose fleet
\* is no longer in service when it writes (save_persistent_state, AppController.save_state).
THEOREM SavesAlwaysConsistent == Spec => SavesConsistent
<1>1. ASSUME Inv, [Next]_vars, file' # file, file'.fleet # file'.units, ~late
      PROVE  exiting \notin {0, runtime} /\ exiting' = 0
  <2> USE <1>1
  <2> DEFINE Consistent(f) == Save(f) /\ built[f] = settings
  <2>1. ASSUME NEW f, Consistent(f) PROVE FALSE
    BY <2>1 DEF Save
  <2> HIDE DEF Consistent
  <2>2. CASE Call
    <3>1. SaveStopped => Consistent(stopping)
      BY DEF SaveStopped, Consistent
    <3>2. ~StartNew /\ ~StartPrevious
      BY DEF StartNew, StartPrevious, StartSucceeds
    <3>3. ~StopRuntime /\ ~WaitForLoop /\ ~LoopTimeout /\ ~CloseListeners
      BY DEF StopRuntime, WaitForLoop, LoopTimeout, CloseListeners
    <3>4. ~SetSettings /\ ~StartNewFails /\ ~RollBack /\ ~StartPreviousFails
      BY DEF SetSettings, StartNewFails, RollBack, StartPreviousFails
    <3> QED BY <2>1, <2>2, <3>1, <3>2, <3>3, <3>4, Zenon DEF Call
  <2>3. ASSUME NEW f \in Fleets, SaveByLoop(f) PROVE FALSE
    <3>1. f = runtime \/ (Stopping /\ f = stopping)
      BY <2>3, SMT DEF SaveByLoop
    <3>2. f # 0
      BY SMT DEF Fleets
    <3>3. built[f] = settings
      BY <3>1, <3>2
    <3> QED BY <2>1, <2>3, <3>3 DEF SaveByLoop, Consistent
  <2>4. CASE ExitSaves
    <3>1. exiting # 0 /\ exiting' = 0 /\ Save(exiting)
      BY <2>4 DEF ExitSaves
    <3>2. exiting = runtime => Consistent(exiting)
      BY <3>1 DEF Consistent
    <3> QED BY <2>1, <3>1, <3>2
  <2>5. ~ExitTakes /\ \A config \in Configs : ~Configure(config)
    BY DEF ExitTakes, Configure
  <2>6. \A f \in Fleets : ~(BeginLoop(f) \/ EndLoop(f) \/ CloseLate(f))
    BY DEF BeginLoop, EndLoop, CloseLate
  <2>7. \A p \in Ports : ~OtherProcess(p)
    BY DEF OtherProcess
  <2> QED BY <2>2, <2>3, <2>4, <2>5, <2>6, <2>7, Zenon DEF Next, vars
<1>2. Inv /\ [Next]_vars
        => [file' # file /\ file'.fleet # file'.units =>
               late \/ (exiting \notin {0, runtime} /\ exiting' = 0)]_vars
  BY <1>1, Zenon
<1> HIDE DEF Inv
<1> QED BY <1>2, LifecycleInvariant, PTL DEF Spec, SavesConsistent

\* A call that ends with no fleet in service leaves the settings as it found them, whatever
\* step failed (the except clauses of configure_simulator).
THEOREM FailuresRestoreSettings == Spec => FailureRestoresSettings
<1>1. ASSUME Inv, [Next]_vars, pc # "idle", pc' = "idle", runtime' = 0
      PROVE  settings' = previous
  <2> USE <1>1
  <2>1. pc' # pc
    OBVIOUS
  <2>2. CASE Call
    <3>1. ~StopRuntime /\ ~WaitForLoop /\ ~LoopTimeout /\ ~SaveStopped /\ ~SetSettings
          /\ ~StartNewFails
      BY DEF StopRuntime, WaitForLoop, LoopTimeout, SaveStopped, SetSettings, StartNewFails
    <3>2. ~StartNew /\ ~StartPrevious
      BY SMT DEF StartNew, StartPrevious, StartSucceeds
    <3>3. CloseListeners \/ RollBack \/ StartPreviousFails => settings' = previous
      BY SMT DEF CloseListeners, RollBack, StartPreviousFails
    <3> QED BY <2>2, <3>1, <3>2, <3>3, Zenon DEF Call
  <2>3. \A config \in Configs : ~Configure(config)
    BY DEF Configure
  <2>4. \A f \in Fleets : ~(BeginLoop(f) \/ EndLoop(f) \/ SaveByLoop(f) \/ CloseLate(f))
    BY <2>1 DEF BeginLoop, EndLoop, SaveByLoop, CloseLate
  <2>5. ~ExitTakes /\ ~ExitSaves /\ \A p \in Ports : ~OtherProcess(p)
    BY <2>1 DEF ExitTakes, ExitSaves, OtherProcess
  <2> QED BY <2>1, <2>2, <2>3, <2>4, <2>5, Zenon DEF Next, vars
<1>2. Inv /\ [Next]_vars
        => [pc # "idle" /\ pc' = "idle" /\ runtime' = 0 => settings' = previous]_vars
  BY <1>1
<1> HIDE DEF Inv
<1> QED BY <1>2, LifecycleInvariant, PTL DEF Spec, FailureRestoresSettings
=============================================================================
