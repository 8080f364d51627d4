------------------------------ MODULE Lifecycle -----------------------------
(***************************************************************************)
(* The AppController (main.py): configuring, replacing and rolling back    *)
(* the simulated fleet, with the simulation loop and the Modbus listeners  *)
(* (modbus_server.py) of every fleet that was ever started.                *)
(*                                                                         *)
(* configure_simulator() runs under AppController._lock, so one call is in *)
(* progress at most and pc says where it is; "idle" is the free lock.  The *)
(* loops of the fleets run beside it, and so does a save on exit, which    *)
(* does not take the lock; other processes take and release TCP ports, and *)
(* all fleets share ONE Settings object, which a call changes.             *)
(***************************************************************************)
EXTENDS FiniteSets, Addressing

CONSTANTS
    Configs,    \* what clients ask for: [fleet: number of units, base: TCP port]
    First,      \* the configuration the process starts with
    MaxFleets   \* bound: fleets started

ASSUME ConfigAssumption ==
    /\ \A c \in Configs \cup {First} : c.fleet \in Nat /\ c.base \in Nat
    /\ MaxFleets \in Nat

Ports == 1 .. MaxPort

\* The ports that a fleet of these settings listens on.
PortsOf(config) == EndpointPorts(config.fleet, config.base)

Fleets == 1 .. MaxFleets
Other == -1  \* another process

VARIABLES
    settings,    \* the shared Settings: [fleet, base]
    runtime,     \* AppController.runtime, and .modbus_server: a fleet, or 0
    pc,          \* where configure_simulator() is
    request,     \* what it was asked for
    previous,    \* the settings it found
    was_started, \* whether it found a runtime
    stopping,    \* the runtime _stop_runtime() took from the controller
    failed,      \* whether stopping has raised an exception
    started,     \* number of fleets started so far
    built,       \* [Fleets -> the settings the fleet was built with]
    loop,        \* [Fleets -> none, created, running or ended]
    asked,       \* the fleets whose _stop_requested is set
    holder,      \* [Ports -> the fleet that listens, Other, or 0]
    file,        \* the state file: the fleet it names and the units it has
    exiting,     \* the runtime that a save on exit has taken, or 0
    \* history
    late         \* a loop or a listener has outlived its timeout

call == <<pc, request, previous, was_started, stopping, failed, late>>
world == <<started, built, loop, asked, holder, file, exiting>>
vars == <<settings, runtime, call, world>>

Init ==
    /\ settings = First /\ runtime = 0
    /\ pc = "idle" /\ request = First /\ previous = First
    /\ was_started = FALSE /\ stopping = 0 /\ failed = FALSE
    /\ started = 0 /\ built = [f \in Fleets |-> First]
    /\ loop = [f \in Fleets |-> "none"] /\ asked = {}
    /\ holder \in [Ports -> {0, Other}]
    /\ file = [fleet |-> First.fleet, units |-> First.fleet]
    /\ exiting = 0 /\ late = FALSE

(* ------------------------- configure_simulator() ------------------------ *)

\* The lock is taken, and the ports are tested: they must exist and be free, but for
\* those the fleet in service owns.
Configure(config) ==
    /\ pc = "idle" /\ started + 2 <= MaxFleets
    /\ Addressable(config.fleet, config.base)
    /\ \A p \in PortsOf(config) :
          holder[p] = 0 \/ (runtime # 0 /\ p \in PortsOf(settings))
    /\ request' = config /\ previous' = settings /\ was_started' = (runtime # 0)
    /\ pc' = IF runtime # 0 THEN "stop" ELSE "set"
    /\ UNCHANGED <<settings, runtime, stopping, failed, late, world>>

\* Mutant: the loop is not asked to stop.
AskToStop_Never(f) == UNCHANGED asked

AskToStop(f) == asked' = asked \cup {f}

\* Mutant: the runtime stays in the controller while it is being stopped.
StopRuntime_KeepsRuntime ==
    /\ pc = "stop" /\ pc' = "wait"
    /\ stopping' = runtime /\ failed' = FALSE
    /\ AskToStop(runtime)
    /\ UNCHANGED <<settings, runtime, request, previous, was_started, late, started, built,
                   loop, holder, file, exiting>>

\* _stop_runtime() takes the runtime from the controller first.
StopRuntime ==
    /\ pc = "stop" /\ pc' = "wait"
    /\ stopping' = runtime /\ runtime' = 0 /\ failed' = FALSE
    /\ AskToStop(runtime)
    /\ UNCHANGED <<settings, request, previous, was_started, late, started, built, loop,
                   holder, file, exiting>>

\* Mutant: nobody waits for the loop.
LoopIsOver_NotWaited(f) == TRUE

\* A loop that has not begun is not waited for: it will see that it has to stop.
LoopIsOver(f) == loop[f] \in {"created", "ended"}

WaitForLoop ==
    /\ pc = "wait" /\ LoopIsOver(stopping) /\ pc' = "save"
    /\ UNCHANGED <<settings, runtime, request, previous, was_started, stopping, failed, late, world>>

\* Mutant: the wait begins again when its time is over.
LoopTimeout_Retries ==
    /\ pc = "wait" /\ ~LoopIsOver(stopping) /\ late' = TRUE
    /\ UNCHANGED <<settings, runtime, pc, request, previous, was_started, stopping, failed, world>>

LoopTimeout ==
    /\ pc = "wait" /\ ~LoopIsOver(stopping)
    /\ pc' = "close" /\ failed' = TRUE /\ late' = TRUE
    /\ UNCHANGED <<settings, runtime, request, previous, was_started, stopping, world>>

\* save_state(): the fleet of the settings, with the units of the engine.
Save(f) == file' = [fleet |-> settings.fleet, units |-> built[f].fleet]

\* A save may fail; the call goes on.
SaveStopped ==
    /\ pc = "save" /\ pc' = "close"
    /\ Save(stopping) \/ UNCHANGED file
    /\ UNCHANGED <<settings, runtime, request, previous, was_started, stopping, failed, late,
                   started, built, loop, asked, holder, exiting>>

Release(ports) == holder' = [p \in Ports |-> IF p \in ports THEN 0 ELSE holder[p]]

Held(f) == {p \in Ports : holder[p] = f}

\* The finally of _stop_runtime(): every listener is closed, whatever failed before;
\* one may stay, and raise.  An exception ends the call with the settings as they were.
CloseListeners ==
    /\ pc = "close"
    /\ \E stuck \in SUBSET Held(stopping) :
          /\ Release(Held(stopping) \ stuck)
          /\ pc' = IF failed \/ stuck # {} THEN "idle" ELSE "set"
          /\ late' = (late \/ stuck # {})
    /\ UNCHANGED <<settings, runtime, request, previous, was_started, stopping, failed,
                   started, built, loop, asked, file, exiting>>

SetSettings ==
    /\ pc = "set" /\ pc' = "start"
    /\ settings' = request
    /\ UNCHANGED <<runtime, request, previous, was_started, stopping, failed, late, world>>

\* _start_runtime(): a new fleet from the settings, its listeners, then its loop.  It
\* fails when a port is taken by now or no thread can be had; no listener is left then
\* (one that does not close in time holds its port for nobody, as another process would).
StartSucceeds ==
    LET f == started + 1
    IN  /\ \A p \in PortsOf(settings) : holder[p] = 0
        /\ started' = f
        /\ built' = [built EXCEPT ![f] = settings]
        /\ holder' = [p \in Ports |-> IF p \in PortsOf(settings) THEN f ELSE holder[p]]
        /\ loop' = [loop EXCEPT ![f] = "created"]
        /\ runtime' = f
        /\ UNCHANGED <<asked, file, exiting>>

StartNew ==
    /\ pc = "start" /\ StartSucceeds /\ pc' = "idle"
    /\ UNCHANGED <<settings, request, previous, was_started, stopping, failed, late>>

StartNewFails ==
    /\ pc = "start" /\ pc' = "rollback"
    /\ UNCHANGED <<settings, runtime, request, previous, was_started, stopping, failed, late, world>>

\* Mutant: the previous fleet is started again with the settings of the new one.
RollBack_KeepsSettings ==
    /\ pc = "rollback" /\ pc' = IF was_started THEN "restart" ELSE "idle"
    /\ UNCHANGED <<settings, runtime, request, previous, was_started, stopping, failed, late, world>>

RollBack ==
    /\ pc = "rollback" /\ pc' = IF was_started THEN "restart" ELSE "idle"
    /\ settings' = previous
    /\ UNCHANGED <<runtime, request, previous, was_started, stopping, failed, late, world>>

StartPrevious ==
    /\ pc = "restart" /\ StartSucceeds /\ pc' = "idle"
    /\ UNCHANGED <<settings, request, previous, was_started, stopping, failed, late>>

StartPreviousFails ==
    /\ pc = "restart" /\ pc' = "idle"
    /\ UNCHANGED <<settings, runtime, request, previous, was_started, stopping, failed, late, world>>

(* --------------------- loops and other processes ------------------------ *)

BeginLoop(f) ==
    /\ loop[f] = "created"
    /\ loop' = [loop EXCEPT ![f] = IF f \in asked THEN "ended" ELSE "running"]
    /\ UNCHANGED <<settings, runtime, call, started, built, asked, holder, file, exiting>>

\* The loop sees that it has to stop, or an exception leaves it at any time: out of a
\* runbook step whose report is gone, or when the settings it shares name a unit it has not.
\* Nobody is told; the fleet stays in service without a loop.
EndLoop(f) ==
    /\ loop[f] = "running"
    /\ loop' = [loop EXCEPT ![f] = "ended"]
    /\ UNCHANGED <<settings, runtime, call, started, built, asked, holder, file, exiting>>

SaveByLoop(f) ==
    /\ loop[f] = "running" /\ Save(f)
    /\ UNCHANGED <<settings, runtime, call, started, built, loop, asked, holder, exiting>>

\* AppController.save_state() in the main thread, from the signal handler, the end of run()
\* or wsgi.py: it takes the runtime without the lock ...
ExitTakes ==
    /\ exiting = 0 /\ runtime # 0 /\ exiting' = runtime
    /\ UNCHANGED <<settings, runtime, call, started, built, loop, asked, holder, file>>

\* ... and reads the settings for what it writes later.  Such a save may fail too.
ExitSaves ==
    /\ exiting # 0 /\ exiting' = 0
    /\ Save(exiting) \/ UNCHANGED file
    /\ UNCHANGED <<settings, runtime, call, started, built, loop, asked, holder>>

\* A listener that outlived its timeout may close later.
CloseLate(f) ==
    /\ f # runtime /\ Held(f) # {} /\ \/ pc = "idle" \/ f # stopping
    /\ \E p \in Held(f) : Release({p})
    /\ UNCHANGED <<settings, runtime, call, started, built, loop, asked, file, exiting>>

OtherProcess(p) ==
    /\ holder[p] \in {0, Other}
    /\ holder' = [holder EXCEPT ![p] = IF @ = 0 THEN Other ELSE 0]
    /\ UNCHANGED <<settings, runtime, call, started, built, loop, asked, file, exiting>>

Call == \/ StopRuntime \/ WaitForLoop \/ LoopTimeout \/ SaveStopped \/ CloseListeners
        \/ SetSettings \/ StartNew \/ StartNewFails \/ RollBack
        \/ StartPrevious \/ StartPreviousFails

Next ==
    \/ \E config \in Configs : Configure(config)
    \/ Call
    \/ \E f \in Fleets : BeginLoop(f) \/ EndLoop(f) \/ SaveByLoop(f) \/ CloseLate(f)
    \/ ExitTakes \/ ExitSaves
    \/ \E p \in Ports : OtherProcess(p)

Spec == Init /\ [][Next]_vars

\* The handler that holds the lock runs on; a loop may hang, or not be there, for as long as
\* it likes.
FairSpec == Spec /\ WF_vars(Call)

(* ------------------------------ properties ------------------------------ *)

Alive(f) == loop[f] \in {"created", "running"}

\* When no call is in progress, the fleet of the controller is the one of the settings:
\* built with them, listening on their ports and on no other, and not asked to stop.  (Its
\* loop need not run any more: an exception may have ended it.)
ServesItsSettings ==
    pc = "idle" /\ runtime # 0 =>
        /\ built[runtime] = settings /\ runtime \notin asked
        /\ Held(runtime) = PortsOf(settings)

\* The address a client is given for a unit, worked out from the settings of the moment,
\* is that of a listener of the fleet in service, and of this unit behind it.
AddressesServed ==
    pc = "idle" /\ runtime # 0 =>
        \A g \in 1 .. settings.fleet :
            LET port == PortOf(g, settings.base)
            IN  /\ port \in Ports /\ holder[port] = runtime
                /\ Reached(built[runtime].fleet, built[runtime].base, port, WireUnit(g)) = {g}

\* At most one loop is not asked to stop: that of a fleet before the one in service has been
\* asked, although it may run beside the new one when it did not stop in time.
OneFleetInService == Cardinality({f \in Fleets : Alive(f) /\ f \notin asked}) <= 1

\* A call leaves nothing behind: whether it succeeds or fails at any step, the loops and
\* listeners that are left belong to the fleet of the controller, unless one of them
\* has not stopped in time.
NothingLeftBehind ==
    pc = "idle" /\ ~late => \A f \in Fleets \ {runtime} : loop[f] # "running" /\ Held(f) = {}

\* The only save that writes units under the configuration of another fleet is one on exit
\* whose fleet is no longer in service when it writes: the loops, and the call that stops one,
\* save while the settings are still those of their fleet, although a call changes these under
\* them.  (Unless a loop has outlived its timeout.)
SavesConsistent ==
    [][file' # file /\ file'.fleet # file'.units =>
          late \/ (exiting \notin {0, runtime} /\ exiting' = 0)]_vars

\* A call that ends with no fleet in service, whatever step failed, leaves the settings
\* as it found them: what the next one takes for the ports it owns stays true.
FailureRestoresSettings ==
    [][pc # "idle" /\ pc' = "idle" /\ runtime' = 0 => settings' = previous]_vars

\* Every call comes to its end and gives the lock back, also when the loop it waits for
\* never ends.
CallEnds == pc # "idle" ~> pc = "idle"
=============================================================================
