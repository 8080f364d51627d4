------------------------------ MODULE Generator ------------------------------
(***************************************************************************)
(* One diesel standby generator (generator.py): the engine state machine,  *)
(* the two breakers of its transfer switch, auto mode and the alarms.      *)
(*                                                                         *)
(* A step of the module is one critical section of Generator.lock: a       *)
(* tick() or a command().  The methods they call are operators from a      *)
(* generator record to the SET of records the method may leave behind, so  *)
(* the modules that hold a fleet of generators use the same operators.     *)
(*                                                                         *)
(* Time is counted in ticks.  Analog values are kept only as the           *)
(* comparisons the code makes on them: a coolant above 220, an engine      *)
(* above 1950 rpm, an oil pressure below 25 while running.                 *)
(***************************************************************************)
EXTENDS Integers, FiniteSets

CONSTANTS
    Commands,         \* command values a client writes to the command register
    AutoDelays,       \* auto-start and retransfer delays drawn by the code, in ticks
    CrankTicks,       \* crank durations, in ticks
    CooldownTicks,    \* cooldown durations, in ticks
    NaturalAnomalies, \* anomalies a running engine develops by itself
    Warnings          \* non-critical condition alarms the analog values may raise

CONSTANT None         \* no latched fault

Status == {"ENGINE_RUNNING", "READY", "AUTO_MODE"}

CriticalAlarms == {"HIGH_COOLANT_TEMP", "LOW_OIL_PRESSURE", "OVERSPEED", "ESTOP",
                   "REVERSE_POWER", "GEN_BEARING_TEMP", "OVERCURRENT", "LOSS_OF_FIELD"}

\* Set, or cleared unless the anomaly of the same name is active, from the load.
LoadAlarms == {"REVERSE_POWER", "LOAD_IMBALANCE", "FUEL_LEAK", "SETPOINT_NOT_REACHED"}

\* Set or cleared on every tick from an analog value.
EngineAlarms == {"OVER_VOLTAGE", "UNDER_VOLTAGE", "OVER_FREQUENCY", "UNDER_FREQUENCY",
                 "OVERLOAD"}
SupplyAlarms == {"LOW_FUEL", "HIGH_BATTERY_V", "LOW_BATTERY_V"}
Recomputed == Status \cup EngineAlarms \cup SupplyAlarms
                \cup {"HIGH_COOLANT_TEMP", "LOW_OIL_PRESSURE", "OVERSPEED"}

Alarms == Recomputed \cup CriticalAlarms \cup LoadAlarms \cup
          {"OVERCRANK", "LOW_COOLANT_LEVEL", "GROUND_FAULT", "SYNC_CHECK_FAIL",
           "AIR_FILTER_RESTRICTED", "EXHAUST_HIGH_TEMP", "UTILITY_PHASE_LOSS",
           "PARALLEL_SYNC_LOSS"}

ASSUME DurationsAssumption ==
    /\ AutoDelays \subseteq Nat \ {0} /\ AutoDelays # {}
    /\ CrankTicks \subseteq Nat \ {0} /\ CrankTicks # {}
    /\ CooldownTicks \subseteq Nat \ {0} /\ CooldownTicks # {}

ASSUME AlarmsAssumption ==
    /\ NaturalAnomalies \subseteq {"HIGH_COOLANT_TEMP", "LOW_OIL_PRESSURE", "OVERSPEED",
                                   "OVER_VOLTAGE", "OVER_FREQUENCY"}
    /\ Warnings \subseteq (LoadAlarms \cup EngineAlarms \cup SupplyAlarms) \ CriticalAlarms
    /\ None \notin Alarms

ASSUME CommandsAssumption == Commands \subseteq Nat

States == {"STOPPED", "CRANKING", "RUNNING", "COOLDOWN", "FAULT"}
Modes == {"TRANSFER", "PARALLEL", "ISLAND"}

GenState ==
    [state : States,
     auto_mode : BOOLEAN,
     utility_available : BOOLEAN,      \* _utility_available
     last_utility_available : BOOLEAN, \* what auto mode saw on its last tick
     utility_breaker : BOOLEAN,
     gen_breaker : BOOLEAN,
     transfer_mode : Modes,
     alarms : SUBSET Alarms,
     manual_injected_alarms : SUBSET Alarms,
     latched_fault : Alarms \cup {None},
     anomalies : SUBSET Alarms,        \* the keys of _anomalies
     auto_start : Nat,                 \* ticks left to the auto start, 0: not pending
     auto_retransfer : Nat,            \* ticks left to the retransfer, 0: not pending
     elapsed : Nat,                    \* of the crank or the cooldown in progress
     duration : Nat,
     coolant_high : BOOLEAN,           \* coolant_temp > 220
     overspeed : BOOLEAN,              \* engine_rpm > 1950
     oil_low : BOOLEAN]                \* RUNNING and oil_pressure < 25

InitGen ==
    [state |-> "STOPPED", auto_mode |-> TRUE, utility_available |-> TRUE,
     last_utility_available |-> TRUE, utility_breaker |-> TRUE, gen_breaker |-> FALSE,
     transfer_mode |-> "TRANSFER", alarms |-> {}, manual_injected_alarms |-> {},
     latched_fault |-> None, anomalies |-> {}, auto_start |-> 0, auto_retransfer |-> 0,
     elapsed |-> 0, duration |-> 0, coolant_high |-> FALSE, overspeed |-> FALSE,
     oil_low |-> FALSE]

(* ------------------------------- helpers -------------------------------- *)

\* Mutant: the utility breaker is closed without a look at the utility.
BackToUtility_Blind(g) ==
    [g EXCEPT !.gen_breaker = FALSE, !.transfer_mode = "TRANSFER", !.utility_breaker = TRUE]

\* Both ways of leaving service end alike: the generator breaker opens, the
\* switch goes back to TRANSFER, and the utility breaker closes if it can.
BackToUtility(g) ==
    [g EXCEPT !.gen_breaker = FALSE,
              !.transfer_mode = "TRANSFER",
              !.utility_breaker = @ \/ g.utility_available]

EnterFault(g) ==
    [BackToUtility(g) EXCEPT !.state = "FAULT", !.elapsed = 0, !.duration = 0,
                             !.oil_low = FALSE]

BeginCooldown(g) ==
    { [BackToUtility(g) EXCEPT !.state = "COOLDOWN", !.elapsed = 0, !.duration = d,
                               !.oil_low = FALSE] : d \in CooldownTicks }

(* -------------------------- operator commands --------------------------- *)

CmdStart(g) ==
    IF g.state = "STOPPED"
    THEN { [g EXCEPT !.state = "CRANKING", !.elapsed = 0, !.duration = d] : d \in CrankTicks }
    ELSE {g}

\* Mutant: a faulted engine may be stopped too.
CmdStop_FromFault(g) ==
    IF g.state \in {"RUNNING", "CRANKING", "FAULT"} THEN BeginCooldown(g) ELSE {g}

CmdStop(g) == IF g.state \in {"RUNNING", "CRANKING"} THEN BeginCooldown(g) ELSE {g}

CmdCloseGenBreaker(g) ==
    IF g.state = "RUNNING" /\ ~g.gen_breaker
    THEN [g EXCEPT !.gen_breaker = TRUE,
                   !.utility_breaker = @ /\ g.transfer_mode = "PARALLEL"]
    ELSE g

\* Mutant: opening the generator breaker leaves the utility breaker alone.
CmdOpenGenBreaker_NoReclose(g) == [g EXCEPT !.gen_breaker = FALSE]

CmdOpenGenBreaker(g) ==
    IF g.gen_breaker
    THEN [g EXCEPT !.gen_breaker = FALSE, !.utility_breaker = @ \/ g.utility_available]
    ELSE g

CmdCloseUtilBreaker(g) ==
    IF g.utility_available /\ (g.transfer_mode = "PARALLEL" \/ ~g.gen_breaker)
    THEN [g EXCEPT !.utility_breaker = TRUE]
    ELSE g

CmdOpenUtilBreaker(g) ==
    IF ~g.gen_breaker THEN [g EXCEPT !.utility_breaker = FALSE] ELSE g

CmdEstop(g) ==
    EnterFault([g EXCEPT !.alarms = @ \cup {"ESTOP"}, !.latched_fault = "ESTOP"])

CmdResetAlarms(g) ==
    IF g.state = "FAULT"
    THEN [g EXCEPT !.state = "STOPPED", !.alarms = @ \cap Status, !.anomalies = {},
                   !.manual_injected_alarms = {}, !.latched_fault = None]
    ELSE g

CmdToggleAuto(g) == [g EXCEPT !.auto_mode = ~@]

CmdUtilityFail(g) == [g EXCEPT !.utility_available = FALSE, !.utility_breaker = FALSE]

CmdRestoreUtility(g) ==
    [g EXCEPT !.utility_available = TRUE, !.utility_breaker = @ \/ ~g.gen_breaker]

SetParallelMode(g) == [g EXCEPT !.transfer_mode = "PARALLEL"]

SetIslandMode(g) ==
    [g EXCEPT !.transfer_mode = "ISLAND", !.utility_breaker = FALSE,
              !.gen_breaker = @ \/ g.state = "RUNNING"]

SetTransferMode(g) ==
    [g EXCEPT !.transfer_mode = "TRANSFER",
              !.gen_breaker = @ /\ ~g.utility_breaker]

(* ---------------------------- fault injection --------------------------- *)

FaultCommands == {20, 21, 22, 25, 26, 27, 28, 30, 31, 34, 35, 36, 39}
LatchedFaultCommands == {23, 24, 29, 32, 33, 37, 38}

\* command value |-> the alarm it injects with a sensor override
InjectedFault ==
    [c \in FaultCommands |->
        CASE c = 20 -> "HIGH_COOLANT_TEMP" [] c = 21 -> "LOW_OIL_PRESSURE"
          [] c = 22 -> "OVERSPEED"         [] c = 25 -> "OVER_VOLTAGE"
          [] c = 26 -> "UNDER_VOLTAGE"     [] c = 27 -> "HIGH_BATTERY_V"
          [] c = 28 -> "REVERSE_POWER"     [] c = 30 -> "LOAD_IMBALANCE"
          [] c = 31 -> "FUEL_LEAK"         [] c = 34 -> "GEN_BEARING_TEMP"
          [] c = 35 -> "OVERCURRENT"       [] c = 36 -> "LOSS_OF_FIELD"
          [] c = 39 -> "SETPOINT_NOT_REACHED"]

\* command value |-> the alarm it latches, without a sensor override
InjectedLatchedFault ==
    [c \in LatchedFaultCommands |->
        CASE c = 23 -> "LOW_COOLANT_LEVEL"     [] c = 24 -> "GROUND_FAULT"
          [] c = 29 -> "SYNC_CHECK_FAIL"       [] c = 32 -> "AIR_FILTER_RESTRICTED"
          [] c = 33 -> "EXHAUST_HIGH_TEMP"     [] c = 37 -> "UTILITY_PHASE_LOSS"
          [] c = 38 -> "PARALLEL_SYNC_LOSS"]

AddInjectedAlarm(g, alarm) ==
    [g EXCEPT !.alarms = @ \cup {alarm}, !.manual_injected_alarms = @ \cup {alarm}]

FaultUnlessFaulted(g) == IF g.state = "FAULT" THEN g ELSE EnterFault(g)

InjectFault(g, alarm) ==
    FaultUnlessFaulted(
        [AddInjectedAlarm(g, alarm) EXCEPT
            !.coolant_high = @ \/ alarm = "HIGH_COOLANT_TEMP",
            !.overspeed = @ \/ alarm = "OVERSPEED",
            !.anomalies = @ \cup (IF g.state = "RUNNING" THEN {alarm} ELSE {}),
            !.latched_fault = alarm])

InjectLatchedFault(g, alarm) ==
    FaultUnlessFaulted(
        [AddInjectedAlarm(g, alarm) EXCEPT
            !.latched_fault = IF g.state = "FAULT" THEN @ ELSE alarm])

\* command(): the register's value selects a method; other values do nothing.
Command(g, cmd) ==
    CASE cmd = 1  -> CmdStart(g)
      [] cmd = 2  -> CmdStop(g)
      [] cmd = 3  -> {CmdCloseGenBreaker(g)}
      [] cmd = 4  -> {CmdOpenGenBreaker(g)}
      [] cmd = 5  -> {CmdCloseUtilBreaker(g)}
      [] cmd = 6  -> {CmdOpenUtilBreaker(g)}
      [] cmd = 7  -> {CmdEstop(g)}
      [] cmd = 8  -> {CmdResetAlarms(g)}
      [] cmd = 9  -> {CmdToggleAuto(g)}
      [] cmd = 10 -> {CmdUtilityFail(g)}
      [] cmd = 11 -> {CmdRestoreUtility(g)}
      [] cmd = 12 -> {SetParallelMode(g)}
      [] cmd = 13 -> {SetIslandMode(g)}
      [] cmd = 14 -> {SetTransferMode(g)}
      [] cmd \in FaultCommands -> {InjectFault(g, InjectedFault[cmd])}
      [] cmd \in LatchedFaultCommands -> {InjectLatchedFault(g, InjectedLatchedFault[cmd])}
      [] OTHER -> {g}

(* ------------------------------- auto mode ------------------------------ *)

\* engine_rpm > 1750 and output_voltage > 470: a running engine is at its rated
\* values unless the under-voltage anomaly holds its voltage down.
AtRatedValues(g) == "UNDER_VOLTAGE" \notin g.anomalies

\* The first tick to see the utility gone plans a start, from STOPPED only.
DetectFailure(g) ==
    IF g.last_utility_available /\ ~g.utility_available /\ g.state = "STOPPED"
    THEN { [g EXCEPT !.auto_start = d] : d \in AutoDelays }
    ELSE {g}

\* The first tick to see it back plans a retransfer, from a loaded engine only.
DetectRestore(g) ==
    IF ~g.last_utility_available /\ g.utility_available /\ g.state = "RUNNING" /\ g.gen_breaker
    THEN { [g EXCEPT !.auto_retransfer = d] : d \in AutoDelays }
    ELSE {g}

ObserveUtility(g) == [g EXCEPT !.last_utility_available = g.utility_available]

\* Mutant: the countdown runs although no start is pending.
CountDownStart_Unguarded(g) ==
    IF g.auto_start = 1 THEN CmdStart([g EXCEPT !.auto_start = 0])
    ELSE {[g EXCEPT !.auto_start = @ - 1]}

CountDownStart(g) ==
    CASE g.auto_start = 0 -> {g}
      [] g.auto_start = 1 -> CmdStart([g EXCEPT !.auto_start = 0])
      [] OTHER            -> {[g EXCEPT !.auto_start = @ - 1]}

\* Mutant: only load sharing closes the breaker, never an outage.
AutoCloseGenBreaker_SharingOnly(g) ==
    IF /\ g.state = "RUNNING" /\ ~g.gen_breaker /\ g.auto_start = 0 /\ AtRatedValues(g)
       /\ g.utility_available /\ g.transfer_mode = "PARALLEL"
    THEN CmdCloseGenBreaker(g)
    ELSE g

AutoCloseGenBreaker(g) ==
    IF /\ g.state = "RUNNING" /\ ~g.gen_breaker
       /\ g.auto_start = 0
       /\ AtRatedValues(g)
       /\ ~g.utility_available \/ g.transfer_mode = "PARALLEL"
    THEN CmdCloseGenBreaker(g)
    ELSE g

\* Mutant: the load goes back to the utility and the engine keeps running.
Retransfer_NoCooldown(g) ==
    IF g.state = "RUNNING" THEN {CmdCloseUtilBreaker(CmdOpenGenBreaker(g))} ELSE {g}

Retransfer(g) ==
    IF g.state = "RUNNING"
    THEN BeginCooldown(CmdCloseUtilBreaker(CmdOpenGenBreaker(g)))
    ELSE {g}

CountDownRetransfer(g) ==
    CASE g.auto_retransfer = 0 -> {g}
      [] g.auto_retransfer = 1 -> Retransfer([g EXCEPT !.auto_retransfer = 0])
      [] OTHER                 -> {[g EXCEPT !.auto_retransfer = @ - 1]}

CheckAutoMode(g) ==
    IF g.auto_mode
    THEN UNION { UNION { UNION { CountDownRetransfer(AutoCloseGenBreaker(c)) :
                                 c \in CountDownStart(ObserveUtility(b)) } :
                         b \in DetectRestore(a) } :
                 a \in DetectFailure(g) }
    ELSE {[g EXCEPT !.auto_start = 0, !.auto_retransfer = 0]}

(* ------------------------------ engine tick ----------------------------- *)

TickStopped(g) ==
    { [g EXCEPT !.gen_breaker = FALSE, !.overspeed = FALSE, !.coolant_high = hot] :
        hot \in {g.coolant_high, FALSE} }

\* The overcrank die is thrown once, on the first tick at 80% of the crank.
OvercrankChecked(g) ==
    5 * (g.elapsed + 1) >= 4 * g.duration /\ 5 * g.elapsed < 4 * g.duration

Overcrank(g) ==
    EnterFault([g EXCEPT !.alarms = @ \cup {"OVERCRANK"}, !.latched_fault = "OVERCRANK",
                         !.overspeed = FALSE])

TickCranking(g) ==
    { IF g.elapsed + 1 >= g.duration
      THEN [g EXCEPT !.state = "RUNNING", !.elapsed = 0, !.duration = 0, !.overspeed = FALSE]
      ELSE [g EXCEPT !.elapsed = @ + 1, !.overspeed = FALSE] }
    \cup IF OvercrankChecked(g) THEN {Overcrank(g)} ELSE {}

\* Mutant: the overspeed alarm is left out of the shutdown.
CheckCriticalShutdown_NoOverspeed(g) ==
    LET critical == (g.alarms \cap CriticalAlarms) \ {"ESTOP", "OVERSPEED"}
    IN  IF critical = {} THEN {g}
        ELSE { EnterFault([g EXCEPT !.latched_fault = a]) : a \in critical }

\* The engine trips on the critical alarms of the tick before, whichever of
\* them the iteration over CRITICAL_ALARMS meets first.
CheckCriticalShutdown(g) ==
    LET critical == (g.alarms \cap CriticalAlarms) \ {"ESTOP"}
    IN  IF critical = {} THEN {g}
        ELSE { EnterFault([g EXCEPT !.latched_fault = a]) : a \in critical }

\* The sensors follow the active anomalies.  The coolant moves slowly towards
\* its target, so it may stay on its side of 220 for many ticks.
Sense(g, active, hot) ==
    [g EXCEPT !.anomalies = active,
              !.overspeed = "OVERSPEED" \in active,
              !.oil_low = "LOW_OIL_PRESSURE" \in active,
              !.coolant_high = hot]

\* Anomalies expire and new ones start at random.
TickRunning(g) ==
    UNION { UNION { CheckCriticalShutdown(Sense(g, active, hot)) :
                    hot \in {g.coolant_high, "HIGH_COOLANT_TEMP" \in active} } :
            active \in SUBSET (g.anomalies \cup NaturalAnomalies) }

TickCooldown(g) ==
    { IF g.elapsed + 1 >= g.duration
      THEN [g EXCEPT !.state = "STOPPED", !.gen_breaker = FALSE, !.elapsed = 0,
                     !.duration = 0, !.overspeed = FALSE, !.coolant_high = hot]
      ELSE [g EXCEPT !.gen_breaker = FALSE, !.elapsed = @ + 1, !.overspeed = FALSE,
                     !.coolant_high = hot] :
        hot \in {g.coolant_high, FALSE} }

TickFault(g) ==
    { [g EXCEPT !.gen_breaker = FALSE, !.overspeed = fast, !.coolant_high = hot] :
        fast \in {g.overspeed, FALSE}, hot \in {g.coolant_high, FALSE} }

UpdateState(g) ==
    CASE g.state = "STOPPED"  -> TickStopped(g)
      [] g.state = "CRANKING" -> TickCranking(g)
      [] g.state = "RUNNING"  -> TickRunning(g)
      [] g.state = "COOLDOWN" -> TickCooldown(g)
      [] g.state = "FAULT"    -> TickFault(g)

(* -------------------------------- alarms -------------------------------- *)

InParallel(g) ==
    g.state = "RUNNING" /\ g.gen_breaker /\ g.utility_breaker /\ g.transfer_mode = "PARALLEL"

\* The warnings the analog values can raise now.  output_kw is never negative,
\* so REVERSE_POWER is only ever injected.
PossibleWarnings(g) ==
    Warnings \cap ( (SupplyAlarms \ IF g.state = "CRANKING" THEN {"LOW_BATTERY_V"} ELSE {})
                    \cup (IF g.state = "RUNNING" THEN EngineAlarms \cup {"FUEL_LEAK"} ELSE {})
                    \cup (IF InParallel(g) THEN {"LOAD_IMBALANCE", "SETPOINT_NOT_REACHED"}
                                           ELSE {}) )

\* The alarms whose condition holds.
Detected(g) ==
    {a \in {"ENGINE_RUNNING"} : g.state \in {"RUNNING", "CRANKING"}}
    \cup {a \in {"READY"} : g.state = "STOPPED" /\ g.latched_fault = None}
    \cup {a \in {"AUTO_MODE"} : g.auto_mode}
    \cup {a \in {"HIGH_COOLANT_TEMP"} : g.coolant_high}
    \cup {a \in {"LOW_OIL_PRESSURE"} : g.state = "RUNNING" /\ g.oil_low}
    \cup {a \in {"OVERSPEED"} : g.overspeed}
    \cup {a \in {"UTILITY_PHASE_LOSS"} : ~g.utility_available}

\* The alarms this tick clears unless their condition holds.
Discarded(g) ==
    Recomputed \cup (LoadAlarms \ g.anomalies)
               \cup ({"UTILITY_PHASE_LOSS"} \ {g.latched_fault})

\* Mutant: injected alarms are recomputed like the others.
UpdateAlarms_DropsInjected(g) ==
    { [g EXCEPT !.alarms = (@ \ Discarded(g)) \cup Detected(g) \cup w] :
        w \in SUBSET PossibleWarnings(g) }

UpdateAlarms(g) ==
    { [g EXCEPT !.alarms = (@ \ Discarded(g)) \cup Detected(g) \cup w
                             \cup g.manual_injected_alarms] :
        w \in SUBSET PossibleWarnings(g) }

TickOutcomes(g) ==
    UNION { UNION { UpdateAlarms(b) : b \in UpdateState(a) } : a \in CheckAutoMode(g) }

(* ----------------------------- specification ---------------------------- *)

VARIABLE gen

Init == gen = InitGen

Tick == gen' \in TickOutcomes(gen)

ExecuteCommand(cmd) == gen' \in Command(gen, cmd)

Next == Tick \/ \E cmd \in Commands : ExecuteCommand(cmd)

Spec == Init /\ [][Next]_gen

\* The simulation loop ticks every generator once per period for as long as it
\* runs; no client is obliged to send anything.  A natural anomaly may come with any
\* tick but need not come with one: only ticks that bring none are counted on.
QuietTick == Tick /\ gen'.anomalies \subseteq gen.anomalies

FairSpec == Spec /\ WF_gen(QuietTick)

(* ------------------------------ invariants ------------------------------ *)

\* Every field of the generator has the type the code gives it.
TypeOK == gen \in GenState

\* The breakers and the engine of a generator agree.
Switch(g) ==
    /\ g.gen_breaker /\ g.utility_breaker => g.transfer_mode = "PARALLEL"
    /\ g.utility_breaker => g.utility_available
    /\ g.gen_breaker => g.state = "RUNNING"

\* Outside PARALLEL mode the two breakers are never closed together, the utility
\* breaker is never closed onto a dead utility, and the generator breaker only on
\* a running engine: whatever sequence of commands, mode changes, trips and
\* automatic transfers led here.
BreakersSafe == Switch(gen)

\* The alarms, the latched fault and the anomalies agree with the state.
Latch(g) ==
    /\ g.state = "FAULT" <=> g.latched_fault # None
    /\ g.manual_injected_alarms \subseteq g.alarms
    /\ g.manual_injected_alarms # {} => g.state = "FAULT"
    /\ g.state # "FAULT" => g.anomalies \subseteq NaturalAnomalies

\* The engine is in FAULT exactly while a fault is latched, however injections, trips,
\* E-Stops and resets interleave; "operator fault-injection commands must remain
\* visible until reset", over every recomputation of the alarms, and hold the engine
\* in FAULT; and a sensor override set by an injection never outlives the fault, so
\* that an injected under-voltage cannot keep auto mode from closing the breaker later.
FaultsLatch == Latch(gen)

(* --------------------------- action properties -------------------------- *)

Supplied(g) == g.utility_breaker \/ g.gen_breaker

\* While the utility is there, no tick (auto start, retransfer, trip, overcrank,
\* end of cooldown) and no command but the two that open the utility breaker on
\* purpose leaves the building without a source it had.
BuildingNotDropped ==
    [][Supplied(gen) /\ gen.utility_available /\ gen'.utility_available
        /\ ~ExecuteCommand(6) /\ ~ExecuteCommand(13)
        => Supplied(gen')]_gen

\* An engine that shows a critical alarm at the end of a tick is out of RUNNING
\* at the end of the next.
CriticalTrips ==
    [][Tick /\ gen.state = "RUNNING" /\ gen.alarms \cap CriticalAlarms # {}
        => gen'.state # "RUNNING"]_gen

\* FAULT is left only by the Reset command, to STOPPED, with everything latched
\* or injected gone.
FaultLeftByReset ==
    [][gen.state = "FAULT" /\ gen'.state # "FAULT"
        => /\ ExecuteCommand(8)
           /\ gen'.state = "STOPPED" /\ gen'.latched_fault = None
           /\ gen'.alarms \subseteq Status]_gen

(* ------------------------------- liveness ------------------------------- *)

\* An outage that auto mode noticed in time is picked up by the engine, unless
\* it ends, auto mode is switched off, the engine faults or it is stopped.
OutagePickedUp ==
    (gen.state = "STOPPED" /\ gen.auto_start > 0)
        ~> \/ gen.gen_breaker
           \/ gen.utility_available \/ ~gen.auto_mode
           \/ gen.state \in {"FAULT", "COOLDOWN"}

\* A planned retransfer takes the engine out of service, unless auto mode is
\* switched off or the utility fails again.
RetransferCompletes ==
    gen.auto_retransfer > 0
        ~> gen.state # "RUNNING" \/ ~gen.auto_mode \/ ~gen.utility_available
=============================================================================
