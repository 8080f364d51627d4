-------------------------- MODULE GeneratorProofs --------------------------
(***************************************************************************)
(* Proofs about Generator, for all commands, delays, durations, natural    *)
(* anomalies and warnings.  Every method of the generator takes a safe     *)
(* record to safe records (the lemmas named ...Good), so every command and *)
(* every tick does, and Safe(gen) is an inductive invariant.  The same     *)
(* lemmas say what a step keeps (Kept), which gives the action properties. *)
(* The last part follows the critical alarms through a tick.               *)
(***************************************************************************)
EXTENDS Generator, TLAPS

\* What no method but a few commands changes: the utility, a fault, a supply.
Kept(g, h) ==
    /\ h.utility_available = g.utility_available
    /\ g.state = "FAULT" => h.state = "FAULT"
    /\ g.utility_available /\ Supplied(g) => Supplied(h)

\* The inductive invariant, on a record.
Safe(g) == g \in GenState /\ Switch(g) /\ Latch(g)

\* Leaving service closes the utility breaker exactly when the utility is there.
LEMMA BackToUtilityGood ==
    ASSUME NEW g \in GenState, Switch(g)
    PROVE  LET b == BackToUtility(g)
           IN /\ b \in GenState
              /\ ~b.gen_breaker /\ (b.utility_breaker => b.utility_available)
              /\ b.utility_available = g.utility_available
              /\ g.utility_available => b.utility_breaker
              /\ b.alarms = g.alarms /\ b.latched_fault = g.latched_fault
              /\ b.manual_injected_alarms = g.manual_injected_alarms
              /\ b.anomalies = g.anomalies
<1>1. BackToUtility(g) \in GenState BY DEF BackToUtility, GenState, Modes
<1> QED BY <1>1 DEF BackToUtility, GenState, Switch

\* A fault is entered safely from any sound switch once a fault is latched.
LEMMA EnterFaultGood ==
    ASSUME NEW g \in GenState, Switch(g), g.latched_fault # None,
           g.manual_injected_alarms \subseteq g.alarms
    PROVE  Safe(EnterFault(g)) /\ Kept(g, EnterFault(g)) /\ EnterFault(g).state = "FAULT"
<1> DEFINE b == BackToUtility(g)
           h == [b EXCEPT !.state = "FAULT", !.elapsed = 0, !.duration = 0, !.oil_low = FALSE]
<1>1. /\ b \in GenState
      /\ ~b.gen_breaker /\ (b.utility_breaker => b.utility_available)
      /\ b.utility_available = g.utility_available
      /\ g.utility_available => b.utility_breaker
      /\ b.alarms = g.alarms /\ b.latched_fault = g.latched_fault
      /\ b.manual_injected_alarms = g.manual_injected_alarms
  BY BackToUtilityGood
<1>2. EnterFault(g) = h BY DEF EnterFault
<1> HIDE DEF b
<1>3. h \in GenState BY <1>1 DEF GenState, States
<1>4. Switch(h) BY <1>1 DEF GenState, Switch
<1>5. Latch(h) BY <1>1 DEF GenState, Latch
<1>6. Kept(g, h) BY <1>1 DEF GenState, Kept, Supplied
<1>7. h.state = "FAULT" BY <1>1 DEF GenState
<1> QED BY <1>2, <1>3, <1>4, <1>5, <1>6, <1>7 DEF Safe

\* A cooldown is entered safely from any state that is not a fault.
LEMMA BeginCooldownGood ==
    ASSUME NEW g, Safe(g), g.state # "FAULT", NEW h \in BeginCooldown(g)
    PROVE  Safe(h) /\ Kept(g, h) /\ h.state = "COOLDOWN"
<1> DEFINE b == BackToUtility(g)
<1>1. /\ b \in GenState
      /\ ~b.gen_breaker /\ (b.utility_breaker => b.utility_available)
      /\ b.utility_available = g.utility_available
      /\ g.utility_available => b.utility_breaker
      /\ b.alarms = g.alarms /\ b.latched_fault = g.latched_fault
      /\ b.manual_injected_alarms = g.manual_injected_alarms
      /\ b.anomalies = g.anomalies
  BY BackToUtilityGood DEF Safe
<1>2. PICK d \in CooldownTicks : h = [b EXCEPT !.state = "COOLDOWN", !.elapsed = 0,
                                               !.duration = d, !.oil_low = FALSE]
  BY DEF BeginCooldown
<1>3. d \in Nat BY DurationsAssumption
<1> HIDE DEF b
<1> DEFINE k == [b EXCEPT !.state = "COOLDOWN", !.elapsed = 0,
                                               !.duration = d, !.oil_low = FALSE]
<1>4. k \in GenState BY <1>1, <1>3 DEF GenState, States
<1>5. Switch(k) BY <1>1 DEF GenState, Switch
<1>6. Latch(k) BY <1>1 DEF GenState, Latch, Safe
<1>7. Kept(g, k) BY <1>1 DEF GenState, Kept, Supplied
<1>8. k.state = "COOLDOWN" BY <1>1 DEF GenState
<1> QED BY <1>2, <1>4, <1>5, <1>6, <1>7, <1>8 DEF Safe

\* Start keeps the invariant.
LEMMA CmdStartGood ==
    ASSUME NEW g, Safe(g), NEW h \in CmdStart(g)
    PROVE  Safe(h) /\ Kept(g, h)
<1>1. CASE g.state # "STOPPED" BY <1>1 DEF CmdStart, Kept
<1>2. CASE g.state = "STOPPED"
  <2>1. PICK d \in CrankTicks : h = [g EXCEPT !.state = "CRANKING", !.elapsed = 0, !.duration = d]
    BY <1>2 DEF CmdStart
  <2>2. d \in Nat BY DurationsAssumption
  <2>3. h \in GenState BY <2>1, <2>2 DEF GenState, States, Safe
  <2>4. Switch(h) BY <2>1, <1>2 DEF GenState, Switch, Safe
  <2>5. Latch(h) BY <2>1, <1>2 DEF GenState, Latch, Safe
  <2>6. Kept(g, h) BY <2>1, <1>2 DEF GenState, Safe, Kept, Supplied
  <2> QED BY <2>3, <2>4, <2>5, <2>6 DEF Safe
<1> QED BY <1>1, <1>2

\* Stop keeps the invariant.
LEMMA CmdStopGood ==
    ASSUME NEW g, Safe(g), NEW h \in CmdStop(g)
    PROVE  Safe(h) /\ Kept(g, h)
<1>1. CASE g.state \in {"RUNNING", "CRANKING"} BY <1>1, BeginCooldownGood DEF CmdStop
<1>2. CASE g.state \notin {"RUNNING", "CRANKING"} BY <1>2 DEF CmdStop, Kept
<1> QED BY <1>1, <1>2

\* Closing the generator breaker opens the utility one unless in PARALLEL.
LEMMA CmdCloseGenBreakerGood ==
    ASSUME NEW g, Safe(g)
    PROVE  LET h == CmdCloseGenBreaker(g) IN Safe(h) /\ Kept(g, h) /\ h.state = g.state
<1> DEFINE h == CmdCloseGenBreaker(g)
<1>1. CASE g.state = "RUNNING" /\ ~g.gen_breaker
  <2>1. h = [g EXCEPT !.gen_breaker = TRUE,
                      !.utility_breaker = @ /\ g.transfer_mode = "PARALLEL"]
    BY <1>1 DEF CmdCloseGenBreaker
  <2> HIDE DEF h
  <2>3. h \in GenState BY <2>1 DEF GenState, Safe
  <2>4. Switch(h) BY <2>1, <1>1 DEF GenState, Switch, Safe
  <2>5. Latch(h) BY <2>1, <1>1 DEF GenState, Latch, Safe
  <2>6. Kept(g, h) BY <2>1, <1>1 DEF GenState, Safe, Kept, Supplied
  <2>7. h.state = g.state BY <2>1 DEF GenState, Safe
  <2> QED BY <2>3, <2>4, <2>5, <2>6, <2>7 DEF Safe, h
<1>2. CASE ~(g.state = "RUNNING" /\ ~g.gen_breaker)
  BY <1>2 DEF CmdCloseGenBreaker, Kept
<1> QED BY <1>1, <1>2

\* Opening the generator breaker hands the building to an available utility.
LEMMA CmdOpenGenBreakerGood ==
    ASSUME NEW g, Safe(g)
    PROVE  LET h == CmdOpenGenBreaker(g)
           IN  Safe(h) /\ Kept(g, h) /\ h.state = g.state /\ ~h.gen_breaker
<1> DEFINE h == CmdOpenGenBreaker(g)
<1>1. CASE g.gen_breaker
  <2>1. h = [g EXCEPT !.gen_breaker = FALSE, !.utility_breaker = @ \/ g.utility_available]
    BY <1>1 DEF CmdOpenGenBreaker
  <2> HIDE DEF h
  <2>2. h \in GenState BY <2>1 DEF GenState, Safe
  <2>3. Switch(h) BY <2>1 DEF GenState, Switch, Safe
  <2>4. Latch(h) BY <2>1 DEF GenState, Latch, Safe
  <2>5. Kept(g, h) /\ h.state = g.state /\ ~h.gen_breaker
    BY <2>1 DEF GenState, Safe, Kept, Supplied
  <2> QED BY <2>2, <2>3, <2>4, <2>5 DEF Safe, h
<1>2. CASE ~g.gen_breaker
  BY <1>2 DEF CmdOpenGenBreaker, Kept
<1> QED BY <1>1, <1>2

\* The utility breaker is refused while the generator breaker holds the load.
LEMMA CmdCloseUtilBreakerGood ==
    ASSUME NEW g, Safe(g)
    PROVE  LET h == CmdCloseUtilBreaker(g)
           IN  Safe(h) /\ Kept(g, h) /\ h.state = g.state
<1> DEFINE h == CmdCloseUtilBreaker(g)
<1>1. CASE g.utility_available /\ (g.transfer_mode = "PARALLEL" \/ ~g.gen_breaker)
  <2>1. h = [g EXCEPT !.utility_breaker = TRUE] BY <1>1 DEF CmdCloseUtilBreaker
  <2> HIDE DEF h
  <2>2. h \in GenState BY <2>1 DEF GenState, Safe
  <2>3. Switch(h) BY <2>1, <1>1 DEF GenState, Switch, Safe
  <2>4. Latch(h) BY <2>1 DEF GenState, Latch, Safe
  <2>5. Kept(g, h) /\ h.state = g.state BY <2>1 DEF GenState, Safe, Kept, Supplied
  <2> QED BY <2>2, <2>3, <2>4, <2>5 DEF Safe, h
<1>2. CASE ~(g.utility_available /\ (g.transfer_mode = "PARALLEL" \/ ~g.gen_breaker))
  BY <1>2 DEF CmdCloseUtilBreaker, Kept
<1> QED BY <1>1, <1>2

\* Opening the utility breaker keeps the invariant (and may drop the building).
LEMMA CmdOpenUtilBreakerGood ==
    ASSUME NEW g, Safe(g)
    PROVE  Safe(CmdOpenUtilBreaker(g)) /\ CmdOpenUtilBreaker(g).state = g.state
<1> DEFINE h == [g EXCEPT !.utility_breaker = FALSE]
<1>1. h \in GenState BY DEF GenState, Safe
<1>2. Switch(h) /\ h.state = g.state BY DEF GenState, Switch, Safe
<1>3. Latch(h) BY DEF GenState, Latch, Safe
<1> QED BY <1>1, <1>2, <1>3 DEF Safe, CmdOpenUtilBreaker

\* An E-Stop is a safe fault from every state.
LEMMA CmdEstopGood ==
    ASSUME NEW g, Safe(g)
    PROVE  Safe(CmdEstop(g)) /\ Kept(g, CmdEstop(g))
<1> DEFINE e == [g EXCEPT !.alarms = @ \cup {"ESTOP"}, !.latched_fault = "ESTOP"]
<1>1. e \in GenState BY DEF GenState, Safe, Alarms, CriticalAlarms
<1>2. e.latched_fault # None /\ e.manual_injected_alarms \subseteq e.alarms
  BY AlarmsAssumption DEF GenState, Safe, Latch, Alarms, CriticalAlarms
<1>3. Switch(e) /\ Kept(g, e) BY DEF GenState, Switch, Safe, Kept, Supplied
<1> HIDE DEF e
<1>4. Safe(EnterFault(e)) /\ Kept(e, EnterFault(e)) BY <1>1, <1>2, <1>3, EnterFaultGood
<1>5. Kept(g, EnterFault(e)) BY <1>3, <1>4 DEF Kept
<1> QED BY <1>4, <1>5 DEF CmdEstop, e

\* Reset leaves the fault with nothing latched, injected or anomalous.
LEMMA CmdResetAlarmsGood ==
    ASSUME NEW g, Safe(g)
    PROVE  /\ Safe(CmdResetAlarms(g))
           /\ Supplied(g) => Supplied(CmdResetAlarms(g))
<1> DEFINE h == [g EXCEPT !.state = "STOPPED", !.alarms = @ \cap Status, !.anomalies = {},
                          !.manual_injected_alarms = {}, !.latched_fault = None]
<1>1. h \in GenState BY DEF GenState, Safe, States
<1>2. Switch(h) \/ g.state # "FAULT" BY DEF GenState, Switch, Safe
<1>3. Latch(h) BY DEF GenState, Latch, Safe
<1>4. Supplied(g) => Supplied(h) BY DEF GenState, Supplied, Safe
<1> QED BY <1>1, <1>2, <1>3, <1>4 DEF Safe, CmdResetAlarms

\* Losing and restoring the utility keep the invariant; restoring never drops the load.
LEMMA UtilityCommandsGood ==
    ASSUME NEW g, Safe(g), NEW h \in {CmdToggleAuto(g), CmdUtilityFail(g), CmdRestoreUtility(g)}
    PROVE  /\ Safe(h) /\ h.state = g.state
           /\ h.utility_available /\ Supplied(g) => Supplied(h)
<1>1. CASE h = CmdToggleAuto(g)
  <2>1. h \in GenState BY <1>1 DEF GenState, Safe, CmdToggleAuto
  <2>2. Switch(h) /\ h.state = g.state BY <1>1 DEF GenState, Switch, Safe, CmdToggleAuto
  <2>3. Latch(h) BY <1>1 DEF GenState, Latch, Safe, CmdToggleAuto
  <2>4. Supplied(g) => Supplied(h) BY <1>1 DEF GenState, Supplied, Safe, CmdToggleAuto
  <2> QED BY <2>1, <2>2, <2>3, <2>4 DEF Safe
<1>2. CASE h = CmdUtilityFail(g)
  <2>1. h \in GenState BY <1>2 DEF GenState, Safe, CmdUtilityFail
  <2>2. Switch(h) /\ h.state = g.state BY <1>2 DEF GenState, Switch, Safe, CmdUtilityFail
  <2>3. Latch(h) BY <1>2 DEF GenState, Latch, Safe, CmdUtilityFail
  <2>4. ~h.utility_available BY <1>2 DEF GenState, Safe, CmdUtilityFail
  <2> QED BY <2>1, <2>2, <2>3, <2>4 DEF Safe
<1>3. CASE h = CmdRestoreUtility(g)
  <2>1. h \in GenState BY <1>3 DEF GenState, Safe, CmdRestoreUtility
  <2>2. Switch(h) /\ h.state = g.state BY <1>3 DEF GenState, Switch, Safe, CmdRestoreUtility
  <2>3. Latch(h) BY <1>3 DEF GenState, Latch, Safe, CmdRestoreUtility
  <2>4. Supplied(h) BY <1>3 DEF GenState, Supplied, Safe, CmdRestoreUtility
  <2> QED BY <2>1, <2>2, <2>3, <2>4 DEF Safe
<1> QED BY <1>1, <1>2, <1>3

\* The three transfer modes can be entered from every safe state.
LEMMA ModeCommandsGood ==
    ASSUME NEW g, Safe(g)
    PROVE  /\ Safe(SetParallelMode(g)) /\ Kept(g, SetParallelMode(g))
           /\ Safe(SetIslandMode(g)) /\ SetIslandMode(g).state = g.state
           /\ Safe(SetTransferMode(g)) /\ Kept(g, SetTransferMode(g))
<1>1. Safe(SetParallelMode(g)) /\ Kept(g, SetParallelMode(g))
  <2> DEFINE h == SetParallelMode(g)
  <2>1. h \in GenState BY DEF GenState, Safe, SetParallelMode, Modes
  <2>2. Switch(h) BY DEF GenState, Switch, Safe, SetParallelMode
  <2>3. Latch(h) BY DEF GenState, Latch, Safe, SetParallelMode
  <2>4. Kept(g, h) BY DEF GenState, Kept, Supplied, Safe, SetParallelMode
  <2> QED BY <2>1, <2>2, <2>3, <2>4 DEF Safe
<1>2. Safe(SetIslandMode(g)) /\ SetIslandMode(g).state = g.state
  <2> DEFINE h == SetIslandMode(g)
  <2>1. h \in GenState BY DEF GenState, Safe, SetIslandMode, Modes
  <2>2. Switch(h) /\ h.state = g.state BY DEF GenState, Switch, Safe, SetIslandMode
  <2>3. Latch(h) BY DEF GenState, Latch, Safe, SetIslandMode
  <2> QED BY <2>1, <2>2, <2>3 DEF Safe
<1>3. Safe(SetTransferMode(g)) /\ Kept(g, SetTransferMode(g))
  <2> DEFINE h == SetTransferMode(g)
  <2>1. h \in GenState BY DEF GenState, Safe, SetTransferMode, Modes
  <2>2. Switch(h) BY DEF GenState, Switch, Safe, SetTransferMode
  <2>3. Latch(h) BY DEF GenState, Latch, Safe, SetTransferMode
  <2>4. Kept(g, h) BY DEF GenState, Kept, Supplied, Safe, SetTransferMode
  <2> QED BY <2>1, <2>2, <2>3, <2>4 DEF Safe
<1> QED BY <1>1, <1>2, <1>3

\* Faulting an engine that may be faulted already is safe.
LEMMA FaultUnlessFaultedGood ==
    ASSUME NEW g \in GenState, Switch(g), g.latched_fault # None,
           g.manual_injected_alarms \subseteq g.alarms
    PROVE  /\ Safe(FaultUnlessFaulted(g)) /\ Kept(g, FaultUnlessFaulted(g))
           /\ FaultUnlessFaulted(g).state = "FAULT"
<1>1. CASE g.state = "FAULT" BY <1>1 DEF FaultUnlessFaulted, Safe, Latch, Kept
<1>2. CASE g.state # "FAULT" BY <1>2, EnterFaultGood DEF FaultUnlessFaulted
<1> QED BY <1>1, <1>2

\* Injecting an alarm with a sensor override is safe in every state.
LEMMA InjectFaultGood ==
    ASSUME NEW g, Safe(g), NEW alarm \in Alarms
    PROVE  /\ Safe(InjectFault(g, alarm)) /\ Kept(g, InjectFault(g, alarm))
           /\ InjectFault(g, alarm).state = "FAULT"
<1> DEFINE a == AddInjectedAlarm(g, alarm)
           more == IF g.state = "RUNNING" THEN {alarm} ELSE {}
           b == [a EXCEPT !.coolant_high = @ \/ alarm = "HIGH_COOLANT_TEMP",
                          !.overspeed = @ \/ alarm = "OVERSPEED",
                          !.anomalies = @ \cup more,
                          !.latched_fault = alarm]
<1>1. /\ a \in GenState
      /\ a.gen_breaker = g.gen_breaker /\ a.utility_breaker = g.utility_breaker
      /\ a.utility_available = g.utility_available /\ a.transfer_mode = g.transfer_mode
      /\ a.state = g.state /\ a.manual_injected_alarms \subseteq a.alarms
  BY DEF AddInjectedAlarm, GenState, Safe, Latch
<1>2. more \in SUBSET Alarms OBVIOUS
<1> HIDE DEF a, more
<1>3. b \in GenState BY <1>1, <1>2 DEF GenState
<1>4. Switch(b) BY <1>1 DEF GenState, Switch, Safe
<1>5. Kept(g, b) BY <1>1 DEF GenState, Kept, Supplied, Safe
<1>6. b.latched_fault # None /\ b.manual_injected_alarms \subseteq b.alarms
  BY <1>1, AlarmsAssumption DEF GenState
<1>7. InjectFault(g, alarm) = FaultUnlessFaulted(b) BY DEF InjectFault, a, more
<1> HIDE DEF b
<1>8. /\ Safe(FaultUnlessFaulted(b)) /\ Kept(b, FaultUnlessFaulted(b))
      /\ FaultUnlessFaulted(b).state = "FAULT"
  BY <1>3, <1>4, <1>6, FaultUnlessFaultedGood
<1>9. Kept(g, FaultUnlessFaulted(b)) BY <1>5, <1>8 DEF Kept
<1> QED BY <1>7, <1>8, <1>9

\* Injecting a latched alarm is safe in every state.
LEMMA InjectLatchedFaultGood ==
    ASSUME NEW g, Safe(g), NEW alarm \in Alarms
    PROVE  /\ Safe(InjectLatchedFault(g, alarm)) /\ Kept(g, InjectLatchedFault(g, alarm))
           /\ InjectLatchedFault(g, alarm).state = "FAULT"
<1> DEFINE a == AddInjectedAlarm(g, alarm)
           fault == IF g.state = "FAULT" THEN g.latched_fault ELSE alarm
           b == [a EXCEPT !.latched_fault = fault]
<1>1. /\ a \in GenState
      /\ a.gen_breaker = g.gen_breaker /\ a.utility_breaker = g.utility_breaker
      /\ a.utility_available = g.utility_available /\ a.transfer_mode = g.transfer_mode
      /\ a.state = g.state /\ a.manual_injected_alarms \subseteq a.alarms
      /\ a.latched_fault = g.latched_fault
  BY DEF AddInjectedAlarm, GenState, Safe, Latch
<1>2. fault \in Alarms \cup {None} /\ fault # None
  BY AlarmsAssumption DEF GenState, Safe, Latch
<1>3. InjectLatchedFault(g, alarm) = FaultUnlessFaulted(b)
  BY <1>1 DEF InjectLatchedFault
<1> HIDE DEF a, fault
<1>4. b \in GenState BY <1>1, <1>2 DEF GenState
<1>5. Switch(b) BY <1>1 DEF GenState, Switch, Safe
<1>6. Kept(g, b) BY <1>1 DEF GenState, Kept, Supplied, Safe
<1>7. b.latched_fault # None /\ b.manual_injected_alarms \subseteq b.alarms
  BY <1>1, <1>2 DEF GenState
<1> HIDE DEF b
<1>8. /\ Safe(FaultUnlessFaulted(b)) /\ Kept(b, FaultUnlessFaulted(b))
      /\ FaultUnlessFaulted(b).state = "FAULT"
  BY <1>4, <1>5, <1>7, FaultUnlessFaultedGood
<1>9. Kept(g, FaultUnlessFaulted(b)) BY <1>6, <1>8 DEF Kept
<1> QED BY <1>3, <1>8, <1>9

\* The injection commands name alarms.
LEMMA InjectionTables ==
    /\ \A c \in FaultCommands : InjectedFault[c] \in Alarms
    /\ \A c \in LatchedFaultCommands : InjectedLatchedFault[c] \in Alarms
BY DEF InjectedFault, InjectedLatchedFault, FaultCommands, LatchedFaultCommands, Alarms,
       Recomputed, CriticalAlarms, LoadAlarms, EngineAlarms, SupplyAlarms, Status

\* Every command keeps the invariant; only Reset leaves FAULT, and only 6, 10 and 13 may
\* leave the building without a source.
LEMMA CommandGood ==
    ASSUME NEW g, Safe(g), NEW cmd, NEW h \in Command(g, cmd)
    PROVE  /\ Safe(h)
           /\ g.state = "FAULT" /\ cmd # 8 => h.state = "FAULT"
           /\ g.utility_available /\ h.utility_available /\ Supplied(g) /\ cmd \notin {6, 13}
                => Supplied(h)
<1> USE DEF Command, FaultCommands, LatchedFaultCommands
<1> USE DEF Kept
<1>1. CASE cmd = 1 BY <1>1, CmdStartGood
<1>2. CASE cmd = 2 BY <1>2, CmdStopGood
<1>3. CASE cmd = 3 BY <1>3, CmdCloseGenBreakerGood
<1>4. CASE cmd = 4 BY <1>4, CmdOpenGenBreakerGood
<1>5. CASE cmd = 5 BY <1>5, CmdCloseUtilBreakerGood
<1>6. CASE cmd = 6 BY <1>6, CmdOpenUtilBreakerGood
<1>7. CASE cmd = 7 BY <1>7, CmdEstopGood
<1>8. CASE cmd = 8 BY <1>8, CmdResetAlarmsGood
<1>9. CASE cmd \in {9, 10, 11}
  <2>1. h \in {CmdToggleAuto(g), CmdUtilityFail(g), CmdRestoreUtility(g)} BY <1>9
  <2> QED BY <2>1, <1>9, UtilityCommandsGood
<1>10. CASE cmd = 12
  <2>1. h = SetParallelMode(g) BY <1>10
  <2>2. Safe(SetParallelMode(g)) /\ Kept(g, SetParallelMode(g)) BY ModeCommandsGood
  <2> QED BY <2>1, <2>2, <1>10
<1>11. CASE cmd = 13
  <2>1. h = SetIslandMode(g) BY <1>11
  <2>2. Safe(h) /\ h.state = g.state BY <2>1, ModeCommandsGood
  <2> QED BY <2>2, <1>11
<1>12. CASE cmd = 14
  <2>1. h = SetTransferMode(g) BY <1>12
  <2>2. Safe(SetTransferMode(g)) /\ Kept(g, SetTransferMode(g)) BY ModeCommandsGood
  <2> QED BY <2>1, <2>2, <1>12
<1>13. CASE cmd \in FaultCommands
  <2>1. h = InjectFault(g, InjectedFault[cmd]) BY <1>13
  <2>2. InjectedFault[cmd] \in Alarms BY <1>13, InjectionTables
  <2>3. Safe(h) /\ Kept(g, h) BY <2>1, <2>2, InjectFaultGood
  <2> QED BY <2>3, <1>13
<1>14. CASE cmd \in LatchedFaultCommands
  <2>1. h = InjectLatchedFault(g, InjectedLatchedFault[cmd]) BY <1>14
  <2>2. InjectedLatchedFault[cmd] \in Alarms BY <1>14, InjectionTables
  <2>3. Safe(h) /\ Kept(g, h) BY <2>1, <2>2, InjectLatchedFaultGood
  <2> QED BY <2>3, <1>14
<1>15. CASE cmd \notin 1..14 \cup FaultCommands \cup LatchedFaultCommands
  <2>1. h = g BY <1>15
  <2> QED BY <2>1
<1> QED BY <1>1, <1>2, <1>3, <1>4, <1>5, <1>6, <1>7, <1>8, <1>9, <1>10, <1>11, <1>12,
           <1>13, <1>14, <1>15

\* What two steps keep, their composition keeps.
LEMMA KeptTransitive ==
    ASSUME NEW a, NEW b, NEW c, Kept(a, b), Kept(b, c)
    PROVE  Kept(a, c)
BY DEF Kept

\* Planning a start changes no breaker.
LEMMA DetectFailureGood ==
    ASSUME NEW g, Safe(g), NEW h \in DetectFailure(g)
    PROVE  Safe(h) /\ Kept(g, h)
<1>1. CASE h = g BY <1>1 DEF Kept
<1>2. CASE h # g
  <2>1. PICK d \in AutoDelays : h = [g EXCEPT !.auto_start = d] BY <1>2 DEF DetectFailure
  <2>2. d \in Nat BY DurationsAssumption
  <2>3. h \in GenState BY <2>1, <2>2 DEF GenState, Safe
  <2>4. Switch(h) BY <2>1 DEF GenState, Switch, Safe
  <2>5. Latch(h) BY <2>1 DEF GenState, Latch, Safe
  <2>6. Kept(g, h) BY <2>1 DEF GenState, Kept, Supplied, Safe
  <2> QED BY <2>3, <2>4, <2>5, <2>6 DEF Safe
<1> QED BY <1>1, <1>2

\* Planning a retransfer changes no breaker.
LEMMA DetectRestoreGood ==
    ASSUME NEW g, Safe(g), NEW h \in DetectRestore(g)
    PROVE  Safe(h) /\ Kept(g, h)
<1>1. CASE h = g BY <1>1 DEF Kept
<1>2. CASE h # g
  <2>1. PICK d \in AutoDelays : h = [g EXCEPT !.auto_retransfer = d] BY <1>2 DEF DetectRestore
  <2>2. d \in Nat BY DurationsAssumption
  <2>3. h \in GenState BY <2>1, <2>2 DEF GenState, Safe
  <2>4. Switch(h) BY <2>1 DEF GenState, Switch, Safe
  <2>5. Latch(h) BY <2>1 DEF GenState, Latch, Safe
  <2>6. Kept(g, h) BY <2>1 DEF GenState, Kept, Supplied, Safe
  <2> QED BY <2>3, <2>4, <2>5, <2>6 DEF Safe
<1> QED BY <1>1, <1>2

\* Remembering the utility changes no breaker.
LEMMA ObserveUtilityGood ==
    ASSUME NEW g, Safe(g)
    PROVE  Safe(ObserveUtility(g)) /\ Kept(g, ObserveUtility(g))
<1> DEFINE h == ObserveUtility(g)
<1>1. h \in GenState BY DEF GenState, Safe, ObserveUtility
<1>2. Switch(h) BY DEF GenState, Switch, Safe, ObserveUtility
<1>3. Latch(h) BY DEF GenState, Latch, Safe, ObserveUtility
<1>4. Kept(g, h) BY DEF GenState, Kept, Supplied, Safe, ObserveUtility
<1> QED BY <1>1, <1>2, <1>3, <1>4 DEF Safe

\* The auto-start countdown never passes zero and starts the engine safely.
LEMMA CountDownStartGood ==
    ASSUME NEW g, Safe(g), NEW h \in CountDownStart(g)
    PROVE  Safe(h) /\ Kept(g, h)
<1>0. g.auto_start \in Nat BY DEF Safe, GenState
<1>1. CASE g.auto_start = 0 BY <1>1 DEF CountDownStart, Kept
<1>2. CASE g.auto_start # 0
  <2>1. \A n \in Nat : LET k == [g EXCEPT !.auto_start = n] IN Safe(k) /\ Kept(g, k)
    <3>1. TAKE n \in Nat
    <3> DEFINE k == [g EXCEPT !.auto_start = n]
    <3>2. k \in GenState BY DEF GenState, Safe
    <3>3. Switch(k) BY DEF GenState, Switch, Safe
    <3>4. Latch(k) BY DEF GenState, Latch, Safe
    <3>5. Kept(g, k) BY DEF GenState, Kept, Supplied, Safe
    <3> QED BY <3>2, <3>3, <3>4, <3>5 DEF Safe
  <2>2. CASE g.auto_start = 1
    <3> DEFINE k == [g EXCEPT !.auto_start = 0]
    <3>1. Safe(k) /\ Kept(g, k) BY <2>1
    <3>2. h \in CmdStart(k) BY <2>2 DEF CountDownStart
    <3> HIDE DEF k
    <3> QED BY <3>1, <3>2, CmdStartGood, KeptTransitive
  <2>3. CASE g.auto_start # 1
    <3>1. h = [g EXCEPT !.auto_start = g.auto_start - 1] BY <2>3, <1>2 DEF CountDownStart
    <3>2. g.auto_start - 1 \in Nat BY <1>0, <1>2
    <3> QED BY <3>1, <3>2, <2>1
  <2> QED BY <2>2, <2>3
<1> QED BY <1>1, <1>2

\* Auto mode closes the generator breaker as the operator would.
LEMMA AutoCloseGenBreakerGood ==
    ASSUME NEW g, Safe(g)
    PROVE  LET h == AutoCloseGenBreaker(g) IN Safe(h) /\ Kept(g, h)
<1>1. CASE AutoCloseGenBreaker(g) = CmdCloseGenBreaker(g) BY <1>1, CmdCloseGenBreakerGood
<1>2. CASE AutoCloseGenBreaker(g) = g BY <1>2 DEF Kept
<1> QED BY <1>1, <1>2 DEF AutoCloseGenBreaker

\* A retransfer hands the load back before the engine cools down.
LEMMA RetransferGood ==
    ASSUME NEW g, Safe(g), NEW h \in Retransfer(g)
    PROVE  Safe(h) /\ Kept(g, h)
<1>1. CASE g.state # "RUNNING" BY <1>1 DEF Retransfer, Kept
<1>2. CASE g.state = "RUNNING"
  <2> DEFINE a == CmdOpenGenBreaker(g)
             b == CmdCloseUtilBreaker(a)
  <2>1. Safe(a) /\ Kept(g, a) /\ a.state = g.state BY CmdOpenGenBreakerGood
  <2>2. Safe(b) /\ Kept(a, b) /\ b.state = a.state BY <2>1, CmdCloseUtilBreakerGood
  <2>3. h \in BeginCooldown(b) BY <1>2 DEF Retransfer
  <2> HIDE DEF a, b
  <2>4. Safe(h) /\ Kept(b, h) BY <1>2, <2>1, <2>2, <2>3, BeginCooldownGood
  <2> QED BY <2>1, <2>2, <2>4, KeptTransitive
<1> QED BY <1>1, <1>2

\* The retransfer countdown never passes zero and retransfers safely.
LEMMA CountDownRetransferGood ==
    ASSUME NEW g, Safe(g), NEW h \in CountDownRetransfer(g)
    PROVE  Safe(h) /\ Kept(g, h)
<1>0. g.auto_retransfer \in Nat BY DEF Safe, GenState
<1>1. CASE g.auto_retransfer = 0 BY <1>1 DEF CountDownRetransfer, Kept
<1>2. CASE g.auto_retransfer # 0
  <2>1. \A n \in Nat : LET k == [g EXCEPT !.auto_retransfer = n] IN Safe(k) /\ Kept(g, k)
    <3>1. TAKE n \in Nat
    <3> DEFINE k == [g EXCEPT !.auto_retransfer = n]
    <3>2. k \in GenState BY DEF GenState, Safe
    <3>3. Switch(k) BY DEF GenState, Switch, Safe
    <3>4. Latch(k) BY DEF GenState, Latch, Safe
    <3>5. Kept(g, k) BY DEF GenState, Kept, Supplied, Safe
    <3> QED BY <3>2, <3>3, <3>4, <3>5 DEF Safe
  <2>2. CASE g.auto_retransfer = 1
    <3> DEFINE k == [g EXCEPT !.auto_retransfer = 0]
    <3>1. Safe(k) /\ Kept(g, k) BY <2>1
    <3>2. h \in Retransfer(k) BY <2>2 DEF CountDownRetransfer
    <3> HIDE DEF k
    <3> QED BY <3>1, <3>2, RetransferGood, KeptTransitive
  <2>3. CASE g.auto_retransfer # 1
    <3>1. h = [g EXCEPT !.auto_retransfer = g.auto_retransfer - 1]
      BY <2>3, <1>2 DEF CountDownRetransfer
    <3>2. g.auto_retransfer - 1 \in Nat BY <1>0, <1>2
    <3> QED BY <3>1, <3>2, <2>1
  <2> QED BY <2>2, <2>3
<1> QED BY <1>1, <1>2

\* The auto-mode stage of a tick keeps the invariant.
LEMMA CheckAutoModeGood ==
    ASSUME NEW g, Safe(g), NEW h \in CheckAutoMode(g)
    PROVE  Safe(h) /\ Kept(g, h)
<1>1. CASE g.auto_mode
  <2>1. PICK a \in DetectFailure(g) :
          \E b \in DetectRestore(a) :
            \E c \in CountDownStart(ObserveUtility(b)) :
              h \in CountDownRetransfer(AutoCloseGenBreaker(c))
    BY <1>1 DEF CheckAutoMode
  <2>restore. PICK b \in DetectRestore(a) :
          \E c \in CountDownStart(ObserveUtility(b)) :
            h \in CountDownRetransfer(AutoCloseGenBreaker(c))
    BY <2>1
  <2>start. PICK c \in CountDownStart(ObserveUtility(b)) :
          h \in CountDownRetransfer(AutoCloseGenBreaker(c))
    BY <2>restore
  <2>2. Safe(a) /\ Kept(g, a) BY DetectFailureGood
  <2>3. Safe(b) /\ Kept(g, b) BY <2>2, DetectRestoreGood, KeptTransitive
  <2> DEFINE o == ObserveUtility(b)
  <2>4. Safe(o) /\ Kept(g, o) BY <2>3, ObserveUtilityGood, KeptTransitive
  <2>5. c \in CountDownStart(o) OBVIOUS
  <2> HIDE DEF o
  <2>6. Safe(c) /\ Kept(g, c) BY <2>4, <2>5, CountDownStartGood, KeptTransitive
  <2> DEFINE e == AutoCloseGenBreaker(c)
  <2>7. Safe(e) /\ Kept(g, e) BY <2>6, AutoCloseGenBreakerGood, KeptTransitive
  <2>8. h \in CountDownRetransfer(e) BY <2>start
  <2> HIDE DEF e
  <2> QED BY <2>7, <2>8, CountDownRetransferGood, KeptTransitive
<1>2. CASE ~g.auto_mode
  <2>1. h = [g EXCEPT !.auto_start = 0, !.auto_retransfer = 0] BY <1>2 DEF CheckAutoMode
  <2>2. h \in GenState BY <2>1 DEF GenState, Safe
  <2>3. Switch(h) BY <2>1 DEF GenState, Switch, Safe
  <2>4. Latch(h) BY <2>1 DEF GenState, Latch, Safe
  <2>5. Kept(g, h) BY <2>1 DEF GenState, Kept, Supplied, Safe
  <2> QED BY <2>2, <2>3, <2>4, <2>5 DEF Safe
<1> QED BY <1>1, <1>2

\* Opening the generator breaker of a stopped engine drops nothing: it was open.
LEMMA TickStoppedGood ==
    ASSUME NEW g, Safe(g), g.state = "STOPPED", NEW h \in TickStopped(g)
    PROVE  Safe(h) /\ Kept(g, h)
<1>1. PICK hot \in BOOLEAN : h = [g EXCEPT !.gen_breaker = FALSE, !.overspeed = FALSE,
                                           !.coolant_high = hot]
  BY DEF TickStopped, Safe, GenState
<1>2. h \in GenState BY <1>1 DEF GenState, Safe
<1>3. Switch(h) BY <1>1 DEF GenState, Switch, Safe
<1>4. Latch(h) BY <1>1 DEF GenState, Latch, Safe
<1>5. Kept(g, h) BY <1>1 DEF GenState, Kept, Supplied, Safe, Switch
<1> QED BY <1>2, <1>3, <1>4, <1>5 DEF Safe

\* An overcrank is a safe fault.
LEMMA OvercrankGood ==
    ASSUME NEW g, Safe(g)
    PROVE  Safe(Overcrank(g)) /\ Kept(g, Overcrank(g))
<1> DEFINE e == [g EXCEPT !.alarms = @ \cup {"OVERCRANK"}, !.latched_fault = "OVERCRANK",
                          !.overspeed = FALSE]
<1>1. e \in GenState BY DEF GenState, Safe, Alarms
<1>2. e.latched_fault # None /\ e.manual_injected_alarms \subseteq e.alarms
  BY AlarmsAssumption DEF GenState, Safe, Latch, Alarms
<1>3. Switch(e) /\ Kept(g, e) BY DEF GenState, Switch, Safe, Kept, Supplied
<1>4. Overcrank(g) = EnterFault(e) BY DEF Overcrank
<1> HIDE DEF e
<1>5. Safe(EnterFault(e)) /\ Kept(e, EnterFault(e)) BY <1>1, <1>2, <1>3, EnterFaultGood
<1> QED BY <1>3, <1>4, <1>5, KeptTransitive

\* Cranking keeps the invariant.
LEMMA TickCrankingGood ==
    ASSUME NEW g, Safe(g), g.state = "CRANKING", NEW h \in TickCranking(g)
    PROVE  Safe(h) /\ Kept(g, h)
<1>1. CASE h = Overcrank(g) BY <1>1, OvercrankGood
<1>2. CASE h = [g EXCEPT !.state = "RUNNING", !.elapsed = 0, !.duration = 0,
                         !.overspeed = FALSE]
  <2>1. h \in GenState BY <1>2 DEF GenState, Safe, States
  <2>2. Switch(h) BY <1>2 DEF GenState, Switch, Safe
  <2>3. Latch(h) BY <1>2 DEF GenState, Latch, Safe
  <2>4. Kept(g, h) BY <1>2 DEF GenState, Kept, Supplied, Safe
  <2> QED BY <2>1, <2>2, <2>3, <2>4 DEF Safe
<1>3. CASE h = [g EXCEPT !.elapsed = g.elapsed + 1, !.overspeed = FALSE]
  <2> DEFINE n == g.elapsed + 1
  <2>0. n \in Nat BY DEF GenState, Safe
  <2> HIDE DEF n
  <2>1. h \in GenState BY <1>3, <2>0 DEF GenState, Safe, n
  <2>2. Switch(h) BY <1>3 DEF GenState, Switch, Safe
  <2>3. Latch(h) BY <1>3 DEF GenState, Latch, Safe
  <2>4. Kept(g, h) BY <1>3 DEF GenState, Kept, Supplied, Safe
  <2> QED BY <2>1, <2>2, <2>3, <2>4 DEF Safe
<1> QED BY <1>1, <1>2, <1>3 DEF TickCranking

\* A running engine keeps the invariant, and trips safely on a critical alarm.
LEMMA TickRunningGood ==
    ASSUME NEW g, Safe(g), g.state = "RUNNING", NEW h \in TickRunning(g)
    PROVE  Safe(h) /\ Kept(g, h)
<1>1. PICK active \in SUBSET (g.anomalies \cup NaturalAnomalies) :
        \E hot \in {g.coolant_high, "HIGH_COOLANT_TEMP" \in active} :
          h \in CheckCriticalShutdown(Sense(g, active, hot))
  BY DEF TickRunning
<1>2. PICK hot \in {g.coolant_high, "HIGH_COOLANT_TEMP" \in active} :
        h \in CheckCriticalShutdown(Sense(g, active, hot))
  BY <1>1
<1>hot. hot \in BOOLEAN
  <2> DEFINE hotter == "HIGH_COOLANT_TEMP" \in active
  <2>1. hotter \in BOOLEAN OBVIOUS
  <2>2. hot \in {g.coolant_high, hotter} OBVIOUS
  <2>3. g.coolant_high \in BOOLEAN BY DEF Safe, GenState
  <2> HIDE DEF hotter
  <2> QED BY <2>1, <2>2, <2>3
<1> DEFINE fast == "OVERSPEED" \in active
           low == "LOW_OIL_PRESSURE" \in active
<1>bool. fast \in BOOLEAN /\ low \in BOOLEAN OBVIOUS
<1> DEFINE s == Sense(g, active, hot)
<1>3. active \in SUBSET Alarms /\ active \subseteq NaturalAnomalies
  BY AlarmsAssumption DEF Safe, GenState, Latch, Alarms, Recomputed, EngineAlarms
<1>sensed. s = [g EXCEPT !.anomalies = active, !.overspeed = fast, !.oil_low = low,
                    !.coolant_high = hot]
  BY DEF Sense
<1> HIDE DEF fast, low, s
<1>4. s \in GenState BY <1>3, <1>hot, <1>bool, <1>sensed DEF GenState, Safe
<1>5. Switch(s) BY <1>sensed DEF GenState, Switch, Safe
<1>6. Latch(s) BY <1>3, <1>sensed DEF GenState, Latch, Safe
<1>7. Kept(g, s) BY <1>sensed DEF GenState, Kept, Supplied, Safe
<1>8. h \in CheckCriticalShutdown(s) BY <1>2 DEF s
<1>9. CASE h = s BY <1>4, <1>5, <1>6, <1>7, <1>9 DEF Safe
<1>10. CASE h # s
  <2>1. PICK a \in s.alarms \cap CriticalAlarms :
          h = EnterFault([s EXCEPT !.latched_fault = a])
    BY <1>8, <1>10 DEF CheckCriticalShutdown
  <2> DEFINE e == [s EXCEPT !.latched_fault = a]
  <2>2. a \in Alarms BY DEF Alarms
  <2>3. e \in GenState BY <1>4, <2>2 DEF GenState
  <2>4. e.latched_fault # None /\ e.manual_injected_alarms \subseteq e.alarms
    BY <1>4, <1>6, <2>2, AlarmsAssumption DEF GenState, Latch
  <2>5. Switch(e) /\ Kept(s, e) BY <1>4, <1>5 DEF GenState, Switch, Kept, Supplied
  <2>6. h = EnterFault(e) BY <2>1
  <2> HIDE DEF e
  <2>7. Safe(h) /\ Kept(e, h) BY <2>3, <2>4, <2>5, <2>6, EnterFaultGood
  <2> QED BY <1>7, <2>5, <2>7, KeptTransitive
<1> QED BY <1>9, <1>10

\* Cooling down keeps the invariant.
LEMMA TickCooldownGood ==
    ASSUME NEW g, Safe(g), g.state = "COOLDOWN", NEW h \in TickCooldown(g)
    PROVE  Safe(h) /\ Kept(g, h)
<1>1. PICK hot \in BOOLEAN :
        \/ h = [g EXCEPT !.state = "STOPPED", !.gen_breaker = FALSE, !.elapsed = 0,
                         !.duration = 0, !.overspeed = FALSE, !.coolant_high = hot]
        \/ h = [g EXCEPT !.gen_breaker = FALSE, !.elapsed = g.elapsed + 1,
                         !.overspeed = FALSE, !.coolant_high = hot]
  BY DEF TickCooldown, Safe, GenState
<1>2. CASE h = [g EXCEPT !.state = "STOPPED", !.gen_breaker = FALSE, !.elapsed = 0,
                         !.duration = 0, !.overspeed = FALSE, !.coolant_high = hot]
  <2>1. h \in GenState BY <1>2 DEF GenState, Safe, States
  <2>2. Switch(h) BY <1>2 DEF GenState, Switch, Safe
  <2>3. Latch(h) BY <1>2 DEF GenState, Latch, Safe
  <2>4. Kept(g, h) BY <1>2 DEF GenState, Kept, Supplied, Safe, Switch
  <2> QED BY <2>1, <2>2, <2>3, <2>4 DEF Safe
<1>3. CASE h = [g EXCEPT !.gen_breaker = FALSE, !.elapsed = g.elapsed + 1,
                         !.overspeed = FALSE, !.coolant_high = hot]
  <2> DEFINE n == g.elapsed + 1
  <2>0. n \in Nat BY DEF GenState, Safe
  <2> HIDE DEF n
  <2>1. h \in GenState BY <1>3, <2>0 DEF GenState, Safe, n
  <2>2. Switch(h) BY <1>3 DEF GenState, Switch, Safe
  <2>3. Latch(h) BY <1>3 DEF GenState, Latch, Safe
  <2>4. Kept(g, h) BY <1>3 DEF GenState, Kept, Supplied, Safe, Switch
  <2> QED BY <2>1, <2>2, <2>3, <2>4 DEF Safe
<1> QED BY <1>1, <1>2, <1>3

\* A faulted engine stays faulted and safe.
LEMMA TickFaultGood ==
    ASSUME NEW g, Safe(g), g.state = "FAULT", NEW h \in TickFault(g)
    PROVE  Safe(h) /\ Kept(g, h)
<1>0. g.overspeed \in BOOLEAN /\ g.coolant_high \in BOOLEAN BY DEF Safe, GenState
<1>1. PICK fast \in {g.overspeed, FALSE}, hot \in {g.coolant_high, FALSE} :
        h = [g EXCEPT !.gen_breaker = FALSE, !.overspeed = fast, !.coolant_high = hot]
  BY DEF TickFault
<1>2. h \in GenState BY <1>0, <1>1 DEF GenState, Safe
<1>3. Switch(h) BY <1>1 DEF GenState, Switch, Safe
<1>4. Latch(h) BY <1>1 DEF GenState, Latch, Safe
<1>5. Kept(g, h) BY <1>1 DEF GenState, Kept, Supplied, Safe, Switch
<1> QED BY <1>2, <1>3, <1>4, <1>5 DEF Safe

\* The engine stage of a tick keeps the invariant.
LEMMA UpdateStateGood ==
    ASSUME NEW g, Safe(g), NEW h \in UpdateState(g)
    PROVE  Safe(h) /\ Kept(g, h)
<1>1. CASE g.state = "STOPPED" BY <1>1, TickStoppedGood DEF UpdateState
<1>2. CASE g.state = "CRANKING" BY <1>2, TickCrankingGood DEF UpdateState
<1>3. CASE g.state = "RUNNING" BY <1>3, TickRunningGood DEF UpdateState
<1>4. CASE g.state = "COOLDOWN" BY <1>4, TickCooldownGood DEF UpdateState
<1>5. CASE g.state = "FAULT" BY <1>5, TickFaultGood DEF UpdateState
<1> QED BY <1>1, <1>2, <1>3, <1>4, <1>5 DEF Safe, GenState, States

\* Recomputing the alarms keeps the injected ones.
LEMMA UpdateAlarmsGood ==
    ASSUME NEW g, Safe(g), NEW h \in UpdateAlarms(g)
    PROVE  Safe(h) /\ Kept(g, h)
<1>1. PICK w \in SUBSET PossibleWarnings(g) :
        h = [g EXCEPT !.alarms = (g.alarms \ Discarded(g)) \cup Detected(g) \cup w
                                   \cup g.manual_injected_alarms]
  BY DEF UpdateAlarms
<1> DEFINE A == (g.alarms \ Discarded(g)) \cup Detected(g) \cup w
                  \cup g.manual_injected_alarms
<1>2. Detected(g) \subseteq Alarms
  BY DEF Detected, Alarms, Recomputed, Status
<1>3. w \subseteq Alarms
  BY AlarmsAssumption DEF PossibleWarnings, Alarms, Recomputed
<1>4. A \in SUBSET Alarms /\ g.manual_injected_alarms \subseteq A
  BY <1>2, <1>3 DEF Safe, GenState
<1>5. h = [g EXCEPT !.alarms = A] BY <1>1
<1> HIDE DEF A
<1>6. h \in GenState BY <1>4, <1>5 DEF GenState, Safe
<1>7. Switch(h) BY <1>5 DEF GenState, Switch, Safe
<1>8. Latch(h) BY <1>4, <1>5 DEF GenState, Latch, Safe
<1>9. Kept(g, h) BY <1>5 DEF GenState, Kept, Supplied, Safe
<1> QED BY <1>6, <1>7, <1>8, <1>9 DEF Safe

\* A whole tick keeps the invariant, a fault and a supply.
LEMMA TickGood ==
    ASSUME NEW g, Safe(g), NEW h \in TickOutcomes(g)
    PROVE  Safe(h) /\ Kept(g, h)
<1>1. PICK a \in CheckAutoMode(g) : \E b \in UpdateState(a) : h \in UpdateAlarms(b)
  BY DEF TickOutcomes
<1>2. PICK b \in UpdateState(a) : h \in UpdateAlarms(b) BY <1>1
<1>3. Safe(a) /\ Kept(g, a) BY CheckAutoModeGood
<1>4. Safe(b) /\ Kept(a, b) BY <1>3, UpdateStateGood
<1>5. Safe(h) /\ Kept(b, h) BY <1>2, <1>4, UpdateAlarmsGood
<1> QED BY <1>3, <1>4, <1>5, KeptTransitive

\* The inductive invariant of the specification.
IInv == Safe(gen)

\* Safe(gen) is inductive, hence an invariant.
THEOREM SafetyInvariant == Spec => []IInv
<1>1. Init => IInv
  <2> SUFFICES ASSUME Init PROVE Safe(gen) BY DEF IInv
  <2>1. gen = InitGen BY DEF Init
  <2>2. InitGen \in GenState BY DEF InitGen, GenState, States, Modes
  <2>3. Switch(InitGen) /\ Latch(InitGen) BY DEF InitGen, Switch, Latch
  <2> QED BY <2>1, <2>2, <2>3 DEF Safe
<1>2. IInv /\ [Next]_gen => IInv'
  <2> SUFFICES ASSUME Safe(gen), [Next]_gen PROVE Safe(gen') BY DEF IInv
  <2>1. CASE Tick BY <2>1, TickGood DEF Tick
  <2>2. CASE \E cmd \in Commands : ExecuteCommand(cmd)
    BY <2>2, CommandGood DEF ExecuteCommand
  <2>3. CASE UNCHANGED gen BY <2>3
  <2> QED BY <2>1, <2>2, <2>3 DEF Next
<1> QED BY <1>1, <1>2, PTL DEF Spec

\* Every field of a generator keeps its type (GenState), whatever the constants.
THEOREM TypeCorrect == Spec => []TypeOK
<1>1. IInv => TypeOK BY DEF IInv, Safe, TypeOK
<1> QED BY <1>1, SafetyInvariant, PTL

\* The transfer switch is safe in every reachable state: never both breakers outside
\* PARALLEL, never the utility breaker on a dead utility, never the generator breaker on an
\* engine that does not run.
THEOREM SwitchSafe == Spec => []BreakersSafe
<1>1. IInv => BreakersSafe BY DEF IInv, Safe, BreakersSafe
<1> QED BY <1>1, SafetyInvariant, PTL

\* FAULT, the latched fault, the injected alarms and the anomalies agree in every
\* reachable state.
THEOREM FaultsLatched == Spec => []FaultsLatch
<1>1. IInv => FaultsLatch BY DEF IInv, Safe, FaultsLatch
<1> QED BY <1>1, SafetyInvariant, PTL

\* No tick and no command but 6 and 13 takes the building's supply away while the
\* utility stays available.
THEOREM SupplyKept == Spec => BuildingNotDropped
<1> DEFINE Step == Supplied(gen) /\ gen.utility_available /\ gen'.utility_available
                     /\ ~ExecuteCommand(6) /\ ~ExecuteCommand(13) => Supplied(gen')
<1>1. IInv /\ [Next]_gen => [Step]_gen
  <2> SUFFICES ASSUME Safe(gen), Next, Supplied(gen), gen.utility_available,
                      gen'.utility_available, ~ExecuteCommand(6), ~ExecuteCommand(13)
               PROVE  Supplied(gen')
    BY DEF IInv
  <2>1. CASE Tick BY <2>1, TickGood DEF Tick, Kept
  <2>2. CASE \E cmd \in Commands : ExecuteCommand(cmd)
    <3>1. PICK cmd \in Commands : ExecuteCommand(cmd) BY <2>2
    <3>2. cmd \notin {6, 13} BY <3>1
    <3> QED BY <3>1, <3>2, CommandGood DEF ExecuteCommand
  <2> QED BY <2>1, <2>2 DEF Next
<1> QED BY <1>1, SafetyInvariant, PTL DEF Spec, BuildingNotDropped

\* Resetting a faulted generator clears everything that was latched.
LEMMA ResetClears ==
    ASSUME NEW g, Safe(g), g.state = "FAULT"
    PROVE  LET h == CmdResetAlarms(g)
           IN  h.state = "STOPPED" /\ h.latched_fault = None /\ h.alarms \subseteq Status
<1>1. CmdResetAlarms(g) =
        [g EXCEPT !.state = "STOPPED", !.alarms = @ \cap Status, !.anomalies = {},
                  !.manual_injected_alarms = {}, !.latched_fault = None]
  BY DEF CmdResetAlarms
<1> QED BY <1>1 DEF Safe, GenState

\* FAULT is left only by Reset, which clears everything that was latched.
THEOREM FaultNeedsReset == Spec => FaultLeftByReset
<1> DEFINE Step == gen.state = "FAULT" /\ gen'.state # "FAULT"
                   => /\ ExecuteCommand(8)
                      /\ gen'.state = "STOPPED" /\ gen'.latched_fault = None
                      /\ gen'.alarms \subseteq Status
<1>1. IInv /\ [Next]_gen => [Step]_gen
  <2> SUFFICES ASSUME Safe(gen), Next, gen.state = "FAULT", gen'.state # "FAULT"
               PROVE  /\ ExecuteCommand(8)
                      /\ gen'.state = "STOPPED" /\ gen'.latched_fault = None
                      /\ gen'.alarms \subseteq Status
    BY DEF IInv
  <2>1. ~Tick BY TickGood DEF Tick, Kept
  <2>2. PICK cmd \in Commands : ExecuteCommand(cmd) BY <2>1 DEF Next
  <2>3. cmd = 8 BY <2>2, CommandGood DEF ExecuteCommand
  <2>4. gen' = CmdResetAlarms(gen) BY <2>2, <2>3 DEF ExecuteCommand, Command, FaultCommands,
                                                              LatchedFaultCommands
  <2> QED BY <2>2, <2>3, <2>4, ResetClears
<1> QED BY <1>1, SafetyInvariant, PTL DEF Spec, FaultLeftByReset

\* Commands 11, 14, 4 in this order, which main.py sends for "restore utility", leave
\* every safe generator with the building on the utility alone, in TRANSFER mode.
THEOREM RestoreSequence ==
    ASSUME NEW g, Safe(g)
    PROVE  LET h == CmdOpenGenBreaker(SetTransferMode(CmdRestoreUtility(g)))
           IN  /\ h.utility_available /\ h.utility_breaker /\ ~h.gen_breaker
               /\ h.transfer_mode = "TRANSFER"
<1> DEFINE r == CmdRestoreUtility(g)
           t == SetTransferMode(r)
           h == CmdOpenGenBreaker(t)
<1>1. Safe(r) BY UtilityCommandsGood
<1>2. r.utility_available /\ (r.utility_breaker \/ r.gen_breaker)
  BY DEF CmdRestoreUtility, Safe, GenState
<1> HIDE DEF r
<1>3. Safe(t) BY <1>1, ModeCommandsGood
<1>4. /\ t.utility_available /\ t.transfer_mode = "TRANSFER"
      /\ t.utility_breaker <=> ~t.gen_breaker
  BY <1>1, <1>2 DEF SetTransferMode, Safe, GenState
<1> HIDE DEF t
<1>5. CASE t.gen_breaker
  <2>1. h = [t EXCEPT !.gen_breaker = FALSE, !.utility_breaker = @ \/ t.utility_available]
    BY <1>5 DEF CmdOpenGenBreaker
  <2> QED BY <1>3, <1>4, <2>1 DEF Safe, GenState, t, r
<1>6. CASE ~t.gen_breaker BY <1>4, <1>6 DEF CmdOpenGenBreaker, t, r
<1> QED BY <1>5, <1>6
(* --------------------- critical alarms stop the engine ------------------- *)

\* The E-Stop alarm, which the shutdown leaves out, is only shown in FAULT.
Stopped(g) == "ESTOP" \in g.alarms => g.state = "FAULT"

\* What auto mode leaves alone: the alarms, and a running or cooling engine.
OnlyTransfers(g, h) ==
    /\ h.alarms = g.alarms
    /\ g.state \in {"RUNNING", "COOLDOWN"} => h.state \in {"RUNNING", "COOLDOWN"}

LEMMA OnlyTransfersTransitive ==
    ASSUME NEW a, NEW b, NEW c, OnlyTransfers(a, b), OnlyTransfers(b, c)
    PROVE  OnlyTransfers(a, c)
BY DEF OnlyTransfers

\* Entering a cooldown, and every switching of the breakers, leaves the alarms alone.
LEMMA SwitchingOnlyTransfers ==
    ASSUME NEW g, Safe(g)
    PROVE  /\ \A h \in BeginCooldown(g) : OnlyTransfers(g, h)
           /\ OnlyTransfers(g, CmdOpenGenBreaker(g))
           /\ OnlyTransfers(g, CmdCloseGenBreaker(g))
           /\ OnlyTransfers(g, CmdCloseUtilBreaker(g))
           /\ EnterFault(g).alarms = g.alarms /\ EnterFault(g).state = "FAULT"
<1>1. g \in GenState BY DEF Safe
<1> DEFINE b == BackToUtility(g)
<1>2. b \in GenState /\ b.alarms = g.alarms BY <1>1, BackToUtilityGood DEF Safe
<1>3. ASSUME NEW h \in BeginCooldown(g) PROVE OnlyTransfers(g, h)
  <2>1. PICK d \in CooldownTicks : h = [b EXCEPT !.state = "COOLDOWN", !.elapsed = 0,
                                                 !.duration = d, !.oil_low = FALSE]
    BY <1>3, Zenon DEF BeginCooldown
  <2> HIDE DEF b
  <2> QED BY <1>2, <2>1 DEF GenState, OnlyTransfers
<1>4. OnlyTransfers(g, CmdOpenGenBreaker(g))
  BY <1>1 DEF CmdOpenGenBreaker, GenState, OnlyTransfers
<1>5. OnlyTransfers(g, CmdCloseGenBreaker(g))
  BY <1>1 DEF CmdCloseGenBreaker, GenState, OnlyTransfers
<1>6. OnlyTransfers(g, CmdCloseUtilBreaker(g))
  BY <1>1 DEF CmdCloseUtilBreaker, GenState, OnlyTransfers
<1>7. EnterFault(g).alarms = g.alarms /\ EnterFault(g).state = "FAULT"
  <2>1. EnterFault(g) = [b EXCEPT !.state = "FAULT", !.elapsed = 0, !.duration = 0,
                                  !.oil_low = FALSE]
    BY DEF EnterFault
  <2> HIDE DEF b
  <2> QED BY <1>2, <2>1 DEF GenState
<1> QED BY <1>3, <1>4, <1>5, <1>6, <1>7

\* The countdowns of auto mode start an engine that is stopped and hand the load of a
\* running one back; neither touches an alarm.
LEMMA CountDownsOnlyTransfer ==
    ASSUME NEW g, Safe(g)
    PROVE  /\ \A h \in CountDownStart(g) : OnlyTransfers(g, h)
           /\ \A h \in CountDownRetransfer(g) : OnlyTransfers(g, h)
<1>0. g \in GenState BY DEF Safe
<1>1. ASSUME NEW h \in CountDownStart(g) PROVE OnlyTransfers(g, h)
  <2>1. CASE g.auto_start = 0 BY <2>1 DEF CountDownStart, OnlyTransfers
  <2>2. CASE g.auto_start = 1
    <3> DEFINE k == [g EXCEPT !.auto_start = 0]
    <3>1. k \in GenState /\ k.alarms = g.alarms /\ k.state = g.state BY <1>0 DEF GenState
    <3>2. h \in CmdStart(k) BY <2>2 DEF CountDownStart
    <3> HIDE DEF k
    <3>3. CASE k.state = "STOPPED"
      <4>1. PICK d \in CrankTicks :
              h = [k EXCEPT !.state = "CRANKING", !.elapsed = 0, !.duration = d]
        BY <3>2, <3>3, Zenon DEF CmdStart
      <4> QED BY <3>1, <3>3, <4>1 DEF GenState, OnlyTransfers
    <3>4. CASE k.state # "STOPPED" BY <3>1, <3>2, <3>4 DEF CmdStart, OnlyTransfers
    <3> QED BY <3>3, <3>4
  <2>3. CASE g.auto_start \notin {0, 1}
    <3>1. h = [g EXCEPT !.auto_start = g.auto_start - 1] BY <2>3 DEF CountDownStart
    <3> QED BY <1>0, <3>1 DEF GenState, OnlyTransfers
  <2> QED BY <2>1, <2>2, <2>3
<1>2. ASSUME NEW h \in CountDownRetransfer(g) PROVE OnlyTransfers(g, h)
  <2>1. CASE g.auto_retransfer = 0 BY <2>1 DEF CountDownRetransfer, OnlyTransfers
  <2>2. CASE g.auto_retransfer = 1
    <3> DEFINE k == [g EXCEPT !.auto_retransfer = 0]
    <3>1. Safe(k)
      <4>1. k \in GenState BY <1>0 DEF GenState
      <4>2. Switch(k) /\ Latch(k) BY <1>0 DEF GenState, Switch, Latch, Safe
      <4> QED BY <4>1, <4>2 DEF Safe
    <3>2. k.alarms = g.alarms /\ k.state = g.state BY <1>0 DEF GenState
    <3>3. h \in Retransfer(k) BY <2>2 DEF CountDownRetransfer
    <3> HIDE DEF k
    <3>4. CASE k.state # "RUNNING" BY <3>2, <3>3, <3>4 DEF Retransfer, OnlyTransfers
    <3>5. CASE k.state = "RUNNING"
      <4> DEFINE a == CmdOpenGenBreaker(k)
                 b == CmdCloseUtilBreaker(a)
      <4>1. Safe(a) /\ OnlyTransfers(k, a)
        BY <3>1, CmdOpenGenBreakerGood, SwitchingOnlyTransfers
      <4>2. h \in BeginCooldown(b) BY <3>3, <3>5 DEF Retransfer
      <4> HIDE DEF a
      <4>3. Safe(b) /\ OnlyTransfers(a, b)
        BY <4>1, CmdCloseUtilBreakerGood, SwitchingOnlyTransfers
      <4> HIDE DEF b
      <4>4. OnlyTransfers(b, h) BY <4>2, <4>3, SwitchingOnlyTransfers
      <4>5. OnlyTransfers(k, h) BY <4>1, <4>3, <4>4, OnlyTransfersTransitive
      <4> QED BY <3>2, <4>5 DEF OnlyTransfers
    <3> QED BY <3>4, <3>5
  <2>3. CASE g.auto_retransfer \notin {0, 1}
    <3>1. h = [g EXCEPT !.auto_retransfer = g.auto_retransfer - 1]
      BY <2>3 DEF CountDownRetransfer
    <3> QED BY <1>0, <3>1 DEF GenState, OnlyTransfers
  <2> QED BY <2>1, <2>2, <2>3
<1> QED BY <1>1, <1>2

\* The auto-mode stage of a tick sets and clears no alarm, and starts no running engine.
LEMMA AutoModeOnlyTransfers ==
    ASSUME NEW g, Safe(g), NEW h \in CheckAutoMode(g)
    PROVE  OnlyTransfers(g, h)
<1>0. g \in GenState BY DEF Safe
<1>1. CASE g.auto_mode
  <2>1. PICK a \in DetectFailure(g) :
          \E b \in DetectRestore(a) :
            \E c \in CountDownStart(ObserveUtility(b)) :
              h \in CountDownRetransfer(AutoCloseGenBreaker(c))
    BY <1>1 DEF CheckAutoMode
  <2>2. PICK b \in DetectRestore(a) :
          \E c \in CountDownStart(ObserveUtility(b)) :
            h \in CountDownRetransfer(AutoCloseGenBreaker(c))
    BY <2>1
  <2>3. PICK c \in CountDownStart(ObserveUtility(b)) :
          h \in CountDownRetransfer(AutoCloseGenBreaker(c))
    BY <2>2
  <2> DEFINE o == ObserveUtility(b)
             e == AutoCloseGenBreaker(c)
  <2>4. Safe(a) BY DetectFailureGood
  <2>5. Safe(b) BY <2>4, DetectRestoreGood
  <2>6. Safe(o) BY <2>5, ObserveUtilityGood
  <2>7. c \in CountDownStart(o) OBVIOUS
  <2>8. OnlyTransfers(g, a) BY <1>0 DEF DetectFailure, GenState, OnlyTransfers
  <2>9. OnlyTransfers(a, b) BY <2>4 DEF DetectRestore, GenState, OnlyTransfers, Safe
  <2>10. OnlyTransfers(b, o) BY <2>5 DEF ObserveUtility, GenState, OnlyTransfers, Safe
  <2>11. h \in CountDownRetransfer(e) BY <2>3
  <2> HIDE DEF o
  <2>12. Safe(c) /\ OnlyTransfers(o, c) BY <2>6, <2>7, CountDownStartGood, CountDownsOnlyTransfer
  <2>13. Safe(e) BY <2>12, AutoCloseGenBreakerGood
  <2>14. OnlyTransfers(c, e)
    <3>1. OnlyTransfers(c, c) BY DEF OnlyTransfers
    <3> QED BY <2>12, <3>1, SwitchingOnlyTransfers DEF AutoCloseGenBreaker
  <2> HIDE DEF e
  <2>15. OnlyTransfers(e, h) BY <2>11, <2>13, CountDownsOnlyTransfer
  <2> QED BY <2>8, <2>9, <2>10, <2>12, <2>14, <2>15, OnlyTransfersTransitive
<1>2. CASE ~g.auto_mode
  <2>1. h = [g EXCEPT !.auto_start = 0, !.auto_retransfer = 0] BY <1>2 DEF CheckAutoMode
  <2> QED BY <1>0, <2>1 DEF GenState, OnlyTransfers
<1> QED BY <1>1, <1>2

\* Whatever enters a fault is in FAULT.
LEMMA EnterFaultFaults ==
    ASSUME NEW e \in GenState
    PROVE  EnterFault(e).state = "FAULT"
<1> DEFINE b == [e EXCEPT !.gen_breaker = FALSE, !.transfer_mode = "TRANSFER",
                          !.utility_breaker = @ \/ e.utility_available]
<1>0. b \in GenState BY DEF GenState, Modes
<1>1. EnterFault(e) = [b EXCEPT !.state = "FAULT", !.elapsed = 0, !.duration = 0,
                                !.oil_low = FALSE]
  BY DEF EnterFault, BackToUtility
<1> HIDE DEF b
<1> QED BY <1>0, <1>1 DEF GenState

\* Reading the sensors leaves the alarms alone.
LEMMA SenseTyped ==
    ASSUME NEW g \in GenState, NEW active \in SUBSET (g.anomalies \cup NaturalAnomalies),
           NEW hot \in {g.coolant_high, "HIGH_COOLANT_TEMP" \in active}
    PROVE  Sense(g, active, hot) \in GenState /\ Sense(g, active, hot).alarms = g.alarms
<1>1. active \in SUBSET Alarms
  BY AlarmsAssumption DEF GenState, Alarms, Recomputed, EngineAlarms
<1> DEFINE fast == "OVERSPEED" \in active
           low == "LOW_OIL_PRESSURE" \in active
           hotter == "HIGH_COOLANT_TEMP" \in active
           s == [g EXCEPT !.anomalies = active, !.overspeed = fast, !.oil_low = low,
                          !.coolant_high = hot]
<1>2. fast \in BOOLEAN /\ low \in BOOLEAN /\ hotter \in BOOLEAN OBVIOUS
<1>3. hot \in {g.coolant_high, hotter} OBVIOUS
<1>4. Sense(g, active, hot) = s BY DEF Sense
<1> HIDE DEF fast, low, hotter
<1>5. hot \in BOOLEAN BY <1>2, <1>3 DEF GenState
<1>6. s \in GenState /\ s.alarms = g.alarms BY <1>1, <1>2, <1>5 DEF GenState
<1> QED BY <1>4, <1>6

\* The engine stage adds no alarm but the overcrank, and that in FAULT.
LEMMA UpdateStateStopped ==
    ASSUME NEW g, Safe(g), NEW h \in UpdateState(g)
    PROVE  h.alarms = g.alarms \/ h.state = "FAULT"
<1>0. g \in GenState BY DEF Safe
<1>1. CASE g.state = "STOPPED" BY <1>0, <1>1 DEF UpdateState, TickStopped, GenState
<1>2. CASE g.state = "CRANKING"
  <2>1. h \in TickCranking(g) BY <1>2 DEF UpdateState
  <2>2. CASE h = Overcrank(g)
    <3> DEFINE e == [g EXCEPT !.alarms = @ \cup {"OVERCRANK"}, !.latched_fault = "OVERCRANK",
                              !.overspeed = FALSE]
    <3>1. e \in GenState BY <1>0 DEF GenState, Alarms
    <3>2. e.latched_fault # None /\ e.manual_injected_alarms \subseteq e.alarms
      BY <1>0, AlarmsAssumption DEF GenState, Safe, Latch, Alarms
    <3>3. Switch(e) BY <1>0 DEF GenState, Switch, Safe
    <3>4. h = EnterFault(e) BY <2>2 DEF Overcrank
    <3> HIDE DEF e
    <3> QED BY <3>1, <3>2, <3>3, <3>4, EnterFaultGood
  <2>3. CASE h # Overcrank(g) BY <1>0, <2>1, <2>3 DEF TickCranking, GenState
  <2> QED BY <2>2, <2>3
<1>3. CASE g.state = "RUNNING"
  <2>1. PICK active \in SUBSET (g.anomalies \cup NaturalAnomalies) :
          \E hot \in {g.coolant_high, "HIGH_COOLANT_TEMP" \in active} :
            h \in CheckCriticalShutdown(Sense(g, active, hot))
    BY <1>3 DEF TickRunning, UpdateState
  <2>2. PICK hot \in {g.coolant_high, "HIGH_COOLANT_TEMP" \in active} :
          h \in CheckCriticalShutdown(Sense(g, active, hot))
    BY <2>1
  <2> DEFINE s == Sense(g, active, hot)
  <2>3. s \in GenState /\ s.alarms = g.alarms BY <1>0, SenseTyped
  <2>4. h \in CheckCriticalShutdown(s) BY <2>2
  <2> HIDE DEF s
  <2>5. CASE h = s BY <2>3, <2>5
  <2>6. CASE h # s
    <3>1. PICK a \in s.alarms \cap CriticalAlarms :
            h = EnterFault([s EXCEPT !.latched_fault = a])
      BY <2>4, <2>6 DEF CheckCriticalShutdown
    <3>2. [s EXCEPT !.latched_fault = a] \in GenState
      BY <2>3 DEF GenState, Alarms
    <3> QED BY <3>1, <3>2, EnterFaultFaults
  <2> QED BY <2>5, <2>6
<1>4. CASE g.state = "COOLDOWN" BY <1>0, <1>4 DEF UpdateState, TickCooldown, GenState
<1>5. CASE g.state = "FAULT"
  <2>1. PICK fast \in {g.overspeed, FALSE}, hot \in {g.coolant_high, FALSE} :
          h = [g EXCEPT !.gen_breaker = FALSE, !.overspeed = fast, !.coolant_high = hot]
    BY <1>5 DEF UpdateState, TickFault
  <2> QED BY <1>0, <2>1 DEF GenState
<1> QED BY <1>0, <1>1, <1>2, <1>3, <1>4, <1>5 DEF GenState, States
\* Recomputing the alarms keeps the engine's state and shows an E-Stop only again.
LEMMA UpdateAlarmsStopped ==
    ASSUME NEW g, Safe(g), Stopped(g), NEW h \in UpdateAlarms(g)
    PROVE  h.state = g.state /\ Stopped(h)
<1>1. PICK w \in SUBSET PossibleWarnings(g) :
        h = [g EXCEPT !.alarms = (g.alarms \ Discarded(g)) \cup Detected(g) \cup w
                                   \cup g.manual_injected_alarms]
  BY DEF UpdateAlarms
<1>2. "ESTOP" \notin w
  BY AlarmsAssumption DEF PossibleWarnings, CriticalAlarms
<1>3. "ESTOP" \notin Detected(g) BY DEF Detected
<1>4. "ESTOP" \in g.manual_injected_alarms => g.state = "FAULT" BY DEF Safe, Latch
<1> DEFINE A == (g.alarms \ Discarded(g)) \cup Detected(g) \cup w
                  \cup g.manual_injected_alarms
<1>5. "ESTOP" \in A => g.state = "FAULT" BY <1>2, <1>3, <1>4 DEF Stopped
<1>6. h = [g EXCEPT !.alarms = A] BY <1>1
<1> HIDE DEF A
<1>7. h.state = g.state /\ h.alarms = A BY <1>6 DEF Safe, GenState
<1> QED BY <1>5, <1>7 DEF Stopped

\* A tick shows an E-Stop only again.
LEMMA TickStops ==
    ASSUME NEW g, Safe(g), Stopped(g), NEW h \in TickOutcomes(g)
    PROVE  Stopped(h)
<1>1. PICK a \in CheckAutoMode(g) : \E b \in UpdateState(a) : h \in UpdateAlarms(b)
  BY DEF TickOutcomes
<1>2. PICK b \in UpdateState(a) : h \in UpdateAlarms(b) BY <1>1
<1>3. Safe(a) /\ Stopped(a)
  BY CheckAutoModeGood, AutoModeOnlyTransfers DEF Stopped, OnlyTransfers, Kept
<1>4. Safe(b) /\ Stopped(b) BY <1>3, UpdateStateGood, UpdateStateStopped DEF Stopped, Kept
<1> QED BY <1>2, <1>4, UpdateAlarmsStopped

\* A command that leaves the alarms alone, or ends in FAULT, or clears what is latched
\* shows no E-Stop outside FAULT.
LEMMA CommandStops ==
    ASSUME NEW g, Safe(g), Stopped(g), NEW cmd, NEW h \in Command(g, cmd)
    PROVE  Stopped(h)
<1>0. g \in GenState BY DEF Safe
<1> USE DEF Command, FaultCommands, LatchedFaultCommands
<1>1. ASSUME h.alarms = g.alarms, cmd # 8 PROVE Stopped(h)
  BY <1>1, CommandGood DEF Stopped
<1>2. CASE cmd = 1
  <2>1. h \in CmdStart(g) BY <1>2
  <2>2. CASE g.state = "STOPPED"
    <3>1. PICK d \in CrankTicks :
            h = [g EXCEPT !.state = "CRANKING", !.elapsed = 0, !.duration = d]
      BY <2>1, <2>2, Zenon DEF CmdStart
    <3> QED BY <1>0, <1>1, <1>2, <3>1 DEF GenState
  <2>3. CASE g.state # "STOPPED" BY <2>1, <2>3 DEF CmdStart
  <2> QED BY <2>2, <2>3
<1>3. CASE cmd = 2
  <2>1. h \in CmdStop(g) BY <1>3
  <2>2. h \in BeginCooldown(g) \/ h = g BY <2>1 DEF CmdStop
  <2> QED BY <1>1, <1>3, <2>2, SwitchingOnlyTransfers DEF OnlyTransfers
<1>4. CASE cmd = 3
  BY <1>1, <1>4, SwitchingOnlyTransfers DEF OnlyTransfers
<1>5. CASE cmd = 4
  BY <1>1, <1>5, SwitchingOnlyTransfers DEF OnlyTransfers
<1>6. CASE cmd = 5
  BY <1>1, <1>6, SwitchingOnlyTransfers DEF OnlyTransfers
<1>7. CASE cmd = 6
  <2>1. h = CmdOpenUtilBreaker(g) BY <1>7
  <2> QED BY <1>0, <1>1, <1>7, <2>1 DEF CmdOpenUtilBreaker, GenState
<1>8. CASE cmd = 7
  <2>1. h = CmdEstop(g) BY <1>8
  <2> DEFINE e == [g EXCEPT !.alarms = @ \cup {"ESTOP"}, !.latched_fault = "ESTOP"]
  <2>2. e \in GenState BY <1>0 DEF GenState, Alarms, CriticalAlarms
  <2>3. h = EnterFault(e) BY <2>1 DEF CmdEstop
  <2> HIDE DEF e
  <2> QED BY <2>2, <2>3, EnterFaultFaults DEF Stopped
<1>9. CASE cmd = 8
  <2>1. h = CmdResetAlarms(g) BY <1>9
  <2>2. CASE g.state = "FAULT" BY <2>1, <2>2, ResetClears DEF Stopped, Status
  <2>3. CASE g.state # "FAULT" BY <2>1, <2>3 DEF CmdResetAlarms
  <2> QED BY <2>2, <2>3
<1>10. CASE cmd \in {9, 10, 11}
  <2>1. h \in {CmdToggleAuto(g), CmdUtilityFail(g), CmdRestoreUtility(g)} BY <1>10
  <2>2. h.alarms = g.alarms
    BY <1>0, <2>1 DEF CmdToggleAuto, CmdUtilityFail, CmdRestoreUtility, GenState
  <2> QED BY <1>1, <1>10, <2>2
<1>11. CASE cmd \in {12, 13, 14}
  <2>1. h \in {SetParallelMode(g), SetIslandMode(g), SetTransferMode(g)} BY <1>11
  <2>2. h.alarms = g.alarms
    BY <1>0, <2>1 DEF SetParallelMode, SetIslandMode, SetTransferMode, GenState
  <2> QED BY <1>1, <1>11, <2>2
<1>12. CASE cmd \in FaultCommands
  <2>1. h = InjectFault(g, InjectedFault[cmd]) BY <1>12
  <2>2. InjectedFault[cmd] \in Alarms BY <1>12, InjectionTables
  <2> QED BY <2>1, <2>2, InjectFaultGood DEF Stopped
<1>13. CASE cmd \in LatchedFaultCommands
  <2>1. h = InjectLatchedFault(g, InjectedLatchedFault[cmd]) BY <1>13
  <2>2. InjectedLatchedFault[cmd] \in Alarms BY <1>13, InjectionTables
  <2> QED BY <2>1, <2>2, InjectLatchedFaultGood DEF Stopped
<1>14. CASE cmd \notin 1..14 \cup FaultCommands \cup LatchedFaultCommands
  <2>1. h = g BY <1>14
  <2> QED BY <2>1
<1> QED BY <1>2, <1>3, <1>4, <1>5, <1>6, <1>7, <1>8, <1>9, <1>10, <1>11, <1>12, <1>13, <1>14

\* A running engine that shows a critical alarm runs no longer after a tick.
LEMMA TickTrips ==
    ASSUME NEW g, Safe(g), Stopped(g), g.state = "RUNNING", g.alarms \cap CriticalAlarms # {},
           NEW h \in TickOutcomes(g)
    PROVE  h.state # "RUNNING"
<1>1. PICK a \in CheckAutoMode(g) : \E b \in UpdateState(a) : h \in UpdateAlarms(b)
  BY DEF TickOutcomes
<1>2. PICK b \in UpdateState(a) : h \in UpdateAlarms(b) BY <1>1
<1>3. /\ Safe(a) /\ Stopped(a) /\ a.alarms = g.alarms
      /\ a.state \in {"RUNNING", "COOLDOWN"}
  BY CheckAutoModeGood, AutoModeOnlyTransfers DEF Stopped, OnlyTransfers, Kept
<1>4. Safe(b) /\ Stopped(b) BY <1>3, UpdateStateGood, UpdateStateStopped DEF Stopped, Kept
<1>5. h.state = b.state BY <1>2, <1>4, UpdateAlarmsStopped
<1>6. CASE a.state = "RUNNING"
  <2>1. PICK active \in SUBSET (a.anomalies \cup NaturalAnomalies) :
          \E hot \in {a.coolant_high, "HIGH_COOLANT_TEMP" \in active} :
            b \in CheckCriticalShutdown(Sense(a, active, hot))
    BY <1>6 DEF TickRunning, UpdateState
  <2>2. PICK hot \in {a.coolant_high, "HIGH_COOLANT_TEMP" \in active} :
          b \in CheckCriticalShutdown(Sense(a, active, hot))
    BY <2>1
  <2> DEFINE s == Sense(a, active, hot)
  <2>3. s \in GenState /\ s.alarms = a.alarms BY <1>3, SenseTyped DEF Safe
  <2>4. "ESTOP" \notin s.alarms BY <1>3, <1>6, <2>3 DEF Stopped
  <2>5. b \in CheckCriticalShutdown(s) BY <2>2
  <2> HIDE DEF s
  <2>6. PICK c \in s.alarms \cap CriticalAlarms :
          b = EnterFault([s EXCEPT !.latched_fault = c])
    BY <1>3, <2>3, <2>4, <2>5 DEF CheckCriticalShutdown
  <2>7. [s EXCEPT !.latched_fault = c] \in GenState BY <2>3 DEF GenState, Alarms
  <2> QED BY <1>5, <2>6, <2>7, EnterFaultFaults
<1>7. CASE a.state = "COOLDOWN"
  <2>1. b \in TickCooldown(a) BY <1>7 DEF UpdateState
  <2>2. b.state \in {"STOPPED", "COOLDOWN"} BY <1>3, <1>7, <2>1 DEF TickCooldown, Safe, GenState
  <2> QED BY <1>5, <2>2
<1> QED BY <1>3, <1>6, <1>7

\* An E-Stop is shown in FAULT only, whatever is injected, tripped and reset: the shutdown
\* of a running engine, which looks at every critical alarm but that one, misses none.
THEOREM EstopStops == Spec => []Stopped(gen)
<1>1. Init => Stopped(gen) BY DEF Init, InitGen, Stopped
<1>2. IInv /\ Stopped(gen) /\ [Next]_gen => Stopped(gen)'
  <2> SUFFICES ASSUME Safe(gen), Stopped(gen), [Next]_gen PROVE Stopped(gen') BY DEF IInv
  <2>1. CASE Tick BY <2>1, TickStops DEF Tick
  <2>2. CASE \E cmd \in Commands : ExecuteCommand(cmd) BY <2>2, CommandStops DEF ExecuteCommand
  <2>3. CASE UNCHANGED gen BY <2>3
  <2> QED BY <2>1, <2>2, <2>3 DEF Next
<1> QED BY <1>1, <1>2, SafetyInvariant, PTL DEF Spec

\* An engine that shows a critical alarm at the end of a tick is out of RUNNING at the end
\* of the next, whatever auto mode does in that tick before the engine is looked at.
THEOREM CriticalAlarmsTrip == Spec => CriticalTrips
<1> DEFINE Step == Tick /\ gen.state = "RUNNING" /\ gen.alarms \cap CriticalAlarms # {}
                   => gen'.state # "RUNNING"
<1>1. IInv /\ Stopped(gen) /\ [Next]_gen => [Step]_gen
  BY TickTrips DEF IInv, Tick
<1> QED BY <1>1, SafetyInvariant, EstopStops, PTL DEF Spec, CriticalTrips
=============================================================================
