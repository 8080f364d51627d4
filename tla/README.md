# Generator fleet simulator: TLA+ specifications and proofs

The program simulates a fleet of diesel standby generators.  An operator drives it from
a dashboard (HTTP and sockets), a SCADA master over Modbus TCP, and scripts of its own
(scenarios and runbooks).  This directory holds TLA+ modules of its core logic, the TLC
configurations that check them, and proofs, which TLAPS checks, about all of them but one.

1. [The system](#1-the-system)
2. [The modules](#2-the-modules)
3. [The runs, their bounds and their fairness](#3-the-runs-their-bounds-and-their-fairness)
4. [What is proved](#4-what-is-proved)
5. [Where code and documents disagree](#5-where-code-and-documents-disagree)
6. [The plan](#6-the-plan)
7. [What is not modelled](#7-what-is-not-modelled)

## 1. The system

Four kinds of thread run in one process:

- the **simulation thread** of each fleet (`SimulatorRuntime.simulation_loop`, main.py:2085):
  once per tick it advances the scenario, executes the runbook steps that are due, applies
  Modbus and queued commands, ticks every generator, refreshes the store, writes dirty
  units back to the registers, advances the runbook clock, pushes updates, and saves;
- the **HTTP and socket handlers**, one thread per request;
- the **Modbus listeners**, one thread per TCP port (255 units each), which give a master
  access to the registers at any moment;
- the **main thread** with its signal handler, which saves before it exits, without the lock
  that replacing a fleet takes.

| Component | State it keeps | Operations | Shared with, and guarded by |
|---|---|---|---|
| `Generator` (generator.py) | engine state, two breakers, transfer mode, auto mode, alarms, latched fault, anomalies, analog values | `tick`, `command` (14 operator commands, 20 injections), `set_parallel_setpoint` | simulation thread and handlers; `Generator.lock` |
| `CommandRouter` (main.py:1455) | the queue, the number of queued unit targets | `enqueue`, `enqueue_sequence`, `drain` | handlers, loop; its lock |
| `ModbusAdapter`, register functions (main.py:1505, modbus_server.py:70) | registers, the setpoint last written | read and clear register 20, compare register 16, sync | loop and masters; **no lock** |
| `StateStore` (main.py:1064) | cached details and registers, sub-fleets, sub-fleet of every unit | refresh, create/rename/delete, assign/unassign, by query, export, load | loop and handlers; its lock, once or twice per handler |
| Runbook executor (main.py:1737-1937) | definition, report, clock, index, last report | start, stop, execute due steps, advance clock | loop and handlers; **no lock** |
| `ScenarioRunner` (scenarios.py) | active run, clock origin, history | start, stop, advance, snapshot, restore | loop and handlers; its lock |
| `AppController` (main.py:2123) | settings, runtime, listeners | configure, start, stop, roll back, save | handlers; its lock, readers without it |
| `ModbusServerThread/Group` | thread, event loop, server, ready event | start, stop | the controller |
| State file (main.py:1573) | fleet, run hours, sub-fleets, scenario | export, atomic replacement with backup, load | loop, signal handler, restart |
| `RunbookRegistry` (runbooks.py) | saved runbooks | save, delete, load | handlers; **no lock** |
| `SlidingWindowRateLimiter` | time stamps per client | allow | handlers; its lock |
| `EventPublisher` | the unit each session watches | connect, disconnect, watch | handlers, loop; its lock |
| SCADA tree (main.py:571-934) | none: every page is computed | resolve a node, build its page | handlers; several reads of the store per page, each under its lock |
| pure functions | - | Modbus addressing, endpoints, paging | - |

What is hard: the three places without a lock (runbook executor, register 20, saved runbooks),
handlers that take a lock twice and act on what they saw the first time (queries, SCADA
pages), a time stamp taken before the lock that orders it (rate limiter), commands that pass
through a bounded queue whose refusals are ignored (Modbus, scenarios), the edges auto mode
acts upon in one engine state only, a fleet replaced while its loop and listeners may not
stop in time, one `Settings` object for all fleets, and a state file written from a moment
that need not be the moment of the crash.  `PROJECT.json` lists these hazards at their
lines, with the properties that are about them.

What makes each component correct, in one sentence:

- **Generator**: the breakers never join a dead utility or a stopped engine and never drop
  a building that has a source; faults are latched until a reset; auto mode finishes what
  it plans.
- **Command path**: an accepted command reaches each of its units once and in order; the
  simulator never mistakes its own register writes for a master's.
- **Sub-fleets**: a unit is in one sub-fleet at most, whatever handlers overlap and
  whenever the process dies; the store is an abstract membership with atomic changes.
- **Runbooks**: steps are executed in order and on time, a report tells what happened, the
  loop survives, one run at a time.
- **Scenarios**: events come once, in order, on time, also after a restart; every run ends.
- **Lifecycle**: the fleet in service is the one of the settings, and the addresses clients
  work out from the settings are served by it; a call that fails leaves what it found; nothing
  of an old fleet stays.
- **Saved runbooks**: what is served can be executed and written, what is written can be
  loaded, a save is atomic and durable.
- **Rate limiter**: in any window no more requests than the limit, and those that were in progress
  when it began (one per thread); nobody refused on
  account of requests older than a window before its stamp.
- **SCADA tree**: a unit is under exactly one child of every node above it, whatever moves
  around it.

## 2. The modules

| Module | Models | A step is |
|---|---|---|
| `Generator` | generator.py: `command`, `tick` and all they call | one critical section of `Generator.lock` |
| `GeneratorProofs` | proofs about it | |
| `CommandPath`, `MCCommandPath` | `CommandRouter`, `ModbusAdapter`, `simulation_step`, registers 16 and 20 | one critical section or one register access |
| `CommandPathProofs` | proofs about it | |
| `SubFleets`, `MCSubFleets` | sub-fleets of `StateStore`, query handlers, export, save, restart | one critical section, or one step of a save |
| `Membership` | what that store promises, without tables | one change of the membership |
| `SubFleetProofs` | proofs about both, and about `Pieces` and `Topology`, which extends `SubFleets` | |
| `Runbook`, `MCRunbook` | start, stop, execution and clock of runbooks | one read or write of a shared attribute |
| `RunbookProofs` | proofs about it | |
| `Scenario`, `MCScenario` | `ScenarioRunner`, the dispatch of its events, snapshot, crash, restore | one critical section or one enqueue |
| `ScenarioProofs` | proofs about it | |
| `Lifecycle`, `MCLifecycle` | `AppController` with the loops and listeners of every fleet started; extends `Addressing` | one statement that others can see |
| `LifecycleProofs` | proofs about it and `Addressing` | |
| `Registry`, `MCRegistry` | `RunbookRegistry`, load and save of its file, the sanitiser, the handlers that save | one access to the list or the file |
| `RegistryProofs` | proofs about it | |
| `RateLimiter` | `SlidingWindowRateLimiter.allow` by several threads | the time stamp, or the critical section |
| `RateLimiterProofs` | proofs about it | |
| `Topology`, `MCTopology` | SCADA tree: nodes, children, ranges, pages; extends `SubFleets`, whose handlers run beside it, and `Pieces` | one read of the store |
| `Pieces` | positions of a list cut into pieces: pages, ranges, ports (no state) | |
| `Addressing` | ports, unit ids, endpoints and what a listener serves (no state) | |

State and actions keep the names of the attributes and methods; `PROJECT.json` "map" gives
the lines of every definition.  Operators named `X_Something` before a definition `X` are
variants with a plausible bug ("Mutant: ..."); no specification uses them.  Each property
is falsified when the variant listed for it in `PROJECT.json` takes the place of `X`.

**Generator.**  A method is an operator from a generator record to the set of records it
may leave behind (random draws become sets).  Analog values are kept as the comparisons the
control makes: `coolant_high` is `coolant_temp > 220`, `overspeed` is `engine_rpm > 1950`,
`oil_low` is an oil pressure below 25 while running.  `AtRatedValues` stands for
`engine_rpm > 1750 and output_voltage > 470` in a running engine, which only the injected or
natural under-voltage prevents.  `Warnings` are the alarms raised by the other analog values;
which of them are up is a free choice wherever the code could compute either.
Time is counted in ticks, delays and durations are drawn from `AutoDelays`, `CrankTicks`
and `CooldownTicks`.

**CommandPath.**  The loop of `simulation_step` is a program counter over the units
`1 .. NumGenerators`; `batch` is what was drained and not applied yet, `at` the unit and the
command the inner loops are at (`FirstJob`, `NextJob`).  A request is numbered when it is
accepted, so that two with the same commands can be told apart.  A Modbus master writes registers 16 and 20 between any two accesses.  Setpoints are counted
in half register units, so the truncation of `int(kw * 10)` is visible, and the rating
clamps them.  A command written to register 20 is identified by a number; whether it is an
issuable command is a choice of the master.  What a command does is left to `Generator`:
here it is appended to the log of the unit (`applied`).

**SubFleets.**  Two tables as in the code: `members` per sub-fleet, `owner` per unit.  Query
handlers keep what they found in `query` between their critical sections; the filters on
generator states are a free choice of a subset.  A saver exports under the lock and replaces
the file later; a restart loads the file, or nothing when it was saved for another fleet.
`Membership` is refined under the mapping that reads the group of a unit off the member
lists; the `owner` table must never matter.

**Runbook.**  The attributes are read and written without a lock, so every access is a
step, and reports are objects in a heap (`status`, `results` per run) that threads hold
references to: a handler may finish writing to a report that is no longer the current one.
Reading a field of `None`, or a due time past the end of a list, is `pc = "dead"`: the
exception leaves `simulation_loop`.  `overlapped` records that a start was accepted while
another one was being served, `stops` how often a stop was asked for; a behaviour is
`Undisturbed` as long as it has neither.

**Scenario.**  `time` is `time.monotonic()` minus the origin of the run, and may jump by any
number of seconds between two ticks.  A crash may come between any two steps, also between
`advance()` and the dispatch of the events it returned, or in the middle of a save.

**Lifecycle.**  `configure_simulator` is one program counter, as its lock allows; every
fleet ever started has a loop (`created`, `running`, `ended`) and holds ports.  Waiting for a
loop or a listener may time out at any time it is not over, other processes take and free
ports, and starting a fleet may fail at any time.  A loop may end at any time, too: it sees that it
has been asked, or an exception leaves it (a runbook step, section 5), of which the controller learns
nothing; so the fleet in service is not claimed to have a loop.  `ExitTakes` and `ExitSaves` are
`AppController.save_state`, called by the signal handler, the end of `run()` and `wsgi.py`: it takes the
runtime without the lock and reads the shared settings later, so a call may replace the fleet in
between.  These saves follow each other in the main thread; the end of the process after the last
of them is left out.  A save reads the settings and replaces the file in one step, and the ratings
saved beside the number of units are left out.

Fleets differ in their number of units; the ports of each, and which units a listener serves,
are those of `Addressing`, with 2 units to a port where the code has 255.

**Registry.**  `save_runbook` looks for the id, tests the limit, changes the list, tests the
number, dumps the list and replaces the file, with no lock, so each of these is a step of the
handler.  A runbook has an id, its steps with their times, and `fine`, the choice of what the
text checks of the sanitiser say of the rest; its size in the file is the number of its
steps.  A reconfiguration loads a registry anew while handlers may be at work on the one before,
which is why `lists` keeps all of them; a restart ends every request.  What the file holds
first is a choice of files that a hand may have edited.

**RateLimiter.**  `Stamp` is `time.monotonic()` before the lock, `Refuse` and `Admit` are the
critical section: `n` is the number of stamps the loop pops from the head, which `Expired`
fixes.  The clock may advance between any two steps.  `admitted` is the history of all requests
admitted, with their stamps, the times of their admission and their threads.  The two times differ: the
bucket counts by stamps, and a request may be let through long after its stamp.

**Topology.**  `_build_scada_topology` lists the sub-fleets, then reads the units of one after
the other, each under the lock of the store on its own; every other page has the children of one
read.  The browser keeps the page and opens a node of it by its id, which the server resolves
against the store of that moment.  A node is a record of what its id says.  `moved` are the
units that changed sub-fleet since the fleet page was asked for.

The modules of the components share variables where the components do: `Topology` runs on the
variables and handlers of `SubFleets`, `Lifecycle` computes with `Addressing`.  The others
take each other's effect as a free choice of inputs (`CommandPath` any command, `Generator` any
sequence of commands, `Runbook` any outcome of a step).  What a generator is asked in
`Generator` covers whatever the queue delivers.

## 3. The runs, their bounds and their fairness

Runs expected to pass:

| Run | Properties | Bounds | States |
|---|---|---|---|
| `generator` | `TypeOK` `BreakersSafe` `FaultsLatch`; actions `BuildingNotDropped` `CriticalTrips` `FaultLeftByReset`; liveness `OutagePickedUp` `RetransferCompletes` | all 14 operator commands; injections of coolant, under-voltage and a latched one; overspeed as natural anomaly; delays of 2 ticks, cranks of 1 and 5 | 87 574 |
| `commands` | `TypeOK` `QueueWithinLimits` `CommandsConserved` `NoSetpointEcho`; `AcceptedIsApplied` `SetpointSettles` | 2 units, queue of 2 commands and 3 unit targets, sequences of 1 and 2, 3 requests | 403 564 |
| `subfleets` | `TypeOK` `TablesAgree` `RemovalHitsOnlyItsOwn` `ImplementsMembership` | 2 units, 2 sub-fleets, 2 names, 1 query handler, 1 saver | 147 222 |
| `topology` | `TreeKeepsUnits` | 4 units of two ratings, 1 sub-fleet, ranges of 1 and 2 units | 700 167 |
| `runbook` | `TypeOK` `LoopSurvives` `RunsAreWhole` `NoStepBeforeItsTime` | 2 clients, 2 runs, 1 stop, 2 requests together, runbooks with steps at 0 and 1 and at 1 | 3 447 223 |
| `registry` | `TypeOK` `OverrunIsBounded` `WrittenIsLoaded` `SoloSaveIsAtomic` | 2 handlers, 3 requests, 3 registries; room for 2 runbooks and 3 steps | 631 532 |
| `scenario` | `TypeOK` `IndexMatchesClock` `EventsOnceInOrder` `RunEnds` | 2 timelines, 3 runs, a history of 2, 1 crash | 874 490 |
| `lifecycle` | `ServesItsSettings` `AddressesServed` `OneFleetInService` `NothingLeftBehind`; actions `SavesConsistent` `FailureRestoresSettings`; liveness `CallEnds` | 4 configurations over 2 ports of 2 units, 4 fleets started, one save on exit at a time | 275 182 |
| `limiter` | `OverrunBounded`; action `RefusedOnlyWhenBusy` | 2 keys, 2 threads, 5 calls, a limit of 2 in a window of 2, a clock up to 4 | 4 217 753 |

Why the bounds are enough for the cases that matter:

- `generator`: an injection differs from another in the sensor it overrides or in having none;
  there is one that trips the engine, one that keeps the generator breaker open and one that is
  only latched, and a natural anomaly that trips it.  A crank of
  5 ticks reaches the overcrank check at 80 %, a crank of 1 makes it in
  the tick that ends the crank.
- `commands`: three requests fill the queue by number and by unit targets; a sequence of two
  for two units separates "unit by unit" from "command by command"; the setpoints are one
  with a half unit and one above the rating.
- `subfleets`: a unit can move between two sub-fleets while a query that found it is being
  served.  Units, ids and names are interchangeable, hence the symmetry.  Two saves that
  overlap are beyond this run and are covered by the proof, which holds for any set of savers.
- `runbook`: two runs are needed for a start to meet the end of the run before; a step
  that is due at once and one due a tick later distinguish a reset clock from an old one; two
  clients let starts overlap.  The three properties beside the type are stated as long as a
  behaviour is undisturbed, because a stop, and a start that overlaps another, may end the loop
  (section 5).  Clients are interchangeable, hence the symmetry.  What the run checks is proved.
- `scenario`: three runs overflow the history of two; the last event of one timeline is due
  when the scenario ends, as in `utility-fail-recovery` (scenarios.py:78).
- `topology`: ranges of one and of two units with a unit of another rating between them, so
  that a range is not a block of unit numbers; a sub-fleet can be created, filled and
  deleted under the page (an id is never given twice, and there is one); one browser is enough, for browsing changes nothing.  Queries and saves are left
  to `subfleets`.
- `registry`: two handlers suffice to overrun the limit and the size, a third request meets the
  list they leave; three registries allow a restart and a reconfiguration.  Handlers are
  interchangeable, hence the symmetry.
- `limiter`: two threads can deliver their stamps in the wrong order around the end of a window of
  two seconds.  Four calls reach the bound of `OverrunBounded` (both threads late, and as many as
  the limit after them), a fifth exceeds it if the limiter is wrong; what it checks is proved.
- `lifecycle`: a fleet of two ports displaces fleets of one, and one that would need a third is
  refused; a call needs at most two starts,
  and up to three that succeed can follow each other.  `late` records that a loop or listener has
  outlived its timeout: `NothingLeftBehind` and `SavesConsistent` are stated until then,
  `ServesItsSettings` and `OneFleetInService` always.

`CHECK_DEADLOCK FALSE` stands where a behaviour may really stop: all runs of the bound have
been used up, or the simulation thread is dead.

Fairness:

- `generator`: `WF(QuietTick)`.  The loop ticks every generator once per period while it runs;
  no command is ever forced.  `QuietTick` is a tick in which no natural anomaly begins: anomalies
  are rare random draws, and a behaviour in which every tick brings one is not counted on, nor is
  one in which an anomaly must come.
- `commands`: `WF(Simulation)`, the thread of the loop.  Clients need not do anything.
- `runbook_stuck`: the loop and every request in progress go on.  The run's counterexample
  does not rest on anybody stopping.
- `scenario`: the loop and the clock go on; `RunEnds` holds without any client's stop.
- `lifecycle`: only the handler that holds the lock goes on.  A loop may hang forever: the
  timeout of `stop` is what ends the call.  The properties hold whether exits save or not.

`topology`, `registry` and `limiter` check safety only: nothing in them waits for anything.

Runs expected to find a violation are those of section 5.

## 4. What is proved

For every value of the constants that satisfies the named assumptions of the modules (durations
are positive, there is a handler, the presets are sound, natural anomalies and warnings are the alarms the code can raise, `None` is a value
apart, limits, windows and numbers of units are positive, a request targets a unit once, a timeline
and a runbook have a step).  The bounds on what clients ask for are constants too: the theorems hold
for any number of requests, runs, saves, crashes and calls.

Most of the invariants below are inductive only together with statements about the middle of an
operation that no property mentions.  Each of these strengthenings was checked by TLC on the run of
its component before it was proved.

**Generator.**  The inductive invariant is `Safe(gen)`: the type, `Switch` (what
`BreakersSafe` says of a record) and `Latch` (what `FaultsLatch` says).  Neither of the last two is
inductive alone: a tick keeps an injected alarm visible because it knows the engine is in
FAULT, and opening the breakers in every way out of RUNNING is what lets FAULT keep the
interlock.  There is one lemma per method (`CmdStartGood`, ..., `TickRunningGood`): from a
safe record every outcome is safe and `Kept` (same utility, FAULT not left, no supply lost).
`CommandGood` and `TickGood` compose them along the calls of the code.

- `TypeCorrect`, `SwitchSafe`, `FaultsLatched`: the invariants the run checks.
- `SupplyKept`, `FaultNeedsReset`: the action properties, from `Kept`.
- `EstopStops`, `CriticalAlarmsTrip`: a critical alarm stops a running engine in the next tick.  The
  shutdown leaves the E-Stop alarm out, so the property needs the invariant that this one is shown in
  FAULT only; and auto mode comes before it in a tick, so it needs that auto mode clears no alarm and
  starts no engine that ran (`AutoModeOnlyTransfers`).
- `RestoreSequence`: the three commands main.py:173 sends to restore the utility (11, 14, 4)
  leave any safe generator on the utility alone, in TRANSFER mode.

**Sub-fleets.**  The inductive invariant adds to `TypeOK` and `TablesAgree` that names are
unique, that ids in use have been issued, and `DiskSound`: what is in the file, and in
every save in progress, has disjoint member lists.  Without `DiskSound` a restart could load
anything.  There is one lemma per action.

- `TypeCorrect`, `TablesAlwaysAgree`, `NamesAlwaysUnique`, `RemovalsAreOwn`.
- `StoreImplementsMembership`: the refinement.  The key facts are that `Belongs` of disjoint
  lists is the `owner` table (`OwnerIsBelongs`) and that every handler is one `Found`, `Join`,
  `Leave`, `Disband` or a stutter; a save is `TakeSnapshot`, `Commit` or `Abandon`; a restart is
  `Restart`.  It holds for any number of savers whose exports and replacements overlap.

**Rate limiter.**  The inductive invariant is `TypeOK` and `BucketsSound`: a bucket is the end
of the list of all requests admitted, and what is missing from the list's beginning has stamps older than
the window (`Holds`); requests are admitted one after the other, none before its stamp
(`InOrder`); and `OneAtATime`: a thread stamps a request after it is done with the one before.  The stamps in a bucket are *not* claimed to be sorted, for they need not be: a
stamp behind the head is kept too long, never too short.  `EvictHolds` and `AppendHolds` carry
`Holds` over the two halves of the critical section, `WindowCount` and `BusyCount` turn it into
cardinalities.  By stamps, the window that ends now is within the limit (`WindowCount`).  By the time of
admission it is not: a request stamped before the window may be let through in it.  Two of these are of
two threads, since a thread's second stamp would come after its first admission and so lie in the
window; threads are an injective image of them (`LateCount`), which gives the bound (`AdmittedCount`).

- `LimiterInvariant`, `OverrunAlwaysBounded` and `RefusalsJustified`: both properties of the run, for any
  number of clients and threads, any limit and window, and unbounded time.

**Addresses and pages.**  Facts about integer division first (`QuotientBounds`,
`QuotientUnique`), then:

- `PiecesPartition`, `PagesPartition`: ranges and pages leave nothing out and show nothing
  twice, and no page shown of a list that is not empty is empty.
- `AddressReachesUnit`: the address worked out for a generator reaches this generator and no
  other, for any number of units on a port.  `AddressesServed` needs more: that the settings
  the address is worked out from are those of the listeners (see Lifecycle below).

**SCADA tree.**  The proof keeps, for every unit that has not moved, what is known of it between any two
reads: the page shown has it under one child or none, and the ids of the page and of its children say the
same of it as the page does (`PageRight`), since an id is all a later request has; a request other than
for the fleet is for a node the unit is under exactly if it was shown under it (`RequestRight`); the page
of the fleet, while it is put together, has its sub-fleet or has not read it yet (`DraftRight`).  This
rests on the invariant of the store: an owner that is not listed would be skipped.  That a page
made from one read is right is `ChildrenRight`; for ranges, `Positions` numbers the units of a rating
in the order of their ids, so a piece of the positions (`PiecesPartition`, `PieceEnds`) is all the units
between its first and its last one (`Chunks`), and the name of a range names one chunk (`RangePage`).

- `TreeInvariant`, `TreeAlwaysKeepsUnits`: for any fleet, ratings and range sizes, and any handlers and
  restarts between the reads, where the run has four units and one sub-fleet.

**Command path.**  To the type, `QueueWithinLimits` and `CommandsConserved` the inductive invariant
adds `ThreadSound`, where the thread is within the first request it drained, and `EchoSound`:
register 16 of a unit that no master has written holds the value the simulator remembers, or, while it
is being written, the value in the cache.  `NoSetpointEcho` follows from the last.  The argument for
`CommandsConserved` is that the set of commands the loops are `Past` grows by exactly the command
applied, and that this command comes after all those before it: `EnqueueStep`, `DrainStep`, `JobDone`
and `ApplyStep` say so of the four steps that touch a queue.

- `TypeCorrect`, `QueueAlwaysWithinLimits`, `CommandsAlwaysConserved`, `NoEchoEver`: the invariants of
  the run, for any fleet, targets, lengths of sequences and limits.

**Runbooks.**  `Typed` holds whatever the requests; `Sound` as long as the behaviour is undisturbed.
`Sound` says, of every place the simulation thread can be in, how the definition, the report, the index
and the clock fit together when a start may be half done at the same time.  Its parts follow the thread:
while it is `Executing`, the report is that of the list it holds, and running; while it is `Ending` a run
(`EndSound`), the index is at the end or has been reset, and a definition that is not the run's own
is that of a start whose report has not been published, which is why the second of the two reads in
`_update_runbook_progress` (main.py:1890-1893) still finds a step; while it is `Clearing`, nothing is
claimed of the index, which is reset last.  `OneStart` keeps the handlers apart.  That a step is taken
late enough rests on `ClockSound`: neither the clock nor the value the thread has read of it runs ahead
of the ticks since the report was published, whenever a start rewinds it.

- `TypeCorrect`, `LoopAlwaysSurvives`, `RunsAlwaysWhole`, `NothingEarly`: all safety properties of the
  run, for any clients, runbooks and numbers of runs.

**Scenarios.**  The index of a run must fit its clock in memory, in every save in progress and in the
file, for a crash may restore any of the three (`EverywhereSound`); the clock must not have fallen behind
what `advance()` saw last (`ClockAhead`); and, until a crash, what was returned and not dispatched yet
continues what was dispatched (`InSequence`).

- `TypeCorrect`, `IndexAlwaysMatchesClock`, `EventsAlwaysOnceInOrder`: the invariants of the run.

**Lifecycle.**  The inductive invariant says what a call knows at each of its steps (`InCall`), of
which fleet it may still be stopping (`BeingStopped`), that the fleet of the controller is the one of
the settings and has their ports (`InService`), that every other loop has been asked to stop
(`OthersAsked`), and that, unless something has outlived its timeout, nothing else runs or listens
(`NothingElseLeft`).  Nothing in it is about the loop of the fleet in service, which may be dead.
`SavesConsistent` follows from it step by step: a loop, and the call that stops it, save only while the
settings are those of their fleet, and a save on exit does when its fleet is still in service.

- `FleetServesSettings`, `OneFleet`, `NothingLeft`, `SavesAlwaysConsistent`, `FailuresRestoreSettings`:
  the properties of the run, for any configurations, ports and numbers of units on a port.
- `AddressesAlwaysServed`: the addresses clients work out from the settings reach the right generators
  at the listeners of the fleet in service, from `FleetServesSettings` and `AddressReachesUnit`.

**Saved runbooks.**  The inductive invariant counts, for every list, the handlers that have seen room in
it and not appended yet (`RoomCounted`): a test is passed by a list below the limit, so the list and
those handlers together exceed the limit by their number less one.  `TextsWritable` says that what is
about to be written, and what was written last, is a list of sound runbooks whose size was tested.
`SoloSave` says how far a save that nothing overlaps has come: every other handler is idle, and the list is
the one the save found, or that list with its runbook in it.

That a list survives being written and read rests on what loading computes.  `InOrder` puts entries
in their order by counting how many come before each, so no recursion is needed to reason about it:
`InOrderPermutes` (every entry once, in the order of the keys) and `InOrderIdentity` (what is in order
stays as it is) give `SanitizeSound`, `SanitizeIdentity`, `LoadSound` and `LoadWritable`.  The size of a
file, a fold, stays a number nothing is known of; writer and reader compare the same one.

- `ServedRunbooksSound`, `OverrunBounded`, `WhatIsWrittenIsLoaded`, `SoloSavesAtomic`: all properties of the
  run, for any handlers, limits, payloads and files.

With this every safety property of every passing run is a theorem.

Only model-checked: liveness (`OutagePickedUp`, `AcceptedIsApplied`, `SetpointSettles`,
`RetransferCompletes`, `RunEnds`, `CallEnds`), which is outside what TLAPS supports here, as is
`ENABLED`.  Induction over data is too: what a fold or a selection of the library computes for every
input cannot be proved, and no proof here needs it.  No module of this directory declares a
`RECURSIVE` operator.

## 5. Where code and documents disagree

Each of these is a run that TLC ends with a counterexample:

| Run | What is said | What the code does |
|---|---|---|
| `modbus_clear` | register 20 "is automatically cleared to 0 after the command is processed" (MODBUS_REFERENCE.md:154) | at the end of a tick the registers of every unit that has changed are written back, 0 for register 20 among them (generator.py:317, modbus_server.py:91): a command that a master writes after the poll of the tick and before that is overwritten, and nobody has read it |
| `registry_serves` | "Saved runbooks cannot exceed ..." (runbooks.py:448, 451) | the list is changed before its size is tested (runbooks.py:492, 497) and stays changed: a runbook that was refused is served, and later saves are refused too until a restart |
| `runbook_stuck` | after the last step there is no active runbook (tests/test_main.py:1841) | the status becomes terminal before the attributes are cleared (main.py:1922-1931): a start accepted in between is cleared away with the old run, and its report stays `running` and blocks every later start |

Seen while modelling, and stated here without a run:

- Register 20 loses commands in two more ways, which need more requests than that run has: the read and
  the clear are two accesses (modbus_server.py:97-101), so a command written in between is cleared unread,
  and one that meets a full queue has been cleared by then and is dropped (main.py:1514-1517).
- A query "assigns all matching units" (API_REFERENCE.md:167); units are found and assigned under
  two locks (main.py:1334-1344), so one that matched "unassigned" may be taken from a sub-fleet it
  has joined since.
- "A runbook is already running." (main.py:1739) is not atomic with the publication of a run: two
  requests both pass, and the report of the first is lost while it says `running`.  The second may
  also replace the definition between two reads of `_update_runbook_progress` (main.py:1890-1893): if
  its list is shorter than the index, the IndexError ends the simulation loop.
- Scenarios "automatically issue ... commands at predefined intervals" (OPERATIONS.md:306-307);
  `advance()` looks at the duration first (scenarios.py:205), so events due since the last tick are
  dropped when the time is up.
- The limit of requests per client is N for HTTP and another N for sockets: the keys
  have a scope (main.py:2406; README.md:325, OPERATIONS.md:159).  Keys are never removed from
  `_hits`.
- Of two saves of runbooks that overlap, both may see room for one more, and no save succeeds after
  that (runbooks.py:495, 447); both may append the same new id; and the older dump may replace the
  newer file, so that a runbook answered 201 is lost by the next restart
  (tests/test_runbooks.py:543 asserts that it is loaded again).
- A row of the SCADA alarm list has its state from one read and its alarms from a later one
  (main.py:656-661): a unit listed as RUNNING may show the alarms of its FAULT.
- A client that starts to watch a unit is sent a detail read before the watch was registered
  (main.py:2982-2987): the update of a tick in between reaches it not at all, or before the older
  detail.  Sockets connected before a reconfiguration are known to the former runtime's publisher
  only (main.py:2939).

- A critical alarm that tripped the engine may disappear in FAULT without a reset
  (`_update_alarms` clears LOW_OIL_PRESSURE once the engine is not RUNNING,
  generator.py:595; MODBUS_REFERENCE.md:148 says a reset is required), and READY can stand
  beside HIGH_COOLANT_TEMP after a reset (generator.py:579; MODBUS_REFERENCE.md:98 "Stopped, no
  faults").
- Island mode opens the utility breaker once; command 5 closes it again while the mode is
  still ISLAND (generator.py:784; MODBUS_REFERENCE.md:171 "with utility open").
- A stop between the execution of a runbook step and the record of its result leaves the
  simulation thread with a `None` report: the TypeError ends the loop (main.py:1908).  A stop
  that meets the end of the runbook may answer `completed` (main.py:1777-1780).
- Steps of a runbook executed before `start_runbook` resets the index (main.py:1770) are
  executed a second time.
- A loop that outlives its timeout saves its units under the configuration of the next
  fleet (main.py:1580 reads the shared settings).  Without any timeout, so does a save on exit
  (main.py:2200-2202) when a call replaces the fleet after it took the runtime: the next start takes the
  file for its own fleet's.  `SavesConsistent` shows that no other save does.
- An exception that ends a simulation loop leaves its fleet in service: listeners answer and the
  controller says it is started, but nothing ticks until the next configuration, which replaces it.
- `GENSIM_HTTP_RATE_LIMIT` is the "Max mutating HTTP/Socket.IO commands per client per window"
  (README.md:325).  The stamp is taken outside the lock (main.py:288), so within one window a client may
  get through as many more as there are threads that held a request when it began: with a limit of 2, two
  requests stamped at 0 and let through at 1, and two at 2, are four within two seconds.  `OverrunBounded`
  is that bound, and the run reaches it.

## 6. The plan

Modelled and checked, in the order of importance: Generator, CommandPath, SubFleets with
Membership, Runbook, Scenario, Lifecycle, Registry, RateLimiter, Addressing and Pieces, Topology;
proved about: all of them (Membership by refinement).

To prove next: what several components promise together, such as the steps of a runbook and the events
of a scenario through the queue of `CommandPath`; stronger forms of what is proved, such as the number
of runbooks a file may hold.

Worth a model if the code grows there: the handshake of one listener thread (`_ready`, `_error`,
timeouts) behind the starts and stops `Lifecycle` assumes; the publisher with what a tick sends to
whom; the queue of `CommandPath` under `Scenario` and `Runbook`, where a full queue loses a
scripted command that is reported done (main.py:2097, 1850).

## 7. What is not modelled

- Load sharing, kW ramping and the other analog values beyond the thresholds above:
  continuous arithmetic on floats, where a discretised model would show its discretisation.
- The counts on SCADA nodes, the rows of alarm lists, CSV export: projections of the state into
  payloads.
- Validation and normalisation of requests and saved payloads: text handling.  The models take
  what passes it as input (in `Registry` it is a choice whether it passes), and, where the code only
  logs a refusal, a refused value too.
- `delete_runbook`: no route calls it.
- The event publisher and the inside of a listener thread: see sections 5 and 6.
- Two savers of the state file that overtake each other are allowed by `SubFleets` and by its
  proofs, without a property about which file stays; the backup copy is never read.
- The dashboard (a client), launchers, release tools and CI scripts.
