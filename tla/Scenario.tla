------------------------------ MODULE Scenario ------------------------------
(***************************************************************************)
(* Scenario playback: the ScenarioRunner (scenarios.py) on its own clock,  *)
(* the dispatch of its events to the command queue by the simulation loop  *)
(* (main.py), and its way to the state file and back over a crash.         *)
(*                                                                         *)
(* A step is one critical section of ScenarioRunner._lock or one enqueue.  *)
(* The clock is time.monotonic(): it runs on by itself and may jump any    *)
(* number of seconds between two ticks of the loop.  What a command does   *)
(* is the subject of Generator: here a dispatched event is one in the log. *)
(***************************************************************************)
EXTENDS Integers, Sequences, SequencesExt

CONSTANTS
    Scenarios,   \* the catalog: [events: when each is due, ascending; duration], in seconds
    MaxHistory,  \* runs kept in the history
    MaxRuns,     \* bound: runs started
    MaxCrashes,  \* bound: times the process dies
    None

ASSUME CatalogAssumption ==
    /\ \A s \in Scenarios : /\ s.duration \in Nat \ {0}
                            /\ s.events \in Seq(0 .. s.duration) /\ s.events # <<>>
    /\ None \notin [id : Nat, scenario : Scenarios, elapsed : Nat, next : Nat]
    /\ {MaxHistory, MaxRuns, MaxCrashes} \subseteq Nat

VARIABLES
    active,    \* active_run: [id, scenario, elapsed, next], or None
    time,      \* time.monotonic() - _started_monotonic of the active run
    history,   \* the finished runs, last first: [id, status]
    pending,   \* the events advance() returned, still to be dispatched: [id, event]
    snapshot,  \* {the [active, history] a save in progress has taken}, or {}
    file,      \* [active, history] in the state file
    \* history variables
    runs,      \* runs started so far
    crashes,   \* crashes so far
    fired      \* [run -> the events of the run the loop dispatched, in order]

disk == <<snapshot, file>>
vars == <<active, time, history, pending, disk, runs, crashes, fired>>

Ids == 1 .. MaxRuns
Run == [id : Ids, scenario : Scenarios, elapsed : Nat, next : Nat]
Finished == [id : Ids, status : {"stopped", "completed"}]
Empty == [active |-> None, history |-> <<>>]

Init ==
    /\ active = None /\ time = 0 /\ history = <<>> /\ pending = <<>>
    /\ snapshot = {} /\ file = Empty
    /\ runs = 0 /\ crashes = 0 /\ fired = [r \in Ids |-> <<>>]

(* ---------------------------- ScenarioRunner ---------------------------- *)

MayStart == active = None

Start ==
    /\ runs < MaxRuns /\ MayStart
    /\ runs' = runs + 1
    /\ \E s \in Scenarios :
          active' = [id |-> runs', scenario |-> s, elapsed |-> 0, next |-> 0]
    /\ time' = 0
    /\ UNCHANGED <<history, pending, disk, crashes, fired>>

\* Mutant: the history keeps every run.
Remember_All(status) == history' = <<[id |-> active.id, status |-> status]>> \o history

\* The first MaxHistory of them are kept.
Remember(status) ==
    history' = SubSeq(<<[id |-> active.id, status |-> status]>> \o history, 1,
                      IF Len(history) < MaxHistory THEN Len(history) + 1 ELSE MaxHistory)

Stop ==
    /\ active # None
    /\ Remember("stopped")
    /\ active' = None
    /\ UNCHANGED <<time, pending, disk, runs, crashes, fired>>

\* The clock runs on; past the duration of the scenario nothing changes any more.
Elapse ==
    /\ active # None /\ time < active.scenario.duration
    /\ time' \in time + 1 .. active.scenario.duration
    /\ UNCHANGED <<active, history, pending, disk, runs, crashes, fired>>

\* Mutant: the index of the next event is not moved past the events returned.
NextEvent_Stays(due) == active.next

NextEvent(due) == active.next + Len(due)

\* The events from the next one on, up to the first that is not due.
DueEvents ==
    LET events == active.scenario.events
        last   == CHOOSE i \in active.next .. Len(events) :
                      /\ \A j \in active.next + 1 .. i : events[j] <= time
                      /\ i < Len(events) => events[i + 1] > time
    IN  [i \in 1 .. last - active.next |-> active.next + i]

\* Mutant: the run is remembered as completed but stays the active one.
Complete_StaysActive ==
    /\ pending = <<>> /\ active # None /\ time >= active.scenario.duration
    /\ Remember("completed")
    /\ UNCHANGED <<active, time, pending, disk, runs, crashes, fired>>

\* advance() of a run whose time is up: it completes and returns no event.
Complete ==
    /\ pending = <<>> /\ active # None /\ time >= active.scenario.duration
    /\ Remember("completed")
    /\ active' = None
    /\ UNCHANGED <<time, pending, disk, runs, crashes, fired>>

\* advance() of a run in progress: the events that are due are returned.
Advance ==
    /\ pending = <<>> /\ active # None /\ time < active.scenario.duration
    /\ active' = [active EXCEPT !.elapsed = time, !.next = NextEvent(DueEvents)]
    /\ pending' = [i \in DOMAIN DueEvents |-> [id |-> active.id, event |-> DueEvents[i]]]
    /\ UNCHANGED <<time, history, disk, runs, crashes, fired>>

(* --------------------------- simulation_loop() -------------------------- *)

\* The next event goes to the command queue, whether the scenario still runs or
\* not; the queue may refuse it, and the loop ignores that.
Dispatch ==
    /\ pending # <<>>
    /\ pending' = Tail(pending)
    /\ fired' = [fired EXCEPT ![Head(pending).id] = Append(@, Head(pending).event)]
    /\ UNCHANGED <<active, time, history, disk, runs, crashes>>

(* --------------------------- saves and restarts ------------------------- *)

\* snapshot_for_save(), by the loop or by a shutdown handler, at any time.
TakeSnapshot ==
    /\ snapshot = {}
    /\ snapshot' = {[active |-> active, history |-> history]}
    /\ UNCHANGED <<active, time, history, pending, file, runs, crashes, fired>>

\* The file is replaced, or the save fails and leaves it alone.
FinishSave ==
    /\ snapshot # {} /\ snapshot' = {}
    /\ file' \in snapshot \cup {file}
    /\ UNCHANGED <<active, time, history, pending, runs, crashes, fired>>

\* Mutant: the run goes on where it was, with its clock at zero.
ResumeAt_Zero(run) == 0

\* restore_state(): the origin of the clock is offset by what had elapsed.
ResumeAt(run) == IF run = None THEN 0 ELSE run.elapsed

\* The process dies; the next one restores the runner from the file, if it was
\* saved for the same fleet.
Crash ==
    /\ crashes < MaxCrashes /\ crashes' = crashes + 1
    /\ \E saved \in {file, Empty} :
          /\ active' = saved.active
          /\ history' = saved.history
          /\ time' = ResumeAt(saved.active)
    /\ pending' = <<>> /\ snapshot' = {}
    /\ UNCHANGED <<file, runs, fired>>

Loop == Advance \/ Complete \/ Dispatch

Next == Start \/ Stop \/ Elapse \/ Loop \/ TakeSnapshot \/ FinishSave \/ Crash

Spec == Init /\ [][Next]_vars

\* The loop and the clock run on; a client need not stop anything.
FairSpec == Spec /\ WF_vars(Loop) /\ WF_vars(Elapse)

(* ------------------------------ properties ------------------------------ *)

\* Every variable has the type the code gives it.
TypeOK ==
    /\ active \in Run \cup {None} /\ time \in Nat
    /\ history \in Seq(Finished) /\ Len(history) <= MaxHistory
    /\ pending \in Seq([id : Ids, event : Nat]) /\ runs \in 0 .. MaxRuns /\ crashes \in 0 .. MaxCrashes
    /\ active # None => active.next <= Len(active.scenario.events)

\* The index and the clock of a run agree, in memory and in the file: the events
\* before the index were due at the elapsed time.  So a run that is restored neither
\* skips an event that was not due nor waits for one that had been returned.
RunConsistent(run) ==
    run = None \/ \A i \in 1 .. run.next : run.scenario.events[i] <= run.elapsed

IndexMatchesClock == RunConsistent(active) /\ RunConsistent(file.active)

\* While the process lives, the events of a run come in their order, each of them
\* once, and none before one that came; only a crash can bring events back a second
\* time.  (Those still due when the run ends may not come at all.)
EventsOnceInOrder ==
    crashes = 0 => \A r \in Ids : fired[r] = [i \in DOMAIN fired[r] |-> i]

\* A run that is started is over some day: it completes, is stopped, or is lost in a
\* crash; no other client can start a scenario until then.
RunEnds == active # None ~> active = None
=============================================================================
