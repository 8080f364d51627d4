------------------------------- MODULE Runbook -------------------------------
(***************************************************************************)
(* The runbook executor (main.py, SimulatorRuntime): the simulation thread *)
(* executes the steps that are due, HTTP handlers start and stop runbooks, *)
(* and no lock protects the attributes they share.                         *)
(*                                                                         *)
(* A step is one statement that reads or writes a shared attribute.  A     *)
(* report is an object: threads hold references to it, so reports live in  *)
(* a heap and the attributes hold the number of a run, 0 standing for      *)
(* Python's None.  A subscript of None raises TypeError, which ends the    *)
(* simulation loop; in a handler it only fails the request.  What a step   *)
(* of a runbook does is one entry in the log of effects.                   *)
(***************************************************************************)
EXTENDS Integers, Sequences, FiniteSets

CONSTANTS
    Clients,     \* HTTP handler threads
    Books,       \* runbooks: the due times of their steps, in ticks, ascending
    MaxRuns,     \* bound: runbooks started
    MaxStops,    \* bound: stops requested
    MaxRequests, \* bound: starts and stops together
    Horizon      \* bound: the clock stops counting here, not before any due time

ASSUME BooksAssumption ==
    /\ Books \subseteq Seq(0 .. Horizon) \ {<<>>}
    /\ {MaxRuns, MaxStops, MaxRequests, Horizon} \subseteq Nat

Runs == 1 .. MaxRuns

\* What a step ends in; an assertion that holds ("passed") counts as executed.
Outcomes == {"executed", "failed"}

VARIABLES
    definition, \* the run _runbook_definition belongs to, or 0
    report,     \* the run _runbook_report belongs to, or 0
    last,       \* [run, status] copied into _last_runbook_report, run 0: None
    elapsed,    \* _runbook_elapsed_seconds, in ticks
    next,       \* _runbook_next_step_index
    status,     \* [Runs -> the status in the report of the run]
    results,    \* [Runs -> the status of every step in the report of the run]
    book,       \* [Runs -> its runbook]
    pc,         \* where the simulation thread is
    steps,      \* its local variable steps: the run whose list it holds, or 0
    step,       \* its local variable step: the index of the step it has taken
    outcome,    \* the outcome of the step it is executing
    return,     \* where it goes on after _update_runbook_progress()
    clock,      \* the elapsed time it has read and is about to increment
    handler,    \* [Clients -> where the handler is]
    run,        \* [Clients -> the run the handler is starting, or 0]
    \* history
    started,    \* number of runs started
    stops,      \* number of stops requested
    overlapped, \* a start was accepted while another one was being served
    age,        \* [Runs -> ticks since its report was published]
    effects     \* what the steps did: the run and the index of each, in order

shared == <<definition, report, last, elapsed, next, status, results, book>>
loop == <<pc, steps, step, outcome, return, clock>>
http == <<handler, run>>
history == <<started, stops, overlapped, age, effects>>
vars == <<shared, loop, http, history>>

Init ==
    /\ definition = 0 /\ report = 0 /\ last = [run |-> 0, status |-> "none"]
    /\ elapsed = 0 /\ next = 0
    /\ status = [r \in Runs |-> "none"] /\ results = [r \in Runs |-> <<>>]
    /\ book = [r \in Runs |-> <<>>]
    /\ pc = "check" /\ steps = 0 /\ step = 0 /\ outcome = "executed" /\ return = "loop" /\ clock = 0
    /\ handler = [c \in Clients |-> "idle"] /\ run = [c \in Clients |-> 0]
    /\ started = 0 /\ stops = 0 /\ overlapped = FALSE /\ age = [r \in Runs |-> 0] /\ effects = <<>>

\* The definition has a step at the index: its due time can be read.
StepsLeft == definition # 0 /\ next < Len(book[definition])

IsRunning == report # 0 /\ status[report] = "running"

(* ---------------------------- start_runbook() --------------------------- *)

Starting(c) == handler[c] \in {"publish", "report", "rewind", "restart"}

\* Mutant: the check for a running runbook is left out.
StartAccepted_Always == TRUE

StartAccepted == ~IsRunning

\* The check; the report is built from the runbook before anything is published.
StartRequest(c) ==
    /\ handler[c] = "idle" /\ started < MaxRuns /\ started + stops < MaxRequests
    /\ StartAccepted
    /\ started' = started + 1
    /\ run' = [run EXCEPT ![c] = started']
    /\ \E b \in Books : book' = [book EXCEPT ![started'] = b]
    /\ handler' = [handler EXCEPT ![c] = "publish"]
    /\ overlapped' = (overlapped \/ \E d \in Clients : Starting(d))
    /\ UNCHANGED <<definition, report, last, elapsed, next, status, results, loop,
                   stops, age, effects>>

PublishDefinition(c) ==
    /\ handler[c] = "publish"
    /\ definition' = run[c]
    /\ last' = [run |-> 0, status |-> "none"]
    /\ handler' = [handler EXCEPT ![c] = "report"]
    /\ UNCHANGED <<report, elapsed, next, status, results, book, loop, run, history>>

PublishReport(c) ==
    /\ handler[c] = "report"
    /\ report' = run[c]
    /\ status' = [status EXCEPT ![run[c]] = "running"]
    /\ results' = [results EXCEPT ![run[c]] = [i \in DOMAIN book[run[c]] |-> "pending"]]
    /\ handler' = [handler EXCEPT ![c] = "rewind"]
    /\ UNCHANGED <<definition, last, elapsed, next, book, loop, run, history>>

RewindClock(c) ==
    /\ handler[c] = "rewind"
    /\ elapsed' = 0
    /\ handler' = [handler EXCEPT ![c] = "restart"]
    /\ UNCHANGED <<definition, report, last, next, status, results, book, loop, run, history>>

RewindSteps(c) ==
    /\ handler[c] = "restart"
    /\ next' = 0
    /\ handler' = [handler EXCEPT ![c] = "idle"]
    /\ run' = [run EXCEPT ![c] = 0]
    /\ UNCHANGED <<definition, report, last, elapsed, status, results, book, loop, history>>

(* ----------------------------- stop_runbook() --------------------------- *)

StopRequest(c) ==
    /\ handler[c] = "idle" /\ stops < MaxStops /\ started + stops < MaxRequests
    /\ stops' = stops + 1
    /\ handler' = [handler EXCEPT ![c] = IF IsRunning THEN "cancel" ELSE "idle"]
    /\ UNCHANGED <<shared, loop, run, started, overlapped, age, effects>>

\* The report may be gone by now: then the request fails with an exception, and
\* so it does while _update_runbook_progress() reads the report and the definition.
Handle(c, label) == handler' = [handler EXCEPT ![c] = label] /\ UNCHANGED run

Cancel(c) ==
    /\ handler[c] = "cancel"
    /\ status' = IF report = 0 THEN status ELSE [status EXCEPT ![report] = "cancelled"]
    /\ Handle(c, IF report = 0 THEN "idle" ELSE IF StepsLeft THEN "schedule" ELSE "copy")
    /\ UNCHANGED <<definition, report, last, elapsed, next, results, book, loop, history>>

Schedule(c) ==
    /\ handler[c] = "schedule"
    /\ Handle(c, IF report = 0 \/ ~StepsLeft THEN "idle" ELSE "copy")
    /\ UNCHANGED <<shared, loop, history>>

CopyReport(c) ==
    /\ handler[c] = "copy"
    /\ last' = IF report = 0 THEN last ELSE [run |-> report, status |-> status[report]]
    /\ Handle(c, IF report = 0 THEN "idle" ELSE "undefine")
    /\ UNCHANGED <<definition, report, elapsed, next, status, results, book, loop, history>>

Undefine(c) ==
    /\ handler[c] = "undefine"
    /\ definition' = 0
    /\ handler' = [handler EXCEPT ![c] = "unreport"]
    /\ UNCHANGED <<report, last, elapsed, next, status, results, book, loop, run, history>>

Unreport(c) ==
    /\ handler[c] = "unreport"
    /\ report' = 0
    /\ handler' = [handler EXCEPT ![c] = "reset"]
    /\ UNCHANGED <<definition, last, elapsed, next, status, results, book, loop, run, history>>

ResetClock(c) ==
    /\ handler[c] = "reset"
    /\ elapsed' = 0
    /\ handler' = [handler EXCEPT ![c] = "answer"]
    /\ UNCHANGED <<definition, report, last, next, status, results, book, loop, run, history>>

\* The index is reset and the last report is the answer.
StopAnswer(c) ==
    /\ handler[c] = "answer"
    /\ next' = 0
    /\ handler' = [handler EXCEPT ![c] = "idle"]
    /\ UNCHANGED <<definition, report, last, elapsed, status, results, book, loop, run, history>>

(* ------------------ _execute_due_runbook_steps() ------------------------ *)

GoTo(label) == pc' = label /\ UNCHANGED <<steps, step, outcome, return, clock>>

\* Three reads of the attributes, at three moments.
CheckDefinition ==
    /\ pc = "check"
    /\ GoTo(IF definition = 0 THEN "tick" ELSE "check report")
    /\ UNCHANGED <<shared, http, history>>

CheckReport ==
    /\ pc = "check report"
    /\ GoTo(IF report = 0 THEN "tick" ELSE "check status")
    /\ UNCHANGED <<shared, http, history>>

CheckStatus ==
    /\ pc = "check status"
    /\ GoTo(CASE report = 0 -> "dead" [] IsRunning -> "steps" [] OTHER -> "tick")
    /\ UNCHANGED <<shared, http, history>>

ReadSteps ==
    /\ pc = "steps"
    /\ pc' = IF definition = 0 THEN "dead" ELSE "loop"
    /\ steps' = definition
    /\ UNCHANGED <<shared, step, outcome, return, clock, http, history>>

\* Mutant: the loop does not look at the clock.
Due_Now(i) == TRUE

Due(i) == book[steps][i] <= elapsed

NextDueStep ==
    /\ pc = "loop"
    /\ IF next < Len(book[steps]) /\ Due(next + 1)
       THEN pc' = "execute" /\ step' = next + 1
       ELSE pc' = "finish?" /\ UNCHANGED step
    /\ UNCHANGED <<shared, steps, outcome, return, clock, http, history>>

\* _execute_runbook_step(), of the step the loop has taken.
ExecuteStep ==
    /\ pc = "execute" /\ pc' = "record"
    /\ outcome' \in Outcomes
    /\ effects' = Append(effects, <<steps, step>>)
    /\ UNCHANGED <<shared, steps, step, return, clock, http, started, stops, overlapped, age>>

\* The result goes to the report that is there now.
RecordResult ==
    /\ pc = "record"
    /\ IF report # 0 /\ next + 1 \in DOMAIN results[report]
       THEN results' = [results EXCEPT ![report][next + 1] = outcome] /\ GoTo("log")
       ELSE UNCHANGED results /\ GoTo("dead")
    /\ UNCHANGED <<definition, report, last, elapsed, next, status, book, http, history>>

LogStep ==
    /\ pc = "log"
    /\ GoTo(IF report = 0 THEN "dead" ELSE "advance")
    /\ UNCHANGED <<shared, http, history>>

\* Mutant: the index is advanced twice.
AdvanceIndex_Twice ==
    /\ pc = "advance" /\ pc' = "progress" /\ return' = "loop"
    /\ next' = next + 2
    /\ UNCHANGED <<definition, report, last, elapsed, status, results, book, steps, step, outcome,
                   clock, http, history>>

\* `+= 1` is taken as one access.  (What could come in between, while undisturbed, is the 0 of
\* a start whose steps up to this one have been executed.)
AdvanceIndex ==
    /\ pc = "advance" /\ pc' = "progress" /\ return' = "loop"
    /\ next' = next + 1
    /\ UNCHANGED <<definition, report, last, elapsed, status, results, book, steps, step, outcome,
                   clock, http, history>>

\* _update_runbook_progress(): nothing without a report, but it reads the report
\* again and again, and the definition twice; the counters it computes are those
\* of the results.
UpdateProgress ==
    /\ pc = "progress"
    /\ GoTo(IF report = 0 THEN return ELSE "counters")
    /\ UNCHANGED <<shared, http, history>>

UpdateCounters ==
    /\ pc = "counters"
    /\ GoTo(IF report = 0 THEN "dead" ELSE IF StepsLeft THEN "schedule" ELSE return)
    /\ UNCHANGED <<shared, http, history>>

UpdateSchedule ==
    /\ pc = "schedule"
    /\ GoTo(IF report = 0 \/ ~StepsLeft THEN "dead" ELSE return)
    /\ UNCHANGED <<shared, http, history>>

AllExecuted ==
    /\ pc = "finish?"
    /\ GoTo(IF next >= Len(book[steps]) THEN "terminal" ELSE "tick")
    /\ UNCHANGED <<shared, http, history>>

SetTerminalStatus ==
    /\ pc = "terminal"
    /\ IF report = 0
       THEN GoTo("dead") /\ UNCHANGED status
       ELSE /\ status' = [status EXCEPT ![report] =
                             IF \E i \in DOMAIN results[report] : results[report][i] = "failed"
                             THEN "completed_with_failures" ELSE "completed"]
            /\ pc' = "progress" /\ return' = "publish last" /\ UNCHANGED <<steps, step, outcome, clock>>
    /\ UNCHANGED <<definition, report, last, elapsed, next, results, book, http, history>>

PublishLast ==
    /\ pc = "publish last"
    /\ IF report = 0
       THEN GoTo("dead") /\ UNCHANGED last
       ELSE last' = [run |-> report, status |-> status[report]] /\ GoTo("clear definition")
    /\ UNCHANGED <<definition, report, elapsed, next, status, results, book, http, history>>

ClearDefinition ==
    /\ pc = "clear definition"
    /\ definition' = 0 /\ GoTo("clear report")
    /\ UNCHANGED <<report, last, elapsed, next, status, results, book, http, history>>

ClearReport ==
    /\ pc = "clear report"
    /\ report' = 0 /\ GoTo("clear clock")
    /\ UNCHANGED <<definition, last, elapsed, next, status, results, book, http, history>>

ClearClock ==
    /\ pc = "clear clock"
    /\ elapsed' = 0 /\ GoTo("clear index")
    /\ UNCHANGED <<definition, report, last, next, status, results, book, http, history>>

\* Mutant: the index is left at the end of the runbook.
ClearIndex_Keeps ==
    /\ pc = "clear index" /\ GoTo("tick")
    /\ UNCHANGED <<shared, http, history>>

ClearIndex ==
    /\ pc = "clear index"
    /\ next' = 0 /\ GoTo("tick")
    /\ UNCHANGED <<definition, report, last, elapsed, status, results, book, http, history>>

\* simulation_step() and _advance_runbook_clock(): the clock is read, then written.
Older(n) == IF n < Horizon THEN n + 1 ELSE n

SimulationStep ==
    /\ pc = "tick"
    /\ age' = [r \in Runs |-> IF r = report THEN Older(age[r]) ELSE age[r]]
    /\ GoTo(IF report = 0 THEN "check" ELSE "running?")
    /\ UNCHANGED <<shared, http, started, stops, overlapped, effects>>

CheckRunning ==
    /\ pc = "running?"
    /\ GoTo(CASE report = 0 -> "dead" [] IsRunning -> "read clock" [] OTHER -> "check")
    /\ UNCHANGED <<shared, http, history>>

ReadClock ==
    /\ pc = "read clock" /\ pc' = "write clock"
    /\ clock' = elapsed
    /\ UNCHANGED <<shared, steps, step, outcome, return, http, history>>

WriteClock ==
    /\ pc = "write clock" /\ pc' = "progress" /\ return' = "check"
    /\ elapsed' = Older(clock)
    /\ UNCHANGED <<definition, report, last, next, status, results, book, steps, step, outcome,
                   clock, http, history>>

Start(c) == \/ StartRequest(c) \/ PublishDefinition(c) \/ PublishReport(c)
            \/ RewindClock(c) \/ RewindSteps(c)

Stop(c) == \/ StopRequest(c) \/ Cancel(c) \/ Schedule(c) \/ CopyReport(c) \/ Undefine(c)
           \/ Unreport(c) \/ ResetClock(c) \/ StopAnswer(c)

Simulation ==
    \/ CheckDefinition \/ CheckReport \/ CheckStatus \/ ReadSteps \/ NextDueStep
    \/ ExecuteStep \/ RecordResult \/ LogStep \/ AdvanceIndex
    \/ UpdateProgress \/ UpdateCounters \/ UpdateSchedule
    \/ AllExecuted \/ SetTerminalStatus \/ PublishLast
    \/ ClearDefinition \/ ClearReport \/ ClearClock \/ ClearIndex
    \/ SimulationStep \/ CheckRunning \/ ReadClock \/ WriteClock

Next == Simulation \/ \E c \in Clients : Start(c) \/ Stop(c)

Spec == Init /\ [][Next]_vars

\* The simulation thread runs on, and a handler that has begun comes to its end;
\* no client is obliged to send a request.
FairSpec ==
    /\ Spec /\ WF_vars(Simulation)
    /\ \A c \in Clients : WF_vars(handler[c] # "idle" /\ (Start(c) \/ Stop(c)))

(* ------------------------------ properties ------------------------------ *)

RunOrNone == Runs \cup {0}
RunStatus == {"none", "running", "cancelled", "completed", "completed_with_failures"}

\* Where a handler and the simulation thread may be.
HandlerLabels == {"idle", "publish", "report", "rewind", "restart",
                  "cancel", "schedule", "copy", "undefine", "unreport", "reset", "answer"}

LoopLabels == {"check", "check report", "check status", "steps", "loop", "execute", "record",
               "log", "advance", "progress", "counters", "schedule", "finish?", "terminal",
               "publish last", "clear definition", "clear report", "clear clock", "clear index",
               "tick", "running?", "read clock", "write clock", "dead"}

\* No start has overlapped another one, and nobody has asked for a stop so far.
Undisturbed == stops = 0 /\ ~overlapped

\* The attributes of the executor are runs, statuses and counters in their ranges, the
\* results of a run belong to the steps of its runbook, and the index stays in the list of
\* steps that the loop holds, as long as only one handler at a time resets it.
TypeOK ==
    /\ definition \in RunOrNone /\ report \in RunOrNone
    /\ last \in [run : RunOrNone, status : RunStatus]
    /\ elapsed \in 0 .. Horizon /\ next \in Nat
    /\ status \in [Runs -> RunStatus]
    /\ \A r \in Runs : DOMAIN results[r] \subseteq DOMAIN book[r]
    /\ steps \in RunOrNone /\ handler \in [Clients -> HandlerLabels] /\ run \in [Clients -> RunOrNone]
    /\ pc \in LoopLabels
    /\ Undisturbed /\ pc \in {"loop", "execute", "advance"} => next <= Len(book[steps])

\* The simulation thread never dies of a report or a definition that another thread has
\* changed between two of its reads, as long as starts do not overlap and nobody asks for a
\* stop.  (Two starts that both pass the check replace the definition of a run under way,
\* and stop_runbook() takes it away: either may end the loop.)
LoopSurvives == Undisturbed => pc # "dead"

\* No step of a run is skipped: when it is executed, every step before it has been, and
\* a report that says completed has the result of every step of its runbook, none of
\* them failed unless it says so.  (A step may be executed twice: main.py:1770 resets the
\* index last, when the simulation thread may have begun the run already.)
NoStepSkipped ==
    \A j \in DOMAIN effects : effects[j][2] > 1 =>
        \E i \in 1 .. j - 1 : effects[i] = <<effects[j][1], effects[j][2] - 1>>

CompletedIsComplete ==
    \A r \in Runs : status[r] \in {"completed", "completed_with_failures"} =>
        /\ \A i \in DOMAIN book[r] : results[r][i] # "pending"
        /\ status[r] = "completed" => \A i \in DOMAIN book[r] : results[r][i] # "failed"

RunsAreWhole == Undisturbed => NoStepSkipped /\ CompletedIsComplete

\* No step is executed before its time has passed since its run was published.
NoStepBeforeItsTime ==
    [][Undisturbed /\ pc = "execute" /\ pc' = "record" => book[steps][step] <= age[steps]]_vars

\* Every runbook that is running comes to its end.
RunbooksEnd == IsRunning ~> ~IsRunning
=============================================================================
