---------------------------- MODULE RunbookProofs ----------------------------
(***************************************************************************)
(* Whatever the handlers, the runbooks and the requests: as long as starts *)
(* do not overlap and nobody asks for a stop, a start may interleave with  *)
(* the end of the run before in any way, and with the first steps of its   *)
(* own run, and the simulation thread survives, no step is skipped or      *)
(* executed early, and a report that says completed is complete.           *)
(***************************************************************************)
EXTENDS Runbook, TLAPS, SequenceTheorems

StepStatus == {"pending", "executed", "failed"}

\* What holds whatever the requests: every number of a run that is anywhere has been given
\* out, and the results in its report belong to the steps of its runbook.
Typed ==
    /\ started \in 0 .. MaxRuns /\ stops \in 0 .. MaxStops /\ overlapped \in BOOLEAN
    /\ definition \in 0 .. started /\ report \in 0 .. started /\ steps \in 0 .. started
    /\ last \in [run : RunOrNone, status : RunStatus]
    /\ elapsed \in 0 .. Horizon /\ clock \in 0 .. Horizon /\ next \in Nat /\ step \in Nat
    /\ status \in [Runs -> RunStatus] /\ age \in [Runs -> 0 .. Horizon]
    /\ book \in [Runs -> Books \cup {<<>>}]
    /\ \A r \in 1 .. started : book[r] \in Books
    /\ \A r \in Runs : r > started => status[r] = "none"
    /\ results \in [Runs -> Seq(StepStatus)]
    /\ \A r \in Runs : results[r] = <<>> \/ (r <= started /\ Len(results[r]) = Len(book[r]))
    /\ handler \in [Clients -> HandlerLabels] /\ run \in [Clients -> 0 .. started]
    /\ pc \in LoopLabels /\ outcome \in Outcomes /\ return \in {"loop", "check", "publish last"}
    /\ effects \in Seq(RunOrNone \X Nat)

(* -------------------- where the simulation thread is -------------------- *)

Updating == {"progress", "counters", "schedule"}

Executing ==
    \/ pc \in {"loop", "execute", "record", "log", "advance", "finish?", "terminal"}
    \/ pc \in Updating /\ return = "loop"

Ticking ==
    \/ pc \in {"running?", "read clock", "write clock"}
    \/ pc \in Updating /\ return = "check"

\* From the terminal status to the report's disappearance, and on to the counters'.
Ending ==
    \/ pc \in {"publish last", "clear definition", "clear report"}
    \/ pc \in Updating /\ return = "publish last"

Clearing == pc \in {"clear clock", "clear index"}

(* ----------------------------- the invariant ---------------------------- *)

\* The k-th step of a run has been executed.
Done(r, k) == \E j \in DOMAIN effects : effects[j] = <<r, k>>

\* One handler at most is at work: it starts the run that was numbered last, which has no
\* report yet until it publishes one, and then nobody else may start a run.
OneStart ==
    /\ \A c \in Clients : handler[c] = "idle" \/ (Starting(c) /\ run[c] = started /\ started # 0)
    /\ \A c, d \in Clients : handler[c] # "idle" /\ handler[d] # "idle" => c = d
    /\ \A c \in Clients : handler[c] \in {"publish", "report"} =>
          /\ status[started] = "none" /\ ~IsRunning /\ report # started
          /\ handler[c] = "publish" => definition # started
          /\ handler[c] = "report" => definition \in {0, started}

\* The report is running but while the thread ends its run, and the definition is its own,
\* if the thread has not cleared it.
ReportSound ==
    /\ report # 0 => IsRunning \/ Ending
    /\ IsRunning => definition \in {0, report}
    /\ Executing \/ pc = "steps" => report # 0 /\ IsRunning
    /\ Executing => report = steps
    /\ Ticking \/ pc = "check status" \/ Ending => report # 0
    /\ pc \in {"check report", "check status", "steps"} => definition # 0

\* While the thread ends its run, the index is at the end or at the beginning, and another
\* definition is that of the next run, whose report is published or about to be.
EndSound ==
    Ending =>
        /\ steps # 0 /\ (next = 0 \/ next >= Len(book[steps]))
        /\ definition \in {0, steps} \/ IsRunning \/ \E c \in Clients : handler[c] = "report"

\* The index and the clock: at their beginning as long as there is no report, then within
\* the runbook, behind what was executed and recorded, and not ahead of the ticks.
IndexSound ==
    /\ ~Ending /\ ~Clearing =>
          /\ report = 0 => next = 0 /\ elapsed = 0
          /\ report # 0 =>
                /\ next <= Len(book[report]) /\ elapsed <= age[report]
                /\ \A k \in 1 .. next : Done(report, k) /\ results[report][k] # "pending"
    /\ pc = "clear index" => elapsed = 0
    /\ IsRunning => Len(results[report]) = Len(book[report])

StepSound ==
    /\ pc \in {"execute", "record", "log", "advance"} => next < Len(book[steps])
    /\ pc = "execute" =>
          /\ step \in 1 .. Len(book[steps]) /\ book[steps][step] <= age[steps]
          /\ \A k \in 1 .. step - 1 : Done(steps, k)
          /\ next + 1 <= step
    /\ pc \in {"record", "log", "advance"} => \A k \in 1 .. next + 1 : Done(steps, k)
    /\ pc \in {"log", "advance"} => \A k \in 1 .. next + 1 : results[steps][k] # "pending"
    /\ pc = "terminal" =>
          /\ next = 0 \/ next >= Len(book[steps])
          /\ \A k \in 1 .. Len(book[steps]) : results[steps][k] # "pending"

\* What UpdateSchedule reads a second time is still there.
ScheduleSound == pc = "schedule" => StepsLeft

\* The clock read, and one tick more, does not run ahead of the ticks.
ClockSound ==
    /\ pc \in {"running?", "read clock", "write clock"} => Older(0) <= age[report]
    /\ pc \in {"running?", "read clock"} => Older(elapsed) <= age[report]
    /\ pc = "write clock" => Older(clock) <= age[report]

Sound ==
    /\ pc # "dead"
    /\ OneStart /\ ReportSound /\ EndSound /\ IndexSound /\ StepSound
    /\ ScheduleSound /\ ClockSound
    /\ NoStepSkipped /\ CompletedIsComplete

Inv == Typed /\ (Undisturbed => Sound)

(* --------------------------------- types -------------------------------- *)

LEMMA Bounds ==
    /\ MaxRuns \in Nat /\ MaxStops \in Nat /\ MaxRequests \in Nat /\ Horizon \in Nat
    /\ \A n \in 0 .. Horizon : Older(n) \in 0 .. Horizon
    /\ \A m, n \in 0 .. Horizon : m <= n => Older(m) <= Older(n) /\ m <= Older(n)
<1>1. MaxRuns \in Nat /\ MaxStops \in Nat /\ MaxRequests \in Nat /\ Horizon \in Nat
  BY BooksAssumption, Zenon
<1> QED BY <1>1, SMT DEF Older

\* A runbook has steps, and they are numbered.
LEMMA BookFacts ==
    ASSUME NEW b \in Books
    PROVE  /\ b \in Seq(0 .. Horizon) /\ Len(b) \in Nat \ {0} /\ DOMAIN b = 1 .. Len(b)
           /\ \A i \in 1 .. Len(b) : b[i] \in 0 .. Horizon
<1>1. b \in Seq(0 .. Horizon) /\ b # <<>>
  BY BooksAssumption, Zenon
<1>2. Len(b) \in Nat \ {0} /\ DOMAIN b = 1 .. Len(b)
  BY <1>1, EmptySeq, LenProperties, Zenon
<1>3. \A i \in 1 .. Len(b) : b[i] \in 0 .. Horizon
  BY <1>1, ElementOfSeq, Zenon
<1> QED BY <1>1, <1>2, <1>3, Zenon

LEMMA RunFacts ==
    ASSUME Typed
    PROVE  /\ started \in Nat /\ \A r \in 0 .. started : r \in RunOrNone
           /\ \A r \in 1 .. started : r \in Runs /\ r \in 0 .. started
           /\ 0 \in 0 .. started
           /\ \A r \in 0 .. started : r # 0 => r \in 1 .. started /\ r \in Runs /\ book[r] \in Books
<1>1. started \in 0 .. MaxRuns /\ \A r \in 1 .. started : book[r] \in Books
  BY Zenon DEF Typed
<1>2. /\ started \in Nat /\ \A r \in 0 .. started : r \in RunOrNone
      /\ \A r \in 1 .. started : r \in Runs /\ r \in 0 .. started
      /\ 0 \in 0 .. started
      /\ \A r \in 0 .. started : r # 0 => r \in 1 .. started
  BY <1>1, Bounds, SMT DEF Runs, RunOrNone
<1> QED BY <1>1, <1>2, Zenon

\* A step that only moves the simulation thread on.
LEMMA MovesTyped ==
    ASSUME Typed, UNCHANGED <<shared, http, history>>,
           pc' \in LoopLabels, outcome' \in Outcomes, return' \in {"loop", "check", "publish last"},
           steps' \in 0 .. started, step' \in Nat, clock' \in 0 .. Horizon
    PROVE  Typed'
BY Zenon DEF Typed, shared, http, history

LEMMA GoesTyped ==
    ASSUME Typed, UNCHANGED <<shared, http, history>>, NEW label \in LoopLabels, GoTo(label)
    PROVE  Typed'
<1>1. UNCHANGED <<steps, step, outcome, return, clock>> /\ pc' = label
  BY Zenon DEF GoTo
<1>2. /\ outcome' \in Outcomes /\ return' \in {"loop", "check", "publish last"}
      /\ steps' \in 0 .. started /\ step' \in Nat /\ clock' \in 0 .. Horizon
  BY <1>1, Zenon DEF Typed
<1> QED BY <1>1, <1>2, MovesTyped, Zenon

LEMMA ReadsTyped ==
    ASSUME Typed,
           \/ CheckDefinition \/ CheckReport \/ CheckStatus \/ ReadSteps \/ NextDueStep \/ LogStep
           \/ UpdateProgress \/ UpdateCounters \/ UpdateSchedule \/ AllExecuted
           \/ CheckRunning \/ ReadClock
    PROVE  Typed'
<1>1. return \in LoopLabels
  BY Zenon DEF Typed, LoopLabels
<1>2. CASE CheckDefinition
  <2>1. PICK label \in LoopLabels : GoTo(label)
    BY <1>2, Zenon DEF CheckDefinition, LoopLabels
  <2> QED BY <1>2, <2>1, GoesTyped, Zenon DEF CheckDefinition
<1>3. CASE CheckReport
  <2>1. PICK label \in LoopLabels : GoTo(label)
    BY <1>3, Zenon DEF CheckReport, LoopLabels
  <2> QED BY <1>3, <2>1, GoesTyped, Zenon DEF CheckReport
<1>4. CASE CheckStatus
  <2>1. PICK label \in LoopLabels : GoTo(label)
    BY <1>4, Zenon DEF CheckStatus, LoopLabels
  <2> QED BY <1>4, <2>1, GoesTyped, Zenon DEF CheckStatus
<1>5. CASE ReadSteps
  <2>1. /\ UNCHANGED <<step, outcome, return, clock>> /\ steps' = definition
        /\ pc' \in {"dead", "loop"} /\ UNCHANGED <<shared, http, history>>
    BY <1>5, Zenon DEF ReadSteps
  <2> QED BY <2>1, MovesTyped, Zenon DEF Typed, LoopLabels
<1>6. CASE NextDueStep
  <2>1. /\ UNCHANGED <<steps, outcome, return, clock>> /\ step' \in {step, next + 1}
        /\ pc' \in {"execute", "finish?"} /\ UNCHANGED <<shared, http, history>>
    BY <1>6, Zenon DEF NextDueStep
  <2>2. next \in Nat
    BY Zenon DEF Typed
  <2>3. next + 1 \in Nat
    BY <2>2, SMT
  <2> QED BY <2>1, <2>3, MovesTyped, Zenon DEF Typed, LoopLabels
<1>7. CASE LogStep
  <2>1. PICK label \in LoopLabels : GoTo(label)
    BY <1>7, Zenon DEF LogStep, LoopLabels
  <2> QED BY <1>7, <2>1, GoesTyped, Zenon DEF LogStep
<1>8. CASE UpdateProgress
  <2>1. PICK label \in LoopLabels : GoTo(label)
    BY <1>1, <1>8, Zenon DEF UpdateProgress, LoopLabels
  <2> QED BY <1>8, <2>1, GoesTyped, Zenon DEF UpdateProgress
<1>9. CASE UpdateCounters
  <2>1. PICK label \in LoopLabels : GoTo(label)
    BY <1>1, <1>9, Zenon DEF UpdateCounters, LoopLabels
  <2> QED BY <1>9, <2>1, GoesTyped, Zenon DEF UpdateCounters
<1>10. CASE UpdateSchedule
  <2>1. PICK label \in LoopLabels : GoTo(label)
    BY <1>1, <1>10, Zenon DEF UpdateSchedule, LoopLabels
  <2> QED BY <1>10, <2>1, GoesTyped, Zenon DEF UpdateSchedule
<1>11. CASE AllExecuted
  <2>1. PICK label \in LoopLabels : GoTo(label)
    BY <1>11, Zenon DEF AllExecuted, LoopLabels
  <2> QED BY <1>11, <2>1, GoesTyped, Zenon DEF AllExecuted
<1>12. CASE CheckRunning
  <2>1. PICK label \in LoopLabels : GoTo(label)
    BY <1>12, Zenon DEF CheckRunning, LoopLabels
  <2> QED BY <1>12, <2>1, GoesTyped, Zenon DEF CheckRunning
<1>13. CASE ReadClock
  <2>1. /\ UNCHANGED <<steps, step, outcome, return>> /\ clock' = elapsed
        /\ pc' = "write clock" /\ UNCHANGED <<shared, http, history>>
    BY <1>13, Zenon DEF ReadClock
  <2> QED BY <2>1, MovesTyped, Zenon DEF Typed, LoopLabels
<1> QED BY <1>2, <1>3, <1>4, <1>5, <1>6, <1>7, <1>8, <1>9, <1>10, <1>11, <1>12, <1>13, Zenon

\* The results in a report are numbered like the steps of the runbook.
WithResult(r, n, s) == [results EXCEPT ![r][n] = s]

LEMMA ResultTyped ==
    ASSUME Typed, NEW r \in 1 .. started, NEW n \in DOMAIN results[r], NEW s \in StepStatus,
           NEW changed, changed = WithResult(r, n, s)
    PROVE  /\ changed \in [Runs -> Seq(StepStatus)] /\ Len(changed[r]) = Len(book[r])
           /\ Len(results[r]) = Len(book[r]) /\ DOMAIN results[r] = 1 .. Len(book[r])
           /\ changed[r][n] = s /\ \A m \in DOMAIN results[r] : m # n => changed[r][m] = results[r][m]
           /\ \A q \in Runs : q # r => changed[q] = results[q]
<1>1. r \in Runs /\ results[r] \in Seq(StepStatus) /\ results \in [Runs -> Seq(StepStatus)]
  BY RunFacts, Zenon DEF Typed
<1>2. DOMAIN results[r] = 1 .. Len(results[r])
  BY <1>1, LenProperties, Zenon
<1> DEFINE longer == [results[r] EXCEPT ![n] = s]
<1>3. longer \in Seq(StepStatus) /\ Len(longer) = Len(results[r])
      /\ longer[n] = s /\ \A m \in DOMAIN results[r] : m # n => longer[m] = results[r][m]
  BY <1>1, <1>2, ExceptSeq, Zenon
<1>4. changed = [results EXCEPT ![r] = longer]
  BY Zenon DEF WithResult
<1>5. Len(results[r]) = Len(book[r])
  <2>1. results[r] # <<>>
    <3>1. \A m \in DOMAIN <<>> : FALSE
      BY SMT
    <3> QED BY <3>1, Zenon
  <2> QED BY <1>1, <2>1, Zenon DEF Typed
<1> HIDE DEF longer
<1> QED BY <1>1, <1>2, <1>3, <1>4, <1>5, Zenon

LEMMA WritesTyped ==
    ASSUME Typed,
           \/ ExecuteStep \/ RecordResult \/ AdvanceIndex \/ SetTerminalStatus \/ PublishLast
           \/ ClearDefinition \/ ClearReport \/ ClearClock \/ ClearIndex
           \/ SimulationStep \/ WriteClock
    PROVE  Typed'
<1>1. /\ started \in Nat /\ next \in Nat /\ 0 \in Nat /\ next + 1 \in Nat
      /\ 0 \in 0 .. started /\ 0 \in 0 .. Horizon
  <2>1. next \in Nat
    BY Zenon DEF Typed
  <2> QED BY <2>1, RunFacts, Bounds, SMT
<1>2. \A r \in 0 .. started : r \in RunOrNone
  BY RunFacts, Zenon
<1>3. CASE ExecuteStep
  <2>1. <<steps, step>> \in RunOrNone \X Nat
    BY <1>2, Zenon DEF Typed
  <2>2. effects' \in Seq(RunOrNone \X Nat)
    <3>1. effects \in Seq(RunOrNone \X Nat) /\ effects' = Append(effects, <<steps, step>>)
      BY <1>3, Zenon DEF Typed, ExecuteStep
    <3> QED BY <2>1, <3>1, AppendProperties
  <2> QED BY <1>3, <2>2, Zenon DEF Typed, ExecuteStep, shared, http, LoopLabels
<1>4. CASE RecordResult
  <2>1. CASE report # 0 /\ next + 1 \in DOMAIN results[report]
    <3>1. PICK r \in 1 .. started : r = report
      BY <2>1, RunFacts, Zenon DEF Typed
    <3>2. PICK n \in DOMAIN results[r] : n = next + 1
      BY <2>1, <3>1, Zenon
    <3>3. PICK s \in StepStatus : s = outcome
      BY Zenon DEF Typed, Outcomes, StepStatus
    <3>4. PICK changed : changed = results' /\ changed = WithResult(r, n, s)
      BY <1>4, <2>1, <3>1, <3>2, <3>3, Zenon DEF RecordResult, WithResult
    <3>5. /\ changed \in [Runs -> Seq(StepStatus)] /\ Len(changed[r]) = Len(book[r])
          /\ \A q \in Runs : q # r => changed[q] = results[q]
      <4>1. changed = WithResult(r, n, s)
        BY <3>4, Zenon
      <4>2. /\ changed \in [Runs -> Seq(StepStatus)] /\ Len(changed[r]) = Len(book[r])
            /\ Len(results[r]) = Len(book[r]) /\ DOMAIN results[r] = 1 .. Len(book[r])
            /\ changed[r][n] = s /\ \A m \in DOMAIN results[r] : m # n => changed[r][m] = results[r][m]
            /\ \A q \in Runs : q # r => changed[q] = results[q]
        BY ONLY Typed, <4>1, ResultTyped
      <4> QED BY ONLY <4>2, Zenon
    <3>6. /\ results' \in [Runs -> Seq(StepStatus)] /\ Len(results'[r]) = Len(book[r])
          /\ \A q \in Runs : q # r => results'[q] = results[q]
      BY <3>4, <3>5, Zenon
    <3>7. \A q \in Runs : results'[q] = <<>> \/ (q <= started /\ Len(results'[q]) = Len(book[q]))
      <4>1. r <= started
        BY <1>1, SMT
      <4> QED BY <3>6, <4>1, Zenon DEF Typed
    <3>8. /\ UNCHANGED <<definition, report, last, elapsed, next, status, book, http, history>>
          /\ UNCHANGED <<steps, step, outcome, return, clock>> /\ pc' = "log"
      BY <1>4, <2>1, Zenon DEF RecordResult, GoTo
    <3> QED BY <3>6, <3>7, <3>8, Zenon DEF Typed, http, history, LoopLabels
  <2>2. CASE ~(report # 0 /\ next + 1 \in DOMAIN results[report])
    <3>1. UNCHANGED <<shared, http, history>> /\ GoTo("dead") /\ "dead" \in LoopLabels
      BY <1>4, <2>2, Zenon DEF RecordResult, shared, LoopLabels
    <3> QED BY <3>1, GoesTyped, Zenon
  <2> QED BY <2>1, <2>2, Zenon
<1>5. CASE AdvanceIndex
  BY <1>1, <1>5, Zenon DEF Typed, AdvanceIndex, http, history, LoopLabels
<1>6. CASE SetTerminalStatus
  <2>1. CASE report = 0
    BY <1>6, <2>1, Zenon DEF Typed, SetTerminalStatus, GoTo, http, history, LoopLabels
  <2>2. CASE report # 0
    <3>1. PICK r \in 1 .. started : r = report
      BY <2>2, RunFacts, Zenon DEF Typed
    <3>2. r \in Runs /\ ~(r > started)
      BY <1>1, RunFacts, SMT
    <3>3. PICK s \in RunStatus : status' = [status EXCEPT ![r] = s]
      BY <1>6, <2>2, <3>1, Zenon DEF SetTerminalStatus, RunStatus
    <3>4. status' \in [Runs -> RunStatus] /\ \A q \in Runs : q > started => status'[q] = "none"
      BY <3>2, <3>3, Zenon DEF Typed
    <3> QED BY <1>6, <2>2, <3>4, Zenon DEF Typed, SetTerminalStatus, http, history, LoopLabels
  <2> QED BY <2>1, <2>2, Zenon
<1>7. CASE PublishLast
  <2>1. CASE report = 0
    BY <1>7, <2>1, Zenon DEF Typed, PublishLast, GoTo, http, history, LoopLabels
  <2>2. CASE report # 0
    <3>1. [run |-> report, status |-> status[report]] \in [run : RunOrNone, status : RunStatus]
      BY <1>2, <2>2, RunFacts, Zenon DEF Typed
    <3> QED BY <1>7, <2>2, <3>1, Zenon DEF Typed, PublishLast, GoTo, http, history, LoopLabels
  <2> QED BY <2>1, <2>2, Zenon
<1>8. CASE ClearDefinition
  BY <1>1, <1>8, Zenon DEF Typed, ClearDefinition, GoTo, http, history, LoopLabels
<1>9. CASE ClearReport
  BY <1>1, <1>9, Zenon DEF Typed, ClearReport, GoTo, http, history, LoopLabels
<1>10. CASE ClearClock
  BY <1>1, <1>10, Zenon DEF Typed, ClearClock, GoTo, http, history, LoopLabels
<1>11. CASE ClearIndex
  BY <1>1, <1>11, Zenon DEF Typed, ClearIndex, GoTo, http, history, LoopLabels
<1>12. CASE SimulationStep
  <2>1. age' \in [Runs -> 0 .. Horizon]
    BY <1>12, Bounds, Zenon DEF Typed, SimulationStep
  <2>2. pc' \in LoopLabels
    BY <1>12, Zenon DEF SimulationStep, GoTo, LoopLabels
  <2> QED BY <1>12, <2>1, <2>2, Zenon DEF Typed, SimulationStep, GoTo, shared, http
<1>13. CASE WriteClock
  <2>1. Older(clock) \in 0 .. Horizon
    BY Bounds, Zenon DEF Typed
  <2> QED BY <1>13, <2>1, Zenon DEF Typed, WriteClock, http, history, LoopLabels
<1> QED BY <1>3, <1>4, <1>5, <1>6, <1>7, <1>8, <1>9, <1>10, <1>11, <1>12, <1>13, Zenon

LEMMA StartTyped == ASSUME Typed, NEW c \in Clients, Start(c) PROVE Typed'
<1>1. /\ started \in Nat /\ 0 \in Nat /\ 0 \in 0 .. started /\ 0 \in 0 .. Horizon
      /\ run[c] \in 0 .. started /\ 0 \in RunOrNone
  <2>1. run[c] \in 0 .. started
    BY Zenon DEF Typed
  <2>2. 0 \in RunOrNone
    BY SMT DEF RunOrNone
  <2> QED BY <2>1, <2>2, RunFacts, Bounds, SMT
<1>2. CASE StartRequest(c)
  <2>1. /\ started < MaxRuns /\ started' = started + 1
        /\ run' = [run EXCEPT ![c] = started'] /\ handler' = [handler EXCEPT ![c] = "publish"]
        /\ overlapped' = (overlapped \/ \E d \in Clients : Starting(d))
        /\ UNCHANGED <<definition, report, last, elapsed, next, status, results, loop,
                       stops, age, effects>>
    BY <1>2, Zenon DEF StartRequest
  <2>2. PICK b \in Books : book' = [book EXCEPT ![started'] = b]
    BY <1>2, Zenon DEF StartRequest
  <2>3. /\ started' \in 0 .. MaxRuns /\ started' \in Runs /\ started' \in 0 .. started'
        /\ started' > started
        /\ \A r \in 0 .. started : r \in 0 .. started'
        /\ \A r \in 1 .. started' : r = started' \/ r \in 1 .. started
        /\ \A r \in Runs : r > started' => r > started
        /\ \A r \in Runs : r <= started => r <= started' /\ r # started'
    BY <1>1, <2>1, Bounds, SMT DEF Runs
  <2>4. /\ book' \in [Runs -> Books \cup {<<>>}] /\ book'[started'] = b
        /\ \A r \in Runs : r # started' => book'[r] = book[r]
    BY <2>2, <2>3, Zenon DEF Typed
  <2>5. \A r \in 1 .. started' : book'[r] \in Books
    <3>1. \A r \in 1 .. started : r \in Runs /\ r # started'
      BY <1>1, <2>1, RunFacts, SMT
    <3> QED BY <2>3, <2>4, <3>1, Zenon DEF Typed
  <2>6. \A r \in Runs : results'[r] = <<>> \/ (r <= started' /\ Len(results'[r]) = Len(book'[r]))
    BY <2>1, <2>3, <2>4, Zenon DEF Typed
  <2>7. run' \in [Clients -> 0 .. started'] /\ handler' \in [Clients -> HandlerLabels]
    BY <2>1, <2>3, Zenon DEF Typed, HandlerLabels
  <2>8. overlapped' \in BOOLEAN
    BY <2>1, Zenon
  <2>9. definition' \in 0 .. started' /\ report' \in 0 .. started' /\ steps' \in 0 .. started'
    BY <2>1, <2>3, Zenon DEF Typed, loop
  <2> QED BY <2>1, <2>3, <2>4, <2>5, <2>6, <2>7, <2>8, <2>9, Zenon DEF Typed, loop
<1>3. CASE PublishDefinition(c)
  <2>1. last' \in [run : RunOrNone, status : RunStatus]
    BY <1>1, <1>3, Zenon DEF PublishDefinition, RunStatus
  <2>2. handler' \in [Clients -> HandlerLabels]
    BY <1>3, Zenon DEF PublishDefinition, Typed, HandlerLabels
  <2> QED BY <1>1, <1>3, <2>1, <2>2, Zenon DEF Typed, PublishDefinition, loop, history
<1>4. CASE PublishReport(c)
  <2>1. PICK r \in 0 .. started : r = run[c]
    BY <1>1, Zenon
  <2> DEFINE list == [i \in DOMAIN book[r] |-> "pending"]
  <2>2. /\ report' = r /\ status' = [status EXCEPT ![r] = "running"]
        /\ results' = [results EXCEPT ![r] = list]
        /\ handler' = [handler EXCEPT ![c] = "rewind"]
        /\ UNCHANGED <<definition, last, elapsed, next, book, loop, run, history>>
    BY <1>4, <2>1, Zenon DEF PublishReport
  <2>3. handler' \in [Clients -> HandlerLabels]
    BY <2>2, Zenon DEF Typed, HandlerLabels
  <2>4. \A q \in Runs : q > started => q # r
    BY <1>1, <2>1, SMT DEF Runs
  <2>5. status' \in [Runs -> RunStatus] /\ \A q \in Runs : q > started => status'[q] = "none"
    BY <2>2, <2>4, Zenon DEF Typed, RunStatus
  <2>6. r # 0 => list \in Seq(StepStatus) /\ Len(list) = Len(book[r])
    <3> HAVE r # 0
    <3>1. Len(book[r]) \in Nat /\ DOMAIN book[r] = 1 .. Len(book[r])
      BY RunFacts, BookFacts, Zenon
    <3>2. list \in [1 .. Len(book[r]) -> StepStatus]
      BY <3>1, Zenon DEF StepStatus
    <3> HIDE DEF list
    <3>3. list \in Seq(StepStatus)
      BY <3>1, <3>2, SeqDef, Zenon
    <3>4. DOMAIN list = 1 .. Len(list) /\ Len(list) \in Nat /\ DOMAIN list = 1 .. Len(book[r])
      BY <3>2, <3>3, LenProperties, Zenon
    <3> QED BY <3>1, <3>3, <3>4, SMT
  <2> HIDE DEF list
  <2>7. \A q \in Runs : results'[q] = IF q = r THEN list ELSE results[q]
    BY <2>2, Zenon DEF Typed
  <2>8. \A q \in Runs : q # 0
    BY SMT DEF Runs
  <2>9. results' \in [Runs -> Seq(StepStatus)]
    BY <2>2, <2>6, <2>8, Zenon DEF Typed
  <2>10. \A q \in Runs : results'[q] = <<>> \/ (q <= started /\ Len(results'[q]) = Len(book[q]))
    <3>1. r <= started
      BY <1>1, <2>1, SMT
    <3> QED BY <2>6, <2>7, <2>8, <3>1, Zenon DEF Typed
  <2> QED BY <2>1, <2>2, <2>3, <2>5, <2>9, <2>10, Zenon DEF Typed, loop, history
<1>5. CASE RewindClock(c)
  <2>1. handler' \in [Clients -> HandlerLabels]
    BY <1>5, Zenon DEF RewindClock, Typed, HandlerLabels
  <2> QED BY <1>1, <1>5, <2>1, Zenon DEF Typed, RewindClock, loop, history
<1>6. CASE RewindSteps(c)
  <2>1. handler' \in [Clients -> HandlerLabels] /\ run' \in [Clients -> 0 .. started]
    BY <1>1, <1>6, Zenon DEF RewindSteps, Typed, HandlerLabels
  <2> QED BY <1>1, <1>6, <2>1, Zenon DEF Typed, RewindSteps, loop, history
<1> QED BY <1>2, <1>3, <1>4, <1>5, <1>6, Zenon DEF Start

LEMMA StopTyped == ASSUME Typed, NEW c \in Clients, Stop(c) PROVE Typed'
<1>1. /\ started \in Nat /\ 0 \in Nat /\ 0 \in 0 .. started /\ 0 \in 0 .. Horizon
  BY RunFacts, Bounds, SMT
<1>2. CASE StopRequest(c)
  <2>1. handler' \in [Clients -> HandlerLabels]
    BY <1>2, Zenon DEF StopRequest, Typed, HandlerLabels
  <2>2. stops' \in 0 .. MaxStops
    <3>1. stops \in 0 .. MaxStops /\ stops < MaxStops /\ stops' = stops + 1
      BY <1>2, Zenon DEF StopRequest, Typed
    <3> QED BY <3>1, Bounds, SMT
  <2> QED BY <1>2, <2>1, <2>2, Zenon DEF Typed, StopRequest, shared, loop
<1>3. CASE Cancel(c)
  <2>1. handler' \in [Clients -> HandlerLabels]
    BY <1>3, Zenon DEF Cancel, Handle, Typed, HandlerLabels
  <2>2. \A q \in Runs : q > started => q # report
    <3>1. report \in 0 .. started
      BY Zenon DEF Typed
    <3> QED BY <1>1, <3>1, SMT DEF Runs
  <2>3. status' \in [Runs -> RunStatus] /\ \A q \in Runs : q > started => status'[q] = "none"
    BY <1>3, <2>2, Zenon DEF Cancel, Typed, RunStatus
  <2> QED BY <1>3, <2>1, <2>3, Zenon DEF Typed, Cancel, Handle, loop, history
<1>4. CASE Schedule(c)
  <2>1. handler' \in [Clients -> HandlerLabels]
    BY <1>4, Zenon DEF Schedule, Handle, Typed, HandlerLabels
  <2> QED BY <1>4, <2>1, Zenon DEF Typed, Schedule, Handle, shared, loop, history
<1>5. CASE CopyReport(c)
  <2>1. handler' \in [Clients -> HandlerLabels]
    BY <1>5, Zenon DEF CopyReport, Handle, Typed, HandlerLabels
  <2>2. last' \in [run : RunOrNone, status : RunStatus]
    <3>1. report # 0 => [run |-> report, status |-> status[report]]
                         \in [run : RunOrNone, status : RunStatus]
      BY RunFacts, Zenon DEF Typed
    <3> QED BY <1>5, <3>1, Zenon DEF CopyReport, Typed
  <2> QED BY <1>5, <2>1, <2>2, Zenon DEF Typed, CopyReport, Handle, loop, history
<1>6. CASE Undefine(c)
  <2>1. handler' \in [Clients -> HandlerLabels]
    BY <1>6, Zenon DEF Undefine, Typed, HandlerLabels
  <2> QED BY <1>1, <1>6, <2>1, Zenon DEF Typed, Undefine, loop, history
<1>7. CASE Unreport(c)
  <2>1. handler' \in [Clients -> HandlerLabels]
    BY <1>7, Zenon DEF Unreport, Typed, HandlerLabels
  <2> QED BY <1>1, <1>7, <2>1, Zenon DEF Typed, Unreport, loop, history
<1>8. CASE ResetClock(c)
  <2>1. handler' \in [Clients -> HandlerLabels]
    BY <1>8, Zenon DEF ResetClock, Typed, HandlerLabels
  <2> QED BY <1>1, <1>8, <2>1, Zenon DEF Typed, ResetClock, loop, history
<1>9. CASE StopAnswer(c)
  <2>1. handler' \in [Clients -> HandlerLabels]
    BY <1>9, Zenon DEF StopAnswer, Typed, HandlerLabels
  <2> QED BY <1>1, <1>9, <2>1, Zenon DEF Typed, StopAnswer, loop, history
<1> QED BY <1>2, <1>3, <1>4, <1>5, <1>6, <1>7, <1>8, <1>9, Zenon DEF Stop

(* ------------------ as long as the executor is undisturbed -------------- *)

\* A step that only moves the simulation thread on.
LEMMA Quiet ==
    ASSUME Sound, UNCHANGED <<shared, http, history>>
    PROVE  /\ UNCHANGED <<definition, report, elapsed, next, status, results, book>>
           /\ UNCHANGED <<handler, age, effects>>
           /\ IsRunning' = IsRunning /\ StepsLeft' = StepsLeft
           /\ \A r, k : Done(r, k)' = Done(r, k)
           /\ OneStart' /\ NoStepSkipped' /\ CompletedIsComplete'
<1>1. UNCHANGED <<definition, report, elapsed, next, status, results, book, handler, run,
                  started, age, effects>>
  BY Zenon DEF shared, http, history
<1>2. IsRunning' = IsRunning /\ StepsLeft' = StepsLeft
  BY <1>1, Zenon DEF IsRunning, StepsLeft
<1>3. \A r, k : Done(r, k)' = Done(r, k)
  BY <1>1, Zenon DEF Done
<1>4. OneStart'
  BY <1>1, <1>2, Zenon DEF Sound, OneStart, Starting
<1>5. NoStepSkipped' /\ CompletedIsComplete'
  BY <1>1, Zenon DEF Sound, NoStepSkipped, CompletedIsComplete
<1> QED BY <1>1, <1>2, <1>3, <1>4, <1>5, Zenon

LEMMA CheckDefinitionSound == ASSUME Typed, Sound, CheckDefinition PROVE Sound'
<1>1. pc = "check" /\ UNCHANGED <<shared, http, history>>
  BY Zenon DEF CheckDefinition
<1>2. /\ UNCHANGED <<definition, report, elapsed, next, status, results, book>>
      /\ UNCHANGED <<handler, age, effects>>
      /\ IsRunning' = IsRunning /\ StepsLeft' = StepsLeft
      /\ \A r, k : Done(r, k)' = Done(r, k)
      /\ OneStart' /\ NoStepSkipped' /\ CompletedIsComplete'
  BY <1>1, Quiet, Zenon
<1>3. pc' # "dead"
  BY <1>1, Zenon DEF CheckDefinition, GoTo, Sound, ReportSound, ScheduleSound, Executing, Ticking, Ending, Clearing, Updating
<1>4. ReportSound'
  BY <1>1, <1>2, Zenon DEF CheckDefinition, GoTo, Sound, ReportSound, Executing, Ticking, Ending, Clearing, Updating
<1>5. EndSound'
  BY <1>1, <1>2, Zenon DEF CheckDefinition, GoTo, Sound, EndSound, ReportSound, Executing, Ticking, Ending, Clearing, Updating
<1>6. IndexSound'
  BY <1>1, <1>2, Zenon DEF CheckDefinition, GoTo, Sound, IndexSound, ReportSound, Executing, Ticking, Ending, Clearing, Updating
<1>7. StepSound'
  BY <1>1, <1>2, Zenon DEF CheckDefinition, GoTo, Sound, StepSound, ReportSound, Executing, Ticking, Ending, Clearing, Updating
<1>8. ScheduleSound'
  BY <1>1, <1>2, Zenon DEF CheckDefinition, GoTo, Sound, ScheduleSound, StepSound
<1>9. ClockSound'
  BY <1>1, <1>2, Zenon DEF CheckDefinition, GoTo, Sound, ClockSound
<1> QED BY <1>2, <1>3, <1>4, <1>5, <1>6, <1>7, <1>8, <1>9, Zenon DEF Sound

LEMMA CheckReportSound == ASSUME Typed, Sound, CheckReport PROVE Sound'
<1>1. pc = "check report" /\ UNCHANGED <<shared, http, history>>
  BY Zenon DEF CheckReport
<1>2. /\ UNCHANGED <<definition, report, elapsed, next, status, results, book>>
      /\ UNCHANGED <<handler, age, effects>>
      /\ IsRunning' = IsRunning /\ StepsLeft' = StepsLeft
      /\ \A r, k : Done(r, k)' = Done(r, k)
      /\ OneStart' /\ NoStepSkipped' /\ CompletedIsComplete'
  BY <1>1, Quiet, Zenon
<1>3. pc' # "dead"
  BY <1>1, Zenon DEF CheckReport, GoTo, Sound, ReportSound, ScheduleSound, Executing, Ticking, Ending, Clearing, Updating
<1>4. ReportSound'
  BY <1>1, <1>2, Zenon DEF CheckReport, GoTo, Sound, ReportSound, Executing, Ticking, Ending, Clearing, Updating
<1>5. EndSound'
  BY <1>1, <1>2, Zenon DEF CheckReport, GoTo, Sound, EndSound, ReportSound, Executing, Ticking, Ending, Clearing, Updating
<1>6. IndexSound'
  BY <1>1, <1>2, Zenon DEF CheckReport, GoTo, Sound, IndexSound, ReportSound, Executing, Ticking, Ending, Clearing, Updating
<1>7. StepSound'
  BY <1>1, <1>2, Zenon DEF CheckReport, GoTo, Sound, StepSound, ReportSound, Executing, Ticking, Ending, Clearing, Updating
<1>8. ScheduleSound'
  BY <1>1, <1>2, Zenon DEF CheckReport, GoTo, Sound, ScheduleSound, StepSound
<1>9. ClockSound'
  BY <1>1, <1>2, Zenon DEF CheckReport, GoTo, Sound, ClockSound
<1> QED BY <1>2, <1>3, <1>4, <1>5, <1>6, <1>7, <1>8, <1>9, Zenon DEF Sound

LEMMA CheckStatusSound == ASSUME Typed, Sound, CheckStatus PROVE Sound'
<1>1. pc = "check status" /\ UNCHANGED <<shared, http, history>>
  BY Zenon DEF CheckStatus
<1>2. /\ UNCHANGED <<definition, report, elapsed, next, status, results, book>>
      /\ UNCHANGED <<handler, age, effects>>
      /\ IsRunning' = IsRunning /\ StepsLeft' = StepsLeft
      /\ \A r, k : Done(r, k)' = Done(r, k)
      /\ OneStart' /\ NoStepSkipped' /\ CompletedIsComplete'
  BY <1>1, Quiet, Zenon
<1>3. pc' # "dead"
  BY <1>1, Zenon DEF CheckStatus, GoTo, Sound, ReportSound, ScheduleSound, Executing, Ticking, Ending, Clearing, Updating
<1>4. ReportSound'
  BY <1>1, <1>2, Zenon DEF CheckStatus, GoTo, Sound, ReportSound, Executing, Ticking, Ending, Clearing, Updating
<1>5. EndSound'
  BY <1>1, <1>2, Zenon DEF CheckStatus, GoTo, Sound, EndSound, ReportSound, Executing, Ticking, Ending, Clearing, Updating
<1>6. IndexSound'
  BY <1>1, <1>2, Zenon DEF CheckStatus, GoTo, Sound, IndexSound, ReportSound, Executing, Ticking, Ending, Clearing, Updating
<1>7. StepSound'
  BY <1>1, <1>2, Zenon DEF CheckStatus, GoTo, Sound, StepSound, ReportSound, Executing, Ticking, Ending, Clearing, Updating
<1>8. ScheduleSound'
  BY <1>1, <1>2, Zenon DEF CheckStatus, GoTo, Sound, ScheduleSound, StepSound
<1>9. ClockSound'
  BY <1>1, <1>2, Zenon DEF CheckStatus, GoTo, Sound, ClockSound
<1> QED BY <1>2, <1>3, <1>4, <1>5, <1>6, <1>7, <1>8, <1>9, Zenon DEF Sound

LEMMA ReadStepsSound == ASSUME Typed, Sound, ReadSteps PROVE Sound'
<1>1. pc = "steps" /\ UNCHANGED <<shared, http, history>>
  BY Zenon DEF ReadSteps
<1>2. /\ UNCHANGED <<definition, report, elapsed, next, status, results, book>>
      /\ UNCHANGED <<handler, age, effects>>
      /\ IsRunning' = IsRunning /\ StepsLeft' = StepsLeft
      /\ \A r, k : Done(r, k)' = Done(r, k)
      /\ OneStart' /\ NoStepSkipped' /\ CompletedIsComplete'
  BY <1>1, Quiet, Zenon
<1>3. pc' # "dead"
  BY <1>1, Zenon DEF ReadSteps, GoTo, Sound, ReportSound, ScheduleSound, Executing, Ticking, Ending, Clearing, Updating
<1>4. ReportSound'
  BY <1>1, <1>2, Zenon DEF ReadSteps, GoTo, Sound, ReportSound, Executing, Ticking, Ending, Clearing, Updating
<1>5. EndSound'
  BY <1>1, <1>2, Zenon DEF ReadSteps, GoTo, Sound, EndSound, ReportSound, Executing, Ticking, Ending, Clearing, Updating
<1>6. IndexSound'
  BY <1>1, <1>2, Zenon DEF ReadSteps, GoTo, Sound, IndexSound, ReportSound, Executing, Ticking, Ending, Clearing, Updating
<1>7. StepSound'
  BY <1>1, <1>2, Zenon DEF ReadSteps, GoTo, Sound, StepSound, ReportSound, Executing, Ticking, Ending, Clearing, Updating
<1>8. ScheduleSound'
  BY <1>1, <1>2, Zenon DEF ReadSteps, GoTo, Sound, ScheduleSound, StepSound
<1>9. ClockSound'
  BY <1>1, <1>2, Zenon DEF ReadSteps, GoTo, Sound, ClockSound
<1> QED BY <1>2, <1>3, <1>4, <1>5, <1>6, <1>7, <1>8, <1>9, Zenon DEF Sound

LEMMA NextDueStepSound == ASSUME Typed, Sound, NextDueStep PROVE Sound'
<1>1. pc = "loop" /\ UNCHANGED <<shared, http, history>>
  BY Zenon DEF NextDueStep
<1>2. /\ UNCHANGED <<definition, report, elapsed, next, status, results, book>>
      /\ UNCHANGED <<handler, age, effects>>
      /\ IsRunning' = IsRunning /\ StepsLeft' = StepsLeft
      /\ \A r, k : Done(r, k)' = Done(r, k)
      /\ OneStart' /\ NoStepSkipped' /\ CompletedIsComplete'
  BY <1>1, Quiet, Zenon
<1>3. pc' # "dead"
  BY <1>1, Zenon DEF NextDueStep, GoTo, Sound, ReportSound, ScheduleSound, Executing, Ticking, Ending, Clearing, Updating
<1>4. ReportSound'
  BY <1>1, <1>2, Zenon DEF NextDueStep, GoTo, Sound, ReportSound, Executing, Ticking, Ending, Clearing, Updating
<1>5. EndSound'
  BY <1>1, <1>2, Zenon DEF NextDueStep, GoTo, Sound, EndSound, ReportSound, Executing, Ticking, Ending, Clearing, Updating
<1>6. IndexSound'
  BY <1>1, <1>2, Zenon DEF NextDueStep, GoTo, Sound, IndexSound, ReportSound, Executing, Ticking, Ending, Clearing, Updating
<1>7. StepSound'
  <2>1. CASE next < Len(book[steps]) /\ Due(next + 1)
    <3>1. pc' = "execute" /\ step' = next + 1 /\ steps' = steps
      BY <2>1, Zenon DEF NextDueStep
    <3>2. report = steps /\ report # 0 /\ ~Ending /\ ~Clearing
      BY <1>1, Zenon DEF Sound, ReportSound, Executing, Ending, Clearing, Updating
    <3>3. elapsed <= age[steps] /\ \A k \in 1 .. next : Done(steps, k)
      BY <3>2, Zenon DEF Sound, IndexSound
    <3>4. /\ elapsed \in 0 .. Horizon /\ age[steps] \in 0 .. Horizon /\ next \in Nat
          /\ book[steps] \in Books
      BY <3>2, RunFacts, Zenon DEF Typed
    <3>5. Len(book[steps]) \in Nat /\ \A i \in 1 .. Len(book[steps]) : book[steps][i] \in 0 .. Horizon
      BY <3>4, BookFacts, Zenon
    <3>6. /\ next + 1 \in 1 .. Len(book[steps]) /\ next + 1 <= next + 1
          /\ \A k \in 1 .. (next + 1) - 1 : k \in 1 .. next
      BY <2>1, <3>4, <3>5, SMT
    <3>7. book[steps][next + 1] <= age[steps]
      <4>1. book[steps][next + 1] \in 0 .. Horizon /\ book[steps][next + 1] <= elapsed
        BY <2>1, <3>5, <3>6, Zenon DEF Due
      <4>2. \A m, n, o \in 0 .. Horizon : m <= n /\ n <= o => m <= o
        BY Bounds, SMT
      <4> QED BY <3>3, <3>4, <4>1, <4>2, Zenon
    <3> QED BY <1>2, <2>1, <3>1, <3>3, <3>6, <3>7, Zenon DEF StepSound
  <2>2. CASE ~(next < Len(book[steps]) /\ Due(next + 1))
    <3>1. pc' = "finish?"
      BY <2>2, Zenon DEF NextDueStep
    <3> QED BY <3>1, Zenon DEF StepSound
  <2> QED BY <2>1, <2>2, Zenon
<1>8. ScheduleSound'
  BY <1>1, <1>2, Zenon DEF NextDueStep, GoTo, Sound, ScheduleSound, StepSound
<1>9. ClockSound'
  BY <1>1, <1>2, Zenon DEF NextDueStep, GoTo, Sound, ClockSound
<1> QED BY <1>2, <1>3, <1>4, <1>5, <1>6, <1>7, <1>8, <1>9, Zenon DEF Sound

LEMMA LogStepSound == ASSUME Typed, Sound, LogStep PROVE Sound'
<1>1. pc = "log" /\ UNCHANGED <<shared, http, history>>
  BY Zenon DEF LogStep
<1>2. /\ UNCHANGED <<definition, report, elapsed, next, status, results, book>>
      /\ UNCHANGED <<handler, age, effects>>
      /\ IsRunning' = IsRunning /\ StepsLeft' = StepsLeft
      /\ \A r, k : Done(r, k)' = Done(r, k)
      /\ OneStart' /\ NoStepSkipped' /\ CompletedIsComplete'
  BY <1>1, Quiet, Zenon
<1>3. pc' # "dead"
  BY <1>1, Zenon DEF LogStep, GoTo, Sound, ReportSound, ScheduleSound, Executing, Ticking, Ending, Clearing, Updating
<1>4. ReportSound'
  BY <1>1, <1>2, Zenon DEF LogStep, GoTo, Sound, ReportSound, Executing, Ticking, Ending, Clearing, Updating
<1>5. EndSound'
  BY <1>1, <1>2, Zenon DEF LogStep, GoTo, Sound, EndSound, ReportSound, Executing, Ticking, Ending, Clearing, Updating
<1>6. IndexSound'
  BY <1>1, <1>2, Zenon DEF LogStep, GoTo, Sound, IndexSound, ReportSound, Executing, Ticking, Ending, Clearing, Updating
<1>7. StepSound'
  BY <1>1, <1>2, Zenon DEF LogStep, GoTo, Sound, StepSound, ReportSound, Executing, Ticking, Ending, Clearing, Updating
<1>8. ScheduleSound'
  BY <1>1, <1>2, Zenon DEF LogStep, GoTo, Sound, ScheduleSound, StepSound
<1>9. ClockSound'
  BY <1>1, <1>2, Zenon DEF LogStep, GoTo, Sound, ClockSound
<1> QED BY <1>2, <1>3, <1>4, <1>5, <1>6, <1>7, <1>8, <1>9, Zenon DEF Sound

\* _update_runbook_progress() comes to its end, or to its next read.
LEMMA Updates ==
    ASSUME Typed, Sound, UNCHANGED <<shared, http, history>>,
           UNCHANGED <<steps, step, outcome, return, clock>>,
           pc \in Updating, pc' \in Updating \cup {return}, pc' = "schedule" => StepsLeft
    PROVE  Sound'
<1>1. return \in {"loop", "check", "publish last"}
  BY Zenon DEF Typed
<1>2. /\ UNCHANGED <<definition, report, elapsed, next, status, results, book>>
      /\ UNCHANGED <<handler, age, effects>>
      /\ IsRunning' = IsRunning /\ StepsLeft' = StepsLeft
      /\ \A r, k : Done(r, k)' = Done(r, k)
      /\ OneStart' /\ NoStepSkipped' /\ CompletedIsComplete'
  BY Quiet, Zenon
<1>3. /\ pc' \in {"progress", "counters", "schedule", "loop", "check", "publish last"}
      /\ pc \in {"progress", "counters", "schedule"} /\ return' = return
  BY <1>1, Zenon DEF Updating
<1>4. \/ Executing /\ Executing' /\ ~Ticking /\ ~Ending /\ ~Ticking' /\ ~Ending'
      \/ Ticking /\ Ticking' /\ ~Executing /\ ~Ending /\ ~Executing' /\ ~Ending'
      \/ Ending /\ Ending' /\ ~Executing /\ ~Ticking /\ ~Executing' /\ ~Ticking'
      \/ /\ Ticking /\ pc' = "check"
         /\ ~Executing /\ ~Ending /\ ~Executing' /\ ~Ending' /\ ~Ticking'
  <2>1. CASE return = "loop"
    <3>1. pc' \in {"progress", "counters", "schedule", "loop"}
      BY <2>1, Zenon DEF Updating
    <3>2. Executing /\ ~Ticking /\ ~Ending
      BY <1>3, <2>1, Zenon DEF Executing, Ticking, Ending, Updating
    <3>3. Executing' /\ ~Ticking' /\ ~Ending'
      BY <1>3, <2>1, <3>1, Zenon DEF Executing, Ticking, Ending, Updating
    <3> QED BY <3>2, <3>3, Zenon
  <2>2. CASE return = "check"
    <3>1. pc' \in {"progress", "counters", "schedule", "check"}
      BY <2>2, Zenon DEF Updating
    <3>2. Ticking /\ ~Executing /\ ~Ending
      BY <1>3, <2>2, Zenon DEF Executing, Ticking, Ending, Updating
    <3>3. ~Executing' /\ ~Ending' /\ (Ticking' \/ pc' = "check")
      BY <1>3, <2>2, <3>1, Zenon DEF Executing, Ticking, Ending, Updating
    <3>4. pc' = "check" => ~Ticking'
      BY Zenon DEF Ticking, Updating
    <3> QED BY <3>2, <3>3, <3>4, Zenon
  <2>3. CASE return = "publish last"
    <3>1. pc' \in {"progress", "counters", "schedule", "publish last"}
      BY <2>3, Zenon DEF Updating
    <3>2. Ending /\ ~Ticking /\ ~Executing
      BY <1>3, <2>3, Zenon DEF Executing, Ticking, Ending, Updating
    <3>3. Ending' /\ ~Ticking' /\ ~Executing'
      BY <1>3, <2>3, <3>1, Zenon DEF Executing, Ticking, Ending, Updating
    <3> QED BY <3>2, <3>3, Zenon
  <2> QED BY <1>1, <2>1, <2>2, <2>3, Zenon
<1>5. ~Clearing /\ ~Clearing'
  BY <1>3, Zenon DEF Clearing
<1>6. ReportSound'
  <2>1. pc' \notin {"check status", "check report", "steps"}
    BY <1>3, Zenon
  <2> QED BY <1>2, <1>4, <2>1, Zenon DEF Sound, ReportSound
<1>7. EndSound'
  BY <1>2, <1>4, Zenon DEF Sound, EndSound
<1>8. IndexSound'
  <2>1. pc' # "clear index"
    BY <1>3, Zenon
  <2> QED BY <1>2, <1>4, <1>5, <2>1, Zenon DEF Sound, IndexSound
<1>9. StepSound' /\ ClockSound'
  <2>1. pc' \notin {"execute", "record", "log", "advance", "terminal", "running?", "read clock",
                    "write clock"}
    BY <1>3, Zenon
  <2> QED BY <2>1, Zenon DEF StepSound, ClockSound
<1>10. ScheduleSound' /\ pc' # "dead"
  BY <1>2, <1>3, Zenon DEF ScheduleSound
<1> QED BY <1>2, <1>6, <1>7, <1>8, <1>9, <1>10, Zenon DEF Sound

LEMMA UpdatingReport == ASSUME Typed, Sound, pc \in Updating PROVE report # 0
<1>1. Executing \/ Ticking \/ Ending
  BY Zenon DEF Typed, Executing, Ticking, Ending
<1> QED BY <1>1, Zenon DEF Sound, ReportSound

LEMMA UpdateSound ==
    ASSUME Typed, Sound, UpdateProgress \/ UpdateCounters \/ UpdateSchedule PROVE Sound'
<1>1. report # 0 /\ pc \in Updating
  BY UpdatingReport, Zenon DEF UpdateProgress, UpdateCounters, UpdateSchedule, Updating
<1>2. /\ UNCHANGED <<shared, http, history>>
      /\ UNCHANGED <<steps, step, outcome, return, clock>>
  BY Zenon DEF UpdateProgress, UpdateCounters, UpdateSchedule, GoTo
<1>3. return # "schedule"
  BY Zenon DEF Typed
<1>4. pc' \in Updating \cup {return} /\ (pc' = "schedule" => StepsLeft)
  <2>1. CASE UpdateProgress
    BY <1>1, <2>1, Zenon DEF UpdateProgress, GoTo, Updating
  <2>2. CASE UpdateCounters
    BY <1>1, <1>3, <2>2, Zenon DEF UpdateCounters, GoTo, Updating
  <2>3. CASE UpdateSchedule
    <3>1. StepsLeft
      BY <2>3, Zenon DEF Sound, ScheduleSound, UpdateSchedule
    <3> QED BY <1>1, <1>3, <2>3, <3>1, Zenon DEF UpdateSchedule, GoTo
  <2> QED BY <2>1, <2>2, <2>3, Zenon
<1> QED BY <1>1, <1>2, <1>4, Updates, Zenon

LEMMA AllExecutedSound == ASSUME Typed, Sound, AllExecuted PROVE Sound'
<1>1. pc = "finish?" /\ UNCHANGED <<shared, http, history>>
  BY Zenon DEF AllExecuted
<1>2. /\ UNCHANGED <<definition, report, elapsed, next, status, results, book>>
      /\ UNCHANGED <<handler, age, effects>>
      /\ IsRunning' = IsRunning /\ StepsLeft' = StepsLeft
      /\ \A r, k : Done(r, k)' = Done(r, k)
      /\ OneStart' /\ NoStepSkipped' /\ CompletedIsComplete'
  BY <1>1, Quiet, Zenon
<1>3. pc' # "dead"
  BY <1>1, Zenon DEF AllExecuted, GoTo, Sound, ReportSound, ScheduleSound, Executing, Ticking, Ending, Clearing, Updating
<1>4. ReportSound'
  BY <1>1, <1>2, Zenon DEF AllExecuted, GoTo, Sound, ReportSound, Executing, Ticking, Ending, Clearing, Updating
<1>5. EndSound'
  BY <1>1, <1>2, Zenon DEF AllExecuted, GoTo, Sound, EndSound, ReportSound, Executing, Ticking, Ending, Clearing, Updating
<1>6. IndexSound'
  BY <1>1, <1>2, Zenon DEF AllExecuted, GoTo, Sound, IndexSound, ReportSound, Executing, Ticking, Ending, Clearing, Updating
<1>7. StepSound'
  <2>1. CASE next >= Len(book[steps])
    <3>1. report = steps /\ report # 0 /\ ~Ending /\ ~Clearing
      BY <1>1, Zenon DEF Sound, ReportSound, Executing, Ending, Clearing, Updating
    <3>2. next <= Len(book[steps]) /\ \A k \in 1 .. next : results[steps][k] # "pending"
      BY <3>1, Zenon DEF Sound, IndexSound
    <3>3. next \in Nat /\ book[steps] \in Books
      BY <3>1, RunFacts, Zenon DEF Typed
    <3>4. Len(book[steps]) \in Nat
      BY <3>3, BookFacts, Zenon
    <3>5. next = Len(book[steps])
      BY <2>1, <3>2, <3>3, <3>4, SMT
    <3>6. pc' = "terminal" /\ steps' = steps
      BY <2>1, Zenon DEF AllExecuted, GoTo
    <3> QED BY <1>2, <2>1, <3>2, <3>5, <3>6, Zenon DEF StepSound
  <2>2. CASE ~(next >= Len(book[steps]))
    <3>1. pc' = "tick"
      BY <2>2, Zenon DEF AllExecuted, GoTo
    <3> QED BY <3>1, Zenon DEF StepSound
  <2> QED BY <2>1, <2>2, Zenon
<1>8. ScheduleSound'
  BY <1>1, <1>2, Zenon DEF AllExecuted, GoTo, Sound, ScheduleSound, StepSound
<1>9. ClockSound'
  BY <1>1, <1>2, Zenon DEF AllExecuted, GoTo, Sound, ClockSound
<1> QED BY <1>2, <1>3, <1>4, <1>5, <1>6, <1>7, <1>8, <1>9, Zenon DEF Sound

LEMMA CheckRunningSound == ASSUME Typed, Sound, CheckRunning PROVE Sound'
<1>1. pc = "running?" /\ UNCHANGED <<shared, http, history>>
  BY Zenon DEF CheckRunning
<1>2. /\ UNCHANGED <<definition, report, elapsed, next, status, results, book>>
      /\ UNCHANGED <<handler, age, effects>>
      /\ IsRunning' = IsRunning /\ StepsLeft' = StepsLeft
      /\ \A r, k : Done(r, k)' = Done(r, k)
      /\ OneStart' /\ NoStepSkipped' /\ CompletedIsComplete'
  BY <1>1, Quiet, Zenon
<1>3. pc' # "dead"
  BY <1>1, Zenon DEF CheckRunning, GoTo, Sound, ReportSound, ScheduleSound, Executing, Ticking, Ending, Clearing, Updating
<1>4. ReportSound'
  BY <1>1, <1>2, Zenon DEF CheckRunning, GoTo, Sound, ReportSound, Executing, Ticking, Ending, Clearing, Updating
<1>5. EndSound'
  BY <1>1, <1>2, Zenon DEF CheckRunning, GoTo, Sound, EndSound, ReportSound, Executing, Ticking, Ending, Clearing, Updating
<1>6. IndexSound'
  BY <1>1, <1>2, Zenon DEF CheckRunning, GoTo, Sound, IndexSound, ReportSound, Executing, Ticking, Ending, Clearing, Updating
<1>7. StepSound'
  BY <1>1, <1>2, Zenon DEF CheckRunning, GoTo, Sound, StepSound, ReportSound, Executing, Ticking, Ending, Clearing, Updating
<1>8. ScheduleSound'
  BY <1>1, <1>2, Zenon DEF CheckRunning, GoTo, Sound, ScheduleSound, StepSound
<1>9. ClockSound'
  BY <1>1, <1>2, Zenon DEF CheckRunning, GoTo, Sound, ClockSound
<1> QED BY <1>2, <1>3, <1>4, <1>5, <1>6, <1>7, <1>8, <1>9, Zenon DEF Sound

LEMMA ReadClockSound == ASSUME Typed, Sound, ReadClock PROVE Sound'
<1>1. pc = "read clock" /\ UNCHANGED <<shared, http, history>>
  BY Zenon DEF ReadClock
<1>2. /\ UNCHANGED <<definition, report, elapsed, next, status, results, book>>
      /\ UNCHANGED <<handler, age, effects>>
      /\ IsRunning' = IsRunning /\ StepsLeft' = StepsLeft
      /\ \A r, k : Done(r, k)' = Done(r, k)
      /\ OneStart' /\ NoStepSkipped' /\ CompletedIsComplete'
  BY <1>1, Quiet, Zenon
<1>3. pc' # "dead"
  BY <1>1, Zenon DEF ReadClock, GoTo, Sound, ReportSound, ScheduleSound, Executing, Ticking, Ending, Clearing, Updating
<1>4. ReportSound'
  BY <1>1, <1>2, Zenon DEF ReadClock, GoTo, Sound, ReportSound, Executing, Ticking, Ending, Clearing, Updating
<1>5. EndSound'
  BY <1>1, <1>2, Zenon DEF ReadClock, GoTo, Sound, EndSound, ReportSound, Executing, Ticking, Ending, Clearing, Updating
<1>6. IndexSound'
  BY <1>1, <1>2, Zenon DEF ReadClock, GoTo, Sound, IndexSound, ReportSound, Executing, Ticking, Ending, Clearing, Updating
<1>7. StepSound'
  BY <1>1, <1>2, Zenon DEF ReadClock, GoTo, Sound, StepSound, ReportSound, Executing, Ticking, Ending, Clearing, Updating
<1>8. ScheduleSound'
  BY <1>1, <1>2, Zenon DEF ReadClock, GoTo, Sound, ScheduleSound, StepSound
<1>9. ClockSound'
  BY <1>1, <1>2, Zenon DEF ReadClock, GoTo, Sound, ClockSound
<1> QED BY <1>2, <1>3, <1>4, <1>5, <1>6, <1>7, <1>8, <1>9, Zenon DEF Sound

\* A step that changes neither the effects nor what a report says of its run.
LEMMA Kept ==
    ASSUME Sound, UNCHANGED <<report, status, results, book, effects, handler, run, started>>
    PROVE  /\ IsRunning' = IsRunning
           /\ \A r, k : Done(r, k)' = Done(r, k)
           /\ NoStepSkipped' /\ CompletedIsComplete'
<1>1. IsRunning' = IsRunning
  BY Zenon DEF IsRunning
<1>2. \A r, k : Done(r, k)' = Done(r, k)
  BY Zenon DEF Done
<1>3. NoStepSkipped' /\ CompletedIsComplete'
  BY Zenon DEF Sound, NoStepSkipped, CompletedIsComplete
<1> QED BY <1>1, <1>2, <1>3, Zenon

\* The effect is appended: what has been done stays done, and the new entry follows those
\* of the steps before it.
LEMMA ExecuteStepSound == ASSUME Typed, Sound, ExecuteStep PROVE Sound'
<1>1. /\ pc = "execute" /\ pc' = "record" /\ effects' = Append(effects, <<steps, step>>)
      /\ UNCHANGED <<definition, report, elapsed, next, status, results, book>>
      /\ UNCHANGED <<steps, step, return, clock, handler, run, started, age>>
  BY Zenon DEF ExecuteStep, shared, http
<1>2. IsRunning' = IsRunning
  BY <1>1, Zenon DEF IsRunning
<1>3. /\ Executing /\ Executing' /\ ~Ticking' /\ ~Ending /\ ~Ending' /\ ~Clearing
      /\ ~Ticking /\ ~Clearing'
  BY <1>1, Zenon DEF Executing, Ticking, Ending, Clearing, Updating
<1>4. report = steps /\ report # 0
  BY <1>3, Zenon DEF Sound, ReportSound
<1>5. effects \in Seq(RunOrNone \X Nat) /\ step \in Nat /\ next \in Nat /\ <<steps, step>> \in RunOrNone \X Nat
  BY RunFacts, Zenon DEF Typed
<1>6. /\ Len(effects) \in Nat /\ DOMAIN effects = 1 .. Len(effects)
      /\ DOMAIN effects' = 1 .. Len(effects) + 1
      /\ \A i \in 1 .. Len(effects) : effects'[i] = effects[i]
      /\ effects'[Len(effects) + 1] = <<steps, step>>
  BY <1>1, <1>5, AppendProperties, LenProperties
<1>7. /\ \A i \in 1 .. Len(effects) : i \in 1 .. Len(effects) + 1
      /\ Len(effects) + 1 \in 1 .. Len(effects) + 1
  BY <1>6, SMT
<1>8. \A r, k : Done(r, k) => Done(r, k)'
  BY <1>6, <1>7, Zenon DEF Done
<1>9. \A r, k : r = steps /\ k = step => Done(r, k)'
  BY <1>1, <1>6, <1>7, Zenon DEF Done
<1>10. /\ step \in 1 .. Len(book[steps]) /\ \A k \in 1 .. step - 1 : Done(steps, k)
       /\ next + 1 <= step /\ next < Len(book[steps])
  BY <1>1, Zenon DEF Sound, StepSound
<1>11. pc' # "dead" /\ ScheduleSound' /\ ClockSound' /\ EndSound'
  BY <1>1, <1>3, Zenon DEF ScheduleSound, ClockSound, EndSound
<1>12. OneStart'
  BY <1>1, <1>2, Zenon DEF Sound, OneStart, Starting
<1>13. ReportSound'
  BY <1>1, <1>2, <1>3, <1>4, Zenon DEF Sound, ReportSound
<1>14. IndexSound'
  BY <1>1, <1>2, <1>3, <1>8, Zenon DEF Sound, IndexSound
<1>15. StepSound'
  <2>1. \A k \in 1 .. next + 1 : k \in 1 .. step - 1 \/ k = step
    BY <1>5, <1>10, SMT
  <2>2. \A r : r = steps => \A k \in 1 .. next + 1 : Done(r, k)'
    BY <1>8, <1>9, <1>10, <2>1, Zenon
  <2> QED BY <1>1, <1>10, <2>2, Zenon DEF StepSound
<1>16. NoStepSkipped'
  <2>1. ASSUME NEW j \in DOMAIN effects', effects'[j][2] > 1
        PROVE  \E i \in 1 .. j - 1 : effects'[i] = <<effects'[j][1], effects'[j][2] - 1>>
    <3>1. CASE j \in 1 .. Len(effects)
      <4>1. effects'[j] = effects[j]
        BY <1>6, <3>1, Zenon
      <4>2. PICK i \in 1 .. j - 1 : effects[i] = <<effects[j][1], effects[j][2] - 1>>
        BY <1>6, <2>1, <3>1, <4>1, Zenon DEF Sound, NoStepSkipped
      <4>3. i \in 1 .. Len(effects)
        BY <1>6, <3>1, SMT
      <4> QED BY <1>6, <4>1, <4>2, <4>3, Zenon
    <3>2. CASE j = Len(effects) + 1
      <4>1. effects'[j] = <<steps, step>>
        BY <1>6, <3>2, Zenon
      <4>2. effects'[j][1] = steps /\ effects'[j][2] = step
        BY <4>1, SMT
      <4>3. step - 1 \in 1 .. step - 1
        BY <1>5, <2>1, <4>2, SMT
      <4>4. PICK i \in DOMAIN effects : effects[i] = <<steps, step - 1>>
        BY <1>10, <4>3, Zenon DEF Done
      <4>5. i \in 1 .. j - 1
        BY <1>6, <3>2, SMT
      <4> QED BY <1>6, <4>2, <4>4, <4>5, Zenon
    <3> QED BY <1>6, <2>1, <3>1, <3>2, SMT
  <2> QED BY <2>1, Zenon DEF NoStepSkipped
<1>17. CompletedIsComplete'
  BY <1>1, Zenon DEF Sound, CompletedIsComplete
<1> QED BY <1>11, <1>12, <1>13, <1>14, <1>15, <1>16, <1>17, Zenon DEF Sound

\* The report is there, and it has a place for the result of the step at the index.
LEMMA RecordResultSound == ASSUME Typed, Sound, RecordResult PROVE Sound'
<1>1. /\ pc = "record"
      /\ UNCHANGED <<definition, report, elapsed, next, status, book>>
      /\ UNCHANGED <<handler, run, started, age, effects>>
  BY Zenon DEF RecordResult, http, history
<1>2. Executing /\ ~Ending /\ ~Clearing
  BY <1>1, Zenon DEF Executing, Ending, Clearing, Updating
<1>3. report = steps /\ report # 0 /\ IsRunning
  BY <1>2, Zenon DEF Sound, ReportSound
<1>4. /\ next < Len(book[report]) /\ Len(results[report]) = Len(book[report])
      /\ \A k \in 1 .. next + 1 : Done(steps, k)
  BY <1>1, <1>3, Zenon DEF Sound, StepSound, IndexSound
<1>5. next \in Nat /\ results[report] \in Seq(StepStatus) /\ results \in [Runs -> Seq(StepStatus)] /\ report \in 1 .. started /\ report \in Runs
  BY <1>3, RunFacts, Zenon DEF Typed
<1>6. DOMAIN results[report] = 1 .. Len(results[report]) /\ Len(results[report]) \in Nat
  BY <1>5, LenProperties, Zenon
<1>7. next + 1 \in DOMAIN results[report]
  BY <1>4, <1>5, <1>6, SMT
<1>8. /\ results' = [results EXCEPT ![report][next + 1] = outcome]
      /\ UNCHANGED <<steps, step, outcome, return, clock>> /\ pc' = "log"
  BY <1>3, <1>7, Zenon DEF RecordResult, GoTo
<1>9. /\ Len(results'[report]) = Len(book[report])
      /\ results'[report][next + 1] = outcome
      /\ \A m \in DOMAIN results[report] : m # next + 1 => results'[report][m] = results[report][m]
      /\ \A q \in Runs : q # report => results'[q] = results[q]
  <2>1. PICK r \in 1 .. started : r = report
    BY <1>5, Zenon
  <2>2. PICK n \in DOMAIN results[r] : n = next + 1
    BY <1>7, <2>1, Zenon
  <2>3. PICK s \in StepStatus : s = outcome
    BY Zenon DEF Typed, Outcomes, StepStatus
  <2>4. PICK changed : changed = results' /\ changed = WithResult(r, n, s)
    BY <1>8, <2>1, <2>2, <2>3, Zenon DEF WithResult
  <2>5. changed = WithResult(r, n, s)
    BY <2>4, Zenon
  <2>6. /\ changed \in [Runs -> Seq(StepStatus)] /\ Len(changed[r]) = Len(book[r])
        /\ Len(results[r]) = Len(book[r]) /\ DOMAIN results[r] = 1 .. Len(book[r])
        /\ changed[r][n] = s /\ \A m \in DOMAIN results[r] : m # n => changed[r][m] = results[r][m]
        /\ \A q \in Runs : q # r => changed[q] = results[q]
    BY ONLY Typed, <2>5, ResultTyped
  <2> QED BY ONLY <2>1, <2>2, <2>3, <2>4, <2>6, Zenon
<1>10. IsRunning' = IsRunning
  BY <1>1, Zenon DEF IsRunning
<1>11. \A r, k : Done(r, k)' = Done(r, k)
  BY <1>1, Zenon DEF Done
<1>12. Executing' /\ ~Ticking' /\ ~Ending' /\ ~Clearing'
  BY <1>8, Zenon DEF Executing, Ticking, Ending, Clearing, Updating
<1>13. /\ \A k \in 1 .. next : k \in DOMAIN results[report] /\ k # next + 1
       /\ \A k \in 1 .. next + 1 : k \in 1 .. next \/ k = next + 1
  BY <1>4, <1>5, <1>6, SMT
<1>14. \A k \in 1 .. next : results'[report][k] # "pending"
  <2>1. \A k \in 1 .. next : results[report][k] # "pending"
    BY <1>2, <1>3, Zenon DEF Sound, IndexSound
  <2> QED BY <1>9, <1>13, <2>1, Zenon
<1>15. outcome # "pending"
  BY Zenon DEF Typed, Outcomes
<1>16. pc' # "dead" /\ ScheduleSound' /\ ClockSound' /\ EndSound'
  BY <1>8, <1>12, Zenon DEF ScheduleSound, ClockSound, EndSound
<1>17. OneStart'
  BY <1>1, <1>10, Zenon DEF Sound, OneStart, Starting
<1>18. ReportSound'
  BY <1>1, <1>8, <1>10, <1>12, <1>3, Zenon DEF Sound, ReportSound
<1>19. IndexSound'
  BY <1>1, <1>2, <1>8, <1>9, <1>10, <1>11, <1>12, <1>14, Zenon DEF Sound, IndexSound
<1>20. StepSound'
  <2>1. \A k \in 1 .. next + 1 : results'[report][k] # "pending"
    BY <1>9, <1>13, <1>14, <1>15, Zenon
  <2> QED BY <1>1, <1>3, <1>4, <1>8, <1>11, <2>1, Zenon DEF StepSound
<1>21. NoStepSkipped'
  BY <1>1, Zenon DEF Sound, NoStepSkipped
<1>22. CompletedIsComplete'
  <2>1. \A r \in Runs : status[r] \in {"completed", "completed_with_failures"} => r # report
    BY <1>3, Zenon DEF IsRunning
  <2> QED BY <1>1, <1>9, <2>1, Zenon DEF Sound, CompletedIsComplete
<1> QED BY <1>16, <1>17, <1>18, <1>19, <1>20, <1>21, <1>22, Zenon DEF Sound

\* The beginning is in every runbook, and at every age.
LEMMA AtBeginning ==
    ASSUME Typed
    PROVE  \A r \in 0 .. started : r # 0 => /\ 0 <= Len(book[r]) /\ 0 < Len(book[r]) /\ 0 <= age[r]
                                            /\ Older(0) \in 0 .. Horizon /\ book[r] \in Books
<1>1. \A b \in Books : 0 < Len(b) /\ 0 <= Len(b)
  <2>1. \A b \in Books : Len(b) \in Nat \ {0}
    BY BookFacts, Zenon
  <2> QED BY <2>1, SMT
<1>2. \A r \in Runs : 0 <= age[r]
  <2>1. \A r \in Runs : age[r] \in 0 .. Horizon
    BY Zenon DEF Typed
  <2> QED BY <2>1, SMT
<1>3. Older(0) \in 0 .. Horizon
  BY Bounds, SMT
<1> QED BY <1>1, <1>2, <1>3, RunFacts, Zenon

LEMMA AdvanceIndexSound == ASSUME Typed, Sound, AdvanceIndex PROVE Sound'
<1>1. /\ pc = "advance" /\ pc' = "progress" /\ return' = "loop" /\ next' = next + 1
      /\ UNCHANGED <<definition, report, elapsed, status, results, book, steps>>
      /\ UNCHANGED <<handler, run, started, age, effects>>
  BY Zenon DEF AdvanceIndex, http, history
<1>2. /\ Executing /\ ~Ending /\ ~Clearing
      /\ Executing' /\ ~Ticking' /\ ~Ending' /\ ~Clearing'
  BY <1>1, Zenon DEF Executing, Ticking, Ending, Clearing, Updating
<1>3. report = steps /\ report # 0
  BY <1>2, Zenon DEF Sound, ReportSound
<1>4. /\ IsRunning' = IsRunning /\ \A r, k : Done(r, k)' = Done(r, k)
      /\ NoStepSkipped' /\ CompletedIsComplete'
  BY <1>1, Kept, Zenon
<1>5. /\ next < Len(book[report])
      /\ \A k \in 1 .. next + 1 : Done(report, k) /\ results[report][k] # "pending"
  BY <1>1, <1>3, Zenon DEF Sound, StepSound
<1>6. next + 1 <= Len(book[report])
  <2>1. next \in Nat /\ Len(book[report]) \in Nat
    BY <1>3, RunFacts, BookFacts, Zenon DEF Typed
  <2> QED BY <1>5, <2>1, SMT
<1>7. pc' # "dead" /\ ScheduleSound' /\ ClockSound' /\ EndSound' /\ StepSound'
  BY <1>1, <1>2, Zenon DEF ScheduleSound, ClockSound, EndSound, StepSound
<1>8. OneStart'
  BY <1>1, <1>4, Zenon DEF Sound, OneStart, Starting
<1>9. ReportSound'
  BY <1>1, <1>2, <1>3, <1>4, Zenon DEF Sound, ReportSound
<1>10. IndexSound'
  BY <1>1, <1>2, <1>3, <1>4, <1>5, <1>6, Zenon DEF Sound, IndexSound
<1> QED BY <1>1, <1>4, <1>7, <1>8, <1>9, <1>10, Zenon DEF Sound

\* The run that has come to its end has the results of all its steps.
LEMMA SetTerminalStatusSound == ASSUME Typed, Sound, SetTerminalStatus PROVE Sound'
<1>1. /\ pc = "terminal"
      /\ UNCHANGED <<definition, report, elapsed, next, results, book>>
      /\ UNCHANGED <<handler, run, started, age, effects>>
  BY Zenon DEF SetTerminalStatus, http, history
<1>2. Executing /\ ~Ending /\ ~Clearing
  BY <1>1, Zenon DEF Executing, Ending, Clearing, Updating
<1>3. report = steps /\ report # 0 /\ IsRunning
  BY <1>2, Zenon DEF Sound, ReportSound
<1>4. /\ pc' = "progress" /\ return' = "publish last" /\ UNCHANGED steps
      /\ status' = [status EXCEPT ![report] =
                        IF \E i \in DOMAIN results[report] : results[report][i] = "failed"
                        THEN "completed_with_failures" ELSE "completed"]
  BY <1>3, Zenon DEF SetTerminalStatus
<1>5. ~Executing' /\ ~Ticking' /\ Ending' /\ ~Clearing'
  BY <1>4, Zenon DEF Executing, Ticking, Ending, Clearing, Updating
<1>6. report \in Runs /\ status \in [Runs -> RunStatus] /\ book[report] \in Books
  BY <1>3, RunFacts, Zenon DEF Typed
<1>7. ~IsRunning'
  BY <1>1, <1>4, <1>6, Zenon DEF IsRunning
<1>8. /\ definition \in {0, report} /\ (next = 0 \/ next >= Len(book[steps]))
      /\ \A k \in 1 .. Len(book[steps]) : results[steps][k] # "pending"
      /\ Len(results[report]) = Len(book[report])
  BY <1>1, <1>2, <1>3, Zenon DEF Sound, ReportSound, StepSound, IndexSound
<1>9. pc' # "dead" /\ ScheduleSound' /\ ClockSound' /\ StepSound'
  BY <1>4, Zenon DEF ScheduleSound, ClockSound, StepSound
<1>10. OneStart'
  <2>1. \A c \in Clients : handler[c] \notin {"publish", "report"}
    BY <1>3, Zenon DEF Sound, OneStart
  <2> QED BY <1>1, <2>1, Zenon DEF Sound, OneStart, Starting
<1>11. ReportSound'
  BY <1>1, <1>3, <1>4, <1>5, <1>7, Zenon DEF ReportSound
<1>12. EndSound'
  BY <1>1, <1>3, <1>4, <1>8, Zenon DEF EndSound
<1>13. IndexSound'
  BY <1>4, <1>5, <1>7, Zenon DEF IndexSound
<1>14. NoStepSkipped'
  BY <1>1, Zenon DEF Sound, NoStepSkipped
<1>15. CompletedIsComplete'
  <2>1. DOMAIN book[report] = DOMAIN results[report] /\ DOMAIN book[report] = 1 .. Len(book[report])
    <3>1. results[report] \in Seq(StepStatus)
      BY <1>6, Zenon DEF Typed
    <3> QED BY <1>6, <1>8, <3>1, BookFacts, LenProperties, Zenon
  <2>2. \A i \in DOMAIN book[report] : results[report][i] # "pending"
    BY <1>3, <1>8, <2>1, Zenon
  <2>3. status'[report] = "completed" => \A i \in DOMAIN book[report] : results[report][i] # "failed"
    BY <1>4, <1>6, <2>1, Zenon
  <2>4. \A r \in Runs : r # report => status'[r] = status[r]
    BY <1>4, <1>6, Zenon
  <2>5. ASSUME NEW r \in Runs, status'[r] \in {"completed", "completed_with_failures"}
        PROVE  /\ \A i \in DOMAIN book[r] : results[r][i] # "pending"
               /\ status'[r] = "completed" => \A i \in DOMAIN book[r] : results[r][i] # "failed"
    BY <2>2, <2>3, <2>4, <2>5, Zenon DEF Sound, CompletedIsComplete
  <2> QED BY <1>1, <2>5, Zenon DEF CompletedIsComplete
<1> QED BY <1>9, <1>10, <1>11, <1>12, <1>13, <1>14, <1>15, Zenon DEF Sound

LEMMA PublishLastSound == ASSUME Typed, Sound, PublishLast PROVE Sound'
<1>1. /\ pc = "publish last"
      /\ UNCHANGED <<definition, report, elapsed, next, status, results, book>>
      /\ UNCHANGED <<handler, run, started, age, effects>>
  BY Zenon DEF PublishLast, http, history
<1>2. Ending /\ ~Executing /\ ~Clearing
  BY <1>1, Zenon DEF Executing, Ending, Clearing, Updating
<1>3. report # 0
  BY <1>2, Zenon DEF Sound, ReportSound
<1>4. pc' = "clear definition" /\ UNCHANGED steps
  BY <1>3, Zenon DEF PublishLast, GoTo
<1>5. ~Executing' /\ ~Ticking' /\ Ending' /\ ~Clearing'
  BY <1>4, Zenon DEF Executing, Ticking, Ending, Clearing, Updating
<1>6. /\ IsRunning' = IsRunning /\ NoStepSkipped' /\ CompletedIsComplete'
  BY <1>1, Kept, Zenon
<1>7. pc' # "dead" /\ ScheduleSound' /\ ClockSound' /\ StepSound'
  BY <1>4, Zenon DEF ScheduleSound, ClockSound, StepSound
<1>8. OneStart'
  BY <1>1, <1>6, Zenon DEF Sound, OneStart, Starting
<1>9. ReportSound'
  BY <1>1, <1>2, <1>4, <1>5, <1>6, Zenon DEF Sound, ReportSound
<1>10. EndSound'
  BY <1>1, <1>2, <1>4, <1>6, Zenon DEF Sound, EndSound
<1>11. IndexSound'
  BY <1>1, <1>4, <1>5, <1>6, Zenon DEF Sound, IndexSound
<1> QED BY <1>6, <1>7, <1>8, <1>9, <1>10, <1>11, Zenon DEF Sound

LEMMA ClearDefinitionSound == ASSUME Typed, Sound, ClearDefinition PROVE Sound'
<1>1. /\ pc = "clear definition" /\ pc' = "clear report" /\ definition' = 0
      /\ UNCHANGED <<report, elapsed, next, status, results, book, steps>>
      /\ UNCHANGED <<handler, run, started, age, effects>>
  BY Zenon DEF ClearDefinition, GoTo, http, history
<1>2. /\ Ending /\ ~Executing' /\ ~Ticking' /\ Ending' /\ ~Clearing'
  BY <1>1, Zenon DEF Executing, Ticking, Ending, Clearing, Updating
<1>3. /\ IsRunning' = IsRunning /\ NoStepSkipped' /\ CompletedIsComplete'
  BY <1>1, Kept, Zenon
<1>4. pc' # "dead" /\ ScheduleSound' /\ ClockSound' /\ StepSound'
  BY <1>1, Zenon DEF ScheduleSound, ClockSound, StepSound
<1>5. OneStart'
  BY <1>1, <1>3, Zenon DEF Sound, OneStart, Starting
<1>6. ReportSound'
  BY <1>1, <1>2, <1>3, Zenon DEF Sound, ReportSound
<1>7. EndSound'
  BY <1>1, <1>2, Zenon DEF Sound, EndSound
<1>8. IndexSound'
  BY <1>1, <1>2, <1>3, Zenon DEF Sound, IndexSound
<1> QED BY <1>3, <1>4, <1>5, <1>6, <1>7, <1>8, Zenon DEF Sound

LEMMA ClearReportSound == ASSUME Typed, Sound, ClearReport PROVE Sound'
<1>1. /\ pc' = "clear clock" /\ report' = 0
      /\ UNCHANGED <<definition, elapsed, next, status, results, book>>
      /\ UNCHANGED <<handler, run, started, age, effects>>
  BY Zenon DEF ClearReport, GoTo, http, history
<1>2. ~Executing' /\ ~Ticking' /\ ~Ending' /\ Clearing' /\ ~IsRunning'
  BY <1>1, Zenon DEF Executing, Ticking, Ending, Clearing, Updating, IsRunning
<1>3. pc' # "dead" /\ ScheduleSound' /\ ClockSound' /\ StepSound' /\ EndSound'
  BY <1>1, <1>2, Zenon DEF ScheduleSound, ClockSound, StepSound, EndSound
<1>4. OneStart'
  BY <1>1, <1>2, Zenon DEF Sound, OneStart, Starting
<1>5. ReportSound' /\ IndexSound'
  BY <1>1, <1>2, Zenon DEF ReportSound, IndexSound
<1>6. NoStepSkipped' /\ CompletedIsComplete'
  BY <1>1, Zenon DEF Sound, NoStepSkipped, CompletedIsComplete
<1> QED BY <1>3, <1>4, <1>5, <1>6, Zenon DEF Sound

LEMMA ClearClockSound == ASSUME Typed, Sound, ClearClock PROVE Sound'
<1>1. /\ pc = "clear clock" /\ pc' = "clear index" /\ elapsed' = 0
      /\ UNCHANGED <<definition, report, next, status, results, book>>
      /\ UNCHANGED <<handler, run, started, age, effects>>
  BY Zenon DEF ClearClock, GoTo, http, history
<1>2. ~Ending /\ ~Executing' /\ ~Ticking' /\ ~Ending' /\ Clearing'
  BY <1>1, Zenon DEF Executing, Ticking, Ending, Clearing, Updating
<1>3. /\ IsRunning' = IsRunning /\ NoStepSkipped' /\ CompletedIsComplete'
  BY <1>1, Kept, Zenon
<1>4. pc' # "dead" /\ ScheduleSound' /\ ClockSound' /\ StepSound' /\ EndSound'
  BY <1>1, <1>2, Zenon DEF ScheduleSound, ClockSound, StepSound, EndSound
<1>5. OneStart'
  BY <1>1, <1>3, Zenon DEF Sound, OneStart, Starting
<1>6. ReportSound'
  BY <1>1, <1>2, <1>3, Zenon DEF Sound, ReportSound
<1>7. IndexSound'
  BY <1>1, <1>2, <1>3, Zenon DEF Sound, IndexSound
<1> QED BY <1>3, <1>4, <1>5, <1>6, <1>7, Zenon DEF Sound

LEMMA ClearIndexSound == ASSUME Typed, Sound, ClearIndex PROVE Sound'
<1>1. /\ pc = "clear index" /\ pc' = "tick" /\ next' = 0
      /\ UNCHANGED <<definition, report, elapsed, status, results, book>>
      /\ UNCHANGED <<handler, run, started, age, effects>>
  BY Zenon DEF ClearIndex, GoTo, http, history
<1>2. ~Ending /\ ~Executing' /\ ~Ticking' /\ ~Ending' /\ ~Clearing'
  BY <1>1, Zenon DEF Executing, Ticking, Ending, Clearing, Updating
<1>3. /\ IsRunning' = IsRunning /\ NoStepSkipped' /\ CompletedIsComplete'
  BY <1>1, Kept, Zenon
<1>4. pc' # "dead" /\ ScheduleSound' /\ ClockSound' /\ StepSound' /\ EndSound'
  BY <1>1, <1>2, Zenon DEF ScheduleSound, ClockSound, StepSound, EndSound
<1>5. OneStart'
  BY <1>1, <1>3, Zenon DEF Sound, OneStart, Starting
<1>6. ReportSound'
  BY <1>1, <1>2, <1>3, Zenon DEF Sound, ReportSound
<1>7. IndexSound'
  <2>1. elapsed' = 0
    BY <1>1, Zenon DEF Sound, IndexSound
  <2>2. report # 0 => 0 <= Len(book[report]) /\ 0 <= age[report]
    BY AtBeginning, Zenon DEF Typed
  <2>3. \A k \in 1 .. 0 : FALSE
    BY SMT
  <2>4. IsRunning => Len(results[report]) = Len(book[report])
    BY Zenon DEF Sound, IndexSound
  <2> QED BY <1>1, <1>2, <1>3, <2>1, <2>2, <2>3, <2>4, Zenon DEF IndexSound
<1> QED BY <1>3, <1>4, <1>5, <1>6, <1>7, Zenon DEF Sound

\* The tick counts for the report that is there, before the clock does.
LEMMA SimulationStepSound == ASSUME Typed, Sound, SimulationStep PROVE Sound'
<1>1. /\ pc = "tick" /\ pc' = (IF report = 0 THEN "check" ELSE "running?")
      /\ age' = [r \in Runs |-> IF r = report THEN Older(age[r]) ELSE age[r]]
      /\ UNCHANGED <<definition, report, elapsed, next, status, results, book>>
      /\ UNCHANGED <<handler, run, started, effects>>
  BY Zenon DEF SimulationStep, GoTo, shared, http
<1>2. /\ ~Ending /\ ~Clearing /\ ~Executing' /\ ~Ending' /\ ~Clearing'
      /\ pc' \in {"check", "running?"} /\ (Ticking' => report # 0)
  BY <1>1, Zenon DEF Executing, Ticking, Ending, Clearing, Updating
<1>3. /\ IsRunning' = IsRunning /\ \A r, k : Done(r, k)' = Done(r, k)
      /\ NoStepSkipped' /\ CompletedIsComplete'
  BY <1>1, Kept, Zenon
<1>4. report # 0 => /\ elapsed <= age'[report] /\ Older(0) <= age'[report]
                    /\ Older(elapsed) <= age'[report]
  <2> HAVE report # 0
  <2>1. report \in Runs /\ age[report] \in 0 .. Horizon /\ elapsed \in 0 .. Horizon
    BY RunFacts, Zenon DEF Typed
  <2>2. age'[report] = Older(age[report])
    BY <1>1, <2>1, Zenon
  <2>3. elapsed <= age[report]
    BY <1>2, Zenon DEF Sound, IndexSound
  <2>4. 0 \in 0 .. Horizon /\ 0 <= age[report]
    BY <2>1, Bounds, SMT
  <2> QED BY <2>1, <2>2, <2>3, <2>4, Bounds, Zenon
<1>5. pc' # "dead" /\ ScheduleSound' /\ StepSound' /\ EndSound'
  BY <1>2, Zenon DEF ScheduleSound, StepSound, EndSound
<1>6. OneStart'
  BY <1>1, <1>3, Zenon DEF Sound, OneStart, Starting
<1>7. ReportSound'
  BY <1>1, <1>2, <1>3, Zenon DEF Sound, ReportSound
<1>8. IndexSound'
  BY <1>1, <1>2, <1>3, <1>4, Zenon DEF Sound, IndexSound
<1>9. ClockSound'
  BY <1>1, <1>4, Zenon DEF ClockSound
<1> QED BY <1>3, <1>5, <1>6, <1>7, <1>8, <1>9, Zenon DEF Sound

LEMMA WriteClockSound == ASSUME Typed, Sound, WriteClock PROVE Sound'
<1>1. /\ pc = "write clock" /\ pc' = "progress" /\ return' = "check" /\ elapsed' = Older(clock)
      /\ UNCHANGED <<definition, report, next, status, results, book>>
      /\ UNCHANGED <<handler, run, started, age, effects>>
  BY Zenon DEF WriteClock, http, history
<1>2. /\ Ticking /\ ~Ending /\ ~Clearing
      /\ ~Executing' /\ ~Ending' /\ ~Clearing'
  BY <1>1, Zenon DEF Executing, Ticking, Ending, Clearing, Updating
<1>3. report # 0 /\ Older(clock) <= age[report]
  BY <1>1, <1>2, Zenon DEF Sound, ReportSound, ClockSound
<1>4. /\ IsRunning' = IsRunning /\ \A r, k : Done(r, k)' = Done(r, k)
      /\ NoStepSkipped' /\ CompletedIsComplete'
  BY <1>1, Kept, Zenon
<1>5. pc' # "dead" /\ ScheduleSound' /\ StepSound' /\ EndSound' /\ ClockSound'
  BY <1>1, <1>2, Zenon DEF ScheduleSound, StepSound, EndSound, ClockSound
<1>6. OneStart'
  BY <1>1, <1>4, Zenon DEF Sound, OneStart, Starting
<1>7. ReportSound'
  BY <1>1, <1>2, <1>3, <1>4, Zenon DEF Sound, ReportSound
<1>8. IndexSound'
  BY <1>1, <1>2, <1>3, <1>4, Zenon DEF Sound, IndexSound
<1> QED BY <1>4, <1>5, <1>6, <1>7, <1>8, Zenon DEF Sound

(* ----------------- a start, whatever the thread is doing ---------------- *)

\* The handlers that are at work, seen from one of them.
LEMMA OnlyOne ==
    ASSUME Sound, NEW c \in Clients, handler[c] # "idle"
    PROVE  /\ Starting(c) /\ run[c] = started /\ started # 0
           /\ \A d \in Clients : d # c => handler[d] = "idle"
BY Zenon DEF Sound, OneStart

LEMMA StartedIsRun == ASSUME Typed PROVE started \in 0 .. started
BY RunFacts, SMT

\* As long as nothing runs, the thread is at the end of a run or has nothing to do.
LEMMA NothingRuns ==
    ASSUME Sound, ~IsRunning
    PROVE  /\ ~Executing /\ ~Ticking /\ pc # "steps" /\ (Ending \/ report = 0)
<1>1. ~Executing /\ pc # "steps" /\ (Ending \/ report = 0)
  BY Zenon DEF Sound, ReportSound
<1>2. Ticking => ~Ending /\ report # 0
  <2>1. Ticking => ~Ending
    BY Zenon DEF Ticking, Ending, Updating
  <2> QED BY <2>1, Zenon DEF Sound, ReportSound
<1> QED BY <1>1, <1>2, Zenon

LEMMA StartRequestSound ==
    ASSUME Typed, Sound, NEW c \in Clients, StartRequest(c), ~overlapped' PROVE Sound'
<1>1. /\ handler[c] = "idle" /\ ~IsRunning /\ started' = started + 1
      /\ run' = [run EXCEPT ![c] = started'] /\ handler' = [handler EXCEPT ![c] = "publish"]
      /\ UNCHANGED <<definition, report, elapsed, next, status, results>>
      /\ UNCHANGED <<pc, steps, step, return, clock, age, effects>>
      /\ \A d \in Clients : ~Starting(d)
  BY Zenon DEF StartRequest, StartAccepted, loop
<1>2. PICK b \in Books : book' = [book EXCEPT ![started'] = b]
  BY Zenon DEF StartRequest
<1>3. \A d \in Clients : handler[d] = "idle"
  BY <1>1, Zenon DEF Sound, OneStart
<1>4. /\ started' \in Runs /\ started' # 0 /\ started' > started
      /\ \A r \in 0 .. started : r # started'
  <2>1. started \in Nat /\ started' = started + 1 /\ started + 1 <= MaxRuns
    <3>1. started \in 0 .. MaxRuns /\ started < MaxRuns
      BY Zenon DEF Typed, StartRequest
    <3> QED BY <1>1, <3>1, Bounds, SMT
  <2> QED BY <2>1, Bounds, SMT DEF Runs
<1>5. definition # started' /\ report # started' /\ steps # started' /\ status[started'] = "none"
  BY <1>4, Zenon DEF Typed
<1>6. \A r \in Runs : r # started' => book'[r] = book[r]
  <2>1. book \in [Runs -> Books \cup {<<>>}]
    BY Zenon DEF Typed
  <2> QED BY <1>2, <2>1, Zenon
<1>7. ~IsRunning' /\ StepsLeft' = StepsLeft /\ \A r, k : Done(r, k)' = Done(r, k)
  <2>1. definition # 0 => definition \in Runs
    BY RunFacts, Zenon DEF Typed
  <2> QED BY <1>1, <1>5, <1>6, <2>1, Zenon DEF IsRunning, StepsLeft, Done
<1>8. Executing' = Executing /\ Ticking' = Ticking /\ Ending' = Ending /\ Clearing' = Clearing
  BY <1>1, Zenon DEF Executing, Ticking, Ending, Clearing
<1>9. OneStart'
  <2>1. \A d \in Clients : handler'[d] = (IF d = c THEN "publish" ELSE "idle")
    BY <1>1, <1>3, Zenon DEF Typed
  <2>2. run'[c] = started'
    BY <1>1, Zenon DEF Typed
  <2>3. \A d \in Clients : handler'[d] # "idle" => d = c /\ handler'[d] = "publish"
    BY <2>1, Zenon
  <2>4. status'[started'] = "none" /\ report' # started' /\ definition' # started'
    BY <1>1, <1>5, Zenon
  <2> QED BY <1>4, <1>7, <2>2, <2>3, <2>4, Zenon DEF OneStart, Starting
<1>10. pc' # "dead" /\ ReportSound' /\ EndSound' /\ ScheduleSound' /\ ClockSound'
  <2>1. pc' # "dead" /\ ReportSound'
    BY <1>1, <1>7, <1>8, Zenon DEF Sound, ReportSound
  <2>2. EndSound'
    <3>1. Ending => definition \in {0, steps}
      BY <1>1, <1>3, Zenon DEF Sound, EndSound
    <3>2. steps # 0 => steps \in Runs
      BY RunFacts, Zenon DEF Typed
    <3> QED BY <1>1, <1>5, <1>6, <1>8, <3>1, <3>2, Zenon DEF Sound, EndSound
  <2>3. ScheduleSound' /\ ClockSound'
    BY <1>1, <1>7, Zenon DEF Sound, ScheduleSound, ClockSound
  <2> QED BY <2>1, <2>2, <2>3, Zenon
<1>11. IndexSound'
  <2>1. report # 0 => report \in Runs
    BY RunFacts, Zenon DEF Typed
  <2> QED BY <1>1, <1>5, <1>6, <1>7, <1>8, <2>1, Zenon DEF Sound, IndexSound
<1>12. StepSound'
  BY <1>1, NothingRuns, Zenon DEF StepSound, Executing
<1>13. NoStepSkipped' /\ CompletedIsComplete'
  BY <1>1, <1>5, <1>6, Zenon DEF Sound, NoStepSkipped, CompletedIsComplete
<1> QED BY <1>9, <1>10, <1>11, <1>12, <1>13, Zenon DEF Sound

\* The definition of a run that has ended is replaced: if the thread is about to compute
\* the next step of the run it ends, the index is at the beginning already.
LEMMA PublishDefinitionSound ==
    ASSUME Typed, Sound, NEW c \in Clients, PublishDefinition(c) PROVE Sound'
<1>1. /\ handler[c] = "publish" /\ definition' = run[c]
      /\ handler' = [handler EXCEPT ![c] = "report"]
      /\ UNCHANGED <<report, elapsed, next, status, results, book, run>>
      /\ UNCHANGED <<pc, steps, step, return, clock, started, age, effects>>
  BY Zenon DEF PublishDefinition, loop, history
<1>2. /\ run[c] = started /\ started # 0 /\ \A d \in Clients : d # c => handler[d] = "idle"
      /\ status[started] = "none" /\ ~IsRunning /\ report # started
  BY <1>1, OnlyOne, Zenon DEF Sound, OneStart
<1>3. ~IsRunning' /\ \A r, k : Done(r, k)' = Done(r, k)
  BY <1>1, <1>2, Zenon DEF IsRunning, Done
<1>4. Executing' = Executing /\ Ticking' = Ticking /\ Ending' = Ending /\ Clearing' = Clearing
  BY <1>1, Zenon DEF Executing, Ticking, Ending, Clearing
<1>5. handler'[c] = "report" /\ \A d \in Clients : d # c => handler'[d] = "idle"
  BY <1>1, <1>2, Zenon DEF Typed
<1>6. ~Executing /\ ~Ticking /\ pc # "steps"
  BY <1>2, NothingRuns, Zenon
<1>7. OneStart'
  BY <1>1, <1>2, <1>3, <1>5, Zenon DEF OneStart, Starting
<1>8. ReportSound'
  BY <1>1, <1>2, <1>3, <1>4, <1>6, Zenon DEF Sound, ReportSound
<1>9. EndSound'
  BY <1>1, <1>4, <1>5, Zenon DEF Sound, EndSound
<1>10. IndexSound'
  BY <1>1, <1>3, <1>4, Zenon DEF Sound, IndexSound
<1>11. StepSound'
  BY <1>1, <1>3, Zenon DEF Sound, StepSound
<1>12. ScheduleSound'
  <2> SUFFICES ASSUME pc = "schedule" PROVE definition' # 0 /\ next < Len(book[definition'])
    BY <1>1, Zenon DEF ScheduleSound, StepsLeft
  <2>1. Ending
    BY <1>6, Zenon DEF Typed, Executing, Ticking, Ending, Updating
  <2>2. \A d \in Clients : handler[d] # "report"
    BY <1>1, <1>2, Zenon
  <2>3. definition = steps /\ steps # 0 /\ next < Len(book[steps]) /\ (next = 0 \/ next >= Len(book[steps]))
    BY <1>2, <2>1, <2>2, Zenon DEF Sound, EndSound, ScheduleSound, StepsLeft
  <2>4. next \in Nat /\ Len(book[steps]) \in Nat
    BY <2>3, RunFacts, BookFacts, Zenon DEF Typed
  <2>5. next = 0
    BY <2>3, <2>4, SMT
  <2>6. 0 < Len(book[started])
    BY <1>2, AtBeginning, RunFacts, StartedIsRun, Zenon
  <2> QED BY <1>1, <1>2, <2>5, <2>6, Zenon
<1>13. ClockSound'
  BY <1>1, <1>6, Zenon DEF ClockSound, Ticking
<1>14. NoStepSkipped' /\ CompletedIsComplete' /\ pc' # "dead"
  BY <1>1, Zenon DEF Sound, NoStepSkipped, CompletedIsComplete
<1> QED BY <1>7, <1>8, <1>9, <1>10, <1>11, <1>12, <1>13, <1>14, Zenon DEF Sound

\* The report of the run is published: unless the thread is still ending the run before,
\* there was none, and the index and the clock were at their beginning.
LEMMA PublishReportSound ==
    ASSUME Typed, Sound, NEW c \in Clients, PublishReport(c) PROVE Sound'
<1>1. /\ handler[c] = "report" /\ report' = run[c]
      /\ status' = [status EXCEPT ![run[c]] = "running"]
      /\ results' = [results EXCEPT ![run[c]] = [i \in DOMAIN book[run[c]] |-> "pending"]]
      /\ handler' = [handler EXCEPT ![c] = "rewind"]
      /\ UNCHANGED <<definition, elapsed, next, book, run>>
      /\ UNCHANGED <<pc, steps, step, return, clock, started, age, effects>>
  BY Zenon DEF PublishReport, loop, history
<1>2. /\ run[c] = started /\ started # 0 /\ \A d \in Clients : d # c => handler[d] = "idle"
      /\ ~IsRunning /\ report # started /\ definition \in {0, started}
  BY <1>1, OnlyOne, Zenon DEF Sound, OneStart
<1>3. started \in Runs /\ started \in 0 .. started
  BY <1>2, RunFacts, StartedIsRun, Zenon
<1>4. /\ report' = started /\ status'[started] = "running" /\ IsRunning'
      /\ \A r \in Runs : r # started => status'[r] = status[r] /\ results'[r] = results[r]
  <2>1. report' = started /\ status'[started] = "running"
    BY <1>1, <1>2, <1>3, Zenon DEF Typed
  <2>2. \A r \in Runs : r # started => status'[r] = status[r] /\ results'[r] = results[r]
    BY <1>1, <1>2, <1>3, Zenon DEF Typed
  <2> QED BY <1>2, <2>1, <2>2, Zenon DEF IsRunning
<1>5. StepsLeft' = StepsLeft /\ \A r, k : Done(r, k)' = Done(r, k)
  BY <1>1, Zenon DEF StepsLeft, Done
<1>6. Executing' = Executing /\ Ticking' = Ticking /\ Ending' = Ending /\ Clearing' = Clearing
  BY <1>1, Zenon DEF Executing, Ticking, Ending, Clearing
<1>7. handler'[c] = "rewind" /\ \A d \in Clients : d # c => handler'[d] = "idle"
  BY <1>1, <1>2, Zenon DEF Typed
<1>8. ~Executing /\ ~Ticking /\ pc # "steps" /\ (Ending \/ report = 0)
  BY <1>2, NothingRuns, Zenon
<1>9. OneStart'
  BY <1>1, <1>2, <1>7, Zenon DEF OneStart, Starting
<1>10. ReportSound'
  BY <1>1, <1>2, <1>4, <1>6, <1>8, Zenon DEF Sound, ReportSound
<1>11. EndSound'
  BY <1>1, <1>4, <1>6, Zenon DEF Sound, EndSound
<1>12. IndexSound'
  <2>1. ~Ending /\ ~Clearing => next = 0 /\ elapsed = 0
    BY <1>8, Zenon DEF Sound, IndexSound
  <2>2. 0 <= Len(book[started]) /\ 0 <= age[started]
    BY <1>2, <1>3, AtBeginning, Zenon
  <2>3. \A k \in 1 .. 0 : FALSE
    BY SMT
  <2>4. Len(results'[started]) = Len(book[started])
    <3>1. results'[started] = [i \in DOMAIN book[started] |-> "pending"]
      BY <1>1, <1>2, <1>3, Zenon DEF Typed
    <3>2. book[started] \in Books
      BY <1>2, <1>3, AtBeginning, Zenon
    <3>3. DOMAIN book[started] = 1 .. Len(book[started]) /\ Len(book[started]) \in Nat
      BY <3>2, BookFacts, Zenon
    <3>4. Len([i \in 1 .. Len(book[started]) |-> "pending"]) = Len(book[started])
      BY <3>3, SMT
    <3> QED BY <3>1, <3>3, <3>4, Zenon
  <2>5. pc = "clear index" => elapsed = 0
    BY Zenon DEF Sound, IndexSound
  <2> QED BY <1>1, <1>4, <1>6, <2>1, <2>2, <2>3, <2>4, <2>5, Zenon DEF IndexSound
<1>13. StepSound'
  BY <1>1, <1>8, Zenon DEF StepSound, Executing
<1>14. ScheduleSound' /\ pc' # "dead"
  BY <1>1, <1>5, Zenon DEF Sound, ScheduleSound
<1>15. ClockSound'
  BY <1>1, <1>8, Zenon DEF ClockSound, Ticking
<1>16. NoStepSkipped'
  BY <1>1, Zenon DEF Sound, NoStepSkipped
<1>17. CompletedIsComplete'
  <2>1. ASSUME NEW r \in Runs, status'[r] \in {"completed", "completed_with_failures"}
        PROVE  /\ \A i \in DOMAIN book[r] : results'[r][i] # "pending"
               /\ status'[r] = "completed" => \A i \in DOMAIN book[r] : results'[r][i] # "failed"
    <3>1. r # started
      BY <1>4, <2>1, Zenon
    <3>2. status'[r] = status[r] /\ results'[r] = results[r]
      BY <1>4, <3>1, Zenon
    <3> QED BY <2>1, <3>2, Zenon DEF Sound, CompletedIsComplete
  <2> QED BY <1>1, <2>1, Zenon DEF CompletedIsComplete
<1> QED BY <1>9, <1>10, <1>11, <1>12, <1>13, <1>14, <1>15, <1>16, <1>17, Zenon DEF Sound

LEMMA RewindClockSound ==
    ASSUME Typed, Sound, NEW c \in Clients, RewindClock(c) PROVE Sound'
<1>1. /\ handler[c] = "rewind" /\ elapsed' = 0
      /\ handler' = [handler EXCEPT ![c] = "restart"]
      /\ UNCHANGED <<definition, report, next, status, results, book, run>>
      /\ UNCHANGED <<pc, steps, step, return, clock, started, age, effects>>
  BY Zenon DEF RewindClock, loop, history
<1>2. /\ run[c] = started /\ started # 0 /\ \A d \in Clients : d # c => handler[d] = "idle"
  BY <1>1, OnlyOne, Zenon
<1>3. /\ IsRunning' = IsRunning /\ StepsLeft' = StepsLeft /\ \A r, k : Done(r, k)' = Done(r, k)
      /\ Executing' = Executing /\ Ticking' = Ticking /\ Ending' = Ending /\ Clearing' = Clearing
  BY <1>1, Zenon DEF IsRunning, StepsLeft, Done, Executing, Ticking, Ending, Clearing
<1>4. handler'[c] = "restart" /\ \A d \in Clients : d # c => handler'[d] = "idle"
  BY <1>1, <1>2, Zenon DEF Typed
<1>5. OneStart'
  BY <1>1, <1>2, <1>4, Zenon DEF OneStart, Starting
<1>6. ReportSound' /\ ScheduleSound' /\ pc' # "dead"
  BY <1>1, <1>3, Zenon DEF Sound, ReportSound, ScheduleSound
<1>7. EndSound'
  <2>1. \A d \in Clients : handler[d] # "report"
    BY <1>1, <1>2, Zenon
  <2> QED BY <1>1, <1>3, <2>1, Zenon DEF Sound, EndSound
<1>8. IndexSound'
  <2>1. report # 0 => 0 <= age[report]
    BY AtBeginning, Zenon DEF Typed
  <2> QED BY <1>1, <1>3, <2>1, Zenon DEF Sound, IndexSound
<1>9. StepSound'
  BY <1>1, <1>3, Zenon DEF Sound, StepSound
<1>10. ClockSound'
  BY <1>1, Zenon DEF Sound, ClockSound
<1>11. NoStepSkipped' /\ CompletedIsComplete'
  BY <1>1, Zenon DEF Sound, NoStepSkipped, CompletedIsComplete
<1> QED BY <1>5, <1>6, <1>7, <1>8, <1>9, <1>10, <1>11, Zenon DEF Sound

\* The index is reset last, when the thread may be anywhere in the run: a step that is
\* under way will be recorded, and counted, as the first one.
LEMMA RewindStepsSound ==
    ASSUME Typed, Sound, NEW c \in Clients, RewindSteps(c) PROVE Sound'
<1>1. /\ handler[c] = "restart" /\ next' = 0
      /\ handler' = [handler EXCEPT ![c] = "idle"] /\ run' = [run EXCEPT ![c] = 0]
      /\ UNCHANGED <<definition, report, elapsed, status, results, book>>
      /\ UNCHANGED <<pc, steps, step, return, clock, started, age, effects>>
  BY Zenon DEF RewindSteps, loop, history
<1>2. \A d \in Clients : d # c => handler[d] = "idle"
  BY <1>1, OnlyOne, Zenon
<1>3. /\ IsRunning' = IsRunning /\ \A r, k : Done(r, k)' = Done(r, k)
      /\ Executing' = Executing /\ Ticking' = Ticking /\ Ending' = Ending /\ Clearing' = Clearing
  BY <1>1, Zenon DEF IsRunning, Done, Executing, Ticking, Ending, Clearing
<1>4. \A d \in Clients : handler'[d] = "idle"
  BY <1>1, <1>2, Zenon DEF Typed
<1>5. OneStart'
  BY <1>4, Zenon DEF OneStart, Starting
<1>6. ReportSound' /\ pc' # "dead"
  BY <1>1, <1>3, Zenon DEF Sound, ReportSound
<1>7. EndSound'
  <2>1. \A d \in Clients : handler[d] # "report"
    BY <1>1, <1>2, Zenon
  <2> QED BY <1>1, <1>3, <2>1, Zenon DEF Sound, EndSound
<1>8. IndexSound'
  <2>1. report # 0 => 0 <= Len(book[report])
    BY AtBeginning, Zenon DEF Typed
  <2>2. \A k \in 1 .. 0 : FALSE
    BY SMT
  <2> QED BY <1>1, <1>3, <2>1, <2>2, Zenon DEF Sound, IndexSound
<1>9. StepSound'
  <2>1. Executing => steps # 0 /\ 0 < Len(book[steps])
    BY AtBeginning, Zenon DEF Sound, ReportSound, Typed
  <2>2. /\ next \in Nat /\ step \in Nat
    BY Zenon DEF Typed
  <2>3. \A k \in 1 .. 0 + 1 : k \in 1 .. next + 1
    BY <2>2, SMT
  <2>4. pc = "execute" => 0 + 1 <= step
    <3>1. pc = "execute" => next + 1 <= step
      BY Zenon DEF Sound, StepSound
    <3> QED BY <2>2, <3>1, SMT
  <2> QED BY <1>1, <1>3, <2>1, <2>3, <2>4, Zenon DEF Sound, StepSound, Executing
<1>10. ScheduleSound'
  <2>1. definition # 0 => 0 < Len(book[definition])
    BY AtBeginning, Zenon DEF Typed
  <2> QED BY <1>1, <2>1, Zenon DEF Sound, ScheduleSound, StepsLeft
<1>11. ClockSound'
  BY <1>1, Zenon DEF Sound, ClockSound
<1>12. NoStepSkipped' /\ CompletedIsComplete'
  BY <1>1, Zenon DEF Sound, NoStepSkipped, CompletedIsComplete
<1> QED BY <1>5, <1>6, <1>7, <1>8, <1>9, <1>10, <1>11, <1>12, Zenon DEF Sound

(* ------------------------------ every step ------------------------------ *)

LEMMA StartSound ==
    ASSUME Typed, Sound, NEW c \in Clients, Start(c), Undisturbed' PROVE Sound'
<1>1. ~overlapped'
  BY Zenon DEF Undisturbed
<1> QED BY <1>1, StartRequestSound, PublishDefinitionSound, PublishReportSound,
           RewindClockSound, RewindStepsSound, Zenon DEF Start

\* Without a stop request no handler is at work that stops a runbook.
LEMMA NoStop ==
    ASSUME Typed, Sound, NEW c \in Clients, Stop(c), Undisturbed' PROVE FALSE
<1>1. CASE StopRequest(c)
  <2>1. stops \in Nat /\ stops' = stops + 1 /\ stops' = 0
    <3>1. stops \in 0 .. MaxStops /\ stops' = stops + 1 /\ stops' = 0
      BY <1>1, Zenon DEF Typed, StopRequest, Undisturbed
    <3> QED BY <3>1, Bounds, SMT
  <2> QED BY <2>1, SMT
<1>2. CASE ~StopRequest(c)
  <2>1. handler[c] \in {"cancel", "schedule", "copy", "undefine", "unreport", "reset", "answer"}
    BY <1>2, Zenon DEF Stop, Cancel, Schedule, CopyReport, Undefine, Unreport, ResetClock, StopAnswer
  <2> QED BY <2>1, Zenon DEF Sound, OneStart, Starting
<1> QED BY <1>1, <1>2, Zenon

LEMMA SimulationSound == ASSUME Typed, Sound, Simulation PROVE Sound'
BY CheckDefinitionSound, CheckReportSound, CheckStatusSound, ReadStepsSound, NextDueStepSound,
   ExecuteStepSound, RecordResultSound, LogStepSound, AdvanceIndexSound, UpdateSound,
   AllExecutedSound, SetTerminalStatusSound, PublishLastSound, ClearDefinitionSound,
   ClearReportSound, ClearClockSound, ClearIndexSound, SimulationStepSound, CheckRunningSound,
   ReadClockSound, WriteClockSound, Zenon DEF Simulation

\* What has been disturbed once stays so.
LEMMA DisturbedForEver == ASSUME Typed, [Next]_vars, Undisturbed' PROVE Undisturbed
<1>1. CASE UNCHANGED <<stops, overlapped>>
  BY <1>1, Zenon DEF Undisturbed
<1>2. CASE Simulation
  BY <1>1, <1>2, Zenon DEF Simulation, CheckDefinition, CheckReport, CheckStatus, ReadSteps,
     NextDueStep, ExecuteStep, RecordResult, LogStep, AdvanceIndex, UpdateProgress,
     UpdateCounters, UpdateSchedule, AllExecuted, SetTerminalStatus, PublishLast,
     ClearDefinition, ClearReport, ClearClock, ClearIndex, SimulationStep, CheckRunning,
     ReadClock, WriteClock, history
<1>3. ASSUME NEW c \in Clients, Start(c) PROVE Undisturbed
  <2>1. UNCHANGED stops /\ (overlapped => overlapped')
    <3>1. CASE StartRequest(c)
      <4>1. UNCHANGED stops /\ overlapped' = (overlapped \/ \E d \in Clients : Starting(d))
        BY <3>1, Zenon DEF StartRequest
      <4> QED BY <4>1, Zenon
    <3>2. CASE ~StartRequest(c)
      <4>1. UNCHANGED <<stops, overlapped>>
        BY <1>3, <3>2, Zenon DEF Start, PublishDefinition, PublishReport, RewindClock,
           RewindSteps, history
      <4> QED BY <4>1, Zenon
    <3> QED BY <3>1, <3>2, Zenon
  <2> QED BY <2>1, Zenon DEF Undisturbed
<1>4. ASSUME NEW c \in Clients, Stop(c) PROVE Undisturbed
  <2>1. CASE StopRequest(c)
    <3>1. stops \in 0 .. MaxStops /\ stops' = stops + 1 /\ stops' = 0
      BY <2>1, Zenon DEF Typed, StopRequest, Undisturbed
    <3> QED BY <3>1, Bounds, SMT
  <2>2. CASE ~StopRequest(c)
    <3>1. UNCHANGED <<stops, overlapped>>
      BY <1>4, <2>2, Zenon DEF Stop, Cancel, Schedule, CopyReport, Undefine, Unreport,
         ResetClock, StopAnswer, history
    <3> QED BY <1>1, <3>1, Zenon
  <2> QED BY <2>1, <2>2, Zenon
<1>5. CASE UNCHANGED vars
  BY <1>1, <1>5, Zenon DEF vars, history
<1> QED BY <1>2, <1>3, <1>4, <1>5, Zenon DEF Next

LEMMA InitInv == Init => Inv
<1> SUFFICES ASSUME Init PROVE Inv
  OBVIOUS
<1>1. 0 \in 0 .. 0 /\ 0 \in Nat /\ 0 \in 0 .. MaxRuns /\ 0 \in 0 .. MaxStops /\ 0 \in 0 .. Horizon
      /\ 0 \in RunOrNone /\ \A r \in 1 .. 0 : FALSE
  BY Bounds, SMT DEF RunOrNone
<1>2. <<>> \in Seq(StepStatus) /\ <<>> \in Seq(RunOrNone \X Nat) /\ \A j \in DOMAIN <<>> : FALSE
  BY SMT
<1>3. /\ last \in [run : RunOrNone, status : RunStatus]
      /\ status \in [Runs -> RunStatus] /\ age \in [Runs -> 0 .. Horizon]
      /\ book \in [Runs -> Books \cup {<<>>}] /\ results \in [Runs -> Seq(StepStatus)]
      /\ handler \in [Clients -> HandlerLabels] /\ run \in [Clients -> 0 .. started]
  BY <1>1, <1>2, Zenon DEF Init, RunStatus, HandlerLabels
<1>4. Typed
  BY <1>1, <1>2, <1>3, Zenon DEF Init, Typed, LoopLabels, Outcomes
<1>5. ~IsRunning /\ ~Executing /\ ~Ticking /\ ~Ending /\ ~Clearing
  BY Zenon DEF Init, IsRunning, Executing, Ticking, Ending, Clearing, Updating
<1>6. OneStart /\ ReportSound /\ EndSound /\ IndexSound /\ StepSound
  BY <1>5, Zenon DEF Init, OneStart, ReportSound, EndSound, IndexSound, StepSound
<1>7. ScheduleSound /\ ClockSound /\ pc # "dead"
  BY Zenon DEF Init, ScheduleSound, ClockSound
<1>8. NoStepSkipped /\ CompletedIsComplete
  BY <1>2, Zenon DEF Init, NoStepSkipped, CompletedIsComplete
<1> QED BY <1>4, <1>6, <1>7, <1>8, Zenon DEF Inv, Sound

LEMMA StutterInv == ASSUME Inv, UNCHANGED vars PROVE Inv'
<1>1. UNCHANGED <<shared, http, history, loop>>
  BY Zenon DEF vars
<1>2. Typed'
  BY <1>1, Zenon DEF Inv, Typed, shared, http, history, loop
<1>3. Sound => Sound'
  <2> SUFFICES ASSUME Sound PROVE Sound'
    BY Zenon
  <2>1. /\ UNCHANGED <<definition, report, elapsed, next, status, results, book>>
        /\ UNCHANGED <<handler, age, effects>>
        /\ IsRunning' = IsRunning /\ StepsLeft' = StepsLeft
        /\ \A r, k : Done(r, k)' = Done(r, k)
        /\ OneStart' /\ NoStepSkipped' /\ CompletedIsComplete'
    BY <1>1, Quiet, Zenon
  <2>2. UNCHANGED <<pc, steps, step, outcome, return, clock>>
    BY <1>1, Zenon DEF loop
  <2>3. Executing' = Executing /\ Ticking' = Ticking /\ Ending' = Ending /\ Clearing' = Clearing
    BY <2>2, Zenon DEF Executing, Ticking, Ending, Clearing
  <2>4. ReportSound' /\ EndSound' /\ IndexSound' /\ pc' # "dead"
    BY <2>1, <2>2, <2>3, Zenon DEF Sound, ReportSound, EndSound, IndexSound
  <2>5. StepSound' /\ ScheduleSound' /\ ClockSound'
    BY <2>1, <2>2, Zenon DEF Sound, StepSound, ScheduleSound, ClockSound
  <2> QED BY <2>1, <2>4, <2>5, Zenon DEF Sound
<1>4. Undisturbed' = Undisturbed
  BY <1>1, Zenon DEF Undisturbed, history
<1> QED BY <1>2, <1>3, <1>4, Zenon DEF Inv

LEMMA NextInv == Inv /\ [Next]_vars => Inv'
<1> SUFFICES ASSUME Inv, [Next]_vars PROVE Inv'
  OBVIOUS
<1>1. Typed /\ (Undisturbed' => Sound)
  BY DisturbedForEver, Zenon DEF Inv
<1>2. CASE Simulation
  <2>1. Typed'
    BY <1>1, <1>2, ReadsTyped, WritesTyped, Zenon DEF Simulation
  <2>2. Undisturbed' => Sound'
    BY <1>1, <1>2, SimulationSound, Zenon
  <2> QED BY <2>1, <2>2, Zenon DEF Inv
<1>3. ASSUME NEW c \in Clients, Start(c) PROVE Inv'
  <2>1. Typed'
    BY <1>1, <1>3, StartTyped, Zenon
  <2>2. Undisturbed' => Sound'
    BY <1>1, <1>3, StartSound, Zenon
  <2> QED BY <2>1, <2>2, Zenon DEF Inv
<1>4. ASSUME NEW c \in Clients, Stop(c) PROVE Inv'
  <2>1. Typed'
    BY <1>1, <1>4, StopTyped, Zenon
  <2>2. ~Undisturbed'
    BY <1>1, <1>4, NoStop, Zenon
  <2> QED BY <2>1, <2>2, Zenon DEF Inv
<1>5. CASE UNCHANGED vars
  BY <1>5, StutterInv, Zenon
<1> QED BY <1>2, <1>3, <1>4, <1>5, Zenon DEF Next

(* ------------------------------- theorems ------------------------------- *)

\* Every state the executor can be in satisfies the inductive invariant.
THEOREM RunbookInvariant == Spec => []Inv
<1> QED BY InitInv, NextInv, PTL DEF Spec

\* The attributes of the executor keep their ranges, for every set of runbooks and clients,
\* and the index stays in the list of steps the loop holds as long as nothing disturbs it.
THEOREM TypeCorrect == Spec => []TypeOK
<1>1. Inv => TypeOK
  <2> SUFFICES ASSUME Inv PROVE TypeOK
    OBVIOUS
  <2>1. Typed
    BY Zenon DEF Inv
  <2>2. definition \in RunOrNone /\ report \in RunOrNone /\ steps \in RunOrNone
    BY <2>1, RunFacts, Zenon DEF Typed
  <2>3. ASSUME NEW r \in Runs PROVE DOMAIN results[r] \subseteq DOMAIN book[r]
    <3>1. CASE results[r] = <<>>
      <4>1. \A i \in DOMAIN <<>> : FALSE
        BY SMT
      <4> QED BY <3>1, <4>1, Zenon
    <3>2. CASE r <= started /\ Len(results[r]) = Len(book[r])
      <4>1. r \in 1 .. started
        <5>1. started \in Nat
          BY <2>1, RunFacts, Zenon
        <5> QED BY <3>2, <5>1, Bounds, SMT DEF Runs
      <4>2. book[r] \in Books /\ results[r] \in Seq(StepStatus)
        BY <2>1, <4>1, Zenon DEF Typed
      <4> QED BY <3>2, <4>2, BookFacts, LenProperties, Zenon
    <3> QED BY <2>1, <3>1, <3>2, Zenon DEF Typed
  <2>4. run \in [Clients -> RunOrNone]
    <3>1. run \in [Clients -> 0 .. started]
      BY <2>1, Zenon DEF Typed
    <3> QED BY <2>1, <3>1, RunFacts, Zenon
  <2>5. Undisturbed /\ pc \in {"loop", "execute", "advance"} => next <= Len(book[steps])
    <3> SUFFICES ASSUME Undisturbed, pc \in {"loop", "execute", "advance"}
                 PROVE  next <= Len(book[steps])
      BY Zenon
    <3>1. Sound
      BY Zenon DEF Inv
    <3>2. Executing /\ ~Ending /\ ~Clearing
      BY Zenon DEF Executing, Ending, Clearing, Updating
    <3>3. report = steps /\ report # 0
      BY <3>1, <3>2, Zenon DEF Sound, ReportSound
    <3> QED BY <3>1, <3>2, <3>3, Zenon DEF Sound, IndexSound
  <2> QED BY <2>1, <2>2, <2>3, <2>4, <2>5, Zenon DEF TypeOK, Typed
<1> QED BY <1>1, RunbookInvariant, PTL

\* Without a stop and without two starts at a time, no interleaving of a start with the
\* simulation thread ends the simulation loop.
THEOREM LoopAlwaysSurvives == Spec => []LoopSurvives
<1>1. Inv => LoopSurvives
  BY Zenon DEF Inv, Sound, LoopSurvives
<1> QED BY <1>1, RunbookInvariant, PTL

\* And no step of a runbook is skipped, and a report that says completed has the results
\* of all the steps.
THEOREM RunsAlwaysWhole == Spec => []RunsAreWhole
<1>1. Inv => RunsAreWhole
  BY Zenon DEF Inv, Sound, RunsAreWhole
<1> QED BY <1>1, RunbookInvariant, PTL

\* And no step is executed before its time has passed since its run was published.
THEOREM NothingEarly == Spec => NoStepBeforeItsTime
<1>1. Inv => (Undisturbed /\ pc = "execute" => book[steps][step] <= age[steps])
  BY Zenon DEF Inv, Sound, StepSound
<1>2. Inv => [Undisturbed /\ pc = "execute" /\ pc' = "record" => book[steps][step] <= age[steps]]_vars
  BY <1>1, Zenon
<1> QED BY <1>2, RunbookInvariant, PTL DEF NoStepBeforeItsTime
=============================================================================
