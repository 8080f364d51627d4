------------------------------ MODULE Registry ------------------------------
(***************************************************************************)
(* The RunbookRegistry (runbooks.py): the saved runbooks in memory and in  *)
(* their file, and the HTTP handlers that save them (main.py).             *)
(*                                                                         *)
(* There is no lock: a handler looks for the id, tests the limit, changes  *)
(* the list, and dumps it to the file in steps of its own.  A reconfigured *)
(* simulator loads a registry anew from the file, while handlers may still *)
(* be at work on the one before.  (No route deletes a saved runbook.)      *)
(***************************************************************************)
EXTENDS Integers, Sequences, SequencesExt, FiniteSets

CONSTANTS
    Ids,           \* the ids of runbooks
    Payloads,      \* what clients send: runbooks as parsed from JSON
    Presets,       \* RUNBOOK_PRESETS, sanitised
    InitialFiles,  \* what the file may hold when the process starts first
    NoList,        \* no file, or one that does not hold a list
    MaxSteps,      \* MAX_RUNBOOK_STEPS
    MaxSaved,      \* MAX_SAVED_RUNBOOKS
    MaxBytes,      \* MAX_RUNBOOK_FILE_BYTES, a runbook taking as many as it has steps
    Handlers,      \* HTTP handler threads
    MaxRequests,   \* bound: requests sent
    MaxRegistries  \* bound: registries loaded

\* fine says of a step whether its action is one of the options and its parameters are
\* those of the action, of a runbook whether its name, id, description and size counts are
\* as they should be.
Steps == [at : Int, fine : BOOLEAN]
Runbooks == [id : Ids, fine : BOOLEAN, steps : Seq(Steps)]

VARIABLES
    lists,  \* the lists of the registries loaded so far; the last one is in service
    file,   \* the runbooks file
    job,    \* [Handlers -> the request the handler is serving]
    sent,   \* number of requests sent
    \* history
    solo,    \* [Handlers -> nothing has overlapped the request]
    written  \* whether a registry has written the file

vars == <<lists, file, job, sent, solo, written>>

(* ------------------------------ sanitising ------------------------------ *)

\* sanitize_runbook_step()
StepAccepted(step) == step.at >= 0 /\ step.fine

\* sanitize_saved_runbook()
Accepted(raw) ==
    /\ raw.fine
    /\ Len(raw.steps) \in 1 .. MaxSteps
    /\ \A i \in DOMAIN raw.steps : StepAccepted(raw.steps[i])

\* Mutant: the steps keep the order they were written in.
Sanitize_Unsorted(raw) == raw

\* The entries of a list at some positions, by their keys; those with the same key keep
\* their order.
InOrder(list, positions, key) ==
    LET ahead(i) == {j \in positions : key[j] < key[i] \/ (key[j] = key[i] /\ j < i)}
        at(k) == CHOOSE i \in positions : Cardinality(ahead(i)) = k - 1
    IN  [k \in 1 .. Cardinality(positions) |-> list[at(k)]]

\* The steps are sorted by the time they are due.
Sanitize(raw) ==
    LET due == [i \in DOMAIN raw.steps |-> raw.steps[i].at]
    IN  [raw EXCEPT !.steps = InOrder(@, DOMAIN due, due)]

\* The size of a list as a file.  Writer and reader measure the same text: on a system whose
\* text files have longer line ends, the reader would find a little more.
Bytes(list) == FoldLeft(LAMBDA n, rb : n + Len(rb.steps), 0, list)

FirstFew(list) == SubSeq(list, 1, IF Len(list) < MaxSaved THEN Len(list) ELSE MaxSaved)

\* load_runbooks(): the accepted entries up to the limit; the presets when there are none.
\* Files that no registry is made from are left out: one that is not UTF-8 and one with a
\* number too large for a float, for these two exceptions are not caught.
LoadRunbooks(contents) ==
    IF contents = NoList THEN Presets
    ELSE LET accepted == InOrder(contents, {i \in DOMAIN contents : Accepted(contents[i])},
                                 [i \in DOMAIN contents |-> i])
         IN  IF Bytes(contents) <= MaxBytes /\ accepted # <<>>
             THEN FirstFew([i \in DOMAIN accepted |-> Sanitize(accepted[i])])
             ELSE Presets

\* A runbook as the executor relies on it: accepted, its steps in the order of time.
Sound(rb) ==
    /\ Accepted(rb)
    /\ \A i, j \in DOMAIN rb.steps : i < j => rb.steps[i].at <= rb.steps[j].at

ASSUME LimitsAssumption ==
    /\ {MaxSteps, MaxSaved, MaxBytes, MaxRequests} \subseteq Nat /\ MaxRegistries \in Nat \ {0}
    /\ IsFiniteSet(Handlers) /\ Handlers # {}

ASSUME InputsAssumption ==
    /\ Payloads \subseteq Runbooks
    /\ InitialFiles \subseteq Seq(Runbooks) \cup {NoList} /\ NoList \notin Seq(Runbooks)
    /\ Presets \in Seq(Runbooks) /\ Len(Presets) \in 1 .. MaxSaved
    /\ \A i \in 1 .. Len(Presets) : Sound(Presets[i])

(* -------------------------------- saving -------------------------------- *)

\* Serving nothing; ok says how the last request was answered.
Idle(ok) == [pc |-> "idle", ok |-> ok]

Init ==
    /\ file \in InitialFiles
    /\ lists = <<LoadRunbooks(file)>>
    /\ job = [h \in Handlers |-> Idle(TRUE)] /\ sent = 0
    /\ solo = [h \in Handlers |-> TRUE] /\ written = FALSE

Memory == lists[Len(lists)]
Saved(h) == lists[job[h].registry]
At(h, pc) == job[h].pc = pc
Goto(h, pc) == job' = [job EXCEPT ![h].pc = pc]

\* The index of the runbook with an id, 0 when there is none.
Position(list, id) == SelectInSeq(list, LAMBDA rb : rb.id = id)

\* A POST that passes the sanitiser takes the registry of the runtime in service.
ReceiveSave(h, payload) ==
    /\ At(h, "idle") /\ sent < MaxRequests /\ Accepted(payload)
    /\ job' = [job EXCEPT ![h] = [pc |-> "scan", registry |-> Len(lists), index |-> 0,
                                  rb |-> Sanitize(payload), found |-> Memory, text |-> <<>>]]
    /\ sent' = sent + 1
    /\ solo' = [g \in Handlers |-> g = h /\ \A k \in Handlers : At(k, "idle")]
    /\ UNCHANGED <<lists, file, written>>

\* The loop of save_runbook() over the list.
Scan(h) ==
    /\ At(h, "scan")
    /\ LET i == Position(Saved(h), job[h].rb.id)
       IN  job' = [job EXCEPT ![h].index = i, ![h].pc = IF i = 0 THEN "room" ELSE "replace"]
    /\ UNCHANGED <<lists, file, sent, solo, written>>

Replace(h) ==
    /\ At(h, "replace") /\ Goto(h, "measure")
    /\ lists' = [lists EXCEPT ![job[h].registry][job[h].index] = job[h].rb]
    /\ UNCHANGED <<file, sent, solo, written>>

\* Mutant: the limit is not tested before the list is changed.
HasRoom_Always(list) == TRUE

HasRoom(list) == Len(list) < MaxSaved

\* A refusal (400) or an error (500) leaves what has been changed so far.
Refuse(h) == job' = [job EXCEPT ![h] = Idle(FALSE)]

TestRoom(h) ==
    /\ At(h, "room")
    /\ IF HasRoom(Saved(h)) THEN Goto(h, "append") ELSE Refuse(h)
    /\ UNCHANGED <<lists, file, sent, solo, written>>

AppendRunbook(h) ==
    /\ At(h, "append") /\ Goto(h, "measure")
    /\ lists' = [lists EXCEPT ![job[h].registry] = Append(@, job[h].rb)]
    /\ UNCHANGED <<file, sent, solo, written>>

\* save_runbooks(): the number of runbooks, then their text.
TestNumber(h) ==
    /\ At(h, "measure")
    /\ IF Len(Saved(h)) <= MaxSaved THEN Goto(h, "dump") ELSE Refuse(h)
    /\ UNCHANGED <<lists, file, sent, solo, written>>

\* Mutant: any text is written.
FitsFile_Always(list) == TRUE

FitsFile(list) == Bytes(list) <= MaxBytes

Dump(h) ==
    /\ At(h, "dump")
    /\ IF FitsFile(Saved(h))
       THEN job' = [job EXCEPT ![h].text = Saved(h), ![h].pc = "write"]
       ELSE Refuse(h)
    /\ UNCHANGED <<lists, file, sent, solo, written>>

\* Mutant: the request is answered without a new file.
WriteFile_Skipped(h) ==
    /\ At(h, "write") /\ job' = [job EXCEPT ![h] = Idle(TRUE)]
    /\ UNCHANGED <<lists, file, sent, solo, written>>

\* The file is replaced as a whole and the request answered (201).
WriteFile(h) ==
    /\ At(h, "write") /\ job' = [job EXCEPT ![h] = Idle(TRUE)]
    /\ file' = job[h].text /\ written' = TRUE
    /\ UNCHANGED <<lists, sent, solo>>

WriteFails(h) ==
    /\ At(h, "write") /\ Refuse(h)
    /\ UNCHANGED <<lists, file, sent, solo, written>>

(* ------------------------- restart, reconfigure ------------------------- *)

LoadRegistry ==
    /\ Len(lists) < MaxRegistries
    /\ lists' = Append(lists, LoadRunbooks(file))
    /\ solo' = [h \in Handlers |-> FALSE]
    /\ UNCHANGED <<file, sent, written>>

\* The process dies at any point and starts again.
Restart == LoadRegistry /\ job' = [h \in Handlers |-> Idle(TRUE)]

\* configure_simulator() makes a new runtime with a registry of its own.
Reconfigure == LoadRegistry /\ UNCHANGED job

Save(h) == \/ Scan(h) \/ Replace(h) \/ TestRoom(h) \/ AppendRunbook(h)
           \/ TestNumber(h) \/ Dump(h) \/ WriteFile(h) \/ WriteFails(h)

Next ==
    \/ \E h \in Handlers : Save(h) \/ \E payload \in Payloads : ReceiveSave(h, payload)
    \/ Restart \/ Reconfigure

Spec == Init /\ [][Next]_vars

(* ------------------------------ properties ------------------------------ *)

\* Every runbook that can be served is one the executor can run, wherever it came from.
TypeOK ==
    /\ \A r \in DOMAIN lists : \A i \in DOMAIN lists[r] : Sound(lists[r][i])
    /\ Len(lists) \in 1 .. MaxRegistries /\ sent \in 0 .. MaxRequests
    /\ \A h \in Handlers : ~At(h, "idle") =>
          /\ job[h].registry \in DOMAIN lists
          /\ job[h].index \in 0 .. Len(Saved(h))
          /\ Sound(job[h].rb)

\* Handlers that all saw room for one more overrun the limit by no more than their
\* number less one, however many requests and registries there have been.
OverrunIsBounded ==
    \A r \in DOMAIN lists : Len(lists[r]) <= MaxSaved + Cardinality(Handlers) - 1

\* Whatever a registry writes, a restart loads: the size the writer admits is the size
\* the reader admits, and no runbook in it is refused or changed by being read again.
\* (Handlers that overrun the limit may write more runbooks than are loaded.)
WrittenIsLoaded == written => LoadRunbooks(file) = FirstFew(file)

Upsert(list, rb) ==
    LET i == Position(list, rb.id)
    IN  IF i = 0 THEN Append(list, rb) ELSE [list EXCEPT ![i] = rb]

\* A save that nothing overlaps is atomic and durable: once it is answered 201, one runbook
\* has changed and a restart would serve the same list; when it is refused, the file is
\* as it was and the list has changed by that runbook at most.
SoloSaveIsAtomic ==
    [][\A h \in Handlers :
          solo[h] /\ solo'[h] /\ ~At(h, "idle") /\ At(h, "idle")' =>
             LET after == Upsert(job[h].found, job[h].rb)
             IN  IF job'[h].ok THEN Memory' = after /\ LoadRunbooks(file') = after
                 ELSE Memory' \in {job[h].found, after} /\ file' = file]_vars

(* ------------------- what the code says of itself ----------------------- *)

\* "Saved runbooks cannot exceed" (runbooks.py:448): no list is served that could not be
\* written.
ServedFitsFile == Len(Memory) <= MaxSaved /\ Bytes(Memory) <= MaxBytes
=============================================================================
