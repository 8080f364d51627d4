---------------------------- MODULE ScenarioProofs ---------------------------
(***************************************************************************)
(* Whatever the catalog, however far the clock jumps between two ticks and *)
(* whenever the process dies: the index and the clock of a run agree, in   *)
(* memory and in the file, and while the process lives the events of a run *)
(* come in their order, each of them once.                                 *)
(***************************************************************************)
EXTENDS Scenario, TLAPS, WellFoundedInduction, SequenceTheorems

Histories == {h \in Seq(Finished) : Len(h) <= MaxHistory}
Snapshots == [active : Run \cup {None}, history : Histories]

\* What TypeOK leaves out: the saves, and what was dispatched.
Typed ==
    /\ active \in Run \cup {None} /\ time \in Nat
    /\ history \in Histories
    /\ pending \in Seq([id : Ids, event : Nat])
    /\ runs \in 0 .. MaxRuns /\ crashes \in 0 .. MaxCrashes
    /\ snapshot \subseteq Snapshots /\ file \in Snapshots
    /\ fired \in [Ids -> Seq(Nat)]

\* The index of a run stays within its timeline, and is consistent with its clock.
Sound(run) ==
    run # None => run.next <= Len(run.scenario.events) /\ RunConsistent(run)

\* In memory, in the save in progress and in the file: a restart may load the last two.
EverywhereSound == Sound(active) /\ Sound(file.active) /\ \A s \in snapshot : Sound(s.active)

\* The clock never runs behind what advance() saw last.
ClockAhead == active # None => active.elapsed <= time

\* The events of the active run that have been returned but not dispatched.
Waiting == IF pending # <<>> /\ pending[1].id = runs THEN Len(pending) ELSE 0

\* While the process lives: the active run is the last one started, what it dispatched and
\* what is pending for it are the events before its index, and all that is pending belongs
\* to one run, whose dispatched events it continues.
InSequence ==
    crashes = 0 =>
        /\ \A r \in Ids : \A i \in 1 .. Len(fired[r]) : fired[r][i] = i
        /\ \A r \in Ids : r > runs => fired[r] = <<>>
        /\ \A i \in 1 .. Len(pending) :
              /\ pending[i].id = pending[1].id /\ pending[1].id <= runs
              /\ pending[i].event = Len(fired[pending[1].id]) + i
        /\ active # None => active.id = runs /\ active.next = Len(fired[runs]) + Waiting

Inv == Typed /\ EverywhereSound /\ ClockAhead /\ InSequence

(* --------------------------- numbers, sequences ------------------------- *)

\* A set of numbers has a least one.
LEMMA Least ==
    ASSUME NEW S \in SUBSET Nat, S # {}
    PROVE  \E x \in S : \A y \in S : x <= y
<1> DEFINE less == {p \in Nat \X Nat : p[1] < p[2]}
<1>1. OpToRel(<, Nat) = less
  BY DEF OpToRel
<1>2. IsWellFoundedOn(less, Nat)
  BY <1>1, NatLessThanWellFounded
<1> HIDE DEF less
<1>3. PICK x \in S : \A y \in S : ~ (<<y, x>> \in less)
  BY <1>2, WFMin, Zenon
<1>4. ASSUME NEW y \in S PROVE x <= y
  <2>1. y < x => <<y, x>> \in less
    BY SMT DEF less
  <2>2. ~(y < x)
    BY <1>3, <2>1, Zenon
  <2> QED BY <2>2, SMT
<1> QED BY <1>4

LEMMA FunctionIsSequence ==
    ASSUME NEW n \in Nat, NEW S, NEW s \in [1 .. n -> S]
    PROVE  s \in Seq(S) /\ Len(s) = n
<1>1. s \in Seq(S)
  BY SeqDef, Zenon
<1>2. DOMAIN s = 1 .. n /\ DOMAIN s = 1 .. Len(s) /\ Len(s) \in Nat
  BY <1>1, LenProperties, Zenon
<1> QED BY <1>1, <1>2, SMT

LEMMA NoneIsNoRun == None \notin Run
<1>1. Run \subseteq [id : Nat, scenario : Scenarios, elapsed : Nat, next : Nat]
  BY SMT DEF Run, Ids
<1> QED BY <1>1, CatalogAssumption, Zenon

(* ----------------------------- one operation ---------------------------- *)

\* A run that is remembered leaves a history of runs, of which MaxHistory are kept.
LEMMA RememberTyped ==
    ASSUME Typed, active \in Run,
           NEW status \in {"stopped", "completed"}, Remember(status)
    PROVE  history' \in Histories
<1> DEFINE run  == [id |-> active.id, status |-> status]
           all  == <<run>> \o history
           kept == IF Len(history) < MaxHistory THEN Len(history) + 1 ELSE MaxHistory
<1>1. run \in Finished
  BY SMT DEF Run, Finished
<1>2. <<run>> \in Seq(Finished) /\ Len(<<run>>) = 1
  <2> HIDE DEF run
  <2> QED BY <1>1
<1>3. history \in Seq(Finished) /\ Len(history) \in Nat /\ Len(history) <= MaxHistory
  BY LenProperties, Zenon DEF Typed, Histories
<1>4. all \in Seq(Finished) /\ Len(all) = 1 + Len(history)
  <2> HIDE DEF run
  <2> QED BY <1>2, <1>3, ConcatProperties
<1>5. MaxHistory \in Nat /\ kept \in 0 .. Len(history) + 1 /\ kept <= MaxHistory
  BY <1>3, CatalogAssumption, SMT
<1> HIDE DEF run, all, kept
<1>6. \A i \in 1 .. kept : all[i] \in Finished
  <2> TAKE i \in 1 .. kept
  <2>1. i \in 1 .. Len(all)
    BY <1>3, <1>4, <1>5, SMT
  <2> QED BY <1>4, <2>1, ElementOfSeq
<1>7. SubSeq(all, 1, kept) \in Seq(Finished)
      /\ Len(SubSeq(all, 1, kept)) = IF 1 <= kept THEN kept - 1 + 1 ELSE 0
  <2>1. 1 \in Int /\ kept \in Int
    BY <1>3, <1>5, SMT
  <2> QED BY <1>6, <2>1, SubSeqProperties
<1>8. Len(SubSeq(all, 1, kept)) <= MaxHistory
  BY <1>3, <1>5, <1>7, SMT
<1>9. history' = SubSeq(all, 1, kept)
  BY DEF Remember, all, kept, run
<1> QED BY <1>7, <1>8, <1>9, Zenon DEF Histories

\* advance() returns the events from the index on, in a row, and all of them are due: the
\* first that is not due ends the row.
LEMMA DueEventsInARow ==
    ASSUME Typed, active \in Run, Sound(active)
    PROVE  \E last \in active.next .. Len(active.scenario.events) :
              /\ DueEvents = [i \in 1 .. last - active.next |-> active.next + i]
              /\ \A j \in active.next + 1 .. last : active.scenario.events[j] <= time
<1> DEFINE events == active.scenario.events
           next   == active.next
           ends   == {i \in next .. Len(events) : i < Len(events) => events[i + 1] > time}
           Row(i) == /\ \A j \in next + 1 .. i : events[j] <= time
                     /\ i < Len(events) => events[i + 1] > time
<1>1. events \in Seq(Nat) /\ Len(events) \in Nat /\ \A j \in 1 .. Len(events) : events[j] \in Nat
  <2>1. active.scenario \in Scenarios
    BY DEF Run
  <2>2. 0 .. active.scenario.duration \subseteq Nat /\ events \in Seq(0 .. active.scenario.duration)
    BY <2>1, CatalogAssumption, SMT
  <2>3. events \in Seq(Nat)
    BY <2>2, SeqMonotonic
  <2> HIDE DEF events
  <2> QED BY <2>3, LenProperties, ElementOfSeq
<1>2. next \in Nat /\ next <= Len(events) /\ time \in Nat
  BY NoneIsNoRun DEF Run, Sound, Typed
<1> HIDE DEF events, next
<1>3. PICK last \in ends : \A i \in ends : last <= i
  <2>1. Len(events) \in ends /\ ends \subseteq Nat
    BY <1>1, <1>2, SMT
  <2> HIDE DEF ends
  <2> QED BY <2>1, Least
<1>4. last \in next .. Len(events) /\ Row(last)
  <2>1. ASSUME NEW j \in next + 1 .. last PROVE events[j] <= time
    <3>1. j - 1 \in next .. Len(events) /\ j - 1 < last /\ (j - 1) + 1 = j /\ j - 1 < Len(events)
          /\ j \in 1 .. Len(events)
      BY <1>1, <1>2, <1>3, SMT
    <3>2. j - 1 \notin ends
      <4> HIDE DEF ends
      <4> QED BY <1>1, <1>2, <1>3, <3>1, SMT DEF ends
    <3>3. ~ events[(j - 1) + 1] > time
      BY <3>1, <3>2, Zenon
    <3> QED BY <1>1, <1>2, <3>1, <3>3, SMT
  <2> QED BY <1>3, <2>1, Zenon
<1> DEFINE chosen == CHOOSE i \in next .. Len(events) : Row(i)
<1>5. chosen \in next .. Len(events) /\ Row(chosen)
  BY <1>4, Zenon
<1>6. DueEvents = [i \in 1 .. chosen - next |-> next + i]
  BY Zenon DEF DueEvents, events, next
<1> HIDE DEF chosen
<1>7. /\ DueEvents = [i \in 1 .. chosen - next |-> next + i]
      /\ \A j \in next + 1 .. chosen : events[j] <= time
  BY <1>5, <1>6, Zenon
<1> QED BY <1>5, <1>7, Zenon DEF events, next

(* ----------------- what each operation does to the invariant ------------ *)

LEMMA InitInv == Init => Inv
<1> SUFFICES ASSUME Init PROVE Inv
  OBVIOUS
<1> USE DEF Init, Empty
<1>1. Empty \in Snapshots /\ history \in Histories
  BY CatalogAssumption, EmptySeq, SMT DEF Snapshots, Histories
<1>2. Typed
  <2>1. runs \in 0 .. MaxRuns /\ crashes \in 0 .. MaxCrashes
    BY CatalogAssumption, SMT
  <2>2. pending \in Seq([id : Ids, event : Nat]) /\ fired \in [Ids -> Seq(Nat)]
    BY EmptySeq
  <2> QED BY <1>1, <2>1, <2>2, SMT DEF Typed
<1>3. EverywhereSound /\ ClockAhead
  BY DEF EverywhereSound, Sound, ClockAhead
<1>4. InSequence
  BY CatalogAssumption, EmptySeq, SMT DEF InSequence
<1> QED BY <1>2, <1>3, <1>4 DEF Inv

\* A run starts with an id of its own, from the first event.
LEMMA StartKeeps == Inv /\ Start => Inv'
<1> SUFFICES ASSUME Inv, Start PROVE Inv'
  OBVIOUS
<1> USE DEF Inv
<1>1. PICK s \in Scenarios :
         active' = [id |-> runs + 1, scenario |-> s, elapsed |-> 0, next |-> 0]
  BY SMT DEF Start
<1>2. /\ runs' = runs + 1 /\ runs' \in 1 .. MaxRuns /\ time' = 0 /\ active = None
      /\ UNCHANGED <<history, pending, disk, crashes, fired>>
  BY CatalogAssumption, SMT DEF Start, MayStart, Typed
<1>3. active' \in Run /\ active' # None
  <2>1. active' \in Run
    BY <1>1, <1>2, SMT DEF Run, Ids
  <2> QED BY <2>1, NoneIsNoRun
<1>4. Typed'
  BY <1>2, <1>3, SMT DEF Typed, disk
<1>5. EverywhereSound' /\ ClockAhead'
  <2>1. s.events \in Seq(0 .. s.duration)
    BY CatalogAssumption
  <2>2. Len(s.events) \in Nat
    BY <2>1, LenProperties
  <2>3. Sound(active')
    BY <1>1, <2>2, SMT DEF Sound, RunConsistent
  <2>4. ClockAhead'
    BY <1>1, <1>2, SMT DEF ClockAhead
  <2> QED BY <1>2, <2>3, <2>4 DEF EverywhereSound, disk
<1>6. InSequence'
  <2> SUFFICES ASSUME crashes = 0
               PROVE  InSequence'
    BY <1>2, SMT DEF InSequence
  <2>1. fired[runs'] = <<>>
    BY <1>2, SMT DEF InSequence, Ids, Typed
  <2>2. pending # <<>> => pending[1].id # runs'
    <3>1. pending # <<>> => 1 \in 1 .. Len(pending)
      BY EmptySeq, SMT DEF Typed
    <3>2. pending # <<>> => pending[1].id <= runs
      BY <3>1 DEF InSequence
    <3> QED BY <1>2, <3>2, SMT DEF Typed
  <2>3. Waiting' = 0 /\ Len(fired[runs']) = 0
    BY <1>2, <2>1, <2>2, EmptySeq DEF Waiting
  <2>4. active'.id = runs' /\ active'.next = Len(fired'[runs']) + Waiting'
    BY <1>1, <1>2, <2>3, SMT
  <2>5. \A r \in Ids : r > runs' => fired'[r] = <<>>
    BY <1>2, SMT DEF InSequence, Ids, Typed
  <2>6. \A i \in 1 .. Len(pending) : pending[1].id <= runs'
    <3> TAKE i \in 1 .. Len(pending)
    <3>1. pending # <<>> /\ 1 \in 1 .. Len(pending)
      BY EmptySeq, SMT DEF Typed
    <3>2. pending[1].id \in Ids
      <4>1. pending[1] \in [id : Ids, event : Nat]
        BY <3>1, ElementOfSeq, Zenon DEF Typed
      <4> QED BY <4>1
    <3> QED BY <1>2, <3>2, SMT DEF InSequence, Ids, Typed
  <2> QED BY <1>2, <2>4, <2>5, <2>6 DEF InSequence
<1> QED BY <1>4, <1>5, <1>6

\* A run that is over leaves nothing behind but its pending events.
LEMMA RunOverKeeps ==
    ASSUME Inv, active # None, NEW status \in {"stopped", "completed"}, Remember(status),
           active' = None, UNCHANGED <<time, pending, disk, runs, crashes, fired>>
    PROVE  Inv'
<1> USE DEF Inv
<1>1. history' \in Histories
  BY RememberTyped DEF Typed
<1>2. Typed'
  BY <1>1, SMT DEF Typed, disk
<1>3. EverywhereSound' /\ ClockAhead'
  BY DEF EverywhereSound, Sound, ClockAhead, disk
<1>4. InSequence'
  BY SMT DEF InSequence
<1> QED BY <1>2, <1>3, <1>4

LEMMA StopKeeps == Inv /\ Stop => Inv'
BY RunOverKeeps DEF Stop

LEMMA CompleteKeeps == Inv /\ Complete => Inv'
BY RunOverKeeps DEF Complete

LEMMA ElapseKeeps == Inv /\ Elapse => Inv'
<1> SUFFICES ASSUME Inv, Elapse PROVE Inv'
  OBVIOUS
<1> USE DEF Inv
<1>1. /\ active \in Run /\ time' \in time + 1 .. active.scenario.duration
      /\ active.scenario.duration \in Nat
      /\ UNCHANGED <<active, history, pending, disk, runs, crashes, fired>>
  <2>1. active \in Run
    BY DEF Elapse, Typed
  <2> QED BY <2>1, CatalogAssumption DEF Elapse, Run
<1>2. time' \in Nat /\ time < time'
  BY <1>1, SMT DEF Typed
<1>3. Typed'
  BY <1>1, <1>2, SMT DEF Typed, disk
<1>4. EverywhereSound'
  BY <1>1 DEF EverywhereSound, disk
<1>5. ClockAhead'
  BY <1>1, <1>2, SMT DEF ClockAhead, Typed, Run
<1>6. InSequence'
  <2>1. Waiting' = Waiting
    BY <1>1 DEF Waiting
  <2> QED BY <1>1, <2>1, Zenon DEF InSequence
<1> QED BY <1>3, <1>4, <1>5, <1>6

\* The index moves past the events returned, all of them due by the clock of the run.
LEMMA AdvanceKeeps == Inv /\ Advance => Inv'
<1> SUFFICES ASSUME Inv, Advance PROVE Inv'
  OBVIOUS
<1> USE DEF Inv
<1> DEFINE next == active.next
           due  == DueEvents
<1>1. active \in Run /\ active # None /\ pending = <<>> /\ Sound(active)
  BY DEF Advance, Typed, EverywhereSound
<1>2. PICK last \in active.next .. Len(active.scenario.events) :
         /\ DueEvents = [i \in 1 .. last - active.next |-> active.next + i]
         /\ \A j \in active.next + 1 .. last : active.scenario.events[j] <= time
  BY <1>1, DueEventsInARow
<1>3. /\ next \in Nat /\ time \in Nat /\ active.elapsed \in Nat /\ active.elapsed <= time
      /\ active.id \in Ids /\ next <= Len(active.scenario.events)
  BY <1>1 DEF Run, Typed, ClockAhead, Sound
<1>4. Len(active.scenario.events) \in Nat
      /\ \A j \in 1 .. Len(active.scenario.events) : active.scenario.events[j] \in Nat
  <2>1. active.scenario \in Scenarios
    BY <1>1 DEF Run
  <2>2. active.scenario.events \in Seq(0 .. active.scenario.duration)
        /\ 0 .. active.scenario.duration \subseteq Nat
    BY <2>1, CatalogAssumption, SMT
  <2>3. active.scenario.events \in Seq(Nat)
    BY <2>2, SeqMonotonic
  <2> QED BY <2>3, LenProperties, ElementOfSeq
<1> DEFINE n == last - next
<1>5. n \in Nat /\ next + n = last /\ last \in Nat
  BY <1>2, <1>3, <1>4, SMT
<1>6. due = [i \in 1 .. n |-> next + i] /\ due \in [1 .. n -> Nat]
  <2>1. \A i \in 1 .. n : next + i \in Nat
    BY <1>3, <1>5, SMT
  <2> HIDE DEF next
  <2> QED BY <1>2, <2>1 DEF next
<1> HIDE DEF due, n
<1>7. due \in Seq(Nat) /\ Len(due) = n /\ DOMAIN due = 1 .. n
  BY <1>5, <1>6, FunctionIsSequence
<1>8. /\ active' = [active EXCEPT !.elapsed = time, !.next = last]
      /\ pending' = [i \in 1 .. n |-> [id |-> active.id, event |-> due[i]]]
      /\ UNCHANGED <<time, history, disk, runs, crashes, fired>>
  BY <1>5, <1>7, Zenon DEF Advance, NextEvent, due, next
<1>9. /\ active' \in Run /\ active'.id = active.id /\ active'.scenario = active.scenario
      /\ active'.elapsed = time /\ active'.next = last
  BY <1>1, <1>3, <1>5, <1>8 DEF Run
<1>10. /\ pending' \in Seq([id : Ids, event : Nat]) /\ Len(pending') = n
       /\ \A i \in 1 .. n : pending'[i].id = active.id /\ pending'[i].event = next + i
  <2>1. pending' \in [1 .. n -> [id : Ids, event : Nat]]
    BY <1>3, <1>6, <1>8
  <2>2. \A i \in 1 .. n : pending'[i].id = active.id /\ pending'[i].event = next + i
    BY <1>6, <1>8
  <2> QED BY <1>5, <2>1, <2>2, FunctionIsSequence
<1>11. Typed'
  BY <1>3, <1>8, <1>9, <1>10, SMT DEF Typed, disk
<1>12. EverywhereSound' /\ ClockAhead'
  <2>1. ASSUME NEW i \in 1 .. last PROVE active.scenario.events[i] <= time
    <3>1. CASE i <= next
      <4>1. active.scenario.events[i] <= active.elapsed
        BY <1>1, <1>3, <1>5, <3>1, SMT DEF Sound, RunConsistent
      <4>2. active.scenario.events[i] \in Nat
        BY <1>3, <1>4, <3>1, SMT
      <4> QED BY <1>3, <4>1, <4>2, SMT
    <3>2. CASE i > next
      BY <1>2, <1>3, <1>5, <3>2, SMT
    <3> QED BY <1>3, <1>5, <3>1, <3>2, SMT
  <2>2. Sound(active')
    BY <1>2, <1>9, <2>1, SMT DEF Sound, RunConsistent
  <2>3. ClockAhead'
    BY <1>3, <1>8, <1>9, SMT DEF ClockAhead
  <2> QED BY <1>8, <2>2, <2>3 DEF EverywhereSound, disk
<1>13. InSequence'
  <2> SUFFICES ASSUME crashes = 0
               PROVE  InSequence'
    BY <1>8, Zenon DEF InSequence
  <2>1. active.id = runs /\ next = Len(fired[runs])
    BY <1>1, <1>3, SMT DEF InSequence, Waiting, Typed
  <2>2. \A i \in 1 .. n :
           /\ pending'[i].id = pending'[1].id /\ pending'[1].id <= runs
           /\ pending'[i].event = Len(fired[pending'[1].id]) + i
    <3> TAKE i \in 1 .. n
    <3>1. 1 \in 1 .. n
      BY <1>5, SMT
    <3>2. pending'[i].id = runs /\ pending'[1].id = runs /\ pending'[i].event = next + i
      BY <1>10, <2>1, <3>1
    <3>3. runs <= runs
      BY SMT DEF Typed
    <3> QED BY <2>1, <3>2, <3>3, Zenon
  <2>3. Waiting' = n
    <3>1. n # 0 => 1 \in 1 .. n
      BY <1>5, SMT
    <3>2. pending' = <<>> <=> n = 0
      BY <1>5, <1>10, EmptySeq, SMT
    <3>3. n # 0 => pending'[1].id = runs'
      BY <1>8, <1>10, <2>1, <3>1
    <3> QED BY <1>10, <3>2, <3>3, Zenon DEF Waiting
  <2>4. active'.id = runs' /\ active'.next = Len(fired'[runs']) + Waiting'
    BY <1>5, <1>8, <1>9, <2>1, <2>3, SMT
  <2>5. Len(pending') = n /\ runs' = runs /\ fired' = fired
    BY <1>8, <1>10
  <2> QED BY <2>2, <2>4, <2>5, Zenon DEF InSequence
<1> QED BY <1>11, <1>12, <1>13

\* The event dispatched is the one after those dispatched before.
LEMMA DispatchKeeps == Inv /\ Dispatch => Inv'
<1> SUFFICES ASSUME Inv, Dispatch PROVE Inv'
  OBVIOUS
<1> USE DEF Inv
<1> DEFINE E == [id : Ids, event : Nat]
           r == Head(pending).id
           e == Head(pending).event
<1>1. /\ pending \in Seq(E) /\ pending # <<>> /\ Len(pending) \in Nat \ {0}
      /\ Head(pending) = pending[1] /\ r \in Ids /\ e \in Nat
      /\ pending' = Tail(pending) /\ Tail(pending) \in Seq(E)
      /\ Len(Tail(pending)) = Len(pending) - 1
      /\ \A i \in 1 .. Len(Tail(pending)) : Tail(pending)[i] = pending[i + 1]
  <2>1. pending \in Seq(E) /\ pending # <<>>
    BY DEF Dispatch, Typed
  <2> HIDE DEF E
  <2>2. Head(pending) \in E /\ Head(pending) = pending[1]
    BY <2>1, HeadTailProperties
  <2>3. r \in Ids /\ e \in Nat
    BY <2>2 DEF E
  <2> QED BY <2>1, <2>2, <2>3, HeadTailProperties, EmptySeq DEF Dispatch
<1> HIDE DEF E, r, e
<1>2. /\ fired' = [fired EXCEPT ![r] = Append(fired[r], e)]
      /\ UNCHANGED <<active, time, history, disk, runs, crashes>>
  BY DEF Dispatch, r, e
<1>3. fired[r] \in Seq(Nat) /\ Len(fired[r]) \in Nat
  BY <1>1, LenProperties DEF Typed
<1>4. /\ Append(fired[r], e) \in Seq(Nat) /\ Len(Append(fired[r], e)) = Len(fired[r]) + 1
      /\ \A i \in 1 .. Len(fired[r]) : Append(fired[r], e)[i] = fired[r][i]
      /\ Append(fired[r], e)[Len(fired[r]) + 1] = e
  BY <1>1, <1>3, AppendProperties
<1>5. /\ fired' \in [Ids -> Seq(Nat)] /\ fired'[r] = Append(fired[r], e)
      /\ \A q \in Ids : q # r => fired'[q] = fired[q]
  BY <1>1, <1>2, <1>4 DEF Typed
<1>6. Typed'
  BY <1>1, <1>2, <1>5, SMT DEF Typed, disk, E
<1>7. EverywhereSound' /\ ClockAhead'
  BY <1>2 DEF EverywhereSound, ClockAhead, disk
<1>8. InSequence'
  <2> SUFFICES ASSUME crashes = 0
               PROVE  InSequence'
    BY <1>2, SMT DEF InSequence
  <2>1. /\ \A i \in 1 .. Len(pending) : pending[i].id = r /\ pending[i].event = Len(fired[r]) + i
        /\ r <= runs /\ e = Len(fired[r]) + 1
    <3>1. 1 \in 1 .. Len(pending) /\ pending[1].id = r /\ pending[1].event = e
      BY <1>1, SMT DEF r, e
    <3> QED BY <3>1, SMT DEF InSequence
  <2>2. \A q \in Ids : \A i \in 1 .. Len(fired'[q]) : fired'[q][i] = i
    <3> TAKE q \in Ids
    <3>1. CASE q = r
      <4> TAKE i \in 1 .. Len(fired'[q])
      <4>1. i \in 1 .. Len(fired[r]) \/ i = Len(fired[r]) + 1
        BY <1>3, <1>4, <1>5, <3>1, SMT
      <4>2. i \in 1 .. Len(fired[r]) => fired[r][i] = i
        BY <1>1 DEF InSequence
      <4> QED BY <1>4, <1>5, <2>1, <3>1, <4>1, <4>2
    <3>2. CASE q # r
      BY <1>5, <3>2 DEF InSequence
    <3> QED BY <3>1, <3>2
  <2>3. \A q \in Ids : q > runs => fired'[q] = <<>>
    <3> TAKE q \in Ids
    <3>1. q > runs => q # r
      BY <1>1, <2>1, SMT DEF Ids, Typed
    <3> QED BY <1>5, <3>1 DEF InSequence
  <2>4. ASSUME NEW i \in 1 .. Len(pending')
        PROVE  /\ pending'[i].id = r /\ pending'[1].id = r /\ r <= runs
               /\ pending'[i].event = Len(fired'[r]) + i
    <3>1. i + 1 \in 1 .. Len(pending) /\ 2 \in 1 .. Len(pending) /\ 1 \in 1 .. Len(pending')
      BY <1>1, SMT
    <3>2. pending'[i] = pending[i + 1] /\ pending'[1] = pending[2]
      BY <1>1, <3>1, SMT
    <3>3. Len(fired[r]) + (i + 1) = Len(fired'[r]) + i
      <4>1. \A a \in Nat : a + (i + 1) = (a + 1) + i
        BY SMT
      <4> QED BY <1>3, <1>4, <1>5, <4>1, Zenon
    <3>4. pending[i + 1].id = r /\ pending[i + 1].event = Len(fired[r]) + (i + 1) /\ pending[2].id = r
      BY <2>1, <3>1
    <3> QED BY <2>1, <3>2, <3>3, <3>4, Zenon
  <2>5. ASSUME active # None
        PROVE  active.id = runs /\ active.next = Len(fired'[runs]) + Waiting'
    <3>1. active.id = runs /\ active.next = Len(fired[runs]) + Waiting /\ runs \in Ids
      BY <2>5, SMT DEF InSequence, Run, Typed
    <3>2. CASE r = runs
      <4>1. Waiting = Len(pending)
        BY <1>1, <3>2 DEF Waiting, r
      <4>2. Waiting' = Len(pending) - 1
        <5>1. CASE pending' = <<>>
          <6>1. Len(pending') = 0 /\ Waiting' = 0
            BY <5>1, EmptySeq DEF Waiting
          <6> QED BY <1>1, <6>1, SMT
        <5>2. CASE pending' # <<>>
          <6>1. 1 \in 1 .. Len(pending')
            BY <1>1, <5>2, EmptySeq, SMT
          <6>2. pending'[1].id = runs'
            BY <1>2, <2>4, <3>2, <6>1
          <6> QED BY <1>1, <5>2, <6>2 DEF Waiting
        <5> QED BY <5>1, <5>2
      <4>3. Len(fired'[runs]) = Len(fired[runs]) + 1 /\ Len(fired[runs]) \in Nat
        BY <1>3, <1>4, <1>5, <3>2
      <4> QED BY <1>1, <3>1, <4>1, <4>2, <4>3, SMT
    <3>3. CASE r # runs
      <4>1. Waiting = 0
        BY <1>1, <3>3 DEF Waiting, r
      <4>2. Waiting' = 0
        <5>1. pending' # <<>> => 1 \in 1 .. Len(pending')
          BY <1>1, EmptySeq, SMT
        <5>2. pending' # <<>> => pending'[1].id # runs'
          BY <1>2, <2>4, <3>3, <5>1
        <5> QED BY <5>2 DEF Waiting
      <4> QED BY <1>5, <3>1, <3>3, <4>1, <4>2
    <3> QED BY <3>2, <3>3
  <2> QED BY <1>2, <2>2, <2>3, <2>4, <2>5, Zenon DEF InSequence
<1> QED BY <1>6, <1>7, <1>8

LEMMA TakeSnapshotKeeps == Inv /\ TakeSnapshot => Inv'
<1> SUFFICES ASSUME Inv, TakeSnapshot PROVE Inv'
  OBVIOUS
<1> USE DEF Inv, TakeSnapshot
<1>1. Typed'
  BY SMT DEF Typed, Snapshots
<1>2. EverywhereSound' /\ ClockAhead'
  BY SMT DEF EverywhereSound, ClockAhead
<1>3. InSequence'
  <2>1. Waiting' = Waiting
    BY DEF Waiting
  <2> QED BY <2>1, Zenon DEF InSequence
<1> QED BY <1>1, <1>2, <1>3

LEMMA FinishSaveKeeps == Inv /\ FinishSave => Inv'
<1> SUFFICES ASSUME Inv, FinishSave PROVE Inv'
  OBVIOUS
<1> USE DEF Inv, FinishSave
<1>1. Typed'
  BY SMT DEF Typed
<1>2. EverywhereSound' /\ ClockAhead'
  BY SMT DEF EverywhereSound, ClockAhead
<1>3. InSequence'
  <2>1. Waiting' = Waiting
    BY DEF Waiting
  <2> QED BY <2>1, Zenon DEF InSequence
<1> QED BY <1>1, <1>2, <1>3

\* What is restored is what was saved: a run with its index and its clock.
LEMMA CrashKeeps == Inv /\ Crash => Inv'
<1> SUFFICES ASSUME Inv, Crash PROVE Inv'
  OBVIOUS
<1> USE DEF Inv
<1>1. PICK saved \in {file, Empty} :
         active' = saved.active /\ history' = saved.history /\ time' = ResumeAt(saved.active)
  BY Zenon DEF Crash
<1>2. /\ crashes < MaxCrashes /\ crashes' = crashes + 1 /\ pending' = <<>> /\ snapshot' = {}
      /\ UNCHANGED <<file, runs, fired>>
  BY DEF Crash
<1>3. Empty \in Snapshots
  BY CatalogAssumption, EmptySeq, SMT DEF Empty, Snapshots, Histories
<1>4. saved \in Snapshots /\ Sound(saved.active)
  BY <1>3 DEF Typed, EverywhereSound, Sound, Empty
<1>5. active' \in Run \cup {None} /\ history' \in Histories
  BY <1>1, <1>4 DEF Snapshots
<1>6. time' \in Nat /\ (active' # None => active'.elapsed = time')
  BY <1>1, <1>5 DEF ResumeAt, Run
<1>7. Typed'
  <2>1. crashes' \in 0 .. MaxCrashes
    BY <1>2, CatalogAssumption, SMT DEF Typed
  <2>2. pending' \in Seq([id : Ids, event : Nat])
    BY <1>2, EmptySeq
  <2> QED BY <1>2, <1>5, <1>6, <2>1, <2>2, SMT DEF Typed
<1>8. EverywhereSound'
  BY <1>1, <1>2, <1>4 DEF EverywhereSound
<1>9. ClockAhead'
  BY <1>5, <1>6, SMT DEF ClockAhead, Run
<1>10. InSequence'
  BY <1>2, SMT DEF InSequence, Typed
<1> QED BY <1>7, <1>8, <1>9, <1>10

LEMMA NextInv == Inv /\ [Next]_vars => Inv'
<1> SUFFICES ASSUME Inv, [Next]_vars PROVE Inv'
  OBVIOUS
<1>1. CASE Next
  BY <1>1, StartKeeps, StopKeeps, ElapseKeeps, AdvanceKeeps, CompleteKeeps, DispatchKeeps,
     TakeSnapshotKeeps, FinishSaveKeeps, CrashKeeps DEF Next, Loop
<1>2. CASE UNCHANGED vars
  <2> USE <1>2 DEF Inv, vars, disk
  <2>1. Typed' /\ EverywhereSound' /\ ClockAhead'
    BY DEF Typed, EverywhereSound, ClockAhead
  <2>2. Waiting' = Waiting
    BY DEF Waiting
  <2>3. InSequence'
    BY <2>2, Zenon DEF InSequence
  <2> QED BY <2>1, <2>3
<1> QED BY <1>1, <1>2

(* ------------------------------- theorems ------------------------------- *)

\* The invariant behind the properties.
THEOREM ScenarioInvariant == Spec => []Inv
BY InitInv, NextInv, PTL DEF Spec

\* Every variable has the type the code gives it, the history is never longer than its
\* limit (ScenarioRunner.stop, advance), and the index of a run never leaves its timeline.
THEOREM TypeCorrect == Spec => []TypeOK
<1>1. Inv => TypeOK
  BY DEF Inv, Typed, Histories, EverywhereSound, Sound, TypeOK
<1> QED BY <1>1, ScenarioInvariant, PTL

\* The index and the clock of a run agree, in memory and in the file, whenever a save or a
\* crash comes: a run that is restored neither skips an event that was not due nor waits
\* for one that had been returned (advance, snapshot_for_save, restore_state).
THEOREM IndexAlwaysMatchesClock == Spec => []IndexMatchesClock
<1>1. Inv => IndexMatchesClock
  BY DEF Inv, EverywhereSound, Sound, IndexMatchesClock, RunConsistent
<1> QED BY <1>1, ScenarioInvariant, PTL

\* While the process lives, the events of a run are dispatched in their order, each of them
\* once and none left out before one that came, whatever runs are stopped and started between advance() and the
\* dispatch of what it returned (simulation_loop).
THEOREM EventsAlwaysOnceInOrder == Spec => []EventsOnceInOrder
<1>1. Inv => EventsOnceInOrder
  <2> SUFFICES ASSUME Inv, crashes = 0, NEW r \in Ids
               PROVE  fired[r] = [i \in DOMAIN fired[r] |-> i]
    BY DEF EventsOnceInOrder
  <2>1. fired[r] \in Seq(Nat)
    BY DEF Inv, Typed
  <2>2. fired[r] \in [1 .. Len(fired[r]) -> Nat] /\ DOMAIN fired[r] = 1 .. Len(fired[r])
    BY <2>1, LenProperties
  <2>3. \A i \in 1 .. Len(fired[r]) : fired[r][i] = i
    BY DEF Inv, InSequence
  <2> QED BY <2>2, <2>3
<1> QED BY <1>1, ScenarioInvariant, PTL
=============================================================================
