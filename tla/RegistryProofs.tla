---------------------------- MODULE RegistryProofs ---------------------------
(***************************************************************************)
(* Whatever the runbooks clients send or a file holds, the limits, and the *)
(* number of handlers, none of which takes a lock: what is served can be   *)
(* run, what is written can be loaded, handlers overrun the limit by no    *)
(* more than their number less one, and a save nothing overlaps is atomic. *)
(***************************************************************************)
EXTENDS Registry, TLAPS, FiniteSetTheorems, SequenceTheorems, WellFoundedInduction

Labels == {"scan", "room", "append", "replace", "measure", "dump", "write"}

Requests == [pc : Labels, registry : Nat, index : Nat, rb : Runbooks,
             found : Seq(Runbooks), text : Seq(Runbooks)]

SoundList(list) ==
    /\ list \in Seq(Runbooks) /\ Len(list) \in Nat \ {0}
    /\ \A i \in 1 .. Len(list) : Sound(list[i])

\* What TypeOK leaves out: the file, the answers, and that no list is empty.
Typed ==
    /\ lists \in Seq(Seq(Runbooks)) /\ Len(lists) \in 1 .. MaxRegistries
    /\ \A r \in 1 .. Len(lists) : SoundList(lists[r])
    /\ file \in Seq(Runbooks) \cup {NoList}
    /\ job \in [Handlers -> Requests \cup {Idle(ok) : ok \in BOOLEAN}]
    /\ sent \in 0 .. MaxRequests
    /\ solo \in [Handlers -> BOOLEAN] /\ written \in BOOLEAN

\* A handler that replaces a runbook does so at an index of the list.
RequestSound(h) ==
    ~At(h, "idle") =>
        /\ job[h].registry \in 1 .. Len(lists) /\ Sound(job[h].rb)
        /\ job[h].index \in 0 .. Len(Saved(h))
        /\ At(h, "replace") => job[h].index # 0

\* What a registry writes: a list of sound runbooks whose size has been tested.
Writable(list) == SoundList(list) /\ FitsFile(list)

TextsWritable ==
    /\ \A h \in Handlers : At(h, "write") => Writable(job[h].text)
    /\ written => Writable(file)

\* The handlers that saw room in a list and have not appended to it yet.
Appending(r) == {h \in Handlers : At(h, "append") /\ job[h].registry = r}

RoomCounted ==
    \A r \in 1 .. Len(lists) :
        Len(lists[r]) + Cardinality(Appending(r)) <= MaxSaved + Cardinality(Handlers) - 1

\* How far a save that nothing has overlapped has come: no other handler is at work, the
\* list is the one the save found or the one with its runbook in it.
SoloSave(h) ==
    LET after == Upsert(job[h].found, job[h].rb)
    IN  /\ \A g \in Handlers \ {h} : At(g, "idle")
        /\ job[h].registry = Len(lists)
        /\ job[h].pc \in {"scan", "room", "append", "replace"} => Memory = job[h].found
        /\ job[h].pc \in {"room", "append"} => Position(Memory, job[h].rb.id) = 0
        /\ At(h, "replace") => job[h].index = Position(Memory, job[h].rb.id)
        /\ job[h].pc \in {"measure", "dump", "write"} => Memory = after
        /\ job[h].pc \in {"dump", "write"} => Len(Memory) <= MaxSaved
        /\ At(h, "write") => job[h].text = after

SoloSaves == \A h \in Handlers : solo[h] /\ ~At(h, "idle") => SoloSave(h)

Inv ==
    /\ Typed /\ (\A h \in Handlers : RequestSound(h))
    /\ TextsWritable /\ RoomCounted /\ SoloSaves

(* ------------------------- numbers and sequences ------------------------- *)

\* A set of numbers has a least one.
LEMMA Least ==
    ASSUME NEW S \in SUBSET Nat, S # {}
    PROVE  \E x \in S : \A y \in S : x <= y
<1> DEFINE less == {p \in Nat \X Nat : p[1] < p[2]}
<1>1. OpToRel(<, Nat) = less
    BY DEF OpToRel
<1>2. IsWellFoundedOn(less, Nat)
    BY <1>1, NatLessThanWellFounded
<1> HIDE DEF less
<1>3. PICK x \in S : \A y \in S : ~ (<<y, x>> \in less)
    BY <1>2, WFMin, Zenon
<1>4. ASSUME NEW y \in S PROVE x <= y
    <2>1. y < x => <<y, x>> \in less
        BY SMT DEF less
    <2>2. ~ (y < x)
        BY <1>3, <2>1, Zenon
    <2> QED BY <2>2, SMT
<1> QED BY <1>4

LEMMA FunctionIsSequence ==
    ASSUME NEW n \in Nat, NEW S, NEW s \in [1 .. n -> S]
    PROVE  s \in Seq(S) /\ Len(s) = n
<1>1. s \in Seq(S)
    BY SeqDef, Zenon
<1>2. DOMAIN s = 1 .. n /\ DOMAIN s = 1 .. Len(s) /\ Len(s) \in Nat
    BY <1>1, LenProperties, Zenon
<1> QED BY <1>1, <1>2, SMT

LEMMA AppendSequence ==
    ASSUME NEW S, NEW s \in Seq(S), NEW e \in S
    PROVE  /\ Append(s, e) \in Seq(S) /\ Len(Append(s, e)) = Len(s) + 1
           /\ \A i \in 1 .. Len(s) : Append(s, e)[i] = s[i]
           /\ Append(s, e)[Len(s) + 1] = e
BY AppendProperties, LenProperties, SMT

(* -------------------------- putting in order ----------------------------- *)

\* Whether position i comes before position j.
Before(key, i, j) == key[i] < key[j] \/ (key[i] = key[j] /\ i < j)

\* The positions before one of them.
Ahead(positions, key, i) == {j \in positions : Before(key, j, i)}

\* The sooner a position comes, the fewer are before it.
LEMMA AheadGrows ==
    ASSUME NEW positions \in SUBSET Nat, IsFiniteSet(positions),
           NEW key, \A i \in positions : key[i] \in Int,
           NEW i \in positions, NEW j \in positions, Before(key, i, j)
    PROVE  Cardinality(Ahead(positions, key, i)) < Cardinality(Ahead(positions, key, j))
<1> DEFINE A(x) == Ahead(positions, key, x)
<1>1. ASSUME NEW x \in positions PROVE IsFiniteSet(A(x)) /\ Cardinality(A(x)) \in Nat
    <2>1. A(x) \in SUBSET positions
        BY DEF Ahead
    <2> QED BY <2>1, FS_Subset, FS_CardinalityType
<1>2. i \in A(j) /\ i \notin A(i)
    BY SMT DEF Ahead, Before
<1>3. A(i) \in SUBSET A(j)
    <2>1. ASSUME NEW x \in positions, Before(key, x, i) PROVE Before(key, x, j)
        BY <2>1, SMT DEF Before
    <2> QED BY <2>1 DEF Ahead
<1> HIDE DEF A
<1>4. Cardinality(A(i)) <= Cardinality(A(j)) /\ Cardinality(A(i)) # Cardinality(A(j))
    BY <1>1, <1>2, <1>3, FS_Subset
<1>5. Cardinality(A(i)) < Cardinality(A(j))
    BY <1>1, <1>4, SMT
<1> QED BY <1>5 DEF A

\* InOrder takes entry at[k] in place k.
Arranges(at, list, positions, key) ==
    /\ at \in [1 .. Cardinality(positions) -> positions]
    /\ InOrder(list, positions, key) = [k \in 1 .. Cardinality(positions) |-> list[at[k]]]
    /\ \A k, m \in 1 .. Cardinality(positions) : k < m => Before(key, at[k], at[m])

\* InOrder takes every entry at those positions once, and in their order.
LEMMA InOrderPermutes ==
    ASSUME NEW list, NEW positions \in SUBSET Nat, IsFiniteSet(positions),
           NEW key, \A i \in positions : key[i] \in Int
    PROVE  \E at : Arranges(at, list, positions, key)
<1> DEFINE n == Cardinality(positions)
           rank(i) == Cardinality(Ahead(positions, key, i))
           f == [i \in positions |-> rank(i) + 1]
           at == [k \in 1 .. n |-> CHOOSE i \in positions : rank(i) = k - 1]
<1>1. n \in Nat
    BY FS_CardinalityType
<1>2. ASSUME NEW i \in positions PROVE rank(i) \in 0 .. n - 1
    <2>1. Ahead(positions, key, i) \in SUBSET positions /\ i \notin Ahead(positions, key, i)
        BY SMT DEF Ahead, Before
    <2>2. rank(i) \in Nat /\ rank(i) <= n /\ rank(i) # n
        BY <2>1, FS_Subset, FS_CardinalityType
    <2> QED BY <1>1, <2>2, SMT
<1>3. ASSUME NEW i \in positions, NEW j \in positions, Before(key, i, j) PROVE rank(i) < rank(j)
    BY <1>3, AheadGrows
<1>4. ASSUME NEW i \in positions, NEW j \in positions
      PROVE  Before(key, i, j) \/ Before(key, j, i) \/ i = j
    BY SMT DEF Before
<1> HIDE DEF rank, n
<1>5. \A k \in 1 .. n : \E i \in positions : rank(i) = k - 1
    <2>1. f \in [positions -> 1 .. n]
        BY <1>1, <1>2, SMT
    <2>2. ASSUME NEW i \in positions, NEW j \in positions, f[i] = f[j] PROVE i = j
        BY <1>2, <1>3, <1>4, <2>2, SMT
    <2>3. f \in Injection(positions, 1 .. n)
        BY <2>1, <2>2 DEF Injection, IsInjective
    <2>4. IsFiniteSet(1 .. n) /\ Cardinality(1 .. n) = n
        BY <1>1, FS_Interval
    <2>5. f \in Surjection(positions, 1 .. n)
        BY <2>3, <2>4, FS_Injection DEF n
    <2>6. ASSUME NEW k \in 1 .. n PROVE \E i \in positions : rank(i) = k - 1
        <3>1. PICK i \in positions : f[i] = k
            BY <2>5 DEF Surjection
        <3> QED BY <1>1, <1>2, <3>1, SMT
    <2> QED BY <2>6
<1>6. ASSUME NEW k \in 1 .. n PROVE at[k] \in positions /\ rank(at[k]) = k - 1
    BY <1>5
<1>7. InOrder(list, positions, key) = [k \in 1 .. n |-> list[at[k]]]
    BY DEF InOrder, Ahead, Before, rank, n
<1> HIDE DEF at
<1>8. ASSUME NEW k \in 1 .. n, NEW m \in 1 .. n, k < m PROVE Before(key, at[k], at[m])
    <2>1. ~ rank(at[m]) < rank(at[k]) /\ rank(at[m]) # rank(at[k])
        BY <1>1, <1>6, <1>8, SMT
    <2> QED BY <1>3, <1>4, <1>6, <2>1
<1>9. at \in [1 .. n -> positions]
    BY <1>6 DEF at
<1> QED BY <1>7, <1>8, <1>9 DEF n, Arranges

\* What is in order already is left as it is.
LEMMA InOrderIdentity ==
    ASSUME NEW S, NEW list \in Seq(S),
           NEW key, \A i \in 1 .. Len(list) : key[i] \in Int,
           \A i, j \in 1 .. Len(list) : i < j => key[i] <= key[j]
    PROVE  InOrder(list, 1 .. Len(list), key) = list
<1> DEFINE n == Len(list)
<1>1. n \in Nat /\ list = [k \in 1 .. n |-> list[k]]
    BY LenProperties
<1>2. ASSUME NEW i \in 1 .. n PROVE Cardinality(Ahead(1 .. n, key, i)) = i - 1
    <2>1. Ahead(1 .. n, key, i) = 1 .. i - 1
        <3>1. ASSUME NEW j \in 1 .. n PROVE Before(key, j, i) <=> j < i
            BY <1>1, SMT DEF Before
        <3> QED BY <1>1, <3>1, SMT DEF Ahead
    <2>2. Cardinality(1 .. i - 1) = IF 1 > i - 1 THEN 0 ELSE (i - 1) - 1 + 1
        <3>1. 1 \in Int /\ i - 1 \in Int
            BY <1>1, SMT
        <3> QED BY <3>1, FS_Interval, Zenon
    <2> QED BY <1>1, <2>1, <2>2, SMT
<1> HIDE DEF n
<1>3. Cardinality(1 .. n) = n
    <2>1. 1 \in Int /\ n \in Int
        BY <1>1, SMT
    <2>2. Cardinality(1 .. n) = IF 1 > n THEN 0 ELSE n - 1 + 1
        BY <2>1, FS_Interval, Zenon
    <2> QED BY <1>1, <2>2, SMT
<1>4. ASSUME NEW k \in 1 .. n
      PROVE  (CHOOSE i \in 1 .. n : Cardinality(Ahead(1 .. n, key, i)) = k - 1) = k
    <2>1. \A i \in 1 .. n : Cardinality(Ahead(1 .. n, key, i)) = k - 1 => i = k
        BY <1>1, <1>2, SMT
    <2> QED BY <1>2, <2>1
<1> DEFINE place(k) == CHOOSE i \in 1 .. n : Cardinality(Ahead(1 .. n, key, i)) = k - 1
<1>5. InOrder(list, 1 .. n, key) = [k \in 1 .. Cardinality(1 .. n) |-> list[place(k)]]
    BY DEF InOrder, Ahead, Before
<1>6. \A k \in 1 .. n : place(k) = k
    BY <1>4
<1> HIDE DEF place
<1> QED BY <1>1, <1>3, <1>5, <1>6 DEF n

(* ------------------------ sanitising and loading ------------------------- *)

\* A runbook that is accepted is sound once its steps are sorted.
LEMMA SanitizeSound ==
    ASSUME NEW raw \in Runbooks, Accepted(raw)
    PROVE  Sanitize(raw) \in Runbooks /\ Sound(Sanitize(raw))
<1> DEFINE steps == raw.steps
           n == Len(steps)
           due == [i \in DOMAIN steps |-> steps[i].at]
           sorted == InOrder(steps, DOMAIN due, due)
<1>1. /\ steps \in Seq(Steps) /\ n \in Nat /\ DOMAIN steps = 1 .. n /\ DOMAIN due = 1 .. n
      /\ \A i \in 1 .. n : steps[i] \in Steps /\ due[i] = steps[i].at /\ due[i] \in Int
    <2>1. steps \in Seq(Steps)
        BY DEF Runbooks
    <2>2. n \in Nat /\ DOMAIN steps = 1 .. n
        BY <2>1, LenProperties
    <2>3. \A i \in 1 .. n : steps[i] \in Steps
        BY <2>1, ElementOfSeq
    <2> HIDE DEF steps
    <2> QED BY <2>1, <2>2, <2>3 DEF Steps
<1>2. 1 .. n \in SUBSET Nat /\ IsFiniteSet(1 .. n) /\ Cardinality(1 .. n) = n
    <2>1. 1 \in Int /\ n \in Int
        BY <1>1, SMT
    <2>2. IsFiniteSet(1 .. n) /\ Cardinality(1 .. n) = IF 1 > n THEN 0 ELSE n - 1 + 1
        BY <2>1, FS_Interval, Zenon
    <2> QED BY <1>1, <2>2, SMT
<1> HIDE DEF steps, n, due
<1>3. PICK at \in [1 .. n -> 1 .. n] :
          /\ sorted = [k \in 1 .. n |-> steps[at[k]]]
          /\ \A k, m \in 1 .. n : k < m => Before(due, at[k], at[m])
    <2> DEFINE positions == 1 .. n
    <2>1. /\ positions \in SUBSET Nat /\ IsFiniteSet(positions)
          /\ \A i \in positions : due[i] \in Int
        BY <1>1, <1>2
    <2>2. Cardinality(positions) = n /\ sorted = InOrder(steps, positions, due)
        BY <1>1, <1>2
    <2> HIDE DEF positions, sorted
    <2>3. PICK at : Arranges(at, steps, positions, due)
        BY <2>1, InOrderPermutes
    <2> QED BY <2>2, <2>3 DEF positions, Arranges
<1> HIDE DEF sorted
<1>4. sorted \in Seq(Steps) /\ Len(sorted) = n /\ DOMAIN sorted = 1 .. n
    <2>1. sorted \in [1 .. n -> Steps]
        BY <1>1, <1>3
    <2> QED BY <1>1, <1>3, <2>1, FunctionIsSequence
<1>5. Sanitize(raw) = [raw EXCEPT !.steps = sorted]
    BY DEF Sanitize, sorted, due, steps
<1>6. /\ Sanitize(raw) \in Runbooks
      /\ Sanitize(raw).steps = sorted /\ Sanitize(raw).fine = raw.fine
    BY <1>4, <1>5 DEF Runbooks
<1>7. raw.fine /\ n \in 1 .. MaxSteps /\ \A i \in 1 .. n : StepAccepted(steps[i])
    BY <1>1 DEF Accepted, steps, n
<1>8. Accepted(Sanitize(raw))
    <2>1. \A k \in 1 .. n : StepAccepted(sorted[k])
        BY <1>3, <1>7
    <2> QED BY <1>4, <1>6, <1>7, <2>1 DEF Accepted
<1>9. \A k, m \in 1 .. n : k < m => sorted[k].at <= sorted[m].at
    <2> SUFFICES ASSUME NEW k \in 1 .. n, NEW m \in 1 .. n, k < m
                 PROVE  sorted[k].at <= sorted[m].at
        OBVIOUS
    <2>1. Before(due, at[k], at[m]) /\ at[k] \in 1 .. n /\ at[m] \in 1 .. n
        BY <1>3
    <2>2. sorted[k].at = due[at[k]] /\ sorted[m].at = due[at[m]]
        BY <1>1, <1>3, <2>1
    <2>3. due[at[k]] \in Int /\ due[at[m]] \in Int
        BY <1>1, <2>1
    <2> QED BY <2>1, <2>2, <2>3, SMT DEF Before
<1> QED BY <1>4, <1>6, <1>8, <1>9 DEF Sound

\* A runbook that is sound already is not changed by being sanitised again.
LEMMA SanitizeIdentity ==
    ASSUME NEW rb \in Runbooks, Sound(rb)
    PROVE  Sanitize(rb) = rb
<1> DEFINE steps == rb.steps
           due == [i \in DOMAIN steps |-> steps[i].at]
<1>1. steps \in Seq(Steps) /\ Len(steps) \in Nat /\ DOMAIN steps = 1 .. Len(steps)
    BY LenProperties DEF Runbooks
<1>2. \A i \in 1 .. Len(steps) : steps[i] \in Steps
    BY <1>1, ElementOfSeq
<1>3. \A i \in 1 .. Len(steps) : due[i] = steps[i].at /\ due[i] \in Int
    BY <1>1, <1>2 DEF Steps
<1>4. \A i, j \in 1 .. Len(steps) : i < j => due[i] <= due[j]
    BY <1>1, <1>3 DEF Sound
<1>5. DOMAIN due = 1 .. Len(steps)
    BY <1>1
<1>6. Sanitize(rb) = [rb EXCEPT !.steps = InOrder(steps, DOMAIN due, due)]
    BY DEF Sanitize
<1> HIDE DEF due
<1>7. InOrder(steps, DOMAIN due, due) = steps
    BY <1>1, <1>3, <1>4, <1>5, InOrderIdentity, Zenon
<1> QED BY <1>6, <1>7 DEF Runbooks

\* The first runbooks of a list up to the limit; all of them when they are no more.
LEMMA FirstFewSound ==
    ASSUME NEW list, SoundList(list)
    PROVE  /\ SoundList(FirstFew(list)) /\ Len(FirstFew(list)) <= MaxSaved
           /\ Len(list) <= MaxSaved => FirstFew(list) = list
<1> DEFINE n == IF Len(list) < MaxSaved THEN Len(list) ELSE MaxSaved
<1>1. list \in Seq(Runbooks) /\ Len(list) \in Nat \ {0} /\ MaxSaved \in Nat \ {0}
    <2>1. Len(Presets) \in Nat
        BY InputsAssumption, LenProperties
    <2> QED BY <2>1, LimitsAssumption, InputsAssumption, SMT DEF SoundList
<1>2. n \in 1 .. Len(list) /\ n <= MaxSaved
    BY <1>1, SMT
<1> HIDE DEF n
<1>3. /\ SubSeq(list, 1, n) \in Seq(Runbooks)
      /\ Len(SubSeq(list, 1, n)) = IF 1 <= n THEN n - 1 + 1 ELSE 0
      /\ \A i \in 1 .. n - 1 + 1 : SubSeq(list, 1, n)[i] = list[1 + i - 1]
    <2>1. 1 \in Int /\ n \in Int
        BY <1>1, <1>2, SMT
    <2>2. \A i \in 1 .. n : list[i] \in Runbooks
        BY <1>1, <1>2, ElementOfSeq, SMT
    <2> QED BY <2>1, <2>2, SubSeqProperties
<1>4. FirstFew(list) = SubSeq(list, 1, n)
    BY DEF FirstFew, n
<1>5. SoundList(FirstFew(list)) /\ Len(FirstFew(list)) <= MaxSaved
    <2>1. Len(FirstFew(list)) = n
        BY <1>1, <1>2, <1>3, <1>4, SMT
    <2>2. \A i \in 1 .. n : FirstFew(list)[i] = list[i]
        <3>1. \A i \in 1 .. n : i \in 1 .. n - 1 + 1 /\ 1 + i - 1 = i
            BY <1>1, <1>2, SMT
        <3> QED BY <1>3, <1>4, <3>1, Zenon
    <2>3. \A i \in 1 .. n : Sound(list[i])
        BY <1>1, <1>2, SMT DEF SoundList
    <2> QED BY <1>1, <1>2, <1>3, <1>4, <2>1, <2>2, <2>3, SMT DEF SoundList
<1>6. ASSUME Len(list) <= MaxSaved PROVE FirstFew(list) = list
    <2>1. n = Len(list)
        BY <1>1, <1>6, SMT DEF n
    <2> QED BY <1>1, <1>4, <2>1, SubSeqFull
<1> QED BY <1>5, <1>6

\* A registry that is loaded holds at least one runbook, no more than the limit allows, and
\* each of them can be run, whatever the file holds.
LEMMA LoadSound ==
    ASSUME NEW contents \in Seq(Runbooks) \cup {NoList}
    PROVE  SoundList(LoadRunbooks(contents)) /\ Len(LoadRunbooks(contents)) <= MaxSaved
<1>1. SoundList(Presets) /\ Len(Presets) <= MaxSaved
    <2>1. Len(Presets) \in Nat \ {0} /\ Len(Presets) <= MaxSaved
        BY InputsAssumption, LimitsAssumption, LenProperties, SMT
    <2> QED BY <2>1, InputsAssumption DEF SoundList
<1>2. CASE LoadRunbooks(contents) = Presets
    BY <1>1, <1>2
<1>3. CASE LoadRunbooks(contents) # Presets
    <2> DEFINE positions == {i \in DOMAIN contents : Accepted(contents[i])}
               index == [i \in DOMAIN contents |-> i]
               accepted == InOrder(contents, positions, index)
               n == Cardinality(positions)
               clean == [i \in DOMAIN accepted |-> Sanitize(accepted[i])]
    <2>1. /\ contents \in Seq(Runbooks) /\ accepted # <<>>
          /\ LoadRunbooks(contents) = FirstFew(clean)
        BY <1>3 DEF LoadRunbooks
    <2>2. Len(contents) \in Nat /\ DOMAIN contents = 1 .. Len(contents)
        BY <2>1, LenProperties
    <2>3. /\ positions \in SUBSET Nat /\ IsFiniteSet(positions) /\ n \in Nat
          /\ \A i \in positions : index[i] \in Int
        <3>1. positions \in SUBSET (1 .. Len(contents)) /\ IsFiniteSet(1 .. Len(contents))
            BY <2>2, FS_Interval
        <3>2. IsFiniteSet(positions) /\ n \in Nat
            BY <3>1, FS_Subset, FS_CardinalityType
        <3> QED BY <2>2, <3>1, <3>2
    <2>4. \A i \in positions : contents[i] \in Runbooks /\ Accepted(contents[i])
        BY <2>1, <2>2, ElementOfSeq
    <2> HIDE DEF positions, index
    <2>5. PICK at : Arranges(at, contents, positions, index)
        BY <2>3, InOrderPermutes
    <2>6. /\ accepted = [k \in 1 .. n |-> contents[at[k]]]
          /\ \A k \in 1 .. n : at[k] \in positions
        BY <2>5 DEF Arranges
    <2> HIDE DEF accepted, n
    <2>7. n # 0
        <3>1. ASSUME n = 0 PROVE accepted = <<>>
            <4>1. accepted \in [1 .. n -> Runbooks]
                BY <2>4, <2>6
            <4>2. accepted \in Seq(Runbooks) /\ Len(accepted) = n
                BY <2>3, <4>1, FunctionIsSequence
            <4> QED BY <3>1, <4>2, EmptySeq, SMT
        <3> QED BY <2>1, <3>1
    <2>8. \A k \in 1 .. n : clean[k] \in Runbooks /\ Sound(clean[k])
        <3> SUFFICES ASSUME NEW k \in 1 .. n PROVE clean[k] \in Runbooks /\ Sound(clean[k])
            OBVIOUS
        <3>1. accepted[k] \in Runbooks /\ Accepted(accepted[k]) /\ k \in DOMAIN accepted
            BY <2>4, <2>6
        <3> QED BY <3>1, SanitizeSound
    <2>9. clean \in [1 .. n -> Runbooks]
        BY <2>6, <2>8
    <2> HIDE DEF clean
    <2>10. SoundList(clean)
        BY <2>3, <2>7, <2>8, <2>9, FunctionIsSequence DEF SoundList
    <2> QED BY <2>1, <2>10, FirstFewSound
<1> QED BY <1>2, <1>3

\* Reading what a registry wrote refuses no runbook and changes none: the first of them, up
\* to the limit, are loaded.
LEMMA LoadWritable ==
    ASSUME NEW list, Writable(list)
    PROVE  LoadRunbooks(list) = FirstFew(list)
<1> DEFINE positions == {i \in DOMAIN list : Accepted(list[i])}
           index == [i \in DOMAIN list |-> i]
           accepted == InOrder(list, positions, index)
           clean == [i \in DOMAIN accepted |-> Sanitize(accepted[i])]
<1>1. /\ list \in Seq(Runbooks) /\ Len(list) \in Nat \ {0} /\ DOMAIN list = 1 .. Len(list)
      /\ \A i \in 1 .. Len(list) : list[i] \in Runbooks /\ Sound(list[i])
    <2>1. list \in Seq(Runbooks) /\ Len(list) \in Nat \ {0}
        BY DEF Writable, SoundList
    <2>2. DOMAIN list = 1 .. Len(list) /\ \A i \in 1 .. Len(list) : list[i] \in Runbooks
        BY <2>1, LenProperties, ElementOfSeq
    <2> QED BY <2>1, <2>2 DEF Writable, SoundList
<1>2. positions = 1 .. Len(list)
    BY <1>1 DEF Sound
<1>3. accepted = list
    <2>1. \A i \in 1 .. Len(list) : index[i] = i
        BY <1>1
    <2> HIDE DEF index, positions
    <2>2. /\ \A i \in 1 .. Len(list) : index[i] \in Int
          /\ \A i, j \in 1 .. Len(list) : i < j => index[i] <= index[j]
        BY <1>1, <2>1, SMT
    <2> QED BY <1>1, <1>2, <2>2, InOrderIdentity
<1> HIDE DEF accepted
<1>4. clean = list
    BY <1>1, <1>3, SanitizeIdentity
<1>5. list # NoList /\ list # <<>> /\ Bytes(list) <= MaxBytes
    <2>1. list # NoList
        BY <1>1, InputsAssumption
    <2>2. list # <<>>
        BY <1>1, EmptySeq
    <2>3. Bytes(list) <= MaxBytes
        BY DEF Writable, FitsFile
    <2> QED BY <2>1, <2>2, <2>3
<1>6. LoadRunbooks(list) =
         IF Bytes(list) <= MaxBytes /\ accepted # <<>> THEN FirstFew(clean) ELSE Presets
    BY <1>5 DEF LoadRunbooks, accepted
<1> QED BY <1>3, <1>4, <1>5, <1>6

(* ------------------------ looking up and replacing ----------------------- *)

LEMMA PositionInList ==
    ASSUME NEW list \in Seq(Runbooks), NEW id
    PROVE  Position(list, id) \in 0 .. Len(list)
<1> DEFINE I == {i \in 1 .. Len(list) : list[i].id = id}
<1>1. Position(list, id) = IF I # {} THEN Min(I) ELSE 0
    BY DEF Position, SelectInSeq
<1>2. Len(list) \in Nat /\ I \in SUBSET Nat
    BY LenProperties
<1>3. I # {} => Min(I) \in I
    BY <1>2, Least DEF Min
<1> QED BY <1>1, <1>2, <1>3, SMT

\* A runbook put into a list: the list is as long as before or longer by one.
LEMMA UpsertSound ==
    ASSUME NEW list, SoundList(list), NEW rb \in Runbooks, Sound(rb)
    PROVE  /\ SoundList(Upsert(list, rb))
           /\ SoundList(Append(list, rb)) /\ Len(Append(list, rb)) = Len(list) + 1
           /\ \A i \in 1 .. Len(list) : SoundList([list EXCEPT ![i] = rb])
                                        /\ Len([list EXCEPT ![i] = rb]) = Len(list)
<1>1. list \in Seq(Runbooks) /\ Len(list) \in Nat \ {0} /\ \A i \in 1 .. Len(list) : Sound(list[i])
    BY DEF SoundList
<1>2. SoundList(Append(list, rb)) /\ Len(Append(list, rb)) = Len(list) + 1
    <2>1. /\ Append(list, rb) \in Seq(Runbooks) /\ Len(Append(list, rb)) = Len(list) + 1
          /\ \A i \in 1 .. Len(list) : Append(list, rb)[i] = list[i]
          /\ Append(list, rb)[Len(list) + 1] = rb
        BY <1>1, AppendSequence
    <2>2. \A i \in 1 .. Len(list) + 1 : i \in 1 .. Len(list) \/ i = Len(list) + 1
        BY <1>1, SMT
    <2>3. \A i \in 1 .. Len(list) + 1 : Sound(Append(list, rb)[i])
        BY <1>1, <2>1, <2>2
    <2>4. Len(list) + 1 \in Nat \ {0}
        BY <1>1
    <2> QED BY <2>1, <2>3, <2>4 DEF SoundList
<1>3. ASSUME NEW i \in 1 .. Len(list)
      PROVE  SoundList([list EXCEPT ![i] = rb]) /\ Len([list EXCEPT ![i] = rb]) = Len(list)
    <2>1. /\ [list EXCEPT ![i] = rb] \in Seq(Runbooks)
          /\ Len([list EXCEPT ![i] = rb]) = Len(list)
          /\ \A j \in 1 .. Len(list) : [list EXCEPT ![i] = rb][j] = IF j = i THEN rb ELSE list[j]
        BY <1>1, ExceptSeq
    <2>2. \A j \in 1 .. Len(list) : Sound([list EXCEPT ![i] = rb][j])
        BY <1>1, <2>1
    <2> QED BY <1>1, <2>1, <2>2 DEF SoundList
<1>4. SoundList(Upsert(list, rb))
    <2>1. Position(list, rb.id) # 0 => Position(list, rb.id) \in 1 .. Len(list)
        BY <1>1, PositionInList, SMT
    <2> QED BY <1>2, <1>3, <2>1 DEF Upsert
<1> QED BY <1>2, <1>3, <1>4

(* -------------------------- the initial states --------------------------- *)

Answers == {Idle(ok) : ok \in BOOLEAN}

LEMMA PcOfRequests ==
    /\ \A new \in Requests : new.pc \in Labels /\ new.pc # "idle"
    /\ \A new \in Answers : new.pc = "idle"
BY DEF Requests, Labels, Answers, Idle

LEMMA InitInv == Init => Inv
<1> SUFFICES ASSUME Init PROVE Inv
    OBVIOUS
<1>1. file \in Seq(Runbooks) \cup {NoList}
    BY InputsAssumption DEF Init
<1>2. SoundList(LoadRunbooks(file)) /\ Len(LoadRunbooks(file)) <= MaxSaved
    BY <1>1, LoadSound
<1>3. /\ lists = <<LoadRunbooks(file)>> /\ Len(lists) = 1 /\ lists \in Seq(Seq(Runbooks))
      /\ \A r \in 1 .. Len(lists) : lists[r] = LoadRunbooks(file)
    <2> DEFINE loaded == LoadRunbooks(file)
    <2>1. loaded \in Seq(Runbooks) /\ lists = <<loaded>>
        BY <1>2 DEF Init, SoundList
    <2> HIDE DEF loaded
    <2>2. Len(lists) = 1 /\ lists \in Seq(Seq(Runbooks)) /\ \A r \in 1 .. 1 : lists[r] = loaded
        BY <2>1
    <2> QED BY <2>1, <2>2 DEF loaded
<1>4. \A h \in Handlers : At(h, "idle") /\ job[h] \in Answers
    BY DEF Init, At, Idle, Answers
<1>5. Typed
    <2>1. job \in [Handlers -> Requests \cup Answers]
        BY <1>4 DEF Init
    <2>2. /\ sent \in 0 .. MaxRequests /\ Len(lists) \in 1 .. MaxRegistries
          /\ solo \in [Handlers -> BOOLEAN] /\ written \in BOOLEAN
        <3>1. MaxRequests \in Nat /\ MaxRegistries \in Nat \ {0}
            BY LimitsAssumption
        <3>2. sent = 0 /\ solo = [h \in Handlers |-> TRUE] /\ written = FALSE
            BY DEF Init
        <3>3. sent \in 0 .. MaxRequests /\ Len(lists) \in 1 .. MaxRegistries
            BY <1>3, <3>1, <3>2, SMT
        <3>4. solo \in [Handlers -> BOOLEAN] /\ written \in BOOLEAN
            BY <3>2
        <3> QED BY <3>3, <3>4
    <2> QED BY <1>1, <1>2, <1>3, <2>1, <2>2 DEF Typed, Answers
<1>6. \A h \in Handlers : RequestSound(h)
    BY <1>4 DEF RequestSound
<1>7. TextsWritable
    BY <1>4 DEF TextsWritable, At, Init
<1>8. RoomCounted
    <2>1. \A r \in 1 .. Len(lists) : Appending(r) = {}
        BY <1>4 DEF Appending, At
    <2>2. Cardinality(Handlers) \in Nat \ {0}
        BY LimitsAssumption, FS_CardinalityType, FS_EmptySet
    <2>3. Len(LoadRunbooks(file)) \in Nat /\ MaxSaved \in Nat
        BY <1>2, LimitsAssumption DEF SoundList
    <2>4. Cardinality({}) = 0
        BY FS_EmptySet
    <2>5. Len(LoadRunbooks(file)) + 0 <= MaxSaved + Cardinality(Handlers) - 1
        BY <1>2, <2>2, <2>3, SMT
    <2> QED BY <1>3, <2>1, <2>4, <2>5 DEF RoomCounted
<1>9. SoloSaves
    BY <1>4 DEF SoloSaves
<1> QED BY <1>5, <1>6, <1>7, <1>8, <1>9 DEF Inv

(* -------------------------- steps of a request --------------------------- *)

\* What Inv says of a handler at work.
LEMMA AtWork ==
    ASSUME Inv, NEW h \in Handlers, ~ At(h, "idle")
    PROVE  /\ job[h] \in Requests /\ job[h].registry \in 1 .. Len(lists)
           /\ job[h].rb \in Runbooks /\ Sound(job[h].rb)
           /\ SoundList(Saved(h)) /\ Saved(h) = lists[job[h].registry]
           /\ job[h].index \in 0 .. Len(Saved(h)) /\ Len(Saved(h)) \in Nat
           /\ At(h, "replace") => job[h].index \in 1 .. Len(Saved(h))
           /\ solo[h] => SoloSave(h)
<1>1. RequestSound(h) /\ job[h] \in Requests \cup Answers
    BY DEF Inv, Typed, Answers
<1>2. job[h] \in Requests
    BY <1>1, PcOfRequests DEF At
<1>3. job[h].registry \in 1 .. Len(lists) /\ Sound(job[h].rb)
      /\ job[h].index \in 0 .. Len(Saved(h)) /\ (At(h, "replace") => job[h].index # 0)
    BY <1>1 DEF RequestSound
<1>4. SoundList(Saved(h)) /\ Saved(h) = lists[job[h].registry]
    BY <1>3 DEF Inv, Typed, Saved
<1>5. Len(Saved(h)) \in Nat
    BY <1>4 DEF SoundList
<1>6. job[h].rb \in Runbooks
    BY <1>2 DEF Requests
<1>7. At(h, "replace") => job[h].index \in 1 .. Len(Saved(h))
    BY <1>3, <1>5
<1>8. solo[h] => SoloSave(h)
    BY DEF Inv, SoloSaves
<1> QED BY <1>2, <1>3, <1>4, <1>5, <1>6, <1>7, <1>8

\* A handler that saves alone has no other at work beside it.
LEMMA OnlyOneSolo ==
    ASSUME Inv, NEW h \in Handlers, ~ At(h, "idle"), NEW g \in Handlers, ~ At(g, "idle"), solo[g]
    PROVE  g = h
BY DEF Inv, SoloSaves, SoloSave

\* A step of a handler that leaves the lists alone keeps the invariant if it keeps what it
\* says of that handler.
LEMMA OwnStep ==
    ASSUME Inv, NEW h \in Handlers, ~ At(h, "idle"),
           NEW new \in Requests \cup Answers, job' = [job EXCEPT ![h] = new],
           UNCHANGED <<lists, sent, solo>>,
           new \in Requests =>
               /\ new.registry = job[h].registry /\ new.rb = job[h].rb
               /\ new.index \in 0 .. Len(Saved(h)) /\ (new.pc = "replace" => new.index # 0),
           new.pc = "append" => Len(Saved(h)) < MaxSaved,
           new.pc = "write" => Writable(new.text),
           file' \in Seq(Runbooks) \cup {NoList}, written' \in BOOLEAN,
           written' => Writable(file'),
           solo[h] /\ new \in Requests => SoloSave(h)'
    PROVE  Inv'
<1>0. job \in [Handlers -> Requests \cup Answers] /\ lists' = lists /\ solo' = solo /\ sent' = sent
    BY DEF Inv, Typed, Answers
<1>1. /\ job' \in [Handlers -> Requests \cup Answers] /\ job'[h] = new
      /\ \A g \in Handlers \ {h} : job'[g] = job[g]
    BY <1>0
<1>2. Typed'
    BY <1>0, <1>1 DEF Inv, Typed, SoundList, Answers
<1>3. ASSUME NEW g \in Handlers PROVE RequestSound(g)'
    <2>1. CASE g = h
        <3> SUFFICES ASSUME ~ At(h, "idle")' PROVE RequestSound(h)'
            BY <2>1 DEF RequestSound
        <3>1. new \in Requests
            BY <1>1, PcOfRequests DEF At
        <3>2. Saved(h)' = Saved(h)
            BY <1>0, <1>1, <3>1 DEF Saved
        <3> QED BY <1>0, <1>1, <3>1, <3>2, AtWork DEF RequestSound, At
    <2>2. CASE g # h
        <3>1. job'[g] = job[g] /\ lists' = lists
            BY <1>0, <1>1, <2>2
        <3>2. RequestSound(g)' = RequestSound(g)
            BY <3>1 DEF RequestSound, At, Saved
        <3> QED BY <3>2 DEF Inv
    <2> QED BY <2>1, <2>2
<1>4. TextsWritable'
    <2>1. ASSUME NEW g \in Handlers, At(g, "write")' PROVE Writable(job'[g].text)
        <3>1. CASE g = h
            BY <1>1, <2>1, <3>1 DEF At
        <3>2. CASE g # h
            BY <1>1, <2>1, <3>2 DEF At, Inv, TextsWritable
        <3> QED BY <3>1, <3>2
    <2> QED BY <2>1 DEF TextsWritable, Writable, SoundList, FitsFile
<1>5. RoomCounted'
    <2> SUFFICES ASSUME NEW r \in 1 .. Len(lists)
                 PROVE  Len(lists[r]) + Cardinality(Appending(r)')
                            <= MaxSaved + Cardinality(Handlers) - 1
        BY <1>0 DEF RoomCounted
    <2>1. /\ Len(lists[r]) \in Nat /\ MaxSaved \in Nat
          /\ IsFiniteSet(Handlers) /\ Cardinality(Handlers) \in Nat
        BY LimitsAssumption, FS_CardinalityType DEF Inv, Typed, SoundList
    <2>2. Len(lists[r]) + Cardinality(Appending(r)) <= MaxSaved + Cardinality(Handlers) - 1
        BY DEF Inv, RoomCounted
    <2>3. /\ Appending(r) \in SUBSET Handlers /\ Appending(r)' \in SUBSET Handlers
          /\ IsFiniteSet(Appending(r)) /\ IsFiniteSet(Appending(r)')
          /\ Cardinality(Appending(r)) \in Nat /\ Cardinality(Appending(r)') \in Nat
          /\ Cardinality(Appending(r)') <= Cardinality(Handlers)
        <3>1. Appending(r) \in SUBSET Handlers /\ Appending(r)' \in SUBSET Handlers
            BY DEF Appending
        <3> QED BY <2>1, <3>1, FS_Subset, FS_CardinalityType
    <2>4. CASE new.pc = "append" /\ job[h].registry = r
        <3>1. Len(lists[r]) < MaxSaved
            BY <2>4, AtWork
        <3> QED BY <2>1, <2>3, <3>1, SMT
    <2>5. CASE ~ (new.pc = "append" /\ job[h].registry = r)
        <3>1. Appending(r)' \in SUBSET Appending(r)
            <4> SUFFICES ASSUME NEW g \in Appending(r)' PROVE g \in Appending(r)
                OBVIOUS
            <4>1. g \in Handlers /\ job'[g].pc = "append" /\ job'[g].registry = r
                BY DEF Appending, At
            <4>2. g # h
                BY <1>1, <2>5, <4>1, PcOfRequests
            <4> QED BY <1>1, <4>1, <4>2 DEF Appending, At
        <3>2. Cardinality(Appending(r)') <= Cardinality(Appending(r))
            BY <2>3, <3>1, FS_Subset
        <3> QED BY <2>1, <2>2, <2>3, <3>2, SMT
    <2> QED BY <2>4, <2>5
<1>6. SoloSaves'
    <2> SUFFICES ASSUME NEW g \in Handlers, solo[g], ~ At(g, "idle")' PROVE SoloSave(g)'
        BY <1>0 DEF SoloSaves
    <2>1. g = h
        BY <1>1, OnlyOneSolo DEF At
    <2>2. new \in Requests
        BY <1>1, <2>1, PcOfRequests DEF At
    <2> QED BY <2>1, <2>2
<1> QED BY <1>2, <1>3, <1>4, <1>5, <1>6 DEF Inv

\* A step of a handler that puts a list in the place of its own, as long or longer by the
\* runbook it appends, and goes on to measure it.
LEMMA OwnChange ==
    ASSUME Inv, NEW h \in Handlers, job[h].pc \in {"append", "replace"},
           NEW list, lists' = [lists EXCEPT ![job[h].registry] = list],
           SoundList(list),
           Len(list) = Len(Saved(h)) + (IF At(h, "append") THEN 1 ELSE 0),
           solo[h] => list = Upsert(job[h].found, job[h].rb),
           job' = [job EXCEPT ![h].pc = "measure"],
           UNCHANGED <<file, sent, solo, written>>
    PROVE  Inv'
<1> DEFINE n == Len(lists)
           k == job[h].registry
<1>0. /\ ~ At(h, "idle") /\ job[h] \in Requests /\ k \in 1 .. n
      /\ SoundList(lists[k]) /\ Saved(h) = lists[k]
    <2>1. ~ At(h, "idle")
        BY DEF At
    <2> QED BY <2>1, AtWork
<1>1. /\ job \in [Handlers -> Requests \cup Answers]
      /\ lists \in Seq(Seq(Runbooks)) /\ n \in Nat
      /\ file' = file /\ sent' = sent /\ solo' = solo /\ written' = written
    BY LenProperties DEF Inv, Typed, Answers
<1>2. /\ job'[h].pc = "measure" /\ job'[h] \in Requests
      /\ job'[h].registry = k /\ job'[h].index = job[h].index /\ job'[h].rb = job[h].rb
      /\ job'[h].found = job[h].found
      /\ \A g \in Handlers \ {h} : job'[g] = job[g]
      /\ job' \in [Handlers -> Requests \cup Answers]
    BY <1>0, <1>1 DEF Requests, Labels
<1>3. /\ lists' \in Seq(Seq(Runbooks)) /\ Len(lists') = n /\ lists'[k] = list
      /\ \A r \in 1 .. n : r # k => lists'[r] = lists[r]
    <2>1. list \in Seq(Runbooks)
        BY DEF SoundList
    <2>2. /\ lists' \in Seq(Seq(Runbooks)) /\ Len(lists') = n
          /\ \A r \in 1 .. n : lists'[r] = IF r = k THEN list ELSE lists[r]
        BY <1>0, <1>1, <2>1, ExceptSeq
    <2> QED BY <1>0, <2>2
<1>4. Len(lists[k]) \in Nat /\ Len(list) \in Nat /\ Len(lists[k]) <= Len(list)
      /\ \A r \in 1 .. n : Len(lists[r]) \in Nat
    <2>1. \A r \in 1 .. n : SoundList(lists[r])
        BY DEF Inv, Typed
    <2>2. Len(lists[k]) \in Nat /\ \A r \in 1 .. n : Len(lists[r]) \in Nat
        BY <1>0, <2>1 DEF SoundList
    <2>3. Len(list) = Len(lists[k]) + 1 \/ Len(list) = Len(lists[k]) + 0
        BY <1>0
    <2> QED BY <2>2, <2>3, SMT
<1> HIDE DEF n, k
<1>5. Typed'
    <2>1. \A r \in 1 .. n : SoundList(lists'[r])
        BY <1>3 DEF Inv, Typed, n
    <2>2. \A r \in 1 .. n : SoundList(lists[r])'
        BY <2>1 DEF SoundList
    <2>3. /\ n \in 1 .. MaxRegistries /\ file' \in Seq(Runbooks) \cup {NoList}
          /\ sent' \in 0 .. MaxRequests
          /\ solo' \in [Handlers -> BOOLEAN] /\ written' \in BOOLEAN
        BY <1>1 DEF Inv, Typed, n
    <2> QED BY <1>2, <1>3, <2>2, <2>3 DEF Typed, Answers
<1>6. ASSUME NEW g \in Handlers PROVE RequestSound(g)'
    <2> SUFFICES ASSUME job'[g].pc # "idle" PROVE RequestSound(g)'
        BY DEF RequestSound, At
    <2>1. /\ ~ At(g, "idle") /\ job'[g].registry = job[g].registry /\ job'[g].index = job[g].index
          /\ job'[g].rb = job[g].rb /\ (job'[g].pc = "replace" => At(g, "replace"))
        BY <1>0, <1>2 DEF At
    <2>2. /\ job[g].registry \in 1 .. n /\ Sound(job[g].rb)
          /\ job[g].index \in 0 .. Len(lists[job[g].registry])
          /\ At(g, "replace") => job[g].index # 0
        BY <2>1 DEF Inv, RequestSound, Saved, n
    <2>3. job[g].index \in 0 .. Len(lists'[job[g].registry])
        <3>1. CASE job[g].registry = k
            BY <1>3, <1>4, <2>2, <3>1, SMT
        <3>2. CASE job[g].registry # k
            BY <1>3, <2>2, <3>2
        <3> QED BY <3>1, <3>2
    <2> QED BY <1>3, <2>1, <2>2, <2>3 DEF RequestSound, At, Saved, Sound, Accepted
<1>7. TextsWritable'
    <2>1. ASSUME NEW g \in Handlers, At(g, "write")' PROVE Writable(job'[g].text)
        BY <1>2, <2>1 DEF At, Inv, TextsWritable
    <2>2. written => Writable(file)
        BY DEF Inv, TextsWritable
    <2> QED BY <1>1, <2>1, <2>2 DEF TextsWritable, Writable, SoundList, FitsFile
<1>8. RoomCounted'
    <2> SUFFICES ASSUME NEW r \in 1 .. n
                 PROVE  Len(lists'[r]) + Cardinality(Appending(r)')
                            <= MaxSaved + Cardinality(Handlers) - 1
        BY <1>3 DEF RoomCounted
    <2>1. MaxSaved \in Nat /\ IsFiniteSet(Handlers) /\ Cardinality(Handlers) \in Nat
        BY LimitsAssumption, FS_CardinalityType
    <2>2. Len(lists[r]) + Cardinality(Appending(r)) <= MaxSaved + Cardinality(Handlers) - 1
        BY DEF Inv, RoomCounted, n
    <2>3. Appending(r)' = Appending(r) \ {h}
        BY <1>2 DEF Appending, At
    <2>4. IsFiniteSet(Appending(r)) /\ Cardinality(Appending(r)) \in Nat
        <3>1. Appending(r) \in SUBSET Handlers
            BY DEF Appending
        <3> QED BY <2>1, <3>1, FS_Subset, FS_CardinalityType
    <2>5. Cardinality(Appending(r)')
             = IF h \in Appending(r) THEN Cardinality(Appending(r)) - 1
               ELSE Cardinality(Appending(r))
        BY <2>3, <2>4, FS_RemoveElement
    <2>6. h \in Appending(r) <=> At(h, "append") /\ r = k
        BY DEF Appending, k
    <2>7. CASE r = k /\ At(h, "append")
        <3>1. Len(lists'[r]) = Len(lists[r]) + 1
            BY <1>0, <1>3, <2>7
        <3> QED BY <1>4, <2>1, <2>2, <2>4, <2>5, <2>6, <2>7, <3>1, SMT
    <2>8. CASE ~ (r = k /\ At(h, "append"))
        <3>1. Len(lists'[r]) = Len(lists[r])
            BY <1>0, <1>3, <1>4, <2>8
        <3> QED BY <1>4, <2>1, <2>2, <2>4, <2>5, <2>6, <2>8, <3>1, SMT
    <2> QED BY <2>7, <2>8
<1>9. SoloSaves'
    <2> SUFFICES ASSUME NEW g \in Handlers, solo[g], job'[g].pc # "idle" PROVE SoloSave(g)'
        BY <1>1 DEF SoloSaves, At
    <2>1. g = h
        BY <1>0, <1>2, OnlyOneSolo DEF At
    <2>2. SoloSave(h) /\ list = Upsert(job[h].found, job[h].rb)
        BY <1>0, <2>1, AtWork
    <2>3. \A f \in Handlers \ {h} : job'[f].pc = "idle"
        BY <1>2, <2>2 DEF SoloSave, At
    <2>4. k = n
        BY <2>2 DEF SoloSave, k, n
    <2>5. Memory' = list
        BY <1>3, <2>4 DEF Memory
    <2>6. SoloSave(h)'
        BY <1>2, <1>3, <2>2, <2>3, <2>4, <2>5 DEF SoloSave, At
    <2> QED BY <2>1, <2>6
<1> QED BY <1>5, <1>6, <1>7, <1>8, <1>9 DEF Inv

(* ------------------------------ the actions ------------------------------ *)

LEMMA ReceiveSaveInv ==
    ASSUME Inv, NEW h \in Handlers, NEW payload \in Payloads, ReceiveSave(h, payload)
    PROVE  Inv'
<1> DEFINE new == [pc |-> "scan", registry |-> Len(lists), index |-> 0,
                   rb |-> Sanitize(payload), found |-> Memory, text |-> <<>>]
<1>0. /\ At(h, "idle") /\ sent < MaxRequests /\ Accepted(payload)
      /\ job' = [job EXCEPT ![h] = new] /\ sent' = sent + 1
      /\ solo' = [g \in Handlers |-> g = h /\ \A f \in Handlers : At(f, "idle")]
      /\ lists' = lists /\ file' = file /\ written' = written
    BY DEF ReceiveSave
<1>1. /\ job \in [Handlers -> Requests \cup Answers] /\ Len(lists) \in Nat \ {0}
      /\ Len(lists) \in 1 .. MaxRegistries /\ sent \in 0 .. MaxRequests /\ MaxRequests \in Nat
      /\ Memory \in Seq(Runbooks) /\ SoundList(Memory)
    <2>1. Len(lists) \in Nat \ {0}
        BY LenProperties DEF Inv, Typed
    <2>2. SoundList(lists[Len(lists)])
        BY <2>1 DEF Inv, Typed
    <2> QED BY <2>1, <2>2, LimitsAssumption DEF Inv, Typed, Memory, SoundList, Answers
<1>2. Sanitize(payload) \in Runbooks /\ Sound(Sanitize(payload))
    BY <1>0, SanitizeSound, InputsAssumption
<1>3. /\ new \in Requests /\ new.pc = "scan" /\ new.registry = Len(lists) /\ new.index = 0
      /\ new.rb = Sanitize(payload) /\ new.found = Memory
    <2> DEFINE rb == Sanitize(payload)
    <2> HIDE DEF rb
    <2>1. <<>> \in Seq(Runbooks)
        BY EmptySeq
    <2> QED BY <1>1, <1>2, <2>1 DEF Requests, Labels, rb
<1> HIDE DEF new
<1>4. /\ job'[h] = new /\ \A g \in Handlers \ {h} : job'[g] = job[g]
      /\ job' \in [Handlers -> Requests \cup Answers]
    BY <1>0, <1>1, <1>3
<1>5. Typed'
    <2>1. sent' \in 0 .. MaxRequests
        BY <1>0, <1>1, SMT
    <2>2. solo' \in [Handlers -> BOOLEAN]
        BY <1>0
    <2> QED BY <1>0, <1>4, <2>1, <2>2 DEF Inv, Typed, Answers
<1>6. ASSUME NEW g \in Handlers PROVE RequestSound(g)'
    <2>1. CASE g = h
        <3>1. Saved(h)' = Memory
            BY <1>0, <1>3, <1>4 DEF Saved, Memory
        <3>2. 0 \in 0 .. Len(Memory)
            BY <1>1 DEF SoundList
        <3> QED BY <1>0, <1>1, <1>2, <1>3, <1>4, <2>1, <3>1, <3>2 DEF RequestSound, At
    <2>2. CASE g # h
        <3>1. RequestSound(g)' = RequestSound(g)
            BY <1>0, <1>4, <2>2 DEF RequestSound, At, Saved
        <3> QED BY <3>1 DEF Inv
    <2> QED BY <2>1, <2>2
<1>7. TextsWritable'
    <2>1. ASSUME NEW g \in Handlers, At(g, "write")' PROVE Writable(job'[g].text)
        BY <1>3, <1>4, <2>1 DEF At, Inv, TextsWritable
    <2>2. written => Writable(file)
        BY DEF Inv, TextsWritable
    <2> QED BY <1>0, <2>1, <2>2 DEF TextsWritable, Writable, SoundList, FitsFile
<1>8. RoomCounted'
    <2>1. \A r : Appending(r)' = Appending(r)
        BY <1>0, <1>3, <1>4 DEF Appending, At
    <2> QED BY <1>0, <2>1 DEF Inv, RoomCounted
<1>9. SoloSaves'
    <2> SUFFICES ASSUME NEW g \in Handlers, solo'[g], ~ At(g, "idle")' PROVE SoloSave(g)'
        BY DEF SoloSaves
    <2>1. g = h /\ \A f \in Handlers : At(f, "idle")
        BY <1>0
    <2>2. SoloSave(h)'
        BY <1>0, <1>3, <1>4, <2>1 DEF SoloSave, At, Memory
    <2> QED BY <2>1, <2>2
<1> QED BY <1>5, <1>6, <1>7, <1>8, <1>9 DEF Inv

\* A file that is as it was.
LEMMA FileKept ==
    ASSUME Inv, UNCHANGED <<file, written>>
    PROVE  /\ file' \in Seq(Runbooks) \cup {NoList} /\ written' \in BOOLEAN
           /\ written' => Writable(file')
BY DEF Inv, Typed, TextsWritable

LEMMA AnswersAnswer == Idle(TRUE) \in Answers /\ Idle(FALSE) \in Answers
BY DEF Answers

LEMMA RefuseInv ==
    ASSUME Inv, NEW h \in Handlers, ~ At(h, "idle"), Refuse(h),
           UNCHANGED <<lists, file, sent, solo, written>>
    PROVE  Inv'
<1> DEFINE new == Idle(FALSE)
<1>1. new \in Answers /\ new \notin Requests /\ new.pc = "idle"
    BY AnswersAnswer, PcOfRequests
<1>2. job' = [job EXCEPT ![h] = new]
    BY DEF Refuse
<1> HIDE DEF new
<1> QED BY <1>1, <1>2, FileKept, OwnStep

LEMMA WriteFileInv ==
    ASSUME Inv, NEW h \in Handlers, WriteFile(h)
    PROVE  Inv'
<1> DEFINE new == Idle(TRUE)
<1>1. new \in Answers /\ new \notin Requests /\ new.pc = "idle"
    BY AnswersAnswer, PcOfRequests
<1>2. /\ job' = [job EXCEPT ![h] = new] /\ ~ At(h, "idle")
      /\ UNCHANGED <<lists, sent, solo>>
    BY DEF WriteFile, At
<1>3. /\ file' \in Seq(Runbooks) \cup {NoList} /\ written' \in BOOLEAN
      /\ written' => Writable(file')
    BY DEF WriteFile, Inv, TextsWritable, Writable, SoundList
<1> HIDE DEF new
<1> QED BY <1>1, <1>2, <1>3, OwnStep

\* A step to another label, with nothing else of the request changed.
LEMMA GotoInv ==
    ASSUME Inv, NEW h \in Handlers, ~ At(h, "idle"), NEW pc \in Labels, Goto(h, pc),
           UNCHANGED <<lists, file, sent, solo, written>>,
           pc \notin {"replace", "write"},
           pc = "append" => Len(Saved(h)) < MaxSaved,
           solo[h] => SoloSave(h)'
    PROVE  Inv'
<1> DEFINE new == [job[h] EXCEPT !.pc = pc]
<1>1. job[h] \in Requests /\ job[h].index \in 0 .. Len(Saved(h))
    BY AtWork
<1>2. /\ new \in Requests /\ new.pc = pc /\ new.registry = job[h].registry
      /\ new.rb = job[h].rb /\ new.index = job[h].index
    BY <1>1 DEF Requests
<1>3. job' = [job EXCEPT ![h] = new]
    BY DEF Goto
<1> HIDE DEF new
<1> QED BY <1>1, <1>2, <1>3, FileKept, OwnStep

\* What a step of a handler to another label changes.
LEMMA OnlyThePc ==
    ASSUME Inv, NEW h \in Handlers, ~ At(h, "idle"), NEW pc \in Labels, Goto(h, pc)
    PROVE  /\ job'[h].pc = pc /\ job'[h].registry = job[h].registry
           /\ job'[h].index = job[h].index /\ job'[h].rb = job[h].rb
           /\ job'[h].found = job[h].found /\ job'[h].text = job[h].text
           /\ \A g \in Handlers \ {h} : job'[g] = job[g]
<1>1. job \in [Handlers -> Requests \cup Answers]
    BY DEF Inv, Typed, Answers
<1>2. job[h] \in Requests
    BY AtWork
<1> QED BY <1>1, <1>2 DEF Goto, Requests

LEMMA ScanInv ==
    ASSUME Inv, NEW h \in Handlers, Scan(h)
    PROVE  Inv'
<1> DEFINE i == Position(Saved(h), job[h].rb.id)
           next == IF i = 0 THEN "room" ELSE "replace"
           new == [job[h] EXCEPT !.index = i, !.pc = next]
<1>1. /\ ~ At(h, "idle") /\ At(h, "scan")
      /\ UNCHANGED <<lists, file, sent, solo, written>>
    BY DEF Scan, At
<1>2. /\ job \in [Handlers -> Requests \cup Answers] /\ job[h] \in Requests
      /\ Saved(h) \in Seq(Runbooks)
    BY <1>1, AtWork DEF Inv, Typed, Answers, SoundList
<1>3. i \in 0 .. Len(Saved(h)) /\ i \in Nat /\ next \in {"room", "replace"}
      /\ (next = "replace" <=> i # 0)
    <2>1. i \in 0 .. Len(Saved(h))
        BY <1>2, PositionInList
    <2> QED BY <2>1
<1>4. job' = [job EXCEPT ![h] = new]
    BY <1>2 DEF Scan
<1> HIDE DEF i, next
<1>5. /\ new \in Requests /\ new.pc = next /\ new.registry = job[h].registry
      /\ new.rb = job[h].rb /\ new.index = i /\ new.found = job[h].found
    BY <1>2, <1>3 DEF Requests, Labels
<1> HIDE DEF new
<1>6. job'[h] = new /\ \A g \in Handlers \ {h} : job'[g] = job[g]
    BY <1>2, <1>4
<1>7. ASSUME solo[h] PROVE SoloSave(h)'
    <2>1. SoloSave(h)
        BY <1>1, <1>7, AtWork
    <2>2. Memory' = Memory /\ Memory = job[h].found /\ Saved(h) = Memory
        BY <1>1, <2>1, AtWork DEF SoloSave, At, Memory
    <2>3. i = Position(Memory, job[h].rb.id)
        BY <2>2 DEF i
    <2> QED BY <1>1, <1>3, <1>5, <1>6, <2>1, <2>2, <2>3 DEF SoloSave, At
<1> QED BY <1>1, <1>3, <1>4, <1>5, <1>7, FileKept, OwnStep

LEMMA ReplaceInv ==
    ASSUME Inv, NEW h \in Handlers, Replace(h)
    PROVE  Inv'
<1> DEFINE list == [Saved(h) EXCEPT ![job[h].index] = job[h].rb]
<1>1. At(h, "replace") /\ ~ At(h, "idle") /\ ~ At(h, "append")
    BY DEF Replace, At
<1>2. /\ SoundList(Saved(h)) /\ Saved(h) = lists[job[h].registry]
      /\ job[h].index \in 1 .. Len(Saved(h)) /\ Len(Saved(h)) \in Nat
      /\ job[h].rb \in Runbooks /\ Sound(job[h].rb)
    BY <1>1, AtWork
<1>3. SoundList(list) /\ Len(list) = Len(Saved(h)) + 0
    BY <1>2, UpsertSound
<1>4. ASSUME solo[h] PROVE list = Upsert(job[h].found, job[h].rb)
    <2>1. /\ Memory = job[h].found /\ job[h].registry = Len(lists)
          /\ job[h].index = Position(Memory, job[h].rb.id)
        BY <1>1, <1>4, AtWork DEF SoloSave, At
    <2>2. Saved(h) = job[h].found /\ job[h].index # 0
        BY <1>2, <2>1 DEF Memory
    <2> QED BY <2>1, <2>2 DEF Upsert
<1>5. lists' = [lists EXCEPT ![job[h].registry] = list]
    BY <1>2 DEF Replace
<1>6. /\ job' = [job EXCEPT ![h].pc = "measure"] /\ UNCHANGED <<file, sent, solo, written>>
      /\ job[h].pc \in {"append", "replace"}
    BY DEF Replace, Goto, At
<1> HIDE DEF list
<1> QED BY <1>1, <1>3, <1>4, <1>5, <1>6, OwnChange

LEMMA AppendRunbookInv ==
    ASSUME Inv, NEW h \in Handlers, AppendRunbook(h)
    PROVE  Inv'
<1> DEFINE list == Append(Saved(h), job[h].rb)
<1>1. At(h, "append") /\ ~ At(h, "idle")
    BY DEF AppendRunbook, At
<1>2. /\ SoundList(Saved(h)) /\ Saved(h) = lists[job[h].registry]
      /\ job[h].rb \in Runbooks /\ Sound(job[h].rb)
    BY <1>1, AtWork
<1>3. SoundList(list) /\ Len(list) = Len(Saved(h)) + 1
    BY <1>2, UpsertSound
<1>4. ASSUME solo[h] PROVE list = Upsert(job[h].found, job[h].rb)
    <2>1. /\ Memory = job[h].found /\ job[h].registry = Len(lists)
          /\ Position(Memory, job[h].rb.id) = 0
        BY <1>1, <1>4, AtWork DEF SoloSave, At
    <2>2. Saved(h) = job[h].found
        BY <1>2, <2>1 DEF Memory
    <2> QED BY <2>1, <2>2 DEF Upsert
<1>5. lists' = [lists EXCEPT ![job[h].registry] = list]
    BY <1>2 DEF AppendRunbook
<1>6. /\ job' = [job EXCEPT ![h].pc = "measure"] /\ UNCHANGED <<file, sent, solo, written>>
      /\ job[h].pc \in {"append", "replace"}
    BY DEF AppendRunbook, Goto, At
<1> HIDE DEF list
<1> QED BY <1>1, <1>3, <1>4, <1>5, <1>6, OwnChange

LEMMA TestRoomInv ==
    ASSUME Inv, NEW h \in Handlers, TestRoom(h)
    PROVE  Inv'
<1>1. At(h, "room") /\ ~ At(h, "idle") /\ UNCHANGED <<lists, file, sent, solo, written>>
    BY DEF TestRoom, At
<1>2. CASE HasRoom(Saved(h))
    <2>1. Goto(h, "append") /\ Len(Saved(h)) < MaxSaved /\ "append" \in Labels
        BY <1>2 DEF TestRoom, HasRoom, Labels
    <2>2. ASSUME solo[h] PROVE SoloSave(h)'
        <3>1. SoloSave(h)
            BY <1>1, <2>2, AtWork
        <3> QED BY <1>1, <2>1, <3>1, OnlyThePc DEF SoloSave, At, Memory
    <2> QED BY <1>1, <2>1, <2>2, GotoInv
<1>3. CASE ~ HasRoom(Saved(h))
    BY <1>1, <1>3, RefuseInv DEF TestRoom
<1> QED BY <1>2, <1>3

LEMMA TestNumberInv ==
    ASSUME Inv, NEW h \in Handlers, TestNumber(h)
    PROVE  Inv'
<1>1. At(h, "measure") /\ ~ At(h, "idle") /\ UNCHANGED <<lists, file, sent, solo, written>>
    BY DEF TestNumber, At
<1>2. CASE Len(Saved(h)) <= MaxSaved
    <2>1. Goto(h, "dump") /\ "dump" \in Labels
        BY <1>2 DEF TestNumber, Labels
    <2>2. ASSUME solo[h] PROVE SoloSave(h)'
        <3>1. SoloSave(h) /\ Saved(h) = lists[job[h].registry]
            BY <1>1, <2>2, AtWork
        <3>2. Saved(h) = Memory
            BY <3>1 DEF SoloSave, Memory
        <3> QED BY <1>1, <1>2, <2>1, <3>1, <3>2, OnlyThePc DEF SoloSave, At, Memory
    <2> QED BY <1>1, <2>1, <2>2, GotoInv
<1>3. CASE ~ Len(Saved(h)) <= MaxSaved
    BY <1>1, <1>3, RefuseInv DEF TestNumber
<1> QED BY <1>2, <1>3

LEMMA DumpInv ==
    ASSUME Inv, NEW h \in Handlers, Dump(h)
    PROVE  Inv'
<1> DEFINE new == [job[h] EXCEPT !.text = Saved(h), !.pc = "write"]
<1>1. At(h, "dump") /\ ~ At(h, "idle") /\ UNCHANGED <<lists, file, sent, solo, written>>
    BY DEF Dump, At
<1>2. /\ job \in [Handlers -> Requests \cup Answers] /\ job[h] \in Requests
      /\ SoundList(Saved(h)) /\ Saved(h) \in Seq(Runbooks) /\ Saved(h) = lists[job[h].registry]
      /\ job[h].index \in 0 .. Len(Saved(h))
    BY <1>1, AtWork DEF Inv, Typed, Answers, SoundList
<1>3. CASE FitsFile(Saved(h))
    <2>1. job' = [job EXCEPT ![h] = new]
        BY <1>2, <1>3 DEF Dump
    <2>2. /\ new \in Requests /\ new.pc = "write" /\ new.registry = job[h].registry
          /\ new.rb = job[h].rb /\ new.index = job[h].index /\ new.found = job[h].found
          /\ new.text = Saved(h)
        BY <1>2 DEF Requests, Labels
    <2> HIDE DEF new
    <2>3. Writable(new.text)
        BY <1>2, <1>3, <2>2 DEF Writable
    <2>4. job'[h] = new /\ \A g \in Handlers \ {h} : job'[g] = job[g]
        BY <1>2, <2>1
    <2>5. ASSUME solo[h] PROVE SoloSave(h)'
        <3>1. SoloSave(h)
            BY <1>1, <2>5, AtWork
        <3>2. Saved(h) = Memory
            BY <1>2, <3>1 DEF SoloSave, Memory
        <3> QED BY <1>1, <2>2, <2>4, <3>1, <3>2 DEF SoloSave, At, Memory
    <2> QED BY <1>1, <1>2, <2>1, <2>2, <2>3, <2>5, FileKept, OwnStep
<1>4. CASE ~ FitsFile(Saved(h))
    BY <1>1, <1>4, RefuseInv DEF Dump
<1> QED BY <1>3, <1>4

LEMMA WriteFailsInv ==
    ASSUME Inv, NEW h \in Handlers, WriteFails(h)
    PROVE  Inv'
<1>1. ~ At(h, "idle") /\ Refuse(h) /\ UNCHANGED <<lists, file, sent, solo, written>>
    BY DEF WriteFails, At
<1> QED BY <1>1, RefuseInv

\* A registry is loaded: the requests go on with theirs, or all of them are gone.
LEMMA LoadRegistryInv ==
    ASSUME Inv, LoadRegistry,
           job' = job \/ job' = [h \in Handlers |-> Idle(TRUE)]
    PROVE  Inv'
<1> DEFINE list == LoadRunbooks(file)
           n == Len(lists)
<1>1. /\ n < MaxRegistries /\ lists' = Append(lists, list)
      /\ solo' = [h \in Handlers |-> FALSE]
      /\ file' = file /\ sent' = sent /\ written' = written
    BY DEF LoadRegistry
<1>2. SoundList(list) /\ Len(list) <= MaxSaved /\ list \in Seq(Runbooks) /\ Len(list) \in Nat
    <2>1. file \in Seq(Runbooks) \cup {NoList}
        BY DEF Inv, Typed
    <2> QED BY <2>1, LoadSound DEF SoundList
<1>3. /\ job \in [Handlers -> Requests \cup Answers]
      /\ lists \in Seq(Seq(Runbooks)) /\ n \in Nat \ {0} /\ n \in 1 .. MaxRegistries
      /\ MaxRegistries \in Nat
    <2>1. lists \in Seq(Seq(Runbooks)) /\ n \in 1 .. MaxRegistries
        BY DEF Inv, Typed
    <2>2. n \in Nat /\ MaxRegistries \in Nat
        BY <2>1, LimitsAssumption, LenProperties
    <2> QED BY <2>1, <2>2 DEF Inv, Typed, Answers
<1>4. /\ lists' \in Seq(Seq(Runbooks)) /\ Len(lists') = n + 1
      /\ \A r \in 1 .. n : lists'[r] = lists[r]
      /\ lists'[n + 1] = list
    BY <1>1, <1>2, <1>3, AppendSequence
<1> HIDE DEF n, list
<1>5. \A r \in 1 .. n + 1 : r \in 1 .. n \/ r = n + 1
    BY <1>3, SMT
<1>6. /\ job' \in [Handlers -> Requests \cup Answers]
      /\ \A h \in Handlers : job'[h].pc # "idle" => job'[h] = job[h]
    <2>1. CASE job' = job
        BY <1>3, <2>1
    <2>2. CASE job' = [h \in Handlers |-> Idle(TRUE)]
        <3>1. \A h \in Handlers : job'[h] \in Answers
            BY <2>2, AnswersAnswer
        <3> QED BY <2>2, <3>1, PcOfRequests
    <2> QED BY <2>1, <2>2
<1>7. Typed'
    <2>1. \A r \in 1 .. n : SoundList(lists[r])
        BY DEF Inv, Typed, n
    <2>2. \A r \in 1 .. n + 1 : SoundList(lists'[r])
        BY <1>2, <1>4, <1>5, <2>1
    <2>3. n + 1 \in 1 .. MaxRegistries
        BY <1>1, <1>3, SMT DEF n
    <2>4. /\ file' \in Seq(Runbooks) \cup {NoList} /\ sent' \in 0 .. MaxRequests
          /\ written' \in BOOLEAN
        BY <1>1 DEF Inv, Typed
    <2>5. solo' \in [Handlers -> BOOLEAN]
        BY <1>1
    <2> QED BY <1>4, <1>6, <2>2, <2>3, <2>4, <2>5 DEF Typed, Answers
<1>8. ASSUME NEW h \in Handlers PROVE RequestSound(h)'
    <2> SUFFICES ASSUME job'[h].pc # "idle" PROVE RequestSound(h)'
        BY DEF RequestSound, At
    <2>1. job'[h] = job[h] /\ ~ At(h, "idle")
        BY <1>6 DEF At
    <2>2. /\ job[h].registry \in 1 .. n /\ Sound(job[h].rb)
          /\ job[h].index \in 0 .. Len(lists[job[h].registry])
          /\ At(h, "replace") => job[h].index # 0
        BY <2>1 DEF Inv, RequestSound, Saved, n
    <2>3. job[h].registry \in 1 .. n + 1 /\ lists'[job[h].registry] = lists[job[h].registry]
        BY <1>3, <1>4, <2>2
    <2> QED BY <1>4, <2>1, <2>2, <2>3 DEF RequestSound, At, Saved
<1>9. TextsWritable'
    <2>1. ASSUME NEW h \in Handlers, At(h, "write")' PROVE Writable(job'[h].text)
        BY <1>6, <2>1 DEF At, Inv, TextsWritable
    <2>2. written => Writable(file)
        BY DEF Inv, TextsWritable
    <2> QED BY <1>1, <2>1, <2>2 DEF TextsWritable, Writable, SoundList, FitsFile
<1>10. RoomCounted'
    <2> SUFFICES ASSUME NEW r \in 1 .. n + 1
                 PROVE  Len(lists'[r]) + Cardinality(Appending(r)')
                            <= MaxSaved + Cardinality(Handlers) - 1
        BY <1>4 DEF RoomCounted
    <2>1. /\ MaxSaved \in Nat /\ IsFiniteSet(Handlers) /\ Cardinality(Handlers) \in Nat \ {0}
        BY LimitsAssumption, FS_CardinalityType, FS_EmptySet
    <2>2. Appending(r)' \in SUBSET Appending(r)
        BY <1>6 DEF Appending, At
    <2>3. /\ IsFiniteSet(Appending(r)) /\ Cardinality(Appending(r)) \in Nat
          /\ Cardinality(Appending(r)') \in Nat
          /\ Cardinality(Appending(r)') <= Cardinality(Appending(r))
        <3>1. Appending(r) \in SUBSET Handlers
            BY DEF Appending
        <3> QED BY <2>1, <2>2, <3>1, FS_Subset, FS_CardinalityType
    <2>4. CASE r \in 1 .. n
        <3>1. /\ Len(lists[r]) \in Nat
              /\ Len(lists[r]) + Cardinality(Appending(r)) <= MaxSaved + Cardinality(Handlers) - 1
            BY <2>4 DEF Inv, Typed, SoundList, RoomCounted, n
        <3>2. lists'[r] = lists[r]
            BY <1>4, <2>4
        <3> QED BY <2>1, <2>3, <3>1, <3>2, SMT
    <2>5. CASE r = n + 1
        <3>1. Appending(r) = {}
            <4> SUFFICES ASSUME NEW h \in Appending(r) PROVE FALSE
                OBVIOUS
            <4>1. h \in Handlers /\ ~ At(h, "idle") /\ job[h].registry = n + 1
                BY <2>5 DEF Appending, At
            <4>2. job[h].registry \in 1 .. n
                BY <4>1 DEF Inv, RequestSound, n
            <4> QED BY <1>3, <4>1, <4>2, SMT
        <3>2. Cardinality(Appending(r)) = 0
            BY <3>1, FS_EmptySet
        <3>3. Len(lists'[r]) = Len(list)
            BY <1>4, <2>5
        <3> QED BY <1>2, <2>1, <2>3, <3>2, <3>3, SMT
    <2> QED BY <1>5, <2>4, <2>5
<1>11. SoloSaves'
    BY <1>1 DEF SoloSaves
<1> QED BY <1>7, <1>8, <1>9, <1>10, <1>11 DEF Inv

LEMMA StutterInv ==
    ASSUME Inv, UNCHANGED vars
    PROVE  Inv'
<1>1. /\ lists' = lists /\ file' = file /\ job' = job /\ sent' = sent
      /\ solo' = solo /\ written' = written
    BY DEF vars
<1>2. Typed' /\ TextsWritable'
    BY <1>1 DEF Inv, Typed, TextsWritable, At
<1>3. RoomCounted'
    BY <1>1 DEF Inv, RoomCounted, Appending, At
<1>4. (\A h \in Handlers : RequestSound(h))'
    BY <1>1 DEF Inv, RequestSound, At, Saved
<1>5. SoloSaves'
    BY <1>1 DEF Inv, SoloSaves, SoloSave, At, Memory
<1> QED BY <1>2, <1>3, <1>4, <1>5 DEF Inv

LEMMA NextInv == Inv /\ [Next]_vars => Inv'
<1> SUFFICES ASSUME Inv, [Next]_vars PROVE Inv'
    OBVIOUS
<1>1. ASSUME NEW h \in Handlers, Save(h) PROVE Inv'
    BY <1>1, ScanInv, ReplaceInv, TestRoomInv, AppendRunbookInv, TestNumberInv, DumpInv,
       WriteFileInv, WriteFailsInv DEF Save
<1>2. ASSUME NEW h \in Handlers, NEW payload \in Payloads, ReceiveSave(h, payload) PROVE Inv'
    BY <1>2, ReceiveSaveInv
<1>3. ASSUME Restart \/ Reconfigure PROVE Inv'
    BY <1>3, LoadRegistryInv DEF Restart, Reconfigure
<1>4. ASSUME UNCHANGED vars PROVE Inv'
    BY <1>4, StutterInv
<1> QED BY <1>1, <1>2, <1>3, <1>4 DEF Next

\* The invariant, of any number of handlers, limits and inputs.
THEOREM RegistryInvariant == Spec => []Inv
BY InitInv, NextInv, PTL DEF Spec

(* ------------------------------ what it shows ---------------------------- *)

\* Every runbook that can be served is one the executor can run, wherever it came from:
\* sanitised, its steps sorted (sanitize_saved_runbook, load_runbooks, save_runbook).
THEOREM ServedRunbooksSound == Spec => []TypeOK
<1>1. Inv => TypeOK
    <2> SUFFICES ASSUME Inv PROVE TypeOK
        OBVIOUS
    <2>1. /\ Len(lists) \in 1 .. MaxRegistries /\ sent \in 0 .. MaxRequests
          /\ DOMAIN lists = 1 .. Len(lists)
        BY LenProperties DEF Inv, Typed
    <2>2. ASSUME NEW r \in DOMAIN lists, NEW i \in DOMAIN lists[r] PROVE Sound(lists[r][i])
        <3>1. SoundList(lists[r])
            BY <2>1 DEF Inv, Typed
        <3>2. DOMAIN lists[r] = 1 .. Len(lists[r])
            BY <3>1, LenProperties DEF SoundList
        <3> QED BY <3>1, <3>2 DEF SoundList
    <2>3. ASSUME NEW h \in Handlers, ~ At(h, "idle")
          PROVE  /\ job[h].registry \in DOMAIN lists
                 /\ job[h].index \in 0 .. Len(Saved(h)) /\ Sound(job[h].rb)
        BY <2>1, <2>3, AtWork
    <2> QED BY <2>1, <2>2, <2>3 DEF TypeOK
<1> QED BY <1>1, RegistryInvariant, PTL

\* Handlers that all saw room for one more runbook overrun the limit by no more than their
\* number less one (RunbookRegistry.save_runbook tests and appends without a lock).
THEOREM OverrunBounded == Spec => []OverrunIsBounded
<1>1. Inv => OverrunIsBounded
    <2> SUFFICES ASSUME Inv, NEW r \in DOMAIN lists
                 PROVE  Len(lists[r]) <= MaxSaved + Cardinality(Handlers) - 1
        BY DEF OverrunIsBounded
    <2>1. r \in 1 .. Len(lists)
        BY LenProperties DEF Inv, Typed
    <2>2. Len(lists[r]) + Cardinality(Appending(r)) <= MaxSaved + Cardinality(Handlers) - 1
        BY <2>1 DEF Inv, RoomCounted
    <2>3. Len(lists[r]) \in Nat /\ MaxSaved \in Nat /\ Cardinality(Handlers) \in Nat
        BY <2>1, LimitsAssumption, FS_CardinalityType DEF Inv, Typed, SoundList
    <2>4. Cardinality(Appending(r)) \in Nat
        <3>1. Appending(r) \in SUBSET Handlers
            BY DEF Appending
        <3> QED BY <3>1, LimitsAssumption, FS_Subset, FS_CardinalityType
    <2> QED BY <2>2, <2>3, <2>4, SMT
<1> QED BY <1>1, RegistryInvariant, PTL

\* Whatever a registry writes, a restart loads: no runbook of the file is refused or changed
\* by being read again (save_runbooks, load_runbooks).
THEOREM WhatIsWrittenIsLoaded == Spec => []WrittenIsLoaded
<1>1. Inv => WrittenIsLoaded
    BY LoadWritable DEF Inv, TextsWritable, WrittenIsLoaded
<1> QED BY <1>1, RegistryInvariant, PTL

\* The end of a request, and what it has changed.
SaveEnds(h) ==
    LET after == Upsert(job[h].found, job[h].rb)
    IN  IF job'[h].ok THEN Memory' = after /\ LoadRunbooks(file') = after
        ELSE Memory' \in {job[h].found, after} /\ file' = file

\* A save that nothing overlaps is atomic, and durable once it is answered 201.
THEOREM SoloSavesAtomic == Spec => SoloSaveIsAtomic
<1>1. ASSUME Inv, [Next]_vars, NEW h \in Handlers, solo[h], solo'[h],
             ~ At(h, "idle"), At(h, "idle")'
      PROVE  SaveEnds(h)
    <2> DEFINE after == Upsert(job[h].found, job[h].rb)
    <2>1. SoloSave(h) /\ job[h] \in Requests /\ job \in [Handlers -> Requests \cup Answers]
        BY <1>1, AtWork DEF Inv, Typed, Answers
    <2>2. ASSUME Refuse(h), lists' = lists, file' = file PROVE SaveEnds(h)
        <3>1. job'[h].ok = FALSE
            BY <2>1, <2>2 DEF Refuse, Idle
        <3>2. Memory' = Memory
            BY <2>2 DEF Memory
        <3>3. Memory \in {job[h].found, after}
            BY <2>1, PcOfRequests DEF SoloSave, At, Labels
        <3> QED BY <2>2, <3>1, <3>2, <3>3 DEF SaveEnds
    <2>3. ASSUME WriteFile(h) PROVE SaveEnds(h)
        <3>1. job'[h].ok = TRUE /\ lists' = lists /\ file' = job[h].text /\ At(h, "write")
            BY <2>1, <2>3 DEF WriteFile, Idle
        <3>2. Memory = after /\ job[h].text = after /\ Len(after) <= MaxSaved
            BY <2>1, <3>1 DEF SoloSave, At
        <3>3. Writable(after) /\ SoundList(after)
            BY <1>1, <3>1, <3>2 DEF Inv, TextsWritable, Writable
        <3>4. LoadRunbooks(after) = after
            BY <3>2, <3>3, LoadWritable, FirstFewSound
        <3>5. Memory' = Memory
            BY <3>1 DEF Memory
        <3> QED BY <3>1, <3>2, <3>4, <3>5 DEF SaveEnds
    <2>4. ASSUME NEW pc \in Labels, Goto(h, pc) PROVE FALSE
        BY <1>1, <2>4, OnlyThePc DEF At, Labels
    <2>5. ASSUME NEW g \in Handlers, Save(g) PROVE SaveEnds(h)
        <3>1. ~ At(g, "idle")
            BY <2>5 DEF Save, Scan, Replace, TestRoom, AppendRunbook, TestNumber, Dump,
                        WriteFile, WriteFails, At
        <3>2. g = h
            BY <1>1, <3>1, OnlyOneSolo
        <3>3. ~ Scan(h)
            <4> SUFFICES ASSUME Scan(h) PROVE FALSE
                OBVIOUS
            <4>1. job'[h].pc \in {"room", "replace"}
                BY <2>1 DEF Scan, Requests
            <4> QED BY <1>1, <4>1 DEF At
        <3>4. ~ Replace(h) /\ ~ AppendRunbook(h)
            BY <2>4 DEF Replace, AppendRunbook, Labels
        <3>5. ASSUME TestRoom(h) \/ TestNumber(h) PROVE SaveEnds(h)
            BY <2>2, <2>4, <3>5 DEF TestRoom, TestNumber, Labels
        <3>6. ASSUME Dump(h) PROVE SaveEnds(h)
            <4>1. CASE FitsFile(Saved(h))
                <5>1. job'[h].pc = "write"
                    BY <2>1, <3>6, <4>1 DEF Dump, Requests
                <5> QED BY <1>1, <5>1 DEF At
            <4>2. CASE ~ FitsFile(Saved(h))
                BY <2>2, <3>6, <4>2 DEF Dump
            <4> QED BY <4>1, <4>2
        <3>7. ASSUME WriteFails(h) PROVE SaveEnds(h)
            BY <2>2, <3>7 DEF WriteFails
        <3> QED BY <2>3, <2>5, <3>2, <3>3, <3>4, <3>5, <3>6, <3>7 DEF Save
    <2>6. ASSUME NEW g \in Handlers, NEW payload \in Payloads, ReceiveSave(g, payload)
          PROVE  FALSE
        <3>1. At(g, "idle") /\ solo'[h] = (h = g /\ \A f \in Handlers : At(f, "idle"))
            BY <2>6 DEF ReceiveSave
        <3> QED BY <1>1, <3>1
    <2>7. ~ LoadRegistry
        BY <1>1 DEF LoadRegistry
    <2>8. ~ UNCHANGED vars
        BY <1>1 DEF vars, At
    <2> QED BY <1>1, <2>5, <2>6, <2>7, <2>8 DEF Next, Restart, Reconfigure
<1>2. Inv /\ [Next]_vars => [\A h \in Handlers :
          solo[h] /\ solo'[h] /\ ~ At(h, "idle") /\ At(h, "idle")' =>
             LET after == Upsert(job[h].found, job[h].rb)
             IN  IF job'[h].ok THEN Memory' = after /\ LoadRunbooks(file') = after
                 ELSE Memory' \in {job[h].found, after} /\ file' = file]_vars
    BY <1>1 DEF SaveEnds
<1> QED BY <1>2, RegistryInvariant, PTL DEF Spec, SoloSaveIsAtomic
=============================================================================
