--------------------------- MODULE CommandPathProofs --------------------------
(***************************************************************************)
(* Whatever the number of generators, the limits of the queue and the      *)
(* requests of clients and masters: the queue stays within its limits, no  *)
(* accepted command is lost, doubled or overtaken, and the simulator never *)
(* takes a register value of its own for one of the master's.              *)
(***************************************************************************)
EXTENDS CommandPath, TLAPS, SequenceTheorems

\* Where the simulation thread is in its loops: within the first request it drained, which
\* it has until all of them are applied; a command it has read is not 0.
ThreadSound ==
    /\ pc # "apply" => batch = <<>>
    /\ batch # <<>> => at.unit <= Len(batch[1].units) /\ at.command <= batch[1].length
    /\ pc \in {"clear", "enqueue"} => cmd # 0

\* Register 16 holds what the simulator wrote last, unless the master wrote it since: the
\* setpoint remembered, or while it is being written the cached one.
EchoSound ==
    \A u \in Units :
        master16[u] \/ reg16[u] = IF pc \in {"sync20", "remember"} /\ u = unit
                                  THEN cached16[u] ELSE last_raw[u]

Inv == TypeOK /\ ThreadSound /\ EchoSound /\ QueueWithinLimits /\ CommandsConserved

(* ------------------------------- entries -------------------------------- *)

\* A request has units, each of them once, and commands.
LEMMA EntryFacts ==
    ASSUME NEW e \in Entries
    PROVE  /\ e.units \in Seq(Units) /\ Len(e.units) \in Nat \ {0}
           /\ \A i \in 1 .. Len(e.units) : e.units[i] \in Units
           /\ \A i, j \in 1 .. Len(e.units) : e.units[i] = e.units[j] => i = j
           /\ e.length \in Nat \ {0} /\ e.number \in Nat \ {0}
<1> DEFINE us == e.units
<1>1. us \in Targets \cup {<<u>> : u \in Units}
  BY SMT DEF Entries
<1>2. us \in Seq(Units) /\ Len(us) \in Nat \ {0}
      /\ \A i, j \in 1 .. Len(us) : us[i] = us[j] => i = j
  <2>1. CASE us \in Targets
    <3>1. us \in Seq(Units) /\ us # <<>>
      BY <2>1, SizeAssumption, Zenon
    <3>2. DOMAIN us = 1 .. Len(us) /\ Len(us) \in Nat
      BY <3>1, LenProperties, Zenon
    <3>3. Len(us) # 0
      BY <3>1, EmptySeq, Zenon
    <3>4. \A i, j \in DOMAIN us : us[i] = us[j] => i = j
      BY <2>1, SizeAssumption, Zenon
    <3>5. Len(us) \in Nat \ {0}
      BY <3>2, <3>3, Zenon
    <3> QED BY <3>1, <3>2, <3>4, <3>5, Zenon
  <2>2. CASE us \notin Targets
    <3>1. PICK u \in Units : us = <<u>>
      BY <1>1, <2>2, Zenon
    <3> HIDE DEF us
    <3> QED BY <3>1, SMT
  <2> QED BY <2>1, <2>2, Zenon
<1>3. \A i \in 1 .. Len(us) : us[i] \in Units
  BY <1>2, ElementOfSeq, Zenon
<1>4. e.length \in Lengths \cup {1} /\ e.number \in Nat \ {0}
  BY SMT DEF Entries
<1>5. Lengths \subseteq Nat \ {0}
  BY SizeAssumption, Zenon
<1>6. 1 \in Nat \ {0}
  BY SMT
<1>7. e.length \in Nat \ {0}
  BY <1>4, <1>5, <1>6, Zenon
<1> QED BY <1>2, <1>3, <1>4, <1>7, Zenon

\* What Append, Head and Tail do, index by index.
LEMMA AppendFacts ==
    ASSUME NEW S, NEW s \in Seq(S), NEW e \in S
    PROVE  /\ Append(s, e) \in Seq(S) /\ Len(s) \in Nat /\ Len(Append(s, e)) = Len(s) + 1
           /\ \A n \in 1 .. Len(s) : Append(s, e)[n] = s[n]
           /\ Append(s, e)[Len(s) + 1] = e
BY AppendProperties, LenProperties

LEMMA TailFacts ==
    ASSUME NEW S, NEW s \in Seq(S), s # <<>>
    PROVE  /\ Head(s) = s[1] /\ s[1] \in S /\ Tail(s) \in Seq(S)
           /\ Len(s) \in Nat \ {0} /\ Len(Tail(s)) = Len(s) - 1
           /\ \A n \in 1 .. Len(s) - 1 : Tail(s)[n] = s[n + 1]
<1>1. Len(s) \in Nat /\ Len(s) # 0
  BY EmptySeq, LenProperties, Zenon
<1>2. 1 \in 1 .. Len(s)
  BY <1>1, SMT
<1>3. s[1] \in S
  BY <1>2, ElementOfSeq, Zenon
<1>4. Head(s) = s[1] /\ Tail(s) \in Seq(S) /\ Len(Tail(s)) = Len(s) - 1
      /\ \A n \in 1 .. Len(Tail(s)) : Tail(s)[n] = s[n + 1]
  BY HeadTailProperties
<1> QED BY <1>1, <1>3, <1>4, Zenon

\* The commands a unit is owed, one by one.
LEMMA InShares ==
    ASSUME NEW u, NEW c
    PROVE  c \in UNION {ShareOf(n, u) : n \in 1 .. Len(accepted)}
           <=> \E n \in 1 .. Len(accepted) : \E k \in 1 .. accepted[n].length :
                   /\ c = <<n, k>>
                   /\ \E i \in 1 .. Len(accepted[n].units) :
                         accepted[n].units[i] = u /\ Past(n, i, k)
<1>1. ASSUME NEW n
      PROVE  c \in ShareOf(n, u)
             <=> \E k \in 1 .. accepted[n].length :
                     /\ c = <<n, k>>
                     /\ \E i \in 1 .. Len(accepted[n].units) :
                           accepted[n].units[i] = u /\ Past(n, i, k)
  BY Zenon DEF ShareOf
<1> QED BY <1>1, Zenon

LEMMA InSharesNext ==
    ASSUME NEW u, NEW c
    PROVE  c \in UNION {ShareOf(n, u)' : n \in 1 .. Len(accepted')}
           <=> \E n \in 1 .. Len(accepted') : \E k \in 1 .. accepted'[n].length :
                   /\ c = <<n, k>>
                   /\ \E i \in 1 .. Len(accepted'[n].units) :
                         accepted'[n].units[i] = u /\ Past(n, i, k)'
<1>1. ASSUME NEW n
      PROVE  c \in ShareOf(n, u)'
             <=> \E k \in 1 .. accepted'[n].length :
                     /\ c = <<n, k>>
                     /\ \E i \in 1 .. Len(accepted'[n].units) :
                           accepted'[n].units[i] = u /\ Past(n, i, k)'
  BY Zenon DEF ShareOf
<1> QED BY <1>1, Zenon

(* ------------------- the requests, queued and drained ------------------- *)

RouterTyped ==
    /\ queue \in Seq(Entries) /\ accepted \in Seq(Entries) /\ batch \in Seq(Entries)
    /\ targets \in Nat /\ at \in [unit : Nat \ {0}, command : Nat \ {0}]
    /\ applied \in [Units -> Seq(Nat \X Nat)]

RouterSound == RouterTyped /\ QueueWithinLimits /\ CommandsConserved

LEMMA RouterStays ==
    ASSUME RouterSound, UNCHANGED <<queue, targets, accepted, batch, at, applied>>
    PROVE  RouterSound'
<1>1. RouterTyped' /\ QueueWithinLimits'
  BY Zenon DEF RouterSound, RouterTyped, QueueWithinLimits
<1>2. Taken' = Taken
  BY Zenon DEF Taken
<1>3. \A n, i, k : Past(n, i, k)' = Past(n, i, k)
  BY <1>2, Zenon DEF Past
<1>4. \A n, u : ShareOf(n, u)' = ShareOf(n, u)
  BY <1>3, Zenon DEF ShareOf
<1>5. \A u : Log(u)' = Log(u)
  BY Zenon DEF Log
<1>6. CommandsConserved'
  BY <1>2, <1>4, <1>5, Zenon DEF RouterSound, CommandsConserved
<1> QED BY <1>1, <1>6, Zenon DEF RouterSound

\* The lengths of the three lists are numbers, those drained and queued among the accepted.
LEMMA Counts ==
    ASSUME RouterSound
    PROVE  /\ Len(queue) \in Nat /\ Len(accepted) \in Nat /\ Len(batch) \in Nat
           /\ Taken \in Nat /\ Taken + Len(batch) + Len(queue) = Len(accepted)
           /\ batch = <<>> => Len(batch) = 0
           /\ batch # <<>> => Len(batch) # 0
<1>1. Len(queue) \in Nat /\ Len(accepted) \in Nat /\ Len(batch) \in Nat
  BY LenProperties, Zenon DEF RouterSound, RouterTyped
<1>2. 0 <= Taken
  BY Zenon DEF RouterSound, CommandsConserved
<1>3. Taken \in Nat /\ Taken + Len(batch) + Len(queue) = Len(accepted)
  BY <1>1, <1>2, SMT DEF Taken
<1>4. Len(<<>>) = 0 /\ (batch # <<>> => Len(batch) \in Nat \ {0})
  BY EmptySeq, Zenon DEF RouterSound, RouterTyped
<1>5. batch # <<>> => Len(batch) # 0
  BY <1>4, Zenon
<1>6. batch = <<>> => Len(batch) = 0
  BY <1>4, Zenon
<1> QED BY <1>1, <1>3, <1>5, <1>6, Zenon

\* What enqueue_sequence() is called with.
Requested(id, units, length) ==
    /\ id \in 1 .. MaxRequests /\ length \in Lengths \cup {1}
    /\ units \in Targets \cup {<<u>> : u \in Units}

EntryOf(id, units, length) ==
    [id |-> id, number |-> Len(accepted) + 1, units |-> units, length |-> length]

LEMMA EntryTyped ==
    ASSUME RouterSound, NEW id, NEW units, NEW length, Requested(id, units, length)
    PROVE  EntryOf(id, units, length) \in Entries
<1>1. Len(accepted) + 1 \in Nat \ {0}
  BY Counts, SMT
<1> QED BY <1>1, Zenon DEF EntryOf, Entries, Requested

\* A request that has room keeps the queue within its limits and its counter right.
LEMMA EnqueueLimits ==
    ASSUME RouterSound, NEW entry \in Entries, HasRoom(entry.units),
           queue' = Append(queue, entry), targets' = targets + Len(entry.units)
    PROVE  QueueWithinLimits'
<1> DEFINE L == Len(queue)
           more == Len(entry.units)
<1>1. L \in Nat /\ more \in Nat /\ targets \in Nat
  BY EntryFacts, Counts, Zenon DEF RouterSound, RouterTyped
<1>2. /\ Len(queue') = L + 1 /\ queue'[L + 1] = entry
      /\ \A n \in 1 .. L : queue'[n] = queue[n]
  BY AppendFacts DEF RouterSound, RouterTyped
<1>3. PICK sum \in [0 .. L -> 0 .. MaxUnitTargets] :
          /\ sum[0] = 0 /\ sum[L] = targets
          /\ \A n \in 1 .. L : sum[n] = sum[n - 1] + Len(queue[n].units)
  BY Zenon DEF RouterSound, QueueWithinLimits
<1>4. L < MaxCommands /\ targets + more <= MaxUnitTargets
  BY Zenon DEF HasRoom
<1>5. MaxCommands \in Nat /\ MaxUnitTargets \in Nat
  BY SizeAssumption, SMT
<1> HIDE DEF L, more
<1> DEFINE longer == [n \in 0 .. L + 1 |-> IF n <= L THEN sum[n] ELSE targets + more]
<1>6. longer \in [0 .. L + 1 -> 0 .. MaxUnitTargets]
  BY <1>1, <1>3, <1>4, <1>5, SMT
<1>7. longer[0] = 0 /\ longer[L + 1] = targets + more
  BY <1>1, <1>3, SMT
<1>8. \A n \in 1 .. L + 1 : n \in 1 .. L \/ n = L + 1
  BY <1>1, SMT
<1>9. ASSUME NEW n \in 1 .. L + 1
      PROVE  longer[n] = longer[n - 1] + Len(queue'[n].units)
  <2>1. CASE n \in 1 .. L
    <3>1. longer[n] = sum[n] /\ longer[n - 1] = sum[n - 1]
      BY <2>1, <1>1, SMT
    <3> HIDE DEF longer
    <3> QED BY <2>1, <3>1, <1>2, <1>3, Zenon
  <2>2. CASE n = L + 1
    <3>1. longer[n] = targets + more /\ longer[n - 1] = sum[L]
      BY <2>2, <1>1, SMT
    <3> HIDE DEF longer
    <3> QED BY <2>2, <3>1, <1>2, <1>3, Zenon DEF more
  <2> QED BY <1>8, <2>1, <2>2, Zenon
<1>10. L + 1 <= MaxCommands
  BY <1>1, <1>4, <1>5, SMT
<1> HIDE DEF longer
<1> QED BY <1>2, <1>6, <1>7, <1>9, <1>10, Zenon DEF QueueWithinLimits, more

\* It is the last of the accepted ones, and the loops are not past any of its commands.
LEMMA EnqueueConserves ==
    ASSUME RouterSound, NEW entry \in Entries, entry.number = Len(accepted) + 1,
           queue' = Append(queue, entry), accepted' = Append(accepted, entry),
           UNCHANGED <<batch, at, applied>>
    PROVE  CommandsConserved'
<1> DEFINE L == Len(queue)
           A == Len(accepted)
           B == Len(batch)
<1>1. /\ L \in Nat /\ A \in Nat /\ B \in Nat /\ Taken \in Nat /\ Taken + B + L = A
      /\ batch # <<>> => B # 0
  BY Counts, Zenon
<1>2. /\ Len(queue') = L + 1 /\ queue'[L + 1] = entry
      /\ \A n \in 1 .. L : queue'[n] = queue[n]
  BY AppendFacts DEF RouterSound, RouterTyped
<1>3. /\ Len(accepted') = A + 1 /\ accepted'[A + 1] = entry
      /\ \A n \in 1 .. A : accepted'[n] = accepted[n]
  BY AppendFacts DEF RouterSound, RouterTyped
<1>4. Taken' = Taken
  BY <1>1, <1>2, <1>3, SMT DEF Taken
<1>5. \A n \in 1 .. A + 1 : n \in 1 .. A \/ n = A + 1
  BY <1>1, SMT
<1>6. \A n \in 1 .. A + 1 : accepted'[n].number = n
  BY <1>3, <1>5, Zenon DEF RouterSound, CommandsConserved
<1>7. \A n \in 1 .. B : batch'[n] = accepted'[Taken' + n]
  <2>1. \A n \in 1 .. B : Taken + n \in 1 .. A
    BY <1>1, SMT
  <2> QED BY <2>1, <1>3, <1>4, Zenon DEF RouterSound, CommandsConserved
<1>8. \A n \in 1 .. L + 1 : queue'[n] = accepted'[Taken' + B + n]
  <2>1. \A n \in 1 .. L : Taken + B + n \in 1 .. A
    BY <1>1, SMT
  <2>2. \A n \in 1 .. L + 1 : n \in 1 .. L \/ n = L + 1
    BY <1>1, SMT
  <2>3. Taken + B + (L + 1) = A + 1
    BY <1>1, SMT
  <2> QED BY <2>1, <2>2, <2>3, <1>2, <1>3, <1>4, Zenon DEF RouterSound, CommandsConserved
<1>9. \A n, i, k : Past(n, i, k)' <=> Past(n, i, k)
  BY <1>4, Zenon DEF Past
<1>10. \A i, k : ~Past(A + 1, i, k)
  <2>1. ~(A + 1 <= Taken) /\ ~(A + 1 = Taken + 1 /\ B # 0)
    BY <1>1, SMT
  <2> QED BY <2>1, <1>1, Zenon DEF Past
<1>11. ASSUME NEW u \in Units
       PROVE  UNION {ShareOf(n, u)' : n \in 1 .. Len(accepted')}
              = UNION {ShareOf(n, u) : n \in 1 .. A}
  <2>1. 1 .. A \subseteq 1 .. A + 1
    BY <1>1, SMT
  <2>2. ASSUME NEW c \in UNION {ShareOf(n, u)' : n \in 1 .. Len(accepted')}
        PROVE  c \in UNION {ShareOf(n, u) : n \in 1 .. A}
    <3>1. PICK n \in 1 .. A + 1 : \E k \in 1 .. accepted'[n].length :
                   /\ c = <<n, k>>
                   /\ \E i \in 1 .. Len(accepted'[n].units) :
                         accepted'[n].units[i] = u /\ Past(n, i, k)'
      BY <2>2, <1>3, InSharesNext, Zenon
    <3>2. n \in 1 .. A
      BY <3>1, <1>5, <1>9, <1>10, Zenon
    <3> QED BY <3>1, <3>2, <1>3, <1>9, InShares, Zenon
  <2>3. ASSUME NEW c \in UNION {ShareOf(n, u) : n \in 1 .. A}
        PROVE  c \in UNION {ShareOf(n, u)' : n \in 1 .. Len(accepted')}
    <3>1. PICK n \in 1 .. A : \E k \in 1 .. accepted[n].length :
                   /\ c = <<n, k>>
                   /\ \E i \in 1 .. Len(accepted[n].units) :
                         accepted[n].units[i] = u /\ Past(n, i, k)
      BY <2>3, InShares, Zenon
    <3>2. n \in 1 .. Len(accepted') /\ accepted'[n] = accepted[n]
      BY <3>1, <2>1, <1>3, Zenon
    <3>3. \E k \in 1 .. accepted'[n].length :
              /\ c = <<n, k>>
              /\ \E i \in 1 .. Len(accepted'[n].units) :
                    accepted'[n].units[i] = u /\ Past(n, i, k)'
      BY <3>1, <3>2, <1>9, Zenon
    <3>4. \E m \in 1 .. Len(accepted') : \E k \in 1 .. accepted'[m].length :
              /\ c = <<m, k>>
              /\ \E i \in 1 .. Len(accepted'[m].units) :
                    accepted'[m].units[i] = u /\ Past(m, i, k)'
      BY <3>2, <3>3, Zenon
    <3> QED BY ONLY <3>4, InSharesNext, Zenon
  <2> QED BY <2>2, <2>3, Zenon
<1>12. \A u : Log(u)' = Log(u)
  BY Zenon DEF Log
<1>13. \A u \in Units :
          /\ \A x, y \in 1 .. Len(applied'[u]) : x < y => Precedes(applied'[u][x], applied'[u][y])
          /\ Log(u)' = UNION {ShareOf(n, u)' : n \in 1 .. Len(accepted')}
  BY <1>11, <1>12, Zenon DEF RouterSound, CommandsConserved
<1>14. 0 <= Taken'
  BY <1>1, <1>4, SMT
<1> QED BY <1>2, <1>3, <1>6, <1>7, <1>8, <1>13, <1>14, Zenon DEF CommandsConserved

LEMMA EnqueueStep ==
    ASSUME RouterSound, NEW id, NEW units, NEW length, Requested(id, units, length),
           Enqueue(id, units, length), UNCHANGED <<batch, at, applied>>
    PROVE  RouterSound'
<1> DEFINE entry == EntryOf(id, units, length)
<1>1. CASE HasRoom(units)
  <2>1. entry \in Entries
    BY EntryTyped, Zenon
  <2>2. entry.number = Len(accepted) + 1 /\ entry.units = units
    BY Zenon DEF EntryOf
  <2>3. /\ queue' = Append(queue, entry) /\ targets' = targets + Len(entry.units)
        /\ accepted' = Append(accepted, entry)
    BY <1>1, <2>2, Zenon DEF Enqueue, EntryOf
  <2> HIDE DEF entry
  <2>4. queue' \in Seq(Entries) /\ accepted' \in Seq(Entries)
    BY <2>1, <2>3, AppendFacts, Zenon DEF RouterSound, RouterTyped
  <2>5. targets' \in Nat
    <3>1. Len(entry.units) \in Nat
      BY <2>1, EntryFacts, Zenon
    <3> QED BY <2>3, <3>1, SMT DEF RouterSound, RouterTyped
  <2>6. RouterTyped'
    BY <2>4, <2>5, Zenon DEF RouterSound, RouterTyped
  <2>7. QueueWithinLimits'
    BY <1>1, <2>1, <2>2, <2>3, EnqueueLimits, Zenon
  <2>8. CommandsConserved'
    BY <2>1, <2>2, <2>3, EnqueueConserves, Zenon
  <2> QED BY <2>6, <2>7, <2>8, Zenon DEF RouterSound
<1>2. CASE ~HasRoom(units)
  BY <1>2, RouterStays, Zenon DEF Enqueue, router
<1> QED BY <1>1, <1>2, Zenon

\* simulation_step takes over the whole queue: nothing is past that was not before.
LEMMA DrainStep ==
    ASSUME RouterSound, ThreadSound, Drain
    PROVE  /\ RouterSound'
           /\ batch' # <<>> => at'.unit <= Len(batch'[1].units)
                               /\ at'.command <= batch'[1].length
<1>1. /\ batch = <<>> /\ batch' = queue /\ queue' = <<>> /\ targets' = 0 /\ at' = FirstJob
      /\ UNCHANGED <<accepted, applied>>
  BY Zenon DEF Drain, ThreadSound, history
<1>2. /\ Len(queue) \in Nat /\ Len(accepted) \in Nat /\ Taken \in Nat
      /\ Taken + Len(queue) = Len(accepted) /\ Len(batch) = 0
  BY <1>1, Counts, SMT
<1>3. Len(<<>>) = 0 /\ <<>> \in Seq(Entries)
  BY EmptySeq, Zenon
<1>4. Taken' = Taken
  BY <1>1, <1>2, <1>3, SMT DEF Taken
<1>5. RouterTyped'
  <2>1. at' \in [unit : Nat \ {0}, command : Nat \ {0}]
    BY <1>1, SMT DEF FirstJob
  <2>2. targets' \in Nat
    BY <1>1, SMT
  <2> QED BY <1>1, <1>3, <2>1, <2>2, Zenon DEF RouterSound, RouterTyped
<1>6. QueueWithinLimits'
  <2> DEFINE sum == [n \in 0 .. 0 |-> 0]
  <2>1. MaxCommands \in Nat /\ MaxUnitTargets \in Nat
    BY SizeAssumption, SMT
  <2>2. /\ sum \in [0 .. 0 -> 0 .. MaxUnitTargets] /\ sum[0] = 0
        /\ \A n \in 1 .. 0 : sum[n] = sum[n - 1] + Len(queue'[n].units)
    BY <2>1, SMT
  <2>3. 0 <= MaxCommands
    BY <2>1, SMT
  <2> HIDE DEF sum
  <2> QED BY <1>1, <1>3, <2>2, <2>3, Zenon DEF QueueWithinLimits
<1>7. \A n \in 1 .. Len(accepted), k \in Nat \ {0}, i \in Nat \ {0} :
          Past(n, i, k)' <=> Past(n, i, k)
  <2>1. at'.unit = 1 /\ at'.command = 1
    BY <1>1, SMT DEF FirstJob
  <2>2. \A i, k \in Nat \ {0} : ~(i < 1 \/ (i = 1 /\ k < 1))
    BY SMT
  <2> QED BY <1>1, <1>4, <2>1, <2>2, Zenon DEF Past
<1>8. \A n \in 1 .. Len(accepted) : accepted[n] \in Entries
  BY ElementOfSeq, Zenon DEF RouterSound, RouterTyped
<1>9. ASSUME NEW u \in Units
      PROVE  UNION {ShareOf(n, u)' : n \in 1 .. Len(accepted')}
             = UNION {ShareOf(n, u) : n \in 1 .. Len(accepted)}
  <2>1. ASSUME NEW n \in 1 .. Len(accepted)
        PROVE  ShareOf(n, u)' = ShareOf(n, u)
    <3>1. /\ \A i \in 1 .. Len(accepted[n].units) : i \in Nat \ {0}
          /\ \A k \in 1 .. accepted[n].length : k \in Nat \ {0}
      <4>1. Len(accepted[n].units) \in Nat \ {0} /\ accepted[n].length \in Nat \ {0}
        BY <1>8, EntryFacts, Zenon
      <4>2. \A m \in Nat \ {0} : \A i \in 1 .. m : i \in Nat \ {0}
        BY SMT
      <4> QED BY <4>1, <4>2, Zenon
    <3> QED BY <1>1, <1>7, <3>1, Zenon DEF ShareOf
  <2> QED BY <1>1, <2>1, Zenon
<1>10. CommandsConserved'
  <2>1. \A u \in Units :
            /\ \A x, y \in 1 .. Len(applied'[u]) : x < y => Precedes(applied'[u][x], applied'[u][y])
            /\ Log(u)' = UNION {ShareOf(n, u)' : n \in 1 .. Len(accepted')}
    <3>1. \A u : Log(u)' = Log(u)
      BY <1>1, Zenon DEF Log
    <3> QED BY <1>1, <1>9, <3>1, Zenon DEF RouterSound, CommandsConserved
  <2>2. \A n \in 1 .. Len(batch') : batch'[n] = accepted'[Taken' + n]
    <3>1. \A n \in 1 .. Len(queue) : Taken + Len(batch) + n = Taken + n
      BY <1>2, SMT
    <3> QED BY <1>1, <1>4, <3>1, Zenon DEF RouterSound, CommandsConserved
  <2>3. \A n \in 1 .. Len(queue') : FALSE
    BY <1>1, <1>3, SMT
  <2> QED BY <1>1, <1>2, <1>4, <2>1, <2>2, <2>3, SMT DEF RouterSound, CommandsConserved
<1>11. batch' # <<>> => at'.unit <= Len(batch'[1].units) /\ at'.command <= batch'[1].length
  <2> HAVE batch' # <<>>
  <2>1. batch'[1] \in Entries
    BY <1>5, TailFacts, Zenon DEF RouterTyped
  <2>2. Len(batch'[1].units) \in Nat \ {0} /\ batch'[1].length \in Nat \ {0}
    BY <2>1, EntryFacts, Zenon
  <2> QED BY <1>1, <2>2, SMT DEF FirstJob
<1> QED BY <1>5, <1>6, <1>10, <1>11, Zenon DEF RouterSound

\* One turn of the nested loops: past are the command applied and all that was past.
LEMMA JobDone ==
    ASSUME RouterSound, ThreadSound, batch # <<>>, NextJob(batch[1]),
           UNCHANGED <<queue, accepted>>
    PROVE  /\ batch' \in Seq(Entries) /\ at' \in [unit : Nat \ {0}, command : Nat \ {0}]
           /\ batch' # <<>> => at'.unit <= Len(batch'[1].units)
                               /\ at'.command <= batch'[1].length
           /\ Taken' \in Nat /\ Taken' + Len(batch') = Taken + Len(batch)
           /\ \A n \in 1 .. Len(batch') : batch'[n] = accepted[Taken' + n]
           /\ \A n \in 1 .. Len(accepted) : \A i, k \in Nat \ {0} :
                 (n = Taken + 1 => i <= Len(batch[1].units) /\ k <= batch[1].length)
                 => (Past(n, i, k)' <=> \/ Past(n, i, k)
                                        \/ n = Taken + 1 /\ i = at.unit /\ k = at.command)
<1> DEFINE B == Len(batch)
           A == Len(accepted)
           units == Len(batch[1].units)
           length == batch[1].length
<1>1. /\ A \in Nat /\ B \in Nat \ {0} /\ Len(queue) \in Nat
      /\ Taken \in Nat /\ Taken + B + Len(queue) = A
  BY Counts, SMT
<1>2. /\ batch[1] \in Entries /\ Tail(batch) \in Seq(Entries) /\ Len(Tail(batch)) = B - 1
      /\ \A n \in 1 .. B - 1 : Tail(batch)[n] = batch[n + 1]
  BY TailFacts, Zenon DEF RouterSound, RouterTyped
<1>3. units \in Nat \ {0} /\ length \in Nat \ {0}
  BY <1>2, EntryFacts, Zenon
<1>4. /\ at \in [unit : Nat \ {0}, command : Nat \ {0}] /\ batch \in Seq(Entries)
      /\ at.unit \in Nat \ {0} /\ at.command \in Nat \ {0}
      /\ at.unit <= units /\ at.command <= length
  BY SMT DEF RouterSound, RouterTyped, ThreadSound
<1>5. \A n \in 1 .. B : batch[n] = accepted[Taken + n]
  BY Zenon DEF RouterSound, CommandsConserved
<1> HIDE DEF A, B, units, length
<1>6. CASE at.command < length /\ at' = [at EXCEPT !.command = @ + 1] /\ batch' = batch
  <2>1. at'.unit = at.unit /\ at'.command = at.command + 1
        /\ at' \in [unit : Nat \ {0}, command : Nat \ {0}]
    BY <1>4, <1>6, SMT
  <2>2. Taken' = Taken
    BY <1>6, Zenon DEF Taken
  <2>3. at'.unit <= units /\ at'.command <= length
    BY <1>3, <1>4, <1>6, <2>1, SMT
  <2>4. \A k \in Nat \ {0} : k < at.command + 1 <=> k < at.command \/ k = at.command
    BY <1>4, SMT
  <2>5. \A n, i : \A k \in Nat \ {0} :
            Past(n, i, k)' <=> \/ Past(n, i, k)
                               \/ n = Taken + 1 /\ i = at.unit /\ k = at.command
    BY <1>6, <2>1, <2>2, <2>4, Zenon DEF Past
  <2> QED BY <1>1, <1>4, <1>5, <1>6, <2>1, <2>2, <2>3, <2>5, Zenon DEF A, B, units, length
<1>7. CASE /\ at.command = length /\ at.unit < units
           /\ at' = [unit |-> at.unit + 1, command |-> 1] /\ batch' = batch
  <2>1. at'.unit = at.unit + 1 /\ at'.command = 1
        /\ at' \in [unit : Nat \ {0}, command : Nat \ {0}]
    BY <1>4, <1>7, SMT
  <2>2. Taken' = Taken
    BY <1>7, Zenon DEF Taken
  <2>3. at'.unit <= units /\ at'.command <= length
    BY <1>3, <1>4, <1>7, <2>1, SMT
  <2>4. \A i, k \in Nat \ {0} :
            k <= length
            => (i < at.unit + 1 \/ (i = at.unit + 1 /\ k < 1)
                <=> \/ i < at.unit \/ (i = at.unit /\ k < at.command)
                    \/ i = at.unit /\ k = at.command)
    BY <1>3, <1>4, <1>7, SMT
  <2>5. \A n : \A i, k \in Nat \ {0} :
            (n = Taken + 1 => k <= length)
            => (Past(n, i, k)' <=> \/ Past(n, i, k)
                                   \/ n = Taken + 1 /\ i = at.unit /\ k = at.command)
    BY <1>7, <2>1, <2>2, <2>4, Zenon DEF Past
  <2> QED BY <1>1, <1>4, <1>5, <1>7, <2>1, <2>2, <2>3, <2>5, Zenon DEF A, B, units, length
<1>8. CASE /\ at.command = length /\ at.unit = units
           /\ at' = FirstJob /\ batch' = Tail(batch)
  <2>1. at'.unit = 1 /\ at'.command = 1
        /\ at' \in [unit : Nat \ {0}, command : Nat \ {0}]
    BY <1>8, SMT DEF FirstJob
  <2>2. Taken' = Taken + 1 /\ Len(batch') = B - 1
    BY <1>1, <1>2, <1>8, SMT DEF Taken, A, B
  <2>3. batch' # <<>> => at'.unit <= Len(batch'[1].units) /\ at'.command <= batch'[1].length
    <3> HAVE batch' # <<>>
    <3>1. batch'[1] \in Entries
      BY <1>2, <1>8, TailFacts, Zenon
    <3>2. Len(batch'[1].units) \in Nat \ {0} /\ batch'[1].length \in Nat \ {0}
      BY <3>1, EntryFacts, Zenon
    <3> QED BY <2>1, <3>2, SMT
  <2>4. \A i, k \in Nat \ {0} :
            /\ ~(i < 1 \/ (i = 1 /\ k < 1))
            /\ i <= units /\ k <= length
               => \/ i < at.unit \/ (i = at.unit /\ k < at.command)
                  \/ i = at.unit /\ k = at.command
    BY <1>3, <1>4, <1>8, SMT
  <2>5. \A n \in 1 .. A : n <= Taken + 1 <=> n <= Taken \/ n = Taken + 1
    BY <1>1, SMT
  <2>6. \A n \in 1 .. A : \A i, k \in Nat \ {0} :
            (n = Taken + 1 => i <= units /\ k <= length)
            => (Past(n, i, k)' <=> \/ Past(n, i, k)
                                   \/ n = Taken + 1 /\ i = at.unit /\ k = at.command)
    BY <1>8, <2>1, <2>2, <2>4, <2>5, Zenon DEF Past
  <2>7. \A n \in 1 .. B - 1 : batch'[n] = accepted[Taken' + n]
    <3>1. \A n \in 1 .. B - 1 : n + 1 \in 1 .. B /\ Taken + (n + 1) = Taken + 1 + n
      BY <1>1, SMT
    <3> QED BY <1>2, <1>5, <1>8, <2>2, <3>1, Zenon
  <2>8. Taken' \in Nat /\ Taken' + Len(batch') = Taken + B
    BY <1>1, <2>2, SMT
  <2> QED BY <1>2, <1>8, <2>1, <2>2, <2>3, <2>6, <2>7, <2>8, Zenon DEF A, B, units, length
<1> QED BY <1>6, <1>7, <1>8, Zenon DEF NextJob, units, length

\* The next command of the first request reaches its unit, behind all it was given before.
LEMMA ApplyStep ==
    ASSUME RouterSound, ThreadSound, ApplyCommand
    PROVE  /\ RouterSound'
           /\ batch' # <<>> => at'.unit <= Len(batch'[1].units)
                               /\ at'.command <= batch'[1].length
<1> DEFINE entry == batch[1]
<1>0. PICK first, place, command, target, job :
          /\ first = Taken + 1 /\ place = at.unit /\ command = at.command
          /\ target = entry.units[place] /\ job = <<first, command>>
  BY Zenon
<1>1. batch # <<>> /\ UNCHANGED <<queue, targets, accepted>>
  BY Zenon DEF ApplyCommand, router
<1>2. Head(batch) = entry /\ entry \in Entries
  BY <1>1, TailFacts, Zenon DEF RouterSound, RouterTyped
<1>3. /\ Len(accepted) \in Nat /\ Len(queue) \in Nat /\ Len(batch) \in Nat \ {0} /\ Taken \in Nat
      /\ Taken + Len(batch) + Len(queue) = Len(accepted)
  BY <1>1, Counts, SMT
<1>4. first \in 1 .. Len(accepted) /\ entry = accepted[first] /\ entry.number = first
  <2>1. first \in 1 .. Len(accepted) /\ 1 \in 1 .. Len(batch)
    BY <1>0, <1>3, SMT
  <2> QED BY <1>0, <2>1, Zenon DEF RouterSound, CommandsConserved
<1>5. /\ place \in 1 .. Len(entry.units) /\ command \in 1 .. entry.length
      /\ place \in Nat \ {0} /\ command \in Nat \ {0}
  <2>1. Len(entry.units) \in Nat \ {0} /\ entry.length \in Nat \ {0}
    BY <1>2, EntryFacts, Zenon
  <2>2. place \in Nat \ {0} /\ command \in Nat \ {0}
    BY <1>0, SMT DEF RouterSound, RouterTyped
  <2>3. place <= Len(entry.units) /\ command <= entry.length
    BY <1>0, <1>1, Zenon DEF ThreadSound
  <2> HIDE DEF entry
  <2> QED BY <2>1, <2>2, <2>3, SMT
<1>6. target \in Units
  BY <1>0, <1>2, <1>5, EntryFacts, Zenon
<1>7. applied' = [applied EXCEPT ![target] = Append(@, job)] /\ NextJob(entry)
  BY <1>0, <1>2, <1>4, Zenon DEF ApplyCommand
<1>8. \A n \in 1 .. Len(accepted) : accepted[n] \in Entries
  BY ElementOfSeq, Zenon DEF RouterSound, RouterTyped
<1>9. \A n \in 1 .. Len(accepted) :
          \A i \in 1 .. Len(accepted[n].units), k \in 1 .. accepted[n].length :
              Past(n, i, k)' <=> \/ Past(n, i, k)
                                 \/ n = first /\ i = place /\ k = command
  <2>1. \A m \in Nat \ {0} : \A i \in 1 .. m : i \in Nat \ {0} /\ i <= m
    BY SMT
  <2>2. \A n \in 1 .. Len(accepted) :
            /\ \A i \in 1 .. Len(accepted[n].units) :
                  i \in Nat \ {0} /\ i <= Len(accepted[n].units)
            /\ \A k \in 1 .. accepted[n].length : k \in Nat \ {0} /\ k <= accepted[n].length
    BY <1>8, <2>1, EntryFacts, Zenon
  <2>3. \A n \in 1 .. Len(accepted) : \A i, k \in Nat \ {0} :
            (n = first => i <= Len(entry.units) /\ k <= entry.length)
            => (Past(n, i, k)' <=> \/ Past(n, i, k)
                                   \/ n = first /\ i = place /\ k = command)
    BY <1>0, <1>1, <1>7, JobDone, Zenon
  <2> HIDE DEF entry
  <2> QED BY <1>4, <2>2, <2>3, Zenon
<1> HIDE DEF entry
<1>10. job \in Nat \X Nat
  BY <1>0, <1>3, <1>5, SMT
<1>11. \A u \in Units : applied[u] \in Seq(Nat \X Nat) /\ Len(applied[u]) \in Nat
  BY LenProperties, Zenon DEF RouterSound, RouterTyped
<1>12. /\ applied' \in [Units -> Seq(Nat \X Nat)]
       /\ Len(applied'[target]) = Len(applied[target]) + 1
       /\ \A x \in 1 .. Len(applied[target]) : applied'[target][x] = applied[target][x]
       /\ applied'[target][Len(applied[target]) + 1] = job
       /\ \A u \in Units : u # target => applied'[u] = applied[u]
  <2> DEFINE longer == Append(applied[target], job)
  <2>1. /\ longer \in Seq(Nat \X Nat) /\ Len(longer) = Len(applied[target]) + 1
        /\ \A x \in 1 .. Len(applied[target]) : longer[x] = applied[target][x]
        /\ longer[Len(applied[target]) + 1] = job
    BY <1>6, <1>10, <1>11, AppendFacts
  <2>2. /\ applied \in [Units -> Seq(Nat \X Nat)]
        /\ applied' = [applied EXCEPT ![target] = longer]
    BY <1>7, Zenon DEF RouterSound, RouterTyped
  <2> HIDE DEF longer
  <2>3. applied' \in [Units -> Seq(Nat \X Nat)] /\ applied'[target] = longer
        /\ \A u \in Units : u # target => applied'[u] = applied[u]
    BY <1>6, <2>1, <2>2, Zenon
  <2> QED BY <2>1, <2>3, Zenon
<1>13. \A x \in 1 .. Len(applied[target]) + 1 :
           x \in 1 .. Len(applied[target]) \/ x = Len(applied[target]) + 1
  BY <1>6, <1>11, SMT
<1>14. Log(target)' = Log(target) \cup {job} /\ \A u \in Units : u # target => Log(u)' = Log(u)
  <2>1. /\ 1 .. Len(applied[target]) \subseteq 1 .. Len(applied[target]) + 1
        /\ Len(applied[target]) + 1 \in 1 .. Len(applied[target]) + 1
    BY <1>6, <1>11, SMT
  <2>2. Log(target)' = {applied'[target][x] : x \in 1 .. Len(applied[target]) + 1}
    BY <1>12, Zenon DEF Log
  <2>3. ASSUME NEW c \in Log(target)' PROVE c \in Log(target) \cup {job}
    <3>1. PICK x \in 1 .. Len(applied[target]) + 1 : c = applied'[target][x]
      BY <2>2, <2>3, Zenon
    <3> QED BY <1>12, <1>13, <3>1, Zenon DEF Log
  <2>4. job \in Log(target)'
    BY <1>12, <2>1, <2>2, Zenon
  <2>5. ASSUME NEW c \in Log(target) PROVE c \in Log(target)'
    <3>1. PICK x \in 1 .. Len(applied[target]) : c = applied[target][x]
      BY <2>5, Zenon DEF Log
    <3> QED BY <1>12, <2>1, <2>2, <3>1, Zenon
  <2>6. Log(target)' = Log(target) \cup {job}
    BY <2>3, <2>4, <2>5, Zenon
  <2>7. \A u \in Units : u # target => Log(u)' = Log(u)
    BY <1>12, Zenon DEF Log
  <2> QED BY <2>6, <2>7, Zenon
<1>15. ASSUME NEW u \in Units, NEW c
       PROVE  c \in UNION {ShareOf(n, u)' : n \in 1 .. Len(accepted')}
              <=> \/ c \in UNION {ShareOf(n, u) : n \in 1 .. Len(accepted)}
                  \/ u = target /\ c = job
  <2>1. ASSUME c \in UNION {ShareOf(n, u)' : n \in 1 .. Len(accepted')}
        PROVE  c \in UNION {ShareOf(n, u) : n \in 1 .. Len(accepted)} \/ (u = target /\ c = job)
    <3>1. \E n \in 1 .. Len(accepted') : \E k \in 1 .. accepted'[n].length :
              /\ c = <<n, k>>
              /\ \E i \in 1 .. Len(accepted'[n].units) :
                    accepted'[n].units[i] = u /\ Past(n, i, k)'
      BY ONLY <2>1, InSharesNext, Zenon
    <3>2. PICK n \in 1 .. Len(accepted) : \E k \in 1 .. accepted[n].length :
              /\ c = <<n, k>>
              /\ \E i \in 1 .. Len(accepted[n].units) :
                    accepted[n].units[i] = u /\ Past(n, i, k)'
      BY <1>1, <3>1, Zenon
    <3>3. PICK k \in 1 .. accepted[n].length :
              /\ c = <<n, k>>
              /\ \E i \in 1 .. Len(accepted[n].units) :
                    accepted[n].units[i] = u /\ Past(n, i, k)'
      BY <3>2, Zenon
    <3>4. PICK i \in 1 .. Len(accepted[n].units) : accepted[n].units[i] = u /\ Past(n, i, k)'
      BY <3>3, Zenon
    <3>5. CASE Past(n, i, k)
      <4>1. \E m \in 1 .. Len(accepted) : \E l \in 1 .. accepted[m].length :
                /\ c = <<m, l>>
                /\ \E j \in 1 .. Len(accepted[m].units) :
                      accepted[m].units[j] = u /\ Past(m, j, l)
        BY <3>3, <3>4, <3>5, Zenon
      <4> QED BY ONLY <4>1, InShares, Zenon
    <3>6. CASE n = first /\ i = place /\ k = command
      BY <1>0, <1>4, <3>3, <3>4, <3>6, Zenon
    <3> QED BY <1>9, <3>3, <3>4, <3>5, <3>6, Zenon
  <2>2. ASSUME c \in UNION {ShareOf(n, u) : n \in 1 .. Len(accepted)}
        PROVE  c \in UNION {ShareOf(n, u)' : n \in 1 .. Len(accepted')}
    <3>1. \E n \in 1 .. Len(accepted) : \E k \in 1 .. accepted[n].length :
                   /\ c = <<n, k>>
                   /\ \E i \in 1 .. Len(accepted[n].units) :
                         accepted[n].units[i] = u /\ Past(n, i, k)
      BY <2>2, InShares, Zenon
    <3>2. \E n \in 1 .. Len(accepted') : \E k \in 1 .. accepted'[n].length :
                   /\ c = <<n, k>>
                   /\ \E i \in 1 .. Len(accepted'[n].units) :
                         accepted'[n].units[i] = u /\ Past(n, i, k)'
      BY <1>1, <1>9, <3>1, Zenon
    <3> QED BY ONLY <3>2, InSharesNext, Zenon
  <2>3. ASSUME u = target, c = job
        PROVE  c \in UNION {ShareOf(n, u)' : n \in 1 .. Len(accepted')}
    <3>1. /\ command \in 1 .. accepted[first].length
          /\ place \in 1 .. Len(accepted[first].units)
          /\ accepted[first].units[place] = u
      BY <1>0, <1>4, <1>5, <2>3, Zenon
    <3>2. Past(first, place, command)'
      BY <1>4, <1>9, <3>1, Zenon
    <3>3. c = <<first, command>>
      BY <1>0, <2>3, Zenon
    <3>4. \E n \in 1 .. Len(accepted) : \E k \in 1 .. accepted[n].length :
              /\ c = <<n, k>>
              /\ \E i \in 1 .. Len(accepted[n].units) :
                    accepted[n].units[i] = u /\ Past(n, i, k)'
      <4>1. \E i \in 1 .. Len(accepted[first].units) :
                accepted[first].units[i] = u /\ Past(first, i, command)'
        BY <3>1, <3>2, Zenon
      <4>2. \E k \in 1 .. accepted[first].length :
                /\ c = <<first, k>>
                /\ \E i \in 1 .. Len(accepted[first].units) :
                      accepted[first].units[i] = u /\ Past(first, i, k)'
        BY <3>1, <3>3, <4>1, Zenon
      <4> QED BY <1>4, <4>2, Zenon
    <3>5. \E n \in 1 .. Len(accepted') : \E k \in 1 .. accepted'[n].length :
              /\ c = <<n, k>>
              /\ \E i \in 1 .. Len(accepted'[n].units) :
                    accepted'[n].units[i] = u /\ Past(n, i, k)'
      BY <1>1, <3>4, Zenon
    <3> QED BY ONLY <3>5, InSharesNext, Zenon
  <2> QED BY <2>1, <2>2, <2>3, Zenon
<1>16. \A u \in Units : Log(u)' = UNION {ShareOf(n, u)' : n \in 1 .. Len(accepted')}
  <2>1. \A u \in Units : Log(u) = UNION {ShareOf(n, u) : n \in 1 .. Len(accepted)}
    BY Zenon DEF RouterSound, CommandsConserved
  <2>2. ASSUME NEW u \in Units, NEW c
        PROVE  c \in Log(u)' <=> c \in UNION {ShareOf(n, u)' : n \in 1 .. Len(accepted')}
    <3>1. c \in UNION {ShareOf(n, u)' : n \in 1 .. Len(accepted')}
          <=> c \in Log(u) \/ (u = target /\ c = job)
      BY <1>15, <2>1, Zenon
    <3>2. CASE u = target
      <4>1. c \in Log(target)' <=> c \in Log(target) \/ c = job
        BY <1>14, Zenon
      <4> QED BY <3>1, <3>2, <4>1, Zenon
    <3>3. CASE u # target
      BY <1>14, <3>1, <3>3, Zenon
    <3> QED BY <3>2, <3>3, Zenon
  <2> QED BY <2>2, Zenon
<1>17. \A x \in 1 .. Len(applied[target]) : Precedes(applied[target][x], job)
  <2> TAKE x \in 1 .. Len(applied[target])
  <2> DEFINE c == applied[target][x]
  <2>1. c \in UNION {ShareOf(n, target) : n \in 1 .. Len(accepted)}
    BY <1>6, Zenon DEF RouterSound, CommandsConserved, Log
  <2> HIDE DEF c
  <2>2. PICK n \in 1 .. Len(accepted) : \E k \in 1 .. accepted[n].length :
                   /\ c = <<n, k>>
                   /\ \E i \in 1 .. Len(accepted[n].units) :
                         accepted[n].units[i] = target /\ Past(n, i, k)
    BY <2>1, InShares, Zenon
  <2>3. PICK k \in 1 .. accepted[n].length :
                   /\ c = <<n, k>>
                   /\ \E i \in 1 .. Len(accepted[n].units) :
                         accepted[n].units[i] = target /\ Past(n, i, k)
    BY <2>2, Zenon
  <2>4. PICK i \in 1 .. Len(accepted[n].units) : accepted[n].units[i] = target /\ Past(n, i, k)
    BY <1>0, <2>3, Zenon
  <2>5. n = first => i = place
    BY <1>0, <1>2, <1>4, <1>5, <2>4, EntryFacts, Zenon
  <2>6. ~(place < place)
    BY <1>5, SMT
  <2>7. n <= Taken \/ (n = first /\ k < command)
    BY <1>0, <2>4, <2>5, <2>6, Zenon DEF Past
  <2>8. n < first \/ (n = first /\ k < command)
    BY <1>0, <1>3, <2>7, SMT
  <2>9. c[1] = n /\ c[2] = k /\ job[1] = first /\ job[2] = command
    BY <1>0, <2>3, SMT
  <2> QED BY <2>8, <2>9, Zenon DEF Precedes, c
<1>18. \A u \in Units :
           \A x, y \in 1 .. Len(applied'[u]) : x < y => Precedes(applied'[u][x], applied'[u][y])
  <2>1. \A u \in Units :
            \A x, y \in 1 .. Len(applied[u]) : x < y => Precedes(applied[u][x], applied[u][y])
    BY Zenon DEF RouterSound, CommandsConserved
  <2>2. ASSUME NEW x \in 1 .. Len(applied[target]) + 1,
               NEW y \in 1 .. Len(applied[target]) + 1, x < y
        PROVE  Precedes(applied'[target][x], applied'[target][y])
    <3>1. x \in 1 .. Len(applied[target])
      BY <1>6, <1>11, <2>2, SMT
    <3> QED BY <1>6, <1>12, <1>13, <1>17, <2>1, <2>2, <3>1, Zenon
  <2> QED BY <1>12, <2>1, <2>2, Zenon
<1>19. /\ batch' \in Seq(Entries) /\ at' \in [unit : Nat \ {0}, command : Nat \ {0}]
       /\ batch' # <<>> => at'.unit <= Len(batch'[1].units)
                           /\ at'.command <= batch'[1].length
       /\ Taken' \in Nat /\ Taken' + Len(batch') = Taken + Len(batch)
       /\ \A n \in 1 .. Len(batch') : batch'[n] = accepted[Taken' + n]
  BY <1>1, <1>7, JobDone, Zenon DEF entry
<1>20. CommandsConserved'
  <2>1. 0 <= Taken'
    BY <1>19, SMT
  <2> QED BY <1>1, <1>16, <1>18, <1>19, <2>1, Zenon DEF RouterSound, CommandsConserved
<1>21. RouterTyped' /\ QueueWithinLimits'
  BY <1>1, <1>12, <1>19, Zenon DEF RouterSound, RouterTyped, QueueWithinLimits
<1> QED BY <1>19, <1>20, <1>21, Zenon DEF RouterSound

(* -------------------------- registers, setpoints ------------------------ *)

\* What TypeOK says of the rest, and what the thread is at.
RestTyped ==
    /\ reg20 \in [Units -> 0 .. MaxRequests] /\ sent \in [Units -> 0 .. MaxRequests]
    /\ reg16 \in [Units -> Nat] /\ cached16 \in [Units -> Nat]
    /\ last_raw \in [Units -> Nat] /\ setpoint \in [Units -> Nat]
    /\ master16 \in [Units -> BOOLEAN]
    /\ pc \in {"read", "clear", "enqueue", "drain", "apply", "setpoints", "refresh",
               "sync", "sync20", "remember"}
    /\ unit \in Units /\ cmd \in 0 .. MaxRequests /\ dirty \subseteq Units
    /\ requests \in 0 .. MaxRequests
    /\ invalid \subseteq 1 .. MaxRequests

LEMMA InvParts == Inv <=> RouterSound /\ RestTyped /\ ThreadSound /\ EchoSound
<1>1. TypeOK <=> RouterTyped /\ RestTyped
  BY Zenon DEF TypeOK, RouterTyped, RestTyped
<1> QED BY <1>1, Zenon DEF Inv, RouterSound

LEMMA InvPartsNext == Inv' <=> RouterSound' /\ RestTyped' /\ ThreadSound' /\ EchoSound'
<1>1. TypeOK' <=> RouterTyped' /\ RestTyped'
  BY Zenon DEF TypeOK, RouterTyped, RestTyped
<1> QED BY <1>1, Zenon DEF Inv, RouterSound

LEMMA Numbers ==
    /\ NumGenerators \in Nat \ {0} /\ 1 \in Units /\ Rated \in Nat /\ MaxRequests \in Nat
    /\ \A n \in Nat : Raw(n) \in Nat /\ Clamp(n) \in Nat /\ Clamp(2 * n) \in Nat
    /\ \A sp \in Setpoints : sp \in Nat
<1>1. /\ NumGenerators \in Nat \ {0} /\ Rated \in Nat /\ MaxRequests \in Nat
      /\ Setpoints \subseteq Nat
  BY SizeAssumption, Zenon
<1>2. \A n \in Nat : Raw(n) \in Nat /\ Clamp(n) \in Nat /\ Clamp(2 * n) \in Nat
  BY <1>1, SMT DEF Raw, Clamp
<1>3. 1 \in Units
  BY <1>1, SMT DEF Units
<1> QED BY <1>1, <1>2, <1>3, Zenon

LEMMA NextUnitFacts ==
    ASSUME unit \in Units, NEW again, NEW after, NextUnit(again, after)
    PROVE  unit' \in Units /\ pc' \in {again, after}
<1>1. unit < NumGenerators => unit + 1 \in Units
  BY Numbers, SMT DEF Units
<1> QED BY <1>1, Numbers, Zenon DEF NextUnit

LEMMA InitInv == ASSUME Init PROVE Inv
<1>1. Taken = 0 /\ Len(queue) = 0 /\ Len(accepted) = 0 /\ Len(batch) = 0
  <2>1. Len(<<>>) = 0 /\ queue = <<>> /\ accepted = <<>> /\ batch = <<>>
    BY EmptySeq, Zenon DEF Init
  <2>2. Len(queue) = 0 /\ Len(accepted) = 0 /\ Len(batch) = 0
    BY <2>1, Zenon
  <2> QED BY <2>2, SMT DEF Taken
<1>2. RouterTyped
  <2>1. <<>> \in Seq(Entries) /\ <<>> \in Seq(Nat \X Nat)
    BY EmptySeq, Zenon
  <2>2. FirstJob \in [unit : Nat \ {0}, command : Nat \ {0}] /\ 0 \in Nat
    BY SMT DEF FirstJob
  <2> QED BY <2>1, <2>2, Zenon DEF Init, RouterTyped
<1>3. QueueWithinLimits
  <2> DEFINE sum == [n \in 0 .. 0 |-> 0]
  <2>1. MaxCommands \in Nat /\ MaxUnitTargets \in Nat
    BY SizeAssumption, SMT
  <2>2. /\ sum \in [0 .. 0 -> 0 .. MaxUnitTargets] /\ sum[0] = 0 /\ 0 <= MaxCommands
        /\ \A n \in 1 .. 0 : sum[n] = sum[n - 1] + Len(queue[n].units)
    BY <2>1, SMT
  <2> HIDE DEF sum
  <2> QED BY <1>1, <2>2, Zenon DEF Init, QueueWithinLimits
<1>4. CommandsConserved
  <2>1. \A n \in 1 .. 0 : FALSE
    BY SMT
  <2>2. 0 <= 0
    BY SMT
  <2>3. ASSUME NEW u \in Units
        PROVE  applied[u] = <<>> /\ Len(applied[u]) = 0
    <3>1. Len(<<>>) = 0
      BY EmptySeq, Zenon
    <3> QED BY <3>1, Zenon DEF Init
  <2> QED BY <1>1, <2>1, <2>2, <2>3, Zenon DEF CommandsConserved, Log
<1>5. RestTyped
  <2>1. 0 \in 0 .. MaxRequests /\ Rated \in Nat /\ Raw(Rated) \in Nat /\ 1 \in Units
    BY Numbers, SMT
  <2> QED BY <2>1, Zenon DEF Init, RestTyped
<1>6. ThreadSound /\ EchoSound
  BY Zenon DEF Init, ThreadSound, EchoSound
<1> QED BY <1>2, <1>3, <1>4, <1>5, <1>6, InvParts, Zenon DEF RouterSound

(* ------------------------------- the steps ------------------------------ *)

LEMMA EchoStays ==
    ASSUME EchoSound, UNCHANGED <<reg16, master16, last_raw>>,
           pc \notin {"sync20", "remember"}, pc' \notin {"sync20", "remember"}
    PROVE  EchoSound'
BY Zenon DEF EchoSound

\* A client's request has a number of its own, from 1 on.
LEMMA NewNumber ==
    ASSUME RestTyped, NewRequest
    PROVE  requests' \in 1 .. MaxRequests /\ requests' \in 0 .. MaxRequests
BY Numbers, SMT DEF RestTyped, NewRequest

LEMMA HttpCommandStep == ASSUME Inv, HttpCommand PROVE Inv'
<1>1. RouterSound /\ RestTyped /\ ThreadSound /\ EchoSound
  BY InvParts, Zenon
<1>2. /\ NewRequest /\ UNCHANGED <<registers, points, loop, invalid, sent, applied>>
      /\ \E units \in Targets, length \in Lengths : Enqueue(requests', units, length)
  BY Zenon DEF HttpCommand
<1>3. requests' \in 1 .. MaxRequests /\ requests' \in 0 .. MaxRequests
  BY <1>1, <1>2, NewNumber, Zenon
<1>4. PICK id, units, length :
          id = requests' /\ units \in Targets /\ length \in Lengths /\ Enqueue(id, units, length)
  BY <1>2, Zenon
<1>5. RouterSound'
  BY <1>1, <1>2, <1>3, <1>4, EnqueueStep, Zenon DEF Requested, loop
<1>6. RestTyped' /\ ThreadSound' /\ EchoSound'
  BY <1>1, <1>2, <1>3, Zenon DEF RestTyped, ThreadSound, EchoSound, registers, points, loop
<1> QED BY <1>5, <1>6, InvPartsNext, Zenon

\* The setpoints a client or a master asks for, as the code clamps and rounds them.
LEMMA HttpSetpointStep == ASSUME Inv, HttpSetpoint PROVE Inv'
<1>1. RouterSound /\ RestTyped /\ ThreadSound /\ EchoSound
  BY InvParts, Zenon
<1>2. /\ NewRequest
      /\ UNCHANGED <<router, registers, cached16, last_raw, master16, loop, invalid, sent, applied>>
      /\ \E u \in Units, sp \in Setpoints : setpoint' = [setpoint EXCEPT ![u] = Clamp(sp)]
  BY Zenon DEF HttpSetpoint
<1>3. requests' \in 1 .. MaxRequests /\ requests' \in 0 .. MaxRequests
  BY <1>1, <1>2, NewNumber, Zenon
<1>4. setpoint' \in [Units -> Nat]
  BY <1>1, <1>2, Numbers, Zenon DEF RestTyped
<1>5. RouterSound'
  BY <1>1, <1>2, RouterStays, Zenon DEF router, loop
<1>6. RestTyped' /\ ThreadSound' /\ EchoSound'
  BY <1>1, <1>2, <1>3, <1>4, Zenon DEF RestTyped, ThreadSound, EchoSound, registers, loop
<1> QED BY <1>5, <1>6, InvPartsNext, Zenon

LEMMA MasterCommandStep == ASSUME Inv, MasterCommand PROVE Inv'
<1>1. RouterSound /\ RestTyped /\ ThreadSound /\ EchoSound
  BY InvParts, Zenon
<1>2. /\ NewRequest /\ UNCHANGED <<router, reg16, points, loop, applied>>
      /\ \E u \in Units : /\ reg20' = [reg20 EXCEPT ![u] = requests']
                          /\ sent' = [sent EXCEPT ![u] = requests']
      /\ invalid' \in {invalid, invalid \cup {requests'}}
  BY Zenon DEF MasterCommand
<1>3. requests' \in 1 .. MaxRequests /\ requests' \in 0 .. MaxRequests
  BY <1>1, <1>2, NewNumber, Zenon
<1>4. reg20' \in [Units -> 0 .. MaxRequests] /\ sent' \in [Units -> 0 .. MaxRequests]
  BY <1>1, <1>2, <1>3, Zenon DEF RestTyped
<1>5. invalid' \subseteq 1 .. MaxRequests
  BY <1>1, <1>2, <1>3, Zenon DEF RestTyped
<1>6. RouterSound'
  BY <1>1, <1>2, RouterStays, Zenon DEF router, loop
<1>7. RestTyped' /\ ThreadSound' /\ EchoSound'
  BY <1>1, <1>2, <1>3, <1>4, <1>5, Zenon DEF RestTyped, ThreadSound, EchoSound, points, loop
<1> QED BY <1>6, <1>7, InvPartsNext, Zenon

LEMMA MasterSetpointStep == ASSUME Inv, MasterSetpoint PROVE Inv'
<1>1. RouterSound /\ RestTyped /\ ThreadSound /\ EchoSound
  BY InvParts, Zenon
<1>2. /\ NewRequest
      /\ UNCHANGED <<router, reg20, setpoint, cached16, last_raw, loop, invalid, sent, applied>>
  BY Zenon DEF MasterSetpoint
<1>3. requests' \in 1 .. MaxRequests /\ requests' \in 0 .. MaxRequests
  BY <1>1, <1>2, NewNumber, Zenon
<1>4. PICK u \in Units, sp \in Setpoints :
          /\ reg16' = [reg16 EXCEPT ![u] = Raw(sp)]
          /\ master16' = [master16 EXCEPT ![u] = TRUE]
  BY Zenon DEF MasterSetpoint
<1>5. reg16' \in [Units -> Nat] /\ master16' \in [Units -> BOOLEAN]
  BY <1>1, <1>4, Numbers, Zenon DEF RestTyped
<1>6. RouterSound'
  BY <1>1, <1>2, RouterStays, Zenon DEF router, loop
<1>7. RestTyped' /\ ThreadSound'
  BY <1>1, <1>2, <1>3, <1>5, Zenon DEF RestTyped, ThreadSound, loop
<1>8. EchoSound'
  <2>1. \A v \in Units : v # u => reg16'[v] = reg16[v] /\ master16'[v] = master16[v]
    BY <1>1, <1>4, Zenon DEF RestTyped
  <2>2. master16'[u] = TRUE
    BY <1>1, <1>4, Zenon DEF RestTyped
  <2> QED BY <1>1, <1>2, <2>1, <2>2, Zenon DEF EchoSound, loop
<1> QED BY <1>6, <1>7, <1>8, InvPartsNext, Zenon

LEMMA ReadCommandStep == ASSUME Inv, ReadCommand PROVE Inv'
<1>1. RouterSound /\ RestTyped /\ ThreadSound /\ EchoSound
  BY InvParts, Zenon
<1>2. /\ pc = "read" /\ cmd' = reg20[unit]
      /\ UNCHANGED <<router, registers, points, batch, at, dirty, requests, invalid, sent, applied>>
  BY Zenon DEF ReadCommand
<1>3. /\ unit' \in Units /\ pc' \in {"read", "drain", "clear"}
      /\ pc' = "clear" => cmd' # 0
  <2>1. CASE reg20[unit] = 0
    <3>1. unit \in Units /\ NextUnit("read", "drain")
      BY <1>1, <2>1, Zenon DEF ReadCommand, RestTyped
    <3>2. unit' \in Units /\ pc' \in {"read", "drain"}
      BY <3>1, NextUnitFacts, Zenon
    <3> QED BY <3>2, Zenon
  <2>2. CASE reg20[unit] # 0
    BY <1>1, <1>2, <2>2, Zenon DEF ReadCommand, RestTyped
  <2> QED BY <2>1, <2>2, Zenon
<1>4. cmd' \in 0 .. MaxRequests
  BY <1>1, <1>2, Zenon DEF RestTyped
<1>5. RouterSound'
  BY <1>1, <1>2, RouterStays, Zenon DEF router
<1>6. RestTyped'
  BY <1>1, <1>2, <1>3, <1>4, Zenon DEF RestTyped, registers, points
<1>7. ThreadSound' /\ EchoSound'
  <2>1. pc' # "apply" /\ pc' \notin {"sync20", "remember"} /\ pc' # "enqueue"
    BY <1>3, Zenon
  <2>2. pc \notin {"sync20", "remember"} /\ batch' = <<>>
    BY <1>1, <1>2, Zenon DEF ThreadSound
  <2> QED BY <1>1, <1>2, <1>3, <2>1, <2>2, EchoStays, Zenon DEF ThreadSound, registers, points
<1> QED BY <1>5, <1>6, <1>7, InvPartsNext, Zenon

LEMMA ClearCommandStep == ASSUME Inv, ClearCommand PROVE Inv'
<1>1. RouterSound /\ RestTyped /\ ThreadSound /\ EchoSound
  BY InvParts, Zenon
<1>2. /\ pc = "clear" /\ pc' = "enqueue" /\ reg20' = [reg20 EXCEPT ![unit] = 0]
      /\ UNCHANGED <<router, reg16, points, unit, cmd, batch, at, dirty, history>>
  BY Zenon DEF ClearCommand
<1>3. reg20' \in [Units -> 0 .. MaxRequests]
  <2>1. 0 \in 0 .. MaxRequests
    BY Numbers, SMT
  <2> QED BY <1>1, <1>2, <2>1, Zenon DEF RestTyped
<1>4. RouterSound'
  BY <1>1, <1>2, RouterStays, Zenon DEF router, history
<1>5. RestTyped' /\ ThreadSound'
  BY <1>1, <1>2, <1>3, Zenon DEF RestTyped, ThreadSound, points, history
<1>6. EchoSound'
  BY <1>1, <1>2, EchoStays, Zenon DEF points
<1> QED BY <1>4, <1>5, <1>6, InvPartsNext, Zenon

LEMMA EnqueueCommandStep == ASSUME Inv, EnqueueCommand PROVE Inv'
<1>1. RouterSound /\ RestTyped /\ ThreadSound /\ EchoSound
  BY InvParts, Zenon
<1>2. /\ pc = "enqueue" /\ NextUnit("read", "drain") /\ cmd' = 0
      /\ IF cmd \in invalid THEN UNCHANGED router ELSE Enqueue(cmd, <<unit>>, 1)
      /\ UNCHANGED <<registers, points, batch, at, dirty, history>>
  BY Zenon DEF EnqueueCommand
<1>3. unit' \in Units /\ pc' \in {"read", "drain"} /\ unit \in Units
  BY <1>1, <1>2, NextUnitFacts, Zenon DEF RestTyped
<1>4. cmd \in 1 .. MaxRequests /\ cmd' \in 0 .. MaxRequests
  <2>1. cmd \in 0 .. MaxRequests /\ cmd # 0
    BY <1>1, <1>2, Zenon DEF RestTyped, ThreadSound
  <2> QED BY <1>2, <2>1, Numbers, SMT
<1>5. RouterSound'
  <2>1. CASE cmd \in invalid
    BY <1>1, <1>2, <2>1, RouterStays, Zenon DEF router, history
  <2>2. CASE cmd \notin invalid
    <3>1. PICK id, units : id = cmd /\ units = <<unit>>
      BY Zenon
    <3>2. Requested(id, units, 1)
      BY <1>3, <1>4, <3>1, Zenon DEF Requested
    <3> QED BY <1>1, <1>2, <2>2, <3>1, <3>2, EnqueueStep, Zenon DEF history
  <2> QED BY <2>1, <2>2, Zenon
<1>6. RestTyped'
  BY <1>1, <1>2, <1>3, <1>4, Zenon DEF RestTyped, registers, points, history
<1>7. ThreadSound' /\ EchoSound'
  <2>1. pc' # "apply" /\ pc' \notin {"sync20", "remember"} /\ pc' \notin {"clear", "enqueue"}
    BY <1>3, Zenon
  <2>2. pc \notin {"sync20", "remember"} /\ batch' = <<>>
    BY <1>1, <1>2, Zenon DEF ThreadSound
  <2> QED BY <1>1, <1>2, <2>1, <2>2, EchoStays, Zenon DEF ThreadSound, registers, points
<1> QED BY <1>5, <1>6, <1>7, InvPartsNext, Zenon

LEMMA DrainInv == ASSUME Inv, Drain PROVE Inv'
<1>1. RouterSound /\ RestTyped /\ ThreadSound /\ EchoSound
  BY InvParts, Zenon
<1>2. /\ pc = "drain" /\ pc' = "apply" /\ dirty' = {}
      /\ UNCHANGED <<registers, points, unit, cmd, history>>
  BY Zenon DEF Drain
<1>3. /\ RouterSound'
      /\ batch' # <<>> => at'.unit <= Len(batch'[1].units)
                          /\ at'.command <= batch'[1].length
  BY <1>1, DrainStep, Zenon
<1>4. RestTyped' /\ ThreadSound'
  BY <1>1, <1>2, <1>3, Zenon DEF RestTyped, ThreadSound, registers, points, history
<1>5. EchoSound'
  BY <1>1, <1>2, EchoStays, Zenon DEF registers, points
<1> QED BY <1>3, <1>4, <1>5, InvPartsNext, Zenon

LEMMA ApplyCommandStep == ASSUME Inv, ApplyCommand PROVE Inv'
<1>1. RouterSound /\ RestTyped /\ ThreadSound /\ EchoSound
  BY InvParts, Zenon
<1>2. /\ pc = "apply" /\ batch # <<>>
      /\ dirty' = dirty \cup {batch[1].units[at.unit]}
      /\ UNCHANGED <<registers, points, pc, unit, cmd, requests, invalid, sent>>
  <2>1. batch # <<>> => Head(batch) = batch[1]
    BY <1>1, TailFacts, Zenon DEF RouterSound, RouterTyped
  <2> QED BY <2>1, Zenon DEF ApplyCommand
<1>3. /\ RouterSound'
      /\ batch' # <<>> => at'.unit <= Len(batch'[1].units)
                          /\ at'.command <= batch'[1].length
  BY <1>1, ApplyStep, Zenon
<1>4. dirty' \subseteq Units
  <2>1. batch[1] \in Entries
    BY <1>1, <1>2, TailFacts, Zenon DEF RouterSound, RouterTyped
  <2>2. Len(batch[1].units) \in Nat
    BY <2>1, EntryFacts, Zenon
  <2>3. at.unit \in Nat \ {0} /\ at.unit <= Len(batch[1].units)
    <3>1. at.unit \in Nat \ {0}
      BY <1>1, SMT DEF RouterSound, RouterTyped
    <3> QED BY <1>1, <1>2, <3>1, Zenon DEF ThreadSound
  <2>4. at.unit \in 1 .. Len(batch[1].units)
    BY <2>2, <2>3, SMT
  <2>5. batch[1].units[at.unit] \in Units
    BY <2>1, <2>4, EntryFacts, Zenon
  <2> QED BY <1>1, <1>2, <2>5, Zenon DEF RestTyped
<1>5. RestTyped' /\ ThreadSound'
  BY <1>1, <1>2, <1>3, <1>4, Zenon DEF RestTyped, ThreadSound, registers, points
<1>6. EchoSound'
  BY <1>1, <1>2, EchoStays, Zenon DEF registers, points
<1> QED BY <1>3, <1>5, <1>6, InvPartsNext, Zenon

LEMMA AllAppliedStep == ASSUME Inv, AllApplied PROVE Inv'
<1>1. RouterSound /\ RestTyped /\ ThreadSound /\ EchoSound
  BY InvParts, Zenon
<1>2. /\ pc = "apply" /\ batch = <<>> /\ pc' = "setpoints"
      /\ UNCHANGED <<router, registers, points, unit, cmd, batch, at, dirty, history>>
  BY Zenon DEF AllApplied
<1>3. RouterSound'
  BY <1>1, <1>2, RouterStays, Zenon DEF router, history
<1>4. RestTyped' /\ ThreadSound'
  BY <1>1, <1>2, Zenon DEF RestTyped, ThreadSound, registers, points, history
<1>5. EchoSound'
  BY <1>1, <1>2, EchoStays, Zenon DEF registers, points
<1> QED BY <1>3, <1>4, <1>5, InvPartsNext, Zenon

LEMMA ApplySetpointStep == ASSUME Inv, ApplySetpoint PROVE Inv'
<1>1. RouterSound /\ RestTyped /\ ThreadSound /\ EchoSound
  BY InvParts, Zenon
<1>2. /\ pc = "setpoints" /\ NextUnit("setpoints", "refresh")
      /\ UNCHANGED <<router, registers, cached16, last_raw, master16, cmd, batch, at, history>>
  BY Zenon DEF ApplySetpoint
<1>3. unit' \in Units /\ pc' \in {"setpoints", "refresh"} /\ unit \in Units
  BY <1>1, <1>2, NextUnitFacts, Zenon DEF RestTyped
<1>4. setpoint' \in [Units -> Nat] /\ dirty' \subseteq Units
  <2>1. Clamp(2 * reg16[unit]) \in Nat
    BY <1>1, <1>3, Numbers, Zenon DEF RestTyped
  <2> QED BY <1>1, <1>3, <2>1, Zenon DEF ApplySetpoint, RestTyped
<1>5. RouterSound'
  BY <1>1, <1>2, RouterStays, Zenon DEF router, history
<1>6. RestTyped'
  BY <1>1, <1>2, <1>3, <1>4, Zenon DEF RestTyped, registers, history
<1>7. ThreadSound' /\ EchoSound'
  <2>1. /\ pc' # "apply" /\ pc' \notin {"sync20", "remember"}
        /\ pc' \notin {"clear", "enqueue"}
    BY <1>3, Zenon
  <2>2. pc \notin {"sync20", "remember"} /\ batch' = <<>>
    BY <1>1, <1>2, Zenon DEF ThreadSound
  <2> QED BY <1>1, <1>2, <2>1, <2>2, EchoStays, Zenon DEF ThreadSound, registers
<1> QED BY <1>5, <1>6, <1>7, InvPartsNext, Zenon

LEMMA RefreshStep == ASSUME Inv, Refresh PROVE Inv'
<1>1. RouterSound /\ RestTyped /\ ThreadSound /\ EchoSound
  BY InvParts, Zenon
<1>2. /\ pc = "refresh" /\ NextUnit("refresh", "sync")
      /\ UNCHANGED <<router, registers, setpoint, last_raw, master16, cmd, batch, at, history>>
  BY Zenon DEF Refresh
<1>3. unit' \in Units /\ pc' \in {"refresh", "sync"} /\ unit \in Units
  BY <1>1, <1>2, NextUnitFacts, Zenon DEF RestTyped
<1>4. cached16' \in [Units -> Nat] /\ dirty' \subseteq Units
  <2>1. Raw(setpoint[unit]) \in Nat /\ cached16[unit] \in Nat
    BY <1>1, <1>3, Numbers, Zenon DEF RestTyped
  <2>2. PICK changed \in BOOLEAN :
            /\ cached16' = [cached16 EXCEPT ![unit] = IF changed THEN Raw(setpoint[unit]) ELSE @]
            /\ dirty' = IF changed THEN dirty \cup {unit} ELSE dirty
    BY Zenon DEF Refresh
  <2>3. cached16' \in [Units -> Nat]
    BY <1>1, <1>3, <2>1, <2>2, Zenon DEF RestTyped
  <2> QED BY <1>1, <1>3, <2>2, <2>3, Zenon DEF RestTyped
<1>5. RouterSound'
  BY <1>1, <1>2, RouterStays, Zenon DEF router, history
<1>6. RestTyped'
  BY <1>1, <1>2, <1>3, <1>4, Zenon DEF RestTyped, registers, history
<1>7. ThreadSound' /\ EchoSound'
  <2>1. /\ pc' # "apply" /\ pc' \notin {"sync20", "remember"}
        /\ pc' \notin {"clear", "enqueue"}
    BY <1>3, Zenon
  <2>2. pc \notin {"sync20", "remember"} /\ batch' = <<>>
    BY <1>1, <1>2, Zenon DEF ThreadSound
  <2> QED BY <1>1, <1>2, <2>1, <2>2, EchoStays, Zenon DEF ThreadSound, registers
<1> QED BY <1>5, <1>6, <1>7, InvPartsNext, Zenon

\* The simulator overwrites register 16 with the cached setpoint ...
LEMMA SyncSetpointStep == ASSUME Inv, SyncSetpoint PROVE Inv'
<1>1. RouterSound /\ RestTyped /\ ThreadSound /\ EchoSound
  BY InvParts, Zenon
<1>2. /\ pc = "sync" /\ pc' = "sync20" /\ unit' \in dirty
      /\ UNCHANGED <<router, reg20, setpoint, cached16, last_raw, cmd, batch, at, dirty, history>>
  BY Zenon DEF SyncSetpoint
<1>3. PICK u \in Units :
          /\ u = unit'
          /\ reg16' = [reg16 EXCEPT ![u] = cached16[u]]
          /\ master16' = [master16 EXCEPT ![u] = FALSE]
  BY <1>1, <1>2, Zenon DEF SyncSetpoint, RestTyped
<1>4. reg16' \in [Units -> Nat] /\ master16' \in [Units -> BOOLEAN]
  BY <1>1, <1>3, Zenon DEF RestTyped
<1>5. RouterSound'
  BY <1>1, <1>2, RouterStays, Zenon DEF router, history
<1>6. RestTyped' /\ ThreadSound'
  BY <1>1, <1>2, <1>3, <1>4, Zenon DEF RestTyped, ThreadSound, history
<1>7. EchoSound'
  <2>1. reg16'[u] = cached16'[u]
    BY <1>1, <1>2, <1>3, Zenon DEF RestTyped
  <2>2. \A v \in Units : v # u => reg16'[v] = reg16[v] /\ master16'[v] = master16[v]
    BY <1>1, <1>3, Zenon DEF RestTyped
  <2>3. \A v \in Units : master16[v] \/ reg16[v] = last_raw[v]
    BY <1>1, <1>2, Zenon DEF EchoSound
  <2> QED BY <1>2, <1>3, <2>1, <2>2, <2>3, Zenon DEF EchoSound
<1> QED BY <1>5, <1>6, <1>7, InvPartsNext, Zenon

LEMMA SyncCommandStep == ASSUME Inv, SyncCommand PROVE Inv'
<1>1. RouterSound /\ RestTyped /\ ThreadSound /\ EchoSound
  BY InvParts, Zenon
<1>2. /\ pc = "sync20" /\ pc' = "remember" /\ reg20' = [reg20 EXCEPT ![unit] = 0]
      /\ UNCHANGED <<router, reg16, points, unit, cmd, batch, at, dirty, history>>
  BY Zenon DEF SyncCommand
<1>3. reg20' \in [Units -> 0 .. MaxRequests]
  <2>1. 0 \in 0 .. MaxRequests
    BY Numbers, SMT
  <2> QED BY <1>1, <1>2, <2>1, Zenon DEF RestTyped
<1>4. RouterSound'
  BY <1>1, <1>2, RouterStays, Zenon DEF router, history
<1>5. RestTyped' /\ ThreadSound' /\ EchoSound'
  BY <1>1, <1>2, <1>3, Zenon DEF RestTyped, ThreadSound, EchoSound, points, history
<1> QED BY <1>4, <1>5, InvPartsNext, Zenon

\* ... and then remembers it; a master that wrote in between is told from it.
LEMMA RememberSetpointStep == ASSUME Inv, RememberSetpoint PROVE Inv'
<1>1. RouterSound /\ RestTyped /\ ThreadSound /\ EchoSound
  BY InvParts, Zenon
<1>2. /\ pc = "remember" /\ pc' = "sync" /\ dirty' = dirty \ {unit}
      /\ last_raw' = [last_raw EXCEPT ![unit] = cached16[unit]]
      /\ UNCHANGED <<router, registers, setpoint, cached16, master16, unit, cmd, batch, at, history>>
  BY Zenon DEF RememberSetpoint
<1>3. last_raw' \in [Units -> Nat] /\ unit \in Units
  BY <1>1, <1>2, Zenon DEF RestTyped
<1>4. RouterSound'
  BY <1>1, <1>2, RouterStays, Zenon DEF router, history
<1>5. RestTyped' /\ ThreadSound'
  BY <1>1, <1>2, <1>3, Zenon DEF RestTyped, ThreadSound, registers, history
<1>6. EchoSound'
  <2>1. \A u \in Units : last_raw'[u] = IF u = unit THEN cached16[u] ELSE last_raw[u]
    BY <1>1, <1>2, Zenon DEF RestTyped
  <2> QED BY <1>1, <1>2, <2>1, Zenon DEF EchoSound, registers
<1> QED BY <1>4, <1>5, <1>6, InvPartsNext, Zenon

LEMMA StepDoneStep == ASSUME Inv, StepDone PROVE Inv'
<1>1. RouterSound /\ RestTyped /\ ThreadSound /\ EchoSound
  BY InvParts, Zenon
<1>2. /\ pc = "sync" /\ pc' = "read" /\ unit' = 1
      /\ UNCHANGED <<router, registers, points, cmd, batch, at, dirty, history>>
  BY Zenon DEF StepDone
<1>3. RouterSound'
  BY <1>1, <1>2, RouterStays, Zenon DEF router, history
<1>4. RestTyped' /\ ThreadSound'
  BY <1>1, <1>2, Numbers, Zenon DEF RestTyped, ThreadSound, registers, points, history
<1>5. EchoSound'
  BY <1>1, <1>2, EchoStays, Zenon DEF registers, points
<1> QED BY <1>3, <1>4, <1>5, InvPartsNext, Zenon

(* ------------------------------ the theorems ---------------------------- *)

LEMMA NextInv == ASSUME Inv, [Next]_vars PROVE Inv'
<1>1. ASSUME Simulation PROVE Inv'
  BY <1>1, ReadCommandStep, ClearCommandStep, EnqueueCommandStep, DrainInv, ApplyCommandStep,
     AllAppliedStep, ApplySetpointStep, RefreshStep, SyncSetpointStep, SyncCommandStep,
     RememberSetpointStep, StepDoneStep, Zenon DEF Simulation
<1>2. ASSUME Clients PROVE Inv'
  BY <1>2, HttpCommandStep, HttpSetpointStep, MasterCommandStep, MasterSetpointStep,
     Zenon DEF Clients
<1>3. ASSUME UNCHANGED vars PROVE Inv'
  <2>1. RouterSound /\ RestTyped /\ ThreadSound /\ EchoSound
    BY InvParts, Zenon
  <2>2. RouterSound'
    BY <1>3, <2>1, RouterStays, Zenon DEF vars, router, loop, history
  <2>3. RestTyped' /\ ThreadSound' /\ EchoSound'
    BY <1>3, <2>1, Zenon
       DEF RestTyped, ThreadSound, EchoSound, vars, registers, points, loop, history
  <2> QED BY <2>2, <2>3, InvPartsNext, Zenon
<1> QED BY <1>1, <1>2, <1>3, Zenon DEF Next

\* The inductive invariant: the thread and the registers are where the rest relies on.
THEOREM CommandPathInvariant == Spec => []Inv
<1>1. Init => Inv
  BY InitInv, Zenon
<1>2. Inv /\ [Next]_vars => Inv'
  BY NextInv, Zenon
<1> QED BY <1>1, <1>2, PTL DEF Spec

\* Every variable has the type the code gives it.
THEOREM TypeCorrect == Spec => []TypeOK
<1>1. Inv => TypeOK
  BY Zenon DEF Inv
<1> QED BY <1>1, CommandPathInvariant, PTL

\* CommandRouter: the queue stays within both limits of enqueue_sequence(), and the counter
\* of queued unit targets is the number of those really queued.
THEOREM QueueAlwaysWithinLimits == Spec => []QueueWithinLimits
<1>1. Inv => QueueWithinLimits
  BY Zenon DEF Inv
<1> QED BY <1>1, CommandPathInvariant, PTL

\* CommandRouter and simulation_step: however the threads interleave, an accepted request
\* is not lost, and every unit was given exactly its share of the commands the nested loops
\* are past, each command once and in the order of acceptance.
THEOREM CommandsAlwaysConserved == Spec => []CommandsConserved
<1>1. Inv => CommandsConserved
  BY Zenon DEF Inv
<1> QED BY <1>1, CommandPathInvariant, PTL

\* ModbusAdapter: a setpoint is applied from register 16 only when a master wrote it after
\* the simulator's own last write of that register.
THEOREM NoEchoEver == Spec => []NoSetpointEcho
<1>1. Inv => NoSetpointEcho
  <2> SUFFICES ASSUME Inv, pc = "setpoints", reg16[unit] # last_raw[unit]
               PROVE  master16[unit]
    BY Zenon DEF NoSetpointEcho
  <2>1. RestTyped /\ EchoSound
    BY InvParts, Zenon
  <2> QED BY <2>1, Zenon DEF EchoSound, RestTyped
<1> QED BY <1>1, CommandPathInvariant, PTL
=============================================================================
