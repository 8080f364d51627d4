-------------------------- MODULE RateLimiterProofs -------------------------
(***************************************************************************)
(* For any limit, window, number of clients and of handlers: of a client's *)
(* requests, no more are let through in a window than the limit and one    *)
(* for each handler, and only a client that is busy is refused.  A bucket  *)
(* is the end of the list of all requests admitted, and what was cut off   *)
(* that list has stamps older than the window, in whatever order: so the   *)
(* limit holds for stamps.  A request let through in the window with a     *)
(* stamp from before it was in progress when the window began, and each    *)
(* handler serves one at a time.                                           *)
(***************************************************************************)
EXTENDS RateLimiter, FiniteSetTheorems, SequenceTheorems, TLAPS

USE LimiterAssumption

LEMMA EvictHolds ==
    ASSUME NEW bucket \in Seq(Nat), NEW all \in Seq(Request),
           NEW c \in Int, NEW cutoff \in Int, c <= cutoff,
           NEW n \in 0 .. Len(bucket), Expired(bucket, c, n),
           Holds(bucket, all, cutoff)
    PROVE  /\ Evict(bucket, n) \in Seq(Nat)
           /\ Len(Evict(bucket, n)) = Len(bucket) - n
           /\ Holds(Evict(bucket, n), all, cutoff)
           /\ Len(Evict(bucket, n)) > 0 => Evict(bucket, n)[1] > c
<1> DEFINE rest == Evict(bucket, n)
           gone == Len(all) - Len(bucket)
<1>1. /\ rest \in Seq(Nat) /\ Len(rest) = Len(bucket) - n
      /\ \A i \in 1 .. Len(rest) : rest[i] = bucket[n + i]
  BY SMT DEF Evict
<1>2. /\ Len(all) \in Nat /\ Len(bucket) \in Nat /\ gone \in Nat
      /\ \A i \in 1 .. Len(bucket) : bucket[i] = all[gone + i].stamp
      /\ \A i \in 1 .. gone : all[i].stamp <= cutoff
      /\ Len(bucket) <= Limit
  BY SMT DEF Holds
<1>3. \A i \in 1 .. n : bucket[i] <= c /\ bucket[i] \in Nat
  BY SMT DEF Expired
<1>4. ASSUME NEW i \in 1 .. gone + n PROVE all[i].stamp <= cutoff
  <2>1. CASE i <= gone
    BY <1>2, <2>1, SMT
  <2>2. CASE i > gone
    <3>1. i - gone \in 1 .. n /\ gone + (i - gone) = i
      BY <1>2, <2>2, SMT
    <3>2. bucket[i - gone] = all[i].stamp /\ bucket[i - gone] <= c /\ bucket[i - gone] \in Nat
      <4>1. i - gone \in 1 .. Len(bucket)
        BY <1>2, <3>1, SMT
      <4> QED BY <1>2, <1>3, <3>1, <4>1
    <3> QED BY <3>2, SMT
  <2> QED BY <1>2, <2>1, <2>2, SMT
<1>5. ASSUME NEW i \in 1 .. Len(rest) PROVE rest[i] = all[gone + n + i].stamp
  <2>1. n + i \in 1 .. Len(bucket) /\ gone + (n + i) = gone + n + i
    BY <1>1, <1>2, SMT
  <2> QED BY <1>1, <1>2, <2>1
<1>6. Len(all) - Len(rest) = gone + n
  BY <1>1, <1>2, SMT
<1>7. Holds(rest, all, cutoff)
  <2>1. DOMAIN rest = 1 .. Len(rest)
    BY <1>1
  <2>2. Len(rest) <= Limit /\ gone + n >= 0
    BY <1>1, <1>2, SMT
  <2> HIDE DEF rest, gone
  <2> QED BY <1>4, <1>5, <1>6, <2>1, <2>2 DEF Holds
<1>8. Len(rest) > 0 => rest[1] > c
  <2> SUFFICES ASSUME Len(rest) > 0 PROVE rest[1] > c
    OBVIOUS
  <2>1. n < Len(bucket) /\ 1 \in 1 .. Len(rest)
    BY <1>1, <1>2, SMT
  <2>2. rest[1] = bucket[n + 1] /\ bucket[n + 1] > c
    BY <1>1, <2>1 DEF Expired
  <2> QED BY <2>2
<1> QED BY <1>1, <1>7, <1>8

LEMMA AppendHolds ==
    ASSUME NEW bucket \in Seq(Nat), NEW all \in Seq(Request), NEW r \in Request,
           NEW cutoff \in Int, ~Full(bucket), Holds(bucket, all, cutoff)
    PROVE  Holds(Append(bucket, r.stamp), Append(all, r), cutoff)
<1> DEFINE longer == Append(bucket, r.stamp)
           more == Append(all, r)
           gone == Len(all) - Len(bucket)
<1>1. /\ longer \in Seq(Nat) /\ Len(longer) = Len(bucket) + 1
      /\ longer[Len(bucket) + 1] = r.stamp
      /\ \A i \in 1 .. Len(bucket) : longer[i] = bucket[i]
  BY SMT DEF Request
<1>2. /\ more \in Seq(Request) /\ Len(more) = Len(all) + 1
      /\ more[Len(all) + 1] = r
      /\ \A i \in 1 .. Len(all) : more[i] = all[i]
  BY SMT
<1>3. /\ Len(all) \in Nat /\ Len(bucket) \in Nat /\ gone \in Nat
      /\ \A i \in 1 .. Len(bucket) : bucket[i] = all[gone + i].stamp
      /\ \A i \in 1 .. gone : all[i].stamp <= cutoff
      /\ Len(bucket) < Limit
  BY SMT DEF Holds, Full
<1>4. Len(more) - Len(longer) = gone
  BY <1>1, <1>2, <1>3, SMT
<1>5. ASSUME NEW i \in 1 .. Len(longer) PROVE longer[i] = more[gone + i].stamp
  <2>1. CASE i = Len(bucket) + 1
    <3>1. gone + i = Len(all) + 1
      BY <1>3, <2>1, SMT
    <3> QED BY <1>1, <1>2, <2>1, <3>1
  <2>2. CASE i # Len(bucket) + 1
    <3>1. i \in 1 .. Len(bucket) /\ gone + i \in 1 .. Len(all)
      BY <1>1, <1>3, <2>2, SMT
    <3> QED BY <1>1, <1>2, <1>3, <3>1
  <2> QED BY <2>1, <2>2
<1>6. ASSUME NEW i \in 1 .. gone PROVE more[i].stamp <= cutoff
  <2>1. i \in 1 .. Len(all)
    BY <1>3, SMT
  <2> QED BY <1>2, <1>3, <2>1
<1>7. Len(longer) <= Limit /\ gone >= 0 /\ DOMAIN longer = 1 .. Len(longer)
  BY <1>1, <1>3, SMT
<1> HIDE DEF longer, more, gone
<1>8. Holds(longer, more, cutoff)
  BY <1>4, <1>5, <1>6, <1>7 DEF Holds
<1> QED BY <1>8 DEF longer, more

LEMMA AppendInOrder ==
    ASSUME NEW all \in Seq(Request), NEW r \in Request, clock \in Nat,
           InOrder(all), r.stamp <= r.at, r.at = clock
    PROVE  InOrder(Append(all, r))
<1> DEFINE more == Append(all, r)
<1>1. /\ more \in Seq(Request) /\ Len(more) = Len(all) + 1 /\ Len(all) \in Nat
      /\ more[Len(all) + 1] = r
      /\ \A i \in 1 .. Len(all) : more[i] = all[i]
      /\ DOMAIN more = 1 .. Len(more) /\ DOMAIN all = 1 .. Len(all)
  BY SMT
<1>2. \A i \in 1 .. Len(all) : more[i].at <= r.at
  BY <1>1 DEF InOrder
<1> HIDE DEF more
<1>3. ASSUME NEW i \in DOMAIN more PROVE more[i].stamp <= more[i].at /\ more[i].at <= clock
  <2>1. CASE i = Len(all) + 1
    BY <1>1, <2>1, SMT DEF Request
  <2>2. CASE i # Len(all) + 1
    <3>1. i \in 1 .. Len(all)
      BY <1>1, <2>2, SMT
    <3> QED BY <1>1, <3>1 DEF InOrder
  <2> QED BY <2>1, <2>2
<1>4. ASSUME NEW i \in DOMAIN more, NEW j \in DOMAIN more, i <= j
      PROVE  more[i].at <= more[j].at
  <2>1. CASE j = Len(all) + 1
    <3>1. CASE i = j
      BY <1>1, <2>1, <3>1, SMT DEF Request
    <3>2. CASE i # j
      <4>1. i \in 1 .. Len(all)
        BY <1>1, <1>4, <2>1, <3>2, SMT
      <4> QED BY <1>1, <1>2, <2>1, <4>1
    <3> QED BY <3>1, <3>2
  <2>2. CASE j # Len(all) + 1
    <3>1. i \in 1 .. Len(all) /\ j \in 1 .. Len(all)
      BY <1>1, <1>4, <2>2, SMT
    <3> QED BY <1>1, <1>4, <3>1 DEF InOrder
  <2> QED BY <2>1, <2>2
<1>5. InOrder(more)
  BY <1>3, <1>4 DEF InOrder
<1> QED BY <1>5 DEF more

\* The requests of the window are among those the bucket holds.
LEMMA WindowCount ==
    ASSUME NEW bucket \in Seq(Nat), NEW all \in Seq(Request), NEW cutoff \in Int,
           Holds(bucket, all, cutoff)
    PROVE  Cardinality({i \in DOMAIN all : all[i].stamp > cutoff}) <= Limit
<1> DEFINE gone == Len(all) - Len(bucket)
           recent == {i \in DOMAIN all : all[i].stamp > cutoff}
           kept == gone + 1 .. Len(all)
<1>1. /\ Len(all) \in Nat /\ Len(bucket) \in Nat /\ gone \in Nat /\ Len(bucket) <= Limit
      /\ \A i \in 1 .. gone : all[i].stamp <= cutoff
  BY SMT DEF Holds
<1>2. ASSUME NEW i \in recent PROVE i \in kept
  <2>1. i \in 1 .. Len(all) /\ all[i].stamp > cutoff /\ all[i].stamp \in Nat
    <3>1. i \in 1 .. Len(all) /\ all[i].stamp > cutoff
      BY <1>1, SMT
    <3>2. all[i] \in Request
      BY <3>1, SMT
    <3> QED BY <3>1, <3>2 DEF Request
  <2>2. ~ i \in 1 .. gone
    BY <1>1, <2>1, SMT
  <2> QED BY <1>1, <2>1, <2>2, SMT
<1>3. IsFiniteSet(kept) /\ Cardinality(kept) = Len(bucket)
  <2>1. gone + 1 \in Int /\ Len(all) \in Int
    BY <1>1, SMT
  <2>2. /\ IsFiniteSet(kept)
        /\ Cardinality(kept) = IF gone + 1 > Len(all) THEN 0 ELSE Len(all) - (gone + 1) + 1
    BY <2>1, FS_Interval, Zenon
  <2> HIDE DEF kept
  <2> QED BY <1>1, <2>2, SMT
<1>4. recent \subseteq kept
  BY <1>2
<1> HIDE DEF recent, kept
<1>5. IsFiniteSet(recent) /\ Cardinality(recent) <= Cardinality(kept)
  BY <1>3, <1>4, FS_Subset
<1>6. Cardinality(recent) \in Nat
  BY <1>5, FS_CardinalityType
<1>7. Cardinality(recent) <= Limit
  BY <1>1, <1>3, <1>5, <1>6, SMT
<1> QED BY <1>7 DEF recent

\* Of the requests let through in the window with a stamp from before it, no two are of the
\* same handler.
LEMMA LateCount ==
    ASSUME NEW all \in Seq(Request), NEW cutoff \in Int, OneAtATime(all)
    PROVE  LET overdue == {i \in DOMAIN all : all[i].stamp <= cutoff /\ all[i].at > cutoff}
           IN  IsFiniteSet(overdue) /\ Cardinality(overdue) <= Cardinality(Handlers)
<1> DEFINE overdue == {i \in DOMAIN all : all[i].stamp <= cutoff /\ all[i].at > cutoff}
           handler == [i \in overdue |-> all[i].by]
<1>1. ASSUME NEW i \in overdue
      PROVE  /\ i \in DOMAIN all /\ i \in Int /\ all[i].by \in Handlers
             /\ all[i].stamp \in Nat /\ all[i].at \in Nat
             /\ all[i].stamp <= cutoff /\ all[i].at > cutoff
  <2>1. i \in DOMAIN all /\ all[i].stamp <= cutoff /\ all[i].at > cutoff
    OBVIOUS
  <2>2. all[i] \in Request /\ i \in Int
    BY <2>1, SMT
  <2> QED BY <2>1, <2>2 DEF Request
<1>2. ASSUME NEW i \in overdue, NEW j \in overdue, i < j, all[i].by = all[j].by
      PROVE  FALSE
  <2>1. all[i].at <= all[j].stamp
    BY <1>1, <1>2 DEF OneAtATime
  <2>2. /\ all[i].at \in Nat /\ all[j].stamp \in Nat
        /\ all[i].at > cutoff /\ all[j].stamp <= cutoff
    BY <1>1
  <2> HIDE DEF overdue
  <2> QED BY <2>1, <2>2, SMT
<1>3. ASSUME NEW i \in overdue, NEW j \in overdue, all[i].by = all[j].by
      PROVE  i = j
  <2>1. i \in Int /\ j \in Int
    BY <1>1
  <2>2. i < j \/ j < i \/ i = j
    BY <2>1, SMT
  <2> QED BY <1>2, <1>3, <2>2
<1>4. \A i \in overdue : all[i].by \in Handlers
  BY <1>1
<1> HIDE DEF overdue
<1>5. handler \in Injection(overdue, Handlers)
  BY <1>3, <1>4 DEF Injection, IsInjective
<1> HIDE DEF handler
<1> QED BY <1>5, FS_Injection DEF overdue

\* What is let through in a window has a stamp of it, or is overdue.
LEMMA AdmittedCount ==
    ASSUME NEW bucket \in Seq(Nat), NEW all \in Seq(Request), NEW cutoff \in Int,
           Holds(bucket, all, cutoff), OneAtATime(all)
    PROVE  Cardinality({i \in DOMAIN all : all[i].at > cutoff})
               <= Limit + Cardinality(Handlers)
<1> DEFINE recent == {i \in DOMAIN all : all[i].stamp > cutoff}
           overdue == {i \in DOMAIN all : all[i].stamp <= cutoff /\ all[i].at > cutoff}
           window == {i \in DOMAIN all : all[i].at > cutoff}
<1>1. IsFiniteSet(DOMAIN all)
  <2>1. DOMAIN all = 1 .. Len(all) /\ Len(all) \in Int
    BY SMT
  <2> QED BY <2>1, FS_Interval, SMT
<1>2. IsFiniteSet(recent) /\ Cardinality(recent) <= Limit
  BY <1>1, FS_Subset, WindowCount
<1>3. IsFiniteSet(overdue) /\ Cardinality(overdue) <= Cardinality(Handlers)
  BY LateCount
<1>4. window \subseteq recent \cup overdue
  <2>1. ASSUME NEW i \in window PROVE i \in recent \/ i \in overdue
    <3>1. i \in DOMAIN all /\ all[i].at > cutoff
      OBVIOUS
    <3>2. all[i] \in Request
      BY <3>1, SMT
    <3>3. all[i].stamp \in Nat
      BY <3>2 DEF Request
    <3>4. all[i].stamp > cutoff \/ all[i].stamp <= cutoff
      BY <3>3, SMT
    <3> QED BY <3>1, <3>4
  <2> QED BY <2>1
<1> HIDE DEF recent, overdue, window
<1>5. /\ IsFiniteSet(recent \cup overdue) /\ IsFiniteSet(recent \cap overdue)
      /\ Cardinality(recent \cup overdue)
            = Cardinality(recent) + Cardinality(overdue) - Cardinality(recent \cap overdue)
  BY <1>2, <1>3, FS_Union, FS_Subset
<1>6. IsFiniteSet(window) /\ Cardinality(window) <= Cardinality(recent \cup overdue)
  BY <1>4, <1>5, FS_Subset
<1>7. /\ Cardinality(recent) \in Nat /\ Cardinality(overdue) \in Nat
      /\ Cardinality(recent \cap overdue) \in Nat /\ Cardinality(window) \in Nat
      /\ Cardinality(recent \cup overdue) \in Nat /\ Cardinality(Handlers) \in Nat
  BY <1>2, <1>3, <1>5, <1>6, FS_CardinalityType, LimiterAssumption
<1>8. Cardinality(window) <= Limit + Cardinality(Handlers)
  BY <1>2, <1>3, <1>5, <1>6, <1>7, SMT
<1> QED BY <1>8 DEF window

\* All requests of a bucket were admitted after the stamp at its head.
LEMMA BusyCount ==
    ASSUME NEW bucket \in Seq(Nat), NEW all \in Seq(Request), NEW cutoff \in Int,
           NEW c \in Int, Holds(bucket, all, cutoff), InOrder(all), Full(bucket),
           bucket[1] > c
    PROVE  Cardinality({i \in DOMAIN all : all[i].at > c}) >= Limit
<1> DEFINE gone == Len(all) - Len(bucket)
           busy == {i \in DOMAIN all : all[i].at > c}
           kept == gone + 1 .. Len(all)
<1>1. /\ Len(all) \in Nat /\ Len(bucket) \in Nat /\ gone \in Nat /\ Len(bucket) = Limit
      /\ bucket[1] = all[gone + 1].stamp /\ gone + 1 \in DOMAIN all
  <2>1. /\ Len(all) \in Nat /\ Len(bucket) \in Nat /\ gone \in Nat /\ Len(bucket) = Limit
    BY SMT DEF Holds, Full
  <2>2. 1 \in DOMAIN bucket /\ gone + 1 \in DOMAIN all
    BY <2>1, SMT
  <2> QED BY <2>1, <2>2 DEF Holds
<1>2. all[gone + 1].at > c
  <2>1. all[gone + 1] \in Request /\ all[gone + 1].stamp <= all[gone + 1].at
    BY <1>1 DEF InOrder
  <2> QED BY <1>1, <2>1, SMT DEF Request
<1>3. ASSUME NEW i \in kept PROVE i \in busy
  <2>1. i \in DOMAIN all /\ gone + 1 <= i
    BY <1>1, SMT
  <2>2. all[gone + 1].at <= all[i].at
    BY <1>1, <2>1 DEF InOrder
  <2>3. all[i] \in Request /\ all[gone + 1] \in Request
    BY <1>1, <2>1
  <2>4. all[i].at > c
    <3>1. all[i].at \in Nat /\ all[gone + 1].at \in Nat
      BY <2>3 DEF Request
    <3>2. \A x, y \in Nat : x > c /\ x <= y => y > c
      BY SMT
    <3> QED BY <1>2, <2>2, <3>1, <3>2, Zenon
  <2> QED BY <2>1, <2>4
<1>4. IsFiniteSet(kept) /\ Cardinality(kept) = Limit
  <2>1. gone + 1 \in Int /\ Len(all) \in Int
    BY <1>1, SMT
  <2>2. /\ IsFiniteSet(kept)
        /\ Cardinality(kept) = IF gone + 1 > Len(all) THEN 0 ELSE Len(all) - (gone + 1) + 1
    BY <2>1, FS_Interval, Zenon
  <2> HIDE DEF kept
  <2> QED BY <1>1, <2>2, SMT
<1>5. IsFiniteSet(busy)
  <2>1. DOMAIN all = 1 .. Len(all) /\ Len(all) \in Int
    BY SMT
  <2>2. IsFiniteSet(1 .. Len(all))
    BY <2>1, FS_Interval, SMT
  <2> QED BY <2>1, <2>2, FS_Subset
<1> HIDE DEF busy, kept
<1>6. Cardinality(kept) <= Cardinality(busy)
  BY <1>3, <1>5, FS_Subset
<1>7. Cardinality(busy) \in Nat
  BY <1>5, FS_CardinalityType
<1>8. Cardinality(busy) >= Limit
  BY <1>4, <1>6, <1>7, SMT
<1> QED BY <1>8 DEF busy

\* What is known of a call in its critical section.
LEMMA DecideFacts ==
    ASSUME IInv, NEW h \in Handlers, call[h] # NoCall,
           NEW n \in 0 .. Len(hits[call[h].key]),
           Expired(hits[call[h].key], call[h].now - Window, n)
    PROVE  LET k == call[h].key
               bucket == Evict(hits[k], n)
           IN  /\ k \in Keys /\ call[h].now \in Nat /\ call[h].now <= clock
               /\ hits[k] \in Seq(Nat) /\ admitted[k] \in Seq(Request)
               /\ bucket \in Seq(Nat) /\ Holds(bucket, admitted[k], clock - Window)
               /\ InOrder(admitted[k])
               /\ Len(bucket) > 0 => bucket[1] > call[h].now - Window
<1> DEFINE k == call[h].key
           c == call[h].now - Window
<1>1. k \in Keys /\ call[h].now \in Nat /\ call[h].now <= clock /\ clock \in Nat
  BY DEF IInv, TypeOK, Call
<1>2. /\ hits[k] \in Seq(Nat) /\ admitted[k] \in Seq(Request)
      /\ Holds(hits[k], admitted[k], clock - Window) /\ InOrder(admitted[k])
  BY <1>1 DEF IInv, TypeOK, BucketsSound
<1>3. c \in Int /\ clock - Window \in Int /\ c <= clock - Window
  BY <1>1, SMT
<1> HIDE DEF c, k
<1>4. n \in 0 .. Len(hits[k]) /\ Expired(hits[k], c, n)
  BY DEF c, k
<1>5. /\ Evict(hits[k], n) \in Seq(Nat)
      /\ Holds(Evict(hits[k], n), admitted[k], clock - Window)
      /\ Len(Evict(hits[k], n)) > 0 => Evict(hits[k], n)[1] > c
  BY <1>2, <1>3, <1>4, EvictHolds
<1> QED BY <1>1, <1>2, <1>5 DEF c, k

LEMMA AdmittedTyped ==
    ASSUME IInv, NEW k \in Keys, NEW i \in DOMAIN admitted[k]
    PROVE  /\ admitted[k][i].by \in Handlers
           /\ admitted[k][i].stamp \in Nat /\ admitted[k][i].at \in Nat
<1>1. admitted[k] \in Seq(Request)
  BY DEF IInv, TypeOK
<1>2. admitted[k][i] \in Request
  BY <1>1, SMT
<1> QED BY <1>2 DEF Request

\* A handler that has just been served serves nobody, and was not served since its stamp.
LEMMA AppendOneAtATime ==
    ASSUME NEW all \in Seq(Request), NEW r \in Request, OneAtATime(all),
           call[r.by] # NoCall, r.stamp = call[r.by].now,
           \A g \in Handlers : call'[g] = (IF g = r.by THEN NoCall ELSE call[g])
    PROVE  LET more == Append(all, r)
           IN  /\ \A i, j \in DOMAIN more :
                     i < j /\ more[i].by = more[j].by => more[i].at <= more[j].stamp
               /\ \A i \in DOMAIN more :
                     call'[more[i].by] # NoCall => more[i].at <= call'[more[i].by].now
<1> DEFINE more == Append(all, r)
           n == Len(all) + 1
<1>1. /\ Len(all) \in Nat /\ DOMAIN all = 1 .. Len(all) /\ DOMAIN more = 1 .. n
      /\ more[n] = r /\ \A i \in 1 .. Len(all) : more[i] = all[i]
  BY SMT
<1>2. r.by \in Handlers /\ \A i \in DOMAIN all : all[i].by \in Handlers
  <2>1. \A i \in DOMAIN all : all[i] \in Request
    BY <1>1
  <2> QED BY <2>1 DEF Request
<1>3. \A i \in 1 .. n : i = n \/ i \in 1 .. Len(all)
  BY <1>1, SMT
<1> HIDE DEF more
<1>4. ASSUME NEW i \in DOMAIN more, NEW j \in DOMAIN more, i < j, more[i].by = more[j].by
      PROVE  more[i].at <= more[j].stamp
  <2>1. i \in 1 .. Len(all)
    BY <1>1, <1>4, SMT
  <2>2. CASE j = n
    BY <1>1, <1>4, <2>1, <2>2 DEF OneAtATime
  <2>3. CASE j \in 1 .. Len(all)
    BY <1>1, <1>4, <2>1, <2>3 DEF OneAtATime
  <2> QED BY <1>1, <1>3, <2>2, <2>3
<1>5. ASSUME NEW i \in DOMAIN more, call'[more[i].by] # NoCall
      PROVE  more[i].at <= call'[more[i].by].now
  <2>1. i # n
    BY <1>1, <1>2, <1>5
  <2>2. i \in 1 .. Len(all) /\ more[i] = all[i]
    BY <1>1, <1>3, <2>1
  <2>3. call'[all[i].by] = call[all[i].by]
    BY <1>1, <1>2, <1>5, <2>2
  <2> QED BY <1>1, <1>5, <2>2, <2>3 DEF OneAtATime
<1> QED BY <1>4, <1>5 DEF more

\* The calls of the other handlers stay as they are.
LEMMA CallStays ==
    ASSUME TypeOK, NEW h \in Handlers, call' = [call EXCEPT ![h] = NoCall], UNCHANGED clock
    PROVE  clock' \in Nat /\ call' \in [Handlers -> Call] /\ \A g \in Handlers : call'[g].now <= clock'
BY SMT DEF TypeOK, Call, NoCall

LEMMA RefuseStep ==
    ASSUME IInv, NEW h \in Handlers, call[h] # NoCall,
           NEW n \in 0 .. Len(hits[call[h].key]), Refuse(h, n)
    PROVE  IInv'
<1> DEFINE k == call[h].key
           bucket == Evict(hits[k], n)
<1>1. /\ hits' = [hits EXCEPT ![k] = bucket] /\ UNCHANGED <<clock, admitted>>
      /\ call' = [call EXCEPT ![h] = NoCall]
      /\ Expired(hits[k], call[h].now - Window, n)
  BY DEF Refuse
<1>2. /\ k \in Keys /\ bucket \in Seq(Nat)
      /\ Holds(bucket, admitted[k], clock - Window)
  BY <1>1, DecideFacts
<1> HIDE DEF bucket, k
<1>3. TypeOK'
  <2>1. hits' \in [Keys -> Seq(Nat)] /\ admitted' \in [Keys -> Seq(Request)]
    BY <1>1, <1>2 DEF IInv, TypeOK
  <2> QED BY <1>1, <2>1, CallStays DEF IInv, TypeOK
<1>4. ASSUME NEW j \in Keys
      PROVE  Holds(hits[j], admitted[j], clock - Window)' /\ InOrder(admitted[j])'
  <2>1. Holds(hits[j], admitted[j], clock - Window) /\ InOrder(admitted[j])
    BY DEF IInv, BucketsSound
  <2>2. hits'[j] = IF j = k THEN bucket ELSE hits[j]
    BY <1>1 DEF IInv, TypeOK
  <2> QED BY <1>1, <1>2, <2>1, <2>2 DEF Holds, InOrder
<1>5. ASSUME NEW j \in Keys PROVE OneAtATime(admitted[j])'
  <2>1. OneAtATime(admitted[j])
    BY DEF IInv
  <2>2. \A g \in Handlers : call'[g] = call[g] \/ call'[g] = NoCall
    BY <1>1 DEF IInv, TypeOK
  <2>3. \A i \in DOMAIN admitted[j] : admitted[j][i].by \in Handlers
    BY AdmittedTyped
  <2> QED BY <1>1, <2>1, <2>2, <2>3 DEF OneAtATime
<1> QED BY <1>3, <1>4, <1>5 DEF IInv, BucketsSound

LEMMA AdmitStep ==
    ASSUME IInv, NEW h \in Handlers, call[h] # NoCall,
           NEW n \in 0 .. Len(hits[call[h].key]), Admit(h, n)
    PROVE  IInv'
<1> DEFINE k == call[h].key
           bucket == Evict(hits[k], n)
           r == [stamp |-> call[h].now, at |-> clock, by |-> h]
           longer == Append(bucket, r.stamp)
           more == Append(admitted[k], r)
<1>1. /\ hits' = [hits EXCEPT ![k] = longer] /\ admitted' = [admitted EXCEPT ![k] = more]
      /\ call' = [call EXCEPT ![h] = NoCall] /\ UNCHANGED clock
      /\ ~Full(bucket) /\ Expired(hits[k], call[h].now - Window, n)
  BY DEF Admit
<1>2. /\ k \in Keys /\ bucket \in Seq(Nat) /\ call[h].now \in Nat /\ call[h].now <= clock
      /\ admitted[k] \in Seq(Request)
      /\ Holds(bucket, admitted[k], clock - Window) /\ InOrder(admitted[k])
  BY <1>1, DecideFacts
<1>3. clock \in Nat /\ clock - Window \in Int
  <2>1. clock \in Nat
    BY DEF IInv, TypeOK
  <2> QED BY <2>1, SMT
<1>4. /\ r \in Request /\ r.stamp <= r.at /\ r.at = clock /\ r.stamp \in Nat
      /\ r.stamp = call[h].now /\ r.by = h
  BY <1>2, <1>3 DEF Request
<1> HIDE DEF k, bucket, r
<1>5. Holds(longer, more, clock - Window)
  BY <1>1, <1>2, <1>3, <1>4, AppendHolds
<1>6. InOrder(more)
  BY <1>2, <1>3, <1>4, AppendInOrder
<1>7. longer \in Seq(Nat) /\ more \in Seq(Request)
  BY <1>2, <1>4, AppendProperties
<1> HIDE DEF longer, more
<1>8. TypeOK'
  <2>1. hits' \in [Keys -> Seq(Nat)] /\ admitted' \in [Keys -> Seq(Request)]
    BY <1>1, <1>2, <1>7 DEF IInv, TypeOK
  <2> QED BY <1>1, <2>1, CallStays DEF IInv, TypeOK
<1>9. ASSUME NEW j \in Keys
      PROVE  Holds(hits[j], admitted[j], clock - Window)' /\ InOrder(admitted[j])'
  <2>1. Holds(hits[j], admitted[j], clock - Window) /\ InOrder(admitted[j])
    BY DEF IInv, BucketsSound
  <2>2. /\ hits'[j] = IF j = k THEN longer ELSE hits[j]
        /\ admitted'[j] = IF j = k THEN more ELSE admitted[j]
    BY <1>1 DEF IInv, TypeOK
  <2> QED BY <1>1, <1>5, <1>6, <2>1, <2>2 DEF Holds, InOrder
<1>10. ASSUME NEW j \in Keys PROVE OneAtATime(admitted[j])'
  <2>1. OneAtATime(admitted[j])
    BY DEF IInv
  <2>2. \A g \in Handlers : call'[g] = (IF g = h THEN NoCall ELSE call[g])
    BY <1>1 DEF IInv, TypeOK
  <2>3. \A i \in DOMAIN admitted[j] : admitted[j][i].by \in Handlers
    BY AdmittedTyped
  <2>4. CASE j # k
    <3>1. admitted'[j] = admitted[j]
      BY <1>1, <2>4 DEF IInv, TypeOK
    <3> QED BY <2>1, <2>2, <2>3, <3>1 DEF OneAtATime
  <2>5. CASE j = k
    <3>1. admitted'[j] = Append(admitted[k], r)
      BY <1>1, <1>2, <2>5 DEF IInv, TypeOK, more
    <3>2. OneAtATime(admitted[k])
      BY <2>1, <2>5
    <3>3. /\ call[r.by] # NoCall /\ r.stamp = call[r.by].now
          /\ \A g \in Handlers : call'[g] = (IF g = r.by THEN NoCall ELSE call[g])
      BY <1>4, <2>2
    <3>4. LET all == Append(admitted[k], r)
          IN  /\ \A a, b \in DOMAIN all :
                    a < b /\ all[a].by = all[b].by => all[a].at <= all[b].stamp
              /\ \A a \in DOMAIN all :
                    call'[all[a].by] # NoCall => all[a].at <= call'[all[a].by].now
      BY <1>2, <1>4, <3>2, <3>3, AppendOneAtATime
    <3> QED BY <3>1, <3>4 DEF OneAtATime
  <2> QED BY <2>4, <2>5
<1> QED BY <1>8, <1>9, <1>10 DEF IInv, BucketsSound

LEMMA TimeStep ==
    ASSUME IInv, TimePasses
    PROVE  IInv'
<1>1. /\ clock \in Nat /\ clock' = clock + 1 /\ UNCHANGED <<hits, call, calls, admitted>>
  BY DEF IInv, TypeOK, TimePasses
<1>2. TypeOK'
  <2>1. \A h \in Handlers : call[h].now \in Nat /\ call[h].now <= clock
    BY SMT DEF IInv, TypeOK, Call, NoCall
  <2>2. clock' \in Nat /\ \A h \in Handlers : call'[h].now <= clock'
    BY <1>1, <2>1, SMT
  <2> QED BY <1>1, <2>2 DEF IInv, TypeOK
<1>3. ASSUME NEW j \in Keys
      PROVE  Holds(hits[j], admitted[j], clock - Window)' /\ InOrder(admitted[j])'
  <2> DEFINE all == admitted[j]
  <2>1. all \in Seq(Request) /\ hits[j] \in Seq(Nat)
    BY DEF IInv, TypeOK
  <2>2. Holds(hits[j], all, clock - Window) /\ InOrder(all)
    BY DEF IInv, BucketsSound
  <2>3. \A i \in DOMAIN all : all[i].stamp \in Nat /\ all[i].at \in Nat
    <3>1. \A i \in DOMAIN all : all[i] \in Request
      BY <2>1, SMT
    <3> QED BY <3>1 DEF Request
  <2>4. Holds(hits[j], all, clock + 1 - Window)
    <3>1. \A i \in 1 .. Len(all) - Len(hits[j]) : i \in DOMAIN all
      BY <2>1, SMT
    <3>2. \A x \in Nat : x <= clock - Window => x <= clock + 1 - Window
      BY <1>1, SMT
    <3>3. \A i \in 1 .. Len(all) - Len(hits[j]) : all[i].stamp <= clock + 1 - Window
      BY <2>2, <2>3, <3>1, <3>2, Zenon DEF Holds
    <3> QED BY <2>2, <3>3, Zenon DEF Holds
  <2>5. \A i \in DOMAIN all : all[i].at <= clock + 1
    <3>1. \A x \in Nat : x <= clock => x <= clock + 1
      BY <1>1, SMT
    <3> QED BY <2>2, <2>3, <3>1, Zenon DEF InOrder
  <2> HIDE DEF all
  <2>6. InOrder(all)'
    <3>1. all' = all
      BY <1>1 DEF all
    <3> QED BY <1>1, <2>2, <2>5, <3>1 DEF InOrder
  <2>7. Holds(hits[j], admitted[j], clock - Window)'
    <3>1. hits'[j] = hits[j] /\ admitted'[j] = all /\ clock' - Window = clock + 1 - Window
      BY <1>1 DEF all
    <3> QED BY <2>4, <3>1 DEF Holds
  <2> QED BY <2>6, <2>7 DEF all
<1>4. ASSUME NEW j \in Keys PROVE OneAtATime(admitted[j])'
  BY <1>1 DEF IInv, OneAtATime
<1> QED BY <1>2, <1>3, <1>4 DEF IInv, BucketsSound

LEMMA StampStep ==
    ASSUME IInv, NEW h \in Handlers, NEW k \in Keys, Stamp(h, k)
    PROVE  IInv'
<1>1. /\ call' = [call EXCEPT ![h] = [key |-> k, now |-> clock]]
      /\ UNCHANGED <<clock, hits, admitted>>
  BY DEF Stamp
<1>2. TypeOK'
  <2>1. call' \in [Handlers -> Call]
    BY <1>1 DEF IInv, TypeOK, Call
  <2>2. ASSUME NEW g \in Handlers PROVE call'[g].now <= clock'
    <3>1. clock \in Nat /\ call[g].now <= clock
      BY DEF IInv, TypeOK
    <3>2. call'[g] = IF g = h THEN [key |-> k, now |-> clock] ELSE call[g]
      BY <1>1 DEF IInv, TypeOK
    <3>3. clock <= clock
      BY <3>1, SMT
    <3> QED BY <1>1, <3>1, <3>2, <3>3
  <2> QED BY <1>1, <2>1, <2>2 DEF IInv, TypeOK
<1>3. BucketsSound'
  BY <1>1 DEF IInv, BucketsSound, Holds, InOrder
<1>4. ASSUME NEW j \in Keys PROVE OneAtATime(admitted[j])'
  <2>1. OneAtATime(admitted[j]) /\ InOrder(admitted[j])
    BY DEF IInv, BucketsSound
  <2>2. \A g \in Handlers : call'[g] = IF g = h THEN [key |-> k, now |-> clock] ELSE call[g]
    BY <1>1 DEF IInv, TypeOK
  <2>3. \A i \in DOMAIN admitted[j] :
           admitted[j][i].by \in Handlers /\ admitted[j][i].at <= clock
    BY <2>1, AdmittedTyped DEF InOrder
  <2> QED BY <1>1, <2>1, <2>2, <2>3 DEF OneAtATime
<1> QED BY <1>2, <1>3, <1>4 DEF IInv

LEMMA StartsSound == Init => IInv
<1> SUFFICES ASSUME Init PROVE IInv
  OBVIOUS
<1>1. /\ clock = 0 /\ hits = [k \in Keys |-> <<>>] /\ admitted = [k \in Keys |-> <<>>]
      /\ call = [h \in Handlers |-> NoCall]
  BY DEF Init
<1>2. TypeOK
  BY <1>1, SMT DEF TypeOK, Call, NoCall
<1>3. BucketsSound
  <2>1. Len(<<>>) = 0 /\ DOMAIN <<>> = {} /\ 0 <= Limit /\ 1 .. 0 - 0 = {} /\ 0 - 0 >= 0
    BY SMT
  <2> QED BY <1>1, <2>1 DEF BucketsSound, Holds, InOrder
<1>4. \A k \in Keys : OneAtATime(admitted[k])
  <2>1. DOMAIN <<>> = {}
    BY SMT
  <2> QED BY <1>1, <2>1 DEF OneAtATime
<1> QED BY <1>2, <1>3, <1>4 DEF IInv

LEMMA StepKeepsSound == IInv /\ [Next]_vars => IInv'
<1> SUFFICES ASSUME IInv, [Next]_vars PROVE IInv'
  OBVIOUS
<1>1. CASE TimePasses
  BY <1>1, TimeStep
<1>2. ASSUME NEW h \in Handlers, Decide(h) PROVE IInv'
  BY <1>2, RefuseStep, AdmitStep DEF Decide
<1>3. ASSUME NEW h \in Handlers, NEW k \in Keys, Stamp(h, k) PROVE IInv'
  BY <1>3, StampStep
<1>4. CASE UNCHANGED vars
  BY <1>4 DEF vars, IInv, TypeOK, BucketsSound, Holds, InOrder, OneAtATime
<1> QED BY <1>1, <1>2, <1>3, <1>4 DEF Next

\* The invariant behind the properties: a bucket holds the stamps of the last requests
\* admitted, those it no longer holds are stamped before the window, and each handler stamps
\* a request after it is done with the one before (allow()).
THEOREM LimiterInvariant == Spec => []IInv
BY StartsSound, StepKeepsSound, PTL DEF Spec

\* In a window, counted by the time they are let through, the requests of a client are no
\* more than the limit and one for every handler, whatever order their stamps arrive in
\* (allow()).
THEOREM OverrunAlwaysBounded == Spec => []OverrunBounded
<1>1. IInv => OverrunBounded
  <2> SUFFICES ASSUME IInv, NEW k \in Keys
               PROVE  Cardinality({i \in DOMAIN admitted[k] :
                                      admitted[k][i].at > clock - Window})
                          <= Limit + Cardinality(Handlers)
    BY DEF OverrunBounded
  <2>1. /\ hits[k] \in Seq(Nat) /\ admitted[k] \in Seq(Request) /\ clock \in Nat
        /\ Holds(hits[k], admitted[k], clock - Window) /\ OneAtATime(admitted[k])
    BY DEF IInv, TypeOK, BucketsSound
  <2>2. clock - Window \in Int
    BY <2>1, SMT
  <2> QED BY <2>1, <2>2, AdmittedCount
<1> QED BY <1>1, LimiterInvariant, PTL

\* A request is refused only when as many as the limit were admitted since a window
\* before it was stamped (allow()).
THEOREM RefusalsJustified == Spec => RefusedOnlyWhenBusy
<1> DEFINE Justified ==
        \A h \in Handlers :
           call[h] # NoCall /\ call'[h] = NoCall /\ UNCHANGED admitted =>
              LET k == call[h].key
              IN  Cardinality({i \in DOMAIN admitted[k] :
                                  admitted[k][i].at > call[h].now - Window}) >= Limit
<1>1. IInv /\ [Next]_vars => Justified
  <2> SUFFICES ASSUME IInv, [Next]_vars, NEW h \in Handlers,
                      call[h] # NoCall, call'[h] = NoCall, UNCHANGED admitted
               PROVE  Cardinality({i \in DOMAIN admitted[call[h].key] :
                                      admitted[call[h].key][i].at > call[h].now - Window}) >= Limit
    OBVIOUS
  <2> DEFINE k == call[h].key
             c == call[h].now - Window
  <2>1. ASSUME NEW n \in 0 .. Len(hits[k]), Refuse(h, n)
        PROVE  Cardinality({i \in DOMAIN admitted[k] : admitted[k][i].at > c}) >= Limit
    <3>1. Expired(hits[k], c, n) /\ Full(Evict(hits[k], n))
      BY <2>1 DEF Refuse
    <3>2. /\ call[h].now \in Nat /\ admitted[k] \in Seq(Request)
          /\ Evict(hits[k], n) \in Seq(Nat) /\ InOrder(admitted[k])
          /\ Holds(Evict(hits[k], n), admitted[k], clock - Window)
          /\ Len(Evict(hits[k], n)) > 0 => Evict(hits[k], n)[1] > c
      BY <3>1, DecideFacts
    <3>3. clock \in Nat
      BY DEF IInv, TypeOK
    <3>4. c \in Int /\ clock - Window \in Int
      BY <3>2, <3>3, SMT
    <3>5. Len(Evict(hits[k], n)) > 0
      BY <3>1, <3>2, SMT DEF Full
    <3> HIDE DEF c, k
    <3> QED BY <3>1, <3>2, <3>4, <3>5, BusyCount
  <2>2. PICK g \in Handlers : call'[g] # call[g] /\ (Decide(g) \/ \E j \in Keys : Stamp(g, j))
                              /\ \A f \in Handlers \ {g} : call'[f] = call[f]
    <3>1. call'[h] # call[h]
      OBVIOUS
    <3>2. ~TimePasses /\ ~UNCHANGED vars
      BY <3>1 DEF TimePasses, vars
    <3>3. PICK g \in Handlers : Decide(g) \/ \E j \in Keys : Stamp(g, j)
      BY <3>2 DEF Next
    <3>4. \A f \in Handlers \ {g} : call'[f] = call[f]
      BY <3>3 DEF Decide, Refuse, Admit, Stamp, IInv, TypeOK
    <3> QED BY <3>1, <3>3, <3>4
  <2>3. g = h
    BY <2>2
  <2>4. ASSUME NEW j \in Keys, Stamp(h, j) PROVE FALSE
    BY <2>4 DEF Stamp
  <2>5. ASSUME NEW n \in 0 .. Len(hits[k]), Admit(h, n) PROVE FALSE
    <3> DEFINE r == [stamp |-> call[h].now, at |-> clock, by |-> h]
    <3>1. k \in Keys /\ admitted[k] \in Seq(Request)
      BY DEF IInv, TypeOK, Call
    <3>2. admitted'[k] = Append(admitted[k], r)
      BY <2>5, <3>1 DEF Admit, IInv, TypeOK
    <3>3. r \in Request
      BY DEF IInv, TypeOK, Call, NoCall, Request
    <3> HIDE DEF r, k
    <3>4. Len(Append(admitted[k], r)) = Len(admitted[k]) + 1 /\ Len(admitted[k]) \in Nat
      BY <3>1, <3>3, AppendProperties
    <3>5. Len(admitted[k]) + 1 # Len(admitted[k])
      BY <3>4, SMT
    <3> QED BY <3>2, <3>4, <3>5
  <2> QED BY <2>1, <2>2, <2>3, <2>4, <2>5 DEF Decide
<1>2. IInv /\ [Next]_vars => [Justified]_vars
  BY <1>1
<1> QED BY <1>2, LimiterInvariant, PTL DEF Spec, RefusedOnlyWhenBusy
=============================================================================
