---------------------------- MODULE RateLimiter -----------------------------
(***************************************************************************)
(* The SlidingWindowRateLimiter (main.py) in front of every mutating HTTP  *)
(* request and socket command: allow() reads time.monotonic() before it    *)
(* takes the lock, so stamps enter a bucket late and out of order, and     *)
(* only those at its head are ever evicted.  A request is counted by its   *)
(* stamp, and that may be older than the moment it is let through.         *)
(***************************************************************************)
EXTENDS Integers, Sequences, FiniteSets

CONSTANTS
    Keys,     \* a scope ("http" or "socket") and the address of a client
    Handlers, \* threads that serve requests and socket events at the same time
    Limit,    \* GENSIM_HTTP_RATE_LIMIT; 0 disables the limiter
    Window,   \* GENSIM_HTTP_RATE_WINDOW, at least 1
    MaxTime,  \* bound: the clock
    MaxCalls, \* bound: calls of allow()
    None

ASSUME LimiterAssumption ==
    /\ Limit \in Nat \ {0} /\ Window \in Nat \ {0}
    /\ {MaxTime, MaxCalls} \subseteq Nat
    /\ IsFiniteSet(Handlers)

VARIABLES
    clock,    \* time.monotonic()
    hits,     \* [Keys -> the bucket: stamps of requests admitted]
    call,     \* [Handlers -> the call in progress: its key and its now]
    calls,    \* number of calls so far
    \* history
    admitted  \* [Keys -> the requests admitted: their stamp, when and by whom they were admitted]

vars == <<clock, hits, call, calls, admitted>>

NoCall == [key |-> None, now |-> 0]
Call == [key : Keys, now : Nat] \cup {NoCall}
Request == [stamp : Nat, at : Nat, by : Handlers]

Init ==
    /\ clock = 0 /\ calls = 0
    /\ hits = [k \in Keys |-> <<>>]
    /\ call = [h \in Handlers |-> NoCall]
    /\ admitted = [k \in Keys |-> <<>>]

TimePasses ==
    /\ clock < MaxTime /\ clock' = clock + 1
    /\ UNCHANGED <<hits, call, calls, admitted>>

\* allow() up to the lock.
Stamp(h, k) ==
    /\ call[h] = NoCall /\ calls < MaxCalls
    /\ call' = [call EXCEPT ![h] = [key |-> k, now |-> clock]]
    /\ calls' = calls + 1
    /\ UNCHANGED <<clock, hits, admitted>>

\* Mutant: a stamp at the cutoff itself is kept.
Expired_Later(bucket, cutoff, n) ==
    /\ \A i \in 1 .. n : bucket[i] < cutoff
    /\ n < Len(bucket) => bucket[n + 1] >= cutoff

\* The first n stamps of a bucket are not after the cutoff, and the next one is.
Expired(bucket, cutoff, n) ==
    /\ \A i \in 1 .. n : bucket[i] <= cutoff
    /\ n < Len(bucket) => bucket[n + 1] > cutoff

Evict(bucket, n) == SubSeq(bucket, n + 1, Len(bucket))

\* Mutant: the limit is off by one.
Full_OffByOne(bucket) == Len(bucket) > Limit

Full(bucket) == Len(bucket) >= Limit

\* The critical section of allow(), with n stamps to evict.
Refuse(h, n) ==
    LET k == call[h].key
        bucket == Evict(hits[k], n)
    IN  /\ Expired(hits[k], call[h].now - Window, n) /\ Full(bucket)
        /\ hits' = [hits EXCEPT ![k] = bucket]
        /\ call' = [call EXCEPT ![h] = NoCall]
        /\ UNCHANGED <<clock, calls, admitted>>

Admit(h, n) ==
    LET k == call[h].key
        bucket == Evict(hits[k], n)
    IN  /\ Expired(hits[k], call[h].now - Window, n) /\ ~Full(bucket)
        /\ hits' = [hits EXCEPT ![k] = Append(bucket, call[h].now)]
        /\ admitted' = [admitted EXCEPT ![k] =
                           Append(@, [stamp |-> call[h].now, at |-> clock, by |-> h])]
        /\ call' = [call EXCEPT ![h] = NoCall]
        /\ UNCHANGED <<clock, calls>>

Decide(h) ==
    /\ call[h] # NoCall
    /\ \E n \in 0 .. Len(hits[call[h].key]) : Refuse(h, n) \/ Admit(h, n)

Next ==
    \/ TimePasses
    \/ \E h \in Handlers : Decide(h) \/ \E k \in Keys : Stamp(h, k)

Spec == Init /\ [][Next]_vars

(* ------------------------------ properties ------------------------------ *)

\* Every variable has the type the code gives it, and a stamp is not of the future.
TypeOK ==
    /\ clock \in Nat /\ hits \in [Keys -> Seq(Nat)] /\ admitted \in [Keys -> Seq(Request)]
    /\ call \in [Handlers -> Call] /\ \A h \in Handlers : call[h].now <= clock

\* A bucket holds the stamps of the last requests that were admitted, in the order in
\* which they were; of those it no longer holds the window is over.
Holds(bucket, all, cutoff) ==
    LET gone == Len(all) - Len(bucket)
    IN  /\ gone >= 0 /\ Len(bucket) <= Limit
        /\ \A i \in DOMAIN bucket : bucket[i] = all[gone + i].stamp
        /\ \A i \in 1 .. gone : all[i].stamp <= cutoff

\* Requests are admitted one after the other, none before it was stamped.
InOrder(all) ==
    /\ \A i \in DOMAIN all : all[i].stamp <= all[i].at /\ all[i].at <= clock
    /\ \A i, j \in DOMAIN all : i <= j => all[i].at <= all[j].at

BucketsSound ==
    \A k \in Keys : Holds(hits[k], admitted[k], clock - Window) /\ InOrder(admitted[k])

\* A handler stamps a request after it is done with the one before.
OneAtATime(all) ==
    /\ \A i, j \in DOMAIN all : i < j /\ all[i].by = all[j].by => all[i].at <= all[j].stamp
    /\ \A i \in DOMAIN all :
          call[all[i].by] # NoCall => all[i].at <= call[all[i].by].now

IInv == TypeOK /\ BucketsSound /\ \A k \in Keys : OneAtATime(admitted[k])

\* By the time of their admission, the requests of a key in a window exceed the limit, but by
\* one for every handler at most: a request stamped before the window began and let through
\* in it is counted in none of its buckets, and a handler can have only one such.  (The
\* window is the one that ends now, so every window was one of these at its end.)
OverrunBounded ==
    \A k \in Keys :
        Cardinality({i \in DOMAIN admitted[k] : admitted[k][i].at > clock - Window})
            <= Limit + Cardinality(Handlers)

\* Nobody is refused on account of old requests: when one is, as many as the limit have
\* been admitted since a window before its stamp.  (They need not have stamps of that
\* window: a late one behind the head of the bucket still counts.)
RefusedOnlyWhenBusy ==
    [][\A h \in Handlers :
          call[h] # NoCall /\ call'[h] = NoCall /\ UNCHANGED admitted =>
             LET k == call[h].key
             IN  Cardinality({i \in DOMAIN admitted[k] :
                                 admitted[k][i].at > call[h].now - Window}) >= Limit]_vars
=============================================================================
