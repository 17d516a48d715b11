---------------------------- MODULE RateLimiter ----------------------------
(* The in-process sliding-window limiter of the login and callback routes:    *)
(* app/auth/rate_limit.py.  The routes' dependencies are plain functions, so   *)
(* calls of check() run in worker threads.  A thread reads the clock BEFORE    *)
(* it takes the lock, hence calls may enter the critical section in another    *)
(* order than that of their timestamps.                                        *)
EXTENDS Naturals, Sequences, FiniteSets, FiniteSetsExt, SequencesExt

CONSTANTS
    RlKeys,         \* client addresses
    RlThreads,      \* worker threads that run the dependency
    RlWindow,       \* seconds a timestamp counts (60 in the source)
    RlLimit,        \* calls admitted per window (15 and 10 in the source)
    RlCleanupEvery, \* calls between two sweeps (_CLEANUP_EVERY)
    RlMaxClock,     \* bound: the clock stops here
    RlMaxCalls      \* bound: number of calls of check()

ASSUME RlAssumption ==
    /\ RlWindow \in Nat \ {0} /\ RlLimit \in Nat \ {0}
    /\ RlCleanupEvery \in Nat \ {0}
    /\ RlMaxClock \in Nat /\ RlMaxCalls \in Nat

VARIABLES
    rlClock,    \* time.monotonic()
    rlCall,     \* the call each thread is in: <<key, now>>, or <<>> when idle
    rlBuckets,  \* _buckets; an absent key and an empty list are both <<>>
    rlCalls,    \* _calls_since_cleanup
    rlLog       \* history: one record per completed check()

rlVars == <<rlClock, rlCall, rlBuckets, rlCalls, rlLog>>

RlInit ==
    /\ rlClock = RlWindow
    /\ rlCall = [t \in RlThreads |-> <<>>]
    /\ rlBuckets = [k \in RlKeys |-> <<>>]
    /\ rlCalls = 0
    /\ rlLog = <<>>

-----------------------------------------------------------------------------
(* Fault: the sweep judges a bucket by its first timestamp.                    *)
RlEvictByHead(buckets, now) ==
    [k \in RlKeys |->
        IF buckets[k] # <<>> /\ Head(buckets[k]) + RlWindow <= now THEN <<>> ELSE buckets[k]]

(* _evict_stale: drops every bucket whose LAST timestamp left the window.      *)
RlEvictStale(buckets, now) ==
    [k \in RlKeys |->
        IF buckets[k] # <<>> /\ Last(buckets[k]) + RlWindow <= now THEN <<>> ELSE buckets[k]]

(* Fault: a timestamp exactly one window old is kept.                          *)
RlTrimLate(bucket, now) ==
    LET kept == SelectInSeq(bucket, LAMBDA s : s + RlWindow >= now)
    IN  IF kept = 0 THEN <<>> ELSE SubSeq(bucket, kept, Len(bucket))

(* The trimming loop: pops the head while the HEAD has left the window.        *)
RlTrim(bucket, now) ==
    LET kept == SelectInSeq(bucket, LAMBDA s : s + RlWindow > now)
    IN  IF kept = 0 THEN <<>> ELSE SubSeq(bucket, kept, Len(bucket))

RlTick ==
    /\ rlClock < RlMaxClock
    /\ rlClock' = rlClock + 1
    /\ UNCHANGED <<rlCall, rlBuckets, rlCalls, rlLog>>

(* now = time.monotonic(), before "with self._lock".                           *)
RlEnter(t, k) ==
    /\ rlCall[t] = <<>>
    /\ Len(rlLog) + Cardinality({u \in RlThreads : rlCall[u] # <<>>}) < RlMaxCalls
    /\ rlCall' = [rlCall EXCEPT ![t] = <<k, rlClock>>]
    /\ UNCHANGED <<rlClock, rlBuckets, rlCalls, rlLog>>

(* The critical section of check(): a periodic sweep, the trim, then either    *)
(* the 429 or the append.                                                      *)
RlCheck(t) ==
    /\ rlCall[t] # <<>>
    /\ LET key == rlCall[t][1]
           now == rlCall[t][2]
           sweep == rlCalls + 1 >= RlCleanupEvery
           swept == IF sweep THEN RlEvictStale(rlBuckets, now) ELSE rlBuckets
           bucket == RlTrim(swept[key], now)
           admit == Len(bucket) < RlLimit
       IN  /\ rlCalls' = IF sweep THEN 0 ELSE rlCalls + 1
           /\ rlBuckets' = [swept EXCEPT ![key] = IF admit THEN Append(bucket, now) ELSE bucket]
           /\ rlLog' = Append(rlLog, [key |-> key, at |-> now, ok |-> admit])
    /\ rlCall' = [rlCall EXCEPT ![t] = <<>>]
    /\ UNCHANGED rlClock

RlNext ==
    \/ RlTick
    \/ \E t \in RlThreads : RlCheck(t) \/ \E k \in RlKeys : RlEnter(t, k)

RlSpec == RlInit /\ [][RlNext]_rlVars

-----------------------------------------------------------------------------
(* The reference the history is compared with: the calls of the i-th caller's  *)
(* key that were admitted before it with a timestamp less than w seconds older.*)
RlAdmittedBefore(i, w) ==
    {j \in 1 .. i - 1 : /\ rlLog[j].key = rlLog[i].key
                        /\ rlLog[j].ok
                        /\ rlLog[j].at + w > rlLog[i].at}

(* The largest delay, in seconds, by which a call so far was overtaken: how    *)
(* much later than its own timestamp an earlier entry is stamped.              *)
RlDelay ==
    LET calls == DOMAIN rlLog
        overtaken == {p \in calls \X calls : p[1] < p[2] /\ rlLog[p[1]].at > rlLog[p[2]].at}
    IN  Max({0} \cup {rlLog[p[1]].at - rlLog[p[2]].at : p \in overtaken})

RlTypeOK ==
    /\ rlClock \in Nat
    /\ rlCall \in [RlThreads -> {<<>>} \cup (RlKeys \X Nat)]
    /\ rlBuckets \in [RlKeys -> Seq(Nat)]
    /\ rlCalls \in 0 .. RlCleanupEvery - 1
    /\ rlLog \in Seq([key : RlKeys, at : Nat, ok : BOOLEAN])

(* The limit survives the unlocked clock read, the trim and the sweep up to    *)
(* the disorder: when no call was overtaken by more than D seconds, an         *)
(* admitted call finds fewer than RlLimit admissions of its key in any window  *)
(* shortened by 2 * D (D = 0: in the whole window).                            *)
RlLimitHolds ==
    \A i \in DOMAIN rlLog :
        (rlLog[i].ok /\ 2 * RlDelay < RlWindow) =>
            Cardinality(RlAdmittedBefore(i, RlWindow - 2 * RlDelay)) < RlLimit

(* Nobody is refused for nothing: a refused call has at least RlLimit          *)
(* admissions of its own key in the window, lengthened by the disorder, so the *)
(* sweep and other clients never cost a client its budget.                     *)
RlRefusesOnlyAtLimit ==
    \A i \in DOMAIN rlLog :
        ~rlLog[i].ok => Cardinality(RlAdmittedBefore(i, RlWindow + RlDelay)) >= RlLimit
=============================================================================
