------------------------------ MODULE RateLimit ------------------------------
(***************************************************************************)
(* The sliding-window limiter of redis_layer/rate_limiter.py on one key,   *)
(* called by RateLimitMiddleware for every request of one identity.        *)
(*                                                                         *)
(* The script runs at once, but its time is the caller's: `now` is read    *)
(* from the clock of an API process before the call is sent, while the key *)
(* expires by the clock of Redis, the time of this module.                 *)
(***************************************************************************)
EXTENDS Integers, FiniteSets

CONSTANTS
    Window,     \* window_seconds, in ticks
    Second,     \* ticks of a second (1000 in the code)
    Limit,      \* max_events
    Skew,       \* how far a caller's `now` may be off: its clock, and transit
    MaxTime,    \* bound
    MaxCalls,   \* bound: requests
    MaxFaults   \* bound: failed calls and evictions

ASSUME RateAssumption ==
    /\ Window \in Nat \ {0} /\ Second \in Nat \ {0} /\ Limit \in Nat \ {0}
    /\ Skew \in Nat /\ 2 * Skew <= Window
    /\ MaxTime \in Nat /\ Window <= MaxTime
    /\ MaxCalls \in Nat /\ MaxFaults \in Nat

VARIABLES
    time,       \* of Redis
    zset,       \* members of the sorted set
    expireAt,   \* when the key expires
    calls,      \* how many requests there were
    \* history
    served,     \* requests let through in the last Window
    excused,    \* those let through because the check failed, or whose key
                \* was evicted
    promise,    \* earliest time a refused client was told to retry at, if
                \* nobody was recorded since; else Never
    faults

rateVars == <<time, zset, expireAt, calls, served, excused, promise, faults>>

Never == MaxTime + 2 * Window

\* A request: the caller's clock, and as a history when and which it was.
Entry(now) == [score |-> now, at |-> time, call |-> calls + 1]

\* The clocks the script may be called with.
Nows == {time + d : d \in -Skew..Skew}

\* ZREMRANGEBYSCORE 0 .. now - window, seen from the members that stay.
Within(now) == {z \in zset : z.score > now - Window}

\* What if the difference were taken for the rest?
RetryAfterSwapped(now, oldest) == now - oldest.score

\* Milliseconds until the oldest member leaves the window.
RetryAfter(now, oldest) == Window - (now - oldest.score)

\* The middleware tells whole seconds, rounded down, and one at least.
RetrySeconds(ms) == IF ms \div Second > 1 THEN ms \div Second ELSE 1

Earlier(s, t) == IF s <= t THEN s ELSE t

-----------------------------------------------------------------------------
(* check, and dispatch around it *)

Call ==
    /\ calls < MaxCalls
    /\ calls' = calls + 1

Fault == faults < MaxFaults /\ faults' = faults + 1

\* ZADD and PEXPIRE; the request is served.
Record(now) ==
    /\ zset' = Within(now) \union {Entry(now)}
    /\ expireAt' = time + Window
    /\ served' = served \union {Entry(now)}
    /\ promise' = Never
    /\ UNCHANGED <<time, excused, faults>>

\* What if ZCARD were compared with >?
AdmitOneMore(now) ==
    /\ Call
    /\ Cardinality(Within(now)) <= Limit
    /\ Record(now)

\* What if the key lived for one window from its first member?
AdmitFixedWindow(now) ==
    /\ Call
    /\ Cardinality(zset) < Limit
    /\ zset' = zset \union {Entry(now)}
    /\ expireAt' = IF zset = {} THEN time + Window ELSE expireAt
    /\ served' = served \union {Entry(now)}
    /\ promise' = Never
    /\ UNCHANGED <<time, excused, faults>>

\* The script records the request and it is served, be its answer lost (the
\* middleware lets a request through when the check raises) or not.
Admit(now) ==
    /\ Call
    /\ Cardinality(Within(now)) < Limit
    /\ Record(now)

\* 429 with Retry-After.
Refuse(now) ==
    /\ Call
    /\ Cardinality(Within(now)) >= Limit
    /\ zset' = Within(now)
    /\ \E oldest \in Within(now) :
        /\ \A z \in Within(now) : oldest.score <= z.score
        /\ promise' = Earlier(promise,
                time + RetrySeconds(RetryAfter(now, oldest)) * Second)
    /\ UNCHANGED <<time, expireAt, served, excused, faults>>

\* The check raises a RedisError: before the script ran, or instead of the
\* refusal.  The request is served and not recorded.
FailOpen(now) ==
    /\ Call /\ Fault
    /\ \/ UNCHANGED zset
       \/ Cardinality(Within(now)) >= Limit /\ zset' = Within(now)
    /\ served' = served \union {Entry(now)}
    /\ excused' = excused \union {Entry(now)}
    /\ UNCHANGED <<time, expireAt, promise>>

-----------------------------------------------------------------------------
(* Redis *)

Tick ==
    /\ time < MaxTime
    /\ time' = time + 1
    /\ zset' = IF expireAt <= time' THEN {} ELSE zset
    /\ served' = {q \in served : q.at > time' - Window}
    /\ excused' = excused \intersect served'
    /\ UNCHANGED <<expireAt, calls, promise, faults>>

EvictKey ==
    /\ zset # {} /\ Fault
    /\ zset' = {}
    /\ excused' = served
    /\ UNCHANGED <<time, expireAt, calls, served, promise>>

-----------------------------------------------------------------------------
\* The first call may come at any time; clocks count from long before it.
RateInit ==
    /\ time = Window /\ zset = {} /\ expireAt = 0 /\ calls = 0
    /\ served = {} /\ excused = {} /\ promise = Never /\ faults = 0

RateNext ==
    \/ \E now \in Nows : Admit(now) \/ Refuse(now) \/ FailOpen(now)
    \/ Tick \/ EvictKey

RateSpec == RateInit /\ [][RateNext]_rateVars

-----------------------------------------------------------------------------
(* Properties *)

Entries == [score : 0..(MaxTime + Skew), at : 0..MaxTime, call : 1..MaxCalls]

RateTypeOK ==
    /\ time \in Window..MaxTime /\ calls \in 0..MaxCalls
    /\ zset \subseteq Entries /\ IsFiniteSet(zset) /\ Cardinality(zset) <= Limit
    /\ zset # {} => expireAt > time
    /\ expireAt \in 0..(MaxTime + Window)
    /\ served \subseteq Entries /\ excused \subseteq served
    /\ promise \in Nat
    /\ faults \in 0..MaxFaults

\* In any window, shortened by how far two clocks may differ, no more than
\* Limit requests are served, but for those the limiter failed open for and
\* those it forgot when its key was evicted.
WindowBound ==
    \A r \in served :
        Cardinality({q \in served \ excused :
                        q.at \in r.at..(r.at + Window - 2 * Skew - 1)}) <= Limit

\* A client that waits as long as its 429 said, and what the rounding down and
\* the clocks may take from it (less than a second, and twice the skew), is
\* let in, unless somebody of its identity came in meanwhile.
RetryHonest ==
    time >= promise + (Second - 1) + 2 * Skew =>
        \A now \in Nows : Cardinality(Within(now)) < Limit
=============================================================================
