--------------------------- MODULE RateLimitProofs ---------------------------
(***************************************************************************)
(* Proofs about RateLimit, for any window, limit and skew of the clocks.   *)
(***************************************************************************)
EXTENDS RateLimit, FiniteSetTheorems, TLAPS

USE RateAssumption

\* What the members of the key say about the requests that were served: one
\* that counts is still a member, or older than any window it could be in.
Dated(S) ==
    \A q \in S : q.at <= time /\ q.score \in (q.at - Skew)..(q.at + Skew)

Remembered ==
    \A q \in served \ excused : q \in zset \/ q.at + Window - 2 * Skew <= time

Outlived == \A z \in zset : z.at + Window <= expireAt

\* A refused client was told when the oldest member leaves; if nobody came
\* since, either that member is still there or the key is not full.
Owed(z) == z.score + Window <= promise + (Second - 1) + Skew
PromiseKept ==
    promise <= MaxTime => Cardinality(zset) < Limit \/ \E z \in zset : Owed(z)

RateInv ==
    /\ RateTypeOK /\ IsFiniteSet(served)
    /\ Dated(zset) /\ Dated(served)
    /\ Remembered /\ Outlived /\ PromiseKept /\ WindowBound

LEMMA Smaller ==
    ASSUME NEW S, NEW T, IsFiniteSet(T), S \subseteq T
    PROVE  IsFiniteSet(S) /\ Cardinality(S) <= Cardinality(T)
            /\ Cardinality(S) \in Nat /\ Cardinality(T) \in Nat
            /\ (Cardinality(T) <= Cardinality(S) => S = T)
<1>1. IsFiniteSet(S) /\ Cardinality(S) <= Cardinality(T)
        /\ (Cardinality(S) = Cardinality(T) => S = T)
    BY FS_Subset
<1>2. Cardinality(S) \in Nat /\ Cardinality(T) \in Nat
    BY <1>1, FS_CardinalityType
<1>3. QED
    BY <1>1, <1>2

LEMMA OneMore ==
    ASSUME NEW S, NEW T, NEW x, IsFiniteSet(T), S \subseteq T \union {x}
    PROVE  IsFiniteSet(S) /\ Cardinality(S) \in Nat
            /\ Cardinality(S) <= Cardinality(T) + 1
<1>1. IsFiniteSet(T \union {x}) /\ Cardinality(T) \in Nat
        /\ (Cardinality(T \union {x}) = Cardinality(T)
             \/ Cardinality(T \union {x}) = Cardinality(T) + 1)
    BY FS_AddElement, FS_CardinalityType
<1>2. QED
    BY <1>1, Smaller

\* Whole seconds are less than a second short.
LEMMA RoundedDown ==
    ASSUME NEW ms \in Nat
    PROVE  /\ RetrySeconds(ms) \in Nat
           /\ RetrySeconds(ms) * Second \in Nat
           /\ ms <= RetrySeconds(ms) * Second + (Second - 1)
<1>1. ms \div Second \in Nat /\ ms % Second \in 0..(Second - 1)
        /\ ms = Second * (ms \div Second) + (ms % Second)
    OBVIOUS
<1>2. RetrySeconds(ms) \in Nat /\ RetrySeconds(ms) >= ms \div Second
    BY <1>1 DEF RetrySeconds
<1>3. \A m, n \in Nat : m >= n => m * Second >= n * Second /\ m * Second \in Nat
    OBVIOUS
<1> DEFINE d == ms \div Second
           told == RetrySeconds(ms) * Second
<1>4. told >= d * Second /\ told \in Nat
    BY <1>1, <1>2, <1>3
<1>5. d * Second = Second * d /\ d * Second \in Nat
    BY <1>1, <1>3
<1> HIDE DEF d, told
<1>6. ms <= told + (Second - 1)
    BY <1>1, <1>4, <1>5 DEF d
<1>7. QED
    BY <1>2, <1>4, <1>6 DEF told

\* What a call finds: its clock, and the members it keeps.
LEMMA CallFacts ==
    ASSUME RateInv, NEW now \in Nows
    PROVE  /\ now \in 0..(MaxTime + Skew) /\ now - Skew <= time /\ time <= now + Skew
           /\ Within(now) \subseteq zset /\ IsFiniteSet(Within(now))
           /\ Cardinality(Within(now)) \in Nat /\ Cardinality(zset) \in Nat
           /\ Cardinality(Within(now)) <= Cardinality(zset)
           /\ Cardinality(zset) <= Limit
           /\ Cardinality(Within(now)) >= Limit => Within(now) = zset
           /\ \A q \in served \ excused :
                q \in Within(now) \/ q.at + Window - 2 * Skew <= time
<1>1. now \in 0..(MaxTime + Skew) /\ now - Skew <= time /\ time <= now + Skew
    BY DEF Nows, RateInv, RateTypeOK
<1>2. Within(now) \subseteq zset /\ IsFiniteSet(zset) /\ Cardinality(zset) <= Limit
    BY DEF Within, RateInv, RateTypeOK
<1>3. IsFiniteSet(Within(now)) /\ Cardinality(Within(now)) \in Nat
        /\ Cardinality(zset) \in Nat /\ Cardinality(Within(now)) <= Cardinality(zset)
        /\ (Cardinality(zset) <= Cardinality(Within(now)) => Within(now) = zset)
    BY <1>2, Smaller
<1>4. Cardinality(Within(now)) >= Limit => Within(now) = zset
    BY <1>2, <1>3
<1>5. ASSUME NEW q \in served \ excused, q \notin Within(now)
      PROVE  q.at + Window - 2 * Skew <= time
    <2>1. q \in Entries /\ time \in Nat
        BY DEF RateInv, RateTypeOK
    <2>2. q.at \in Int /\ q.score \in Int
        BY <2>1 DEF Entries
    <2>3. CASE q \notin zset
        BY <2>3 DEF RateInv, Remembered
    <2>4. CASE q \in zset
        <3>1. q.score <= now - Window
            BY <2>4, <2>2, <1>1, <1>5 DEF Within
        <3>2. q.at - Skew <= q.score
            BY <2>2 DEF RateInv, Dated
        <3>3. QED
            BY <3>1, <3>2, <2>1, <2>2, <1>1
    <2>5. QED
        BY <2>3, <2>4
<1>6. QED
    BY <1>1, <1>2, <1>3, <1>4, <1>5

LEMMA NewEntry ==
    ASSUME RateInv, NEW now \in Nows, calls < MaxCalls
    PROVE  /\ Entry(now) \in Entries
           /\ Entry(now).at = time /\ Entry(now).score = now
           /\ Entry(now).score \in (time - Skew)..(time + Skew)
<1>1. now \in 0..(MaxTime + Skew) /\ now - Skew <= time /\ time <= now + Skew
    BY CallFacts
<1>2. time \in 0..MaxTime /\ calls + 1 \in 1..MaxCalls /\ time \in Nat
    BY DEF RateInv, RateTypeOK
<1>3. Entry(now) = [score |-> now, at |-> time, call |-> calls + 1]
    BY DEF Entry
<1>4. QED
    BY <1>1, <1>2, <1>3 DEF Entries

LEMMA InitInv == RateInit => RateInv
<1> SUFFICES ASSUME RateInit PROVE RateInv
    OBVIOUS
<1>1. IsFiniteSet({}) /\ Cardinality({}) = 0
    BY FS_EmptySet
<1>2. RateTypeOK
    BY <1>1 DEF RateInit, RateTypeOK, Never
<1>3. PromiseKept
    BY <1>1 DEF RateInit, PromiseKept
<1>4. IsFiniteSet(served) /\ Dated(zset) /\ Dated(served) /\ Remembered /\ Outlived
        /\ WindowBound
    BY <1>1 DEF RateInit, Dated, Remembered, Outlived, WindowBound
<1>5. QED
    BY <1>2, <1>3, <1>4 DEF RateInv

\* The requests that count in the window that begins with r.
Counted(r) == {q \in served \ excused : q.at \in r.at..(r.at + Window - 2 * Skew - 1)}

\* A window that reaches the present is bounded by the key.
LEMMA PresentWindow ==
    ASSUME RateInv, NEW r \in Entries, time <= r.at + Window - 2 * Skew - 1,
           NEW now \in Nows
    PROVE  Counted(r) \subseteq Within(now)
<1> SUFFICES ASSUME NEW q \in Counted(r) PROVE q \in Within(now)
    OBVIOUS
<1>1. q \in served \ excused /\ q.at \in r.at..(r.at + Window - 2 * Skew - 1)
    BY DEF Counted
<1>2. q \in Entries /\ time \in Nat
    BY <1>1 DEF RateInv, RateTypeOK
<1>3. q.at \in Int /\ r.at \in Int
    BY <1>2 DEF Entries
<1>4. q.at >= r.at
    BY <1>1, <1>3
<1>5. ~(q.at + Window - 2 * Skew <= time)
    BY <1>2, <1>3, <1>4
<1>6. QED
    BY <1>1, <1>5, CallFacts

LEMMA CountedFinite ==
    ASSUME RateInv, NEW r \in Entries
    PROVE  Counted(r) \subseteq served /\ IsFiniteSet(Counted(r))
BY Smaller DEF Counted, RateInv

LEMMA BoundOf == RateInv => \A r \in served : Cardinality(Counted(r)) <= Limit
BY DEF RateInv, WindowBound, Counted

LEMMA StepInv == RateInv /\ [RateNext]_rateVars => RateInv'
<1> SUFFICES ASSUME RateInv, [RateNext]_rateVars PROVE RateInv'
    OBVIOUS
<1> USE DEF RateInv
<1>1. ASSUME NEW now \in Nows, Admit(now) PROVE RateInv'
    <2> DEFINE e == Entry(now)
    <2>1. /\ calls < MaxCalls /\ calls' = calls + 1
          /\ Cardinality(Within(now)) < Limit
          /\ zset' = Within(now) \union {e} /\ expireAt' = time + Window
          /\ served' = served \union {e} /\ promise' = Never
          /\ time' = time /\ excused' = excused /\ faults' = faults
        BY <1>1 DEF Admit, Call, Record
    <2>2. e \in Entries /\ e.at = time /\ e.score \in (time - Skew)..(time + Skew)
        BY <2>1, NewEntry
    <2> HIDE DEF e
    <2>3. /\ Within(now) \subseteq zset /\ IsFiniteSet(Within(now))
          /\ Cardinality(Within(now)) \in Nat
          /\ \A q \in served \ excused :
                q \in Within(now) \/ q.at + Window - 2 * Skew <= time
        BY CallFacts
    <2>4. \A S \in SUBSET (Within(now) \union {e}) :
            IsFiniteSet(S) /\ Cardinality(S) <= Limit
        <3> SUFFICES ASSUME NEW S, S \subseteq Within(now) \union {e}
                     PROVE  IsFiniteSet(S) /\ Cardinality(S) <= Limit
            OBVIOUS
        <3>1. IsFiniteSet(S) /\ Cardinality(S) \in Nat
                /\ Cardinality(S) <= Cardinality(Within(now)) + 1
            BY <2>3, OneMore
        <3>2. QED
            BY <3>1, <2>1, <2>3
    <2>5. IsFiniteSet(served')
        BY <2>1, FS_AddElement
    <2>6. time \in Nat /\ promise' \in Nat /\ promise' > MaxTime
        BY <2>1 DEF RateTypeOK, Never
    <2>7. RateTypeOK'
        <3>1. (zset \subseteq Entries /\ served \subseteq Entries /\ excused \subseteq served)'
            BY <2>1, <2>2, <2>3 DEF RateTypeOK, Entries
        <3>2. (expireAt \in 0..(MaxTime + Window) /\ (zset # {} => expireAt > time))'
            BY <2>1, <2>6 DEF RateTypeOK
        <3>3. (time \in Window..MaxTime /\ calls \in 0..MaxCalls /\ faults \in 0..MaxFaults)'
            BY <2>1 DEF RateTypeOK
        <3>4. QED
            BY <3>1, <3>2, <3>3, <2>1, <2>4, <2>6 DEF RateTypeOK
    <2>8. Dated(zset)' /\ Dated(served)'
        BY <2>1, <2>2, <2>3, <2>6 DEF Dated
    <2>9. Remembered'
        BY <2>1, <2>3 DEF Remembered
    <2>10. Outlived'
        <3>1. \A z \in Within(now) : z.at <= time /\ z.at \in Int
            BY <2>3 DEF Dated, RateTypeOK, Entries
        <3>2. QED
            BY <2>1, <2>2, <2>6, <3>1 DEF Outlived
    <2>11. PromiseKept'
        BY <2>1, <2>6 DEF PromiseKept
    <2>12. WindowBound'
        <3> SUFFICES ASSUME NEW r \in served' PROVE Cardinality(Counted(r)') <= Limit
            BY DEF WindowBound, Counted
        <3>1. r \in Entries /\ r.at \in Int /\ Counted(r)' \subseteq Counted(r) \union {e}
            BY <2>1, <2>7 DEF Counted, RateTypeOK, Entries
        <3>2. CASE time <= r.at + Window - 2 * Skew - 1
            <4>1. Counted(r)' \subseteq Within(now) \union {e}
                BY <3>1, <3>2, PresentWindow
            <4>2. QED
                BY <4>1, <2>4
        <3>3. CASE ~(time <= r.at + Window - 2 * Skew - 1)
            <4>1. e \notin Counted(r)'
                BY <3>1, <3>3, <2>1, <2>2, <2>6 DEF Counted
            <4>2. Counted(r)' \subseteq Counted(r)
                BY <3>1, <4>1
            <4>3. CASE r \in served
                <5>1. Cardinality(Counted(r)) <= Limit
                    BY <4>3, BoundOf
                <5>2. QED
                    BY <3>1, <4>2, <5>1, CountedFinite, Smaller
            <4>4. CASE r = e
                <5>1. Counted(r)' = {}
                    BY <3>3, <4>4, <2>1, <2>2, <2>6 DEF Counted
                <5>2. QED
                    BY <5>1, FS_EmptySet
            <4>5. QED
                BY <2>1, <4>3, <4>4
        <3>4. QED
            BY <3>2, <3>3
    <2>13. QED
        BY <2>5, <2>7, <2>8, <2>9, <2>10, <2>11, <2>12
<1>2. ASSUME NEW now \in Nows, Refuse(now) PROVE RateInv'
    <2>1. /\ calls < MaxCalls /\ calls' = calls + 1
          /\ Cardinality(Within(now)) >= Limit /\ zset' = Within(now)
          /\ time' = time /\ expireAt' = expireAt /\ served' = served
          /\ excused' = excused /\ faults' = faults
        BY <1>2 DEF Refuse, Call
    <2>2. zset' = zset /\ Cardinality(zset) \in Nat /\ Cardinality(zset) >= Limit
        BY <2>1, CallFacts
    <2>3. PICK oldest \in Within(now) :
            promise' = Earlier(promise, time + RetrySeconds(RetryAfter(now, oldest)) * Second)
        BY <1>2 DEF Refuse
    <2>4. oldest \in zset /\ oldest.score \in Int /\ now \in Int /\ time \in Nat
            /\ now <= time + Skew /\ oldest.score > now - Window
        BY <2>1, <2>2, CallFacts DEF Within, RateTypeOK, Entries
    <2> DEFINE ms == RetryAfter(now, oldest)
               told == time + RetrySeconds(ms) * Second
    <2>5. ms \in Nat /\ ms = Window - (now - oldest.score)
        BY <2>4 DEF RetryAfter
    <2> HIDE DEF ms
    <2>6. told \in Nat /\ ms + time <= told + (Second - 1)
        BY <2>4, <2>5, RoundedDown
    <2>7. promise' = Earlier(promise, told)
        BY <2>3 DEF ms
    <2> HIDE DEF told
    <2>8. promise \in Nat /\ promise' \in Nat /\ (promise' = promise \/ promise' = told)
        BY <2>6, <2>7 DEF Earlier, RateTypeOK
    <2>9. oldest.score + Window <= told + (Second - 1) + Skew
        BY <2>4, <2>5, <2>6
    <2>10. PromiseKept'
        <3>1. CASE promise' = promise
            BY <3>1, <2>1, <2>2 DEF PromiseKept, Owed
        <3>2. CASE promise' = told
            BY <3>2, <2>2, <2>4, <2>9 DEF PromiseKept, Owed
        <3>3. QED
            BY <2>8, <3>1, <3>2
    <2>11. RateTypeOK'
        BY <2>1, <2>2, <2>8 DEF RateTypeOK, Entries
    <2>12. QED
        BY <2>1, <2>2, <2>10, <2>11
           DEF Dated, Remembered, Outlived, WindowBound
<1>3. ASSUME NEW now \in Nows, FailOpen(now) PROVE RateInv'
    <2> DEFINE e == Entry(now)
    <2>1. /\ calls < MaxCalls /\ calls' = calls + 1
          /\ faults < MaxFaults /\ faults' = faults + 1
          /\ zset' = zset \/ (Cardinality(Within(now)) >= Limit /\ zset' = Within(now))
          /\ served' = served \union {e} /\ excused' = excused \union {e}
          /\ time' = time /\ expireAt' = expireAt /\ promise' = promise
        BY <1>3 DEF FailOpen, Call, Fault
    <2>2. zset' = zset
        BY <2>1, CallFacts
    <2>3. e \in Entries /\ e.at = time /\ e.score \in (time - Skew)..(time + Skew)
        BY <2>1, NewEntry
    <2> HIDE DEF e
    <2>4. time \in Nat /\ IsFiniteSet(served')
        BY <2>1, FS_AddElement DEF RateTypeOK
    <2>5. RateTypeOK'
        <3>1. (served \subseteq Entries /\ excused \subseteq served)'
            BY <2>1, <2>3 DEF RateTypeOK, Entries
        <3>2. (calls \in 0..MaxCalls /\ faults \in 0..MaxFaults)'
            BY <2>1 DEF RateTypeOK
        <3>3. QED
            BY <3>1, <3>2, <2>1, <2>2 DEF RateTypeOK, Entries
    <2>6. Dated(zset)' /\ Dated(served)'
        BY <2>1, <2>2, <2>3, <2>4 DEF Dated
    <2>7. Remembered' /\ Outlived' /\ PromiseKept'
        BY <2>1, <2>2 DEF Remembered, Outlived, PromiseKept, Owed
    <2>8. WindowBound'
        <3> SUFFICES ASSUME NEW r \in served' PROVE Cardinality(Counted(r)') <= Limit
            BY DEF WindowBound, Counted
        <3>1. r \in Entries /\ r.at \in Int /\ Counted(r)' \subseteq Counted(r)
            BY <2>1, <2>5 DEF Counted, RateTypeOK, Entries
        <3>2. CASE r \in served
            <4>1. Cardinality(Counted(r)) <= Limit
                BY <3>2, BoundOf
            <4>2. QED
                BY <3>1, <4>1, CountedFinite, Smaller
        <3>3. CASE r = e /\ time <= r.at + Window - 2 * Skew - 1
            <4>1. Counted(r)' \subseteq Within(now)
                BY <3>1, <3>3, PresentWindow
            <4>2. IsFiniteSet(Within(now)) /\ Cardinality(Within(now)) \in Nat
                    /\ Cardinality(Within(now)) <= Limit
                BY CallFacts
            <4>3. QED
                BY <4>1, <4>2, Smaller
        <3>4. CASE r = e /\ ~(time <= r.at + Window - 2 * Skew - 1)
            <4>1. Counted(r)' = {}
                BY <3>1, <3>4, <2>3, <2>4 DEF Counted
            <4>2. QED
                BY <4>1, FS_EmptySet
        <3>5. QED
            BY <2>1, <3>2, <3>3, <3>4
    <2>9. QED
        BY <2>4, <2>5, <2>6, <2>7, <2>8
<1>4. ASSUME Tick PROVE RateInv'
    <2>1. /\ time < MaxTime /\ time' = time + 1
          /\ zset' = IF expireAt <= time' THEN {} ELSE zset
          /\ served' \subseteq served /\ excused' = excused \intersect served'
          /\ expireAt' = expireAt /\ calls' = calls /\ promise' = promise
          /\ faults' = faults
        BY <1>4 DEF Tick
    <2>2. time \in Nat /\ time' \in Nat /\ expireAt \in Nat
        BY <2>1 DEF RateTypeOK
    <2>3. zset' \subseteq zset /\ IsFiniteSet(zset') /\ Cardinality(zset') \in Nat
            /\ Cardinality(zset') <= Limit
            /\ (zset' = zset \/ Cardinality(zset') < Limit)
        <3>1. CASE zset' = {}
            BY <3>1, FS_EmptySet
        <3>2. CASE zset' = zset
            BY <3>2, FS_CardinalityType DEF RateTypeOK
        <3>3. QED
            BY <2>1, <3>1, <3>2
    <2>4. IsFiniteSet(served')
        BY <2>1, Smaller
    <2>5. RateTypeOK'
        <3>1. (zset # {} => expireAt > time)'
            BY <2>1, <2>2
        <3>2. (zset \subseteq Entries /\ served \subseteq Entries /\ excused \subseteq served)'
            BY <2>1, <2>3 DEF RateTypeOK, Entries
        <3>3. QED
            BY <3>1, <3>2, <2>1, <2>3 DEF RateTypeOK
    <2>6. \A q \in served \union zset : q.at \in Int /\ q.score \in Int
        BY DEF RateTypeOK, Entries
    <2>7. Dated(zset)' /\ Dated(served)'
        BY <2>1, <2>2, <2>3, <2>6 DEF Dated
    <2>8. Outlived'
        BY <2>1, <2>3 DEF Outlived
    <2>9. Remembered'
        <3> SUFFICES ASSUME NEW q \in served' \ excused', q \notin zset'
                     PROVE  q.at + Window - 2 * Skew <= time'
            BY DEF Remembered
        <3>1. q \in served \ excused /\ q.at \in Int
            BY <2>1, <2>6
        <3>2. CASE q \in zset
            <4>1. expireAt <= time' /\ q.at + Window <= expireAt
                BY <3>2, <2>1 DEF Outlived
            <4>2. QED
                BY <4>1, <3>1, <2>2
        <3>3. CASE q \notin zset
            BY <3>1, <3>3, <2>1, <2>2 DEF Remembered
        <3>4. QED
            BY <3>2, <3>3
    <2>10. PromiseKept'
        BY <2>1, <2>3 DEF PromiseKept, Owed
    <2>11. WindowBound'
        <3> SUFFICES ASSUME NEW r \in served' PROVE Cardinality(Counted(r)') <= Limit
            BY DEF WindowBound, Counted
        <3>1. r \in served /\ r \in Entries /\ Counted(r)' \subseteq Counted(r)
            BY <2>1 DEF Counted, RateTypeOK
        <3>2. Cardinality(Counted(r)) <= Limit
            BY <3>1, BoundOf
        <3>3. QED
            BY <3>1, <3>2, CountedFinite, Smaller
    <2>12. QED
        BY <2>4, <2>5, <2>7, <2>8, <2>9, <2>10, <2>11
<1>5. ASSUME EvictKey PROVE RateInv'
    <2>1. /\ zset' = {} /\ excused' = served /\ faults < MaxFaults /\ faults' = faults + 1
          /\ time' = time /\ expireAt' = expireAt /\ calls' = calls
          /\ served' = served /\ promise' = promise
        BY <1>5 DEF EvictKey, Fault
    <2>2. IsFiniteSet({}) /\ Cardinality({}) = 0
        BY FS_EmptySet
    <2>3. RateTypeOK'
        BY <2>1, <2>2 DEF RateTypeOK, Entries
    <2>4. PromiseKept'
        BY <2>1, <2>2 DEF PromiseKept
    <2>5. WindowBound'
        <3> SUFFICES ASSUME NEW r \in served' PROVE Cardinality(Counted(r)') <= Limit
            BY DEF WindowBound, Counted
        <3>1. Counted(r)' = {}
            BY <2>1 DEF Counted
        <3>2. QED
            BY <3>1, <2>2
    <2>6. QED
        BY <2>1, <2>3, <2>4, <2>5 DEF Dated, Remembered, Outlived
<1>6. CASE UNCHANGED rateVars
    BY <1>6 DEF rateVars, RateTypeOK, Entries, Dated, Remembered, Outlived, PromiseKept,
                Owed, WindowBound
<1>7. QED
    BY <1>1, <1>2, <1>3, <1>4, <1>5, <1>6 DEF RateNext

LEMMA InvAlways == RateSpec => []RateInv
BY InitInv, StepInv, PTL DEF RateSpec

\* Members of the key and requests keep their types, and the key never holds
\* more than the limit.
THEOREM RateTypeCorrect == RateSpec => []RateTypeOK
<1>1. RateInv => RateTypeOK
    BY DEF RateInv
<1>2. QED
    BY <1>1, InvAlways, PTL

\* A window, shortened by what two clocks may differ, sees no more requests
\* than the limit: for any window, limit, skew and number of requests.
THEOREM WindowIsBounded == RateSpec => []WindowBound
<1>1. RateInv => WindowBound
    BY DEF RateInv
<1>2. QED
    BY <1>1, InvAlways, PTL

\* Whoever waits as long as a 429 said, and a second and the skew more, is let
\* in if nobody came in between.
THEOREM RetriesAreHonest == RateSpec => []RetryHonest
<1>1. RateInv => RetryHonest
    <2> SUFFICES ASSUME RateInv, time >= promise + (Second - 1) + 2 * Skew,
                        NEW now \in Nows
                 PROVE  Cardinality(Within(now)) < Limit
        BY DEF RetryHonest
    <2>1. time \in Nat /\ time <= MaxTime /\ promise \in Nat /\ zset \subseteq Entries
        BY DEF RateInv, RateTypeOK
    <2>2. promise <= MaxTime
        BY <2>1
    <2>3. /\ now \in Int /\ time <= now + Skew /\ Within(now) \subseteq zset
          /\ Cardinality(Within(now)) \in Nat /\ Cardinality(zset) \in Nat
          /\ Cardinality(Within(now)) <= Cardinality(zset)
          /\ Cardinality(Within(now)) >= Limit => Within(now) = zset
        BY CallFacts
    <2>4. CASE Cardinality(zset) < Limit
        BY <2>3, <2>4
    <2>5. ASSUME NEW z \in zset, Owed(z) PROVE Cardinality(Within(now)) < Limit
        <3>1. z.score \in Int
            BY <2>1 DEF Entries
        <3>2. z \notin Within(now)
            BY <2>1, <2>3, <2>5, <3>1 DEF Within, Owed
        <3>3. QED
            BY <2>3, <3>2
    <2>6. QED
        BY <2>2, <2>4, <2>5 DEF RateInv, PromiseKept
<1>2. QED
    BY <1>1, InvAlways, PTL
=============================================================================
