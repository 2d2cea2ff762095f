-------------------------- MODULE ReadThroughProofs --------------------------
(***************************************************************************)
(* Proofs about ReadThrough, for any number of requests, polls and lapses. *)
(***************************************************************************)
EXTENDS ReadThrough, FiniteSetTheorems, TLAPS

USE CacheAssumption

\* The argument for LoadersBounded: of the requests inside, those that do not
\* own the lock are no more than the locks that ever lapsed.
Intruders == Inside \ {lock}
FewIntruders == Cardinality(Intruders) <= lapses

\* Who existed when the request began exists, and what is stored exists.
RowSeen ==
    \A p \in Requests :
        /\ existed[p] => row
        /\ step[p] \in {"store", "fallback_store"} => row

TypeInv == CacheTypeOK /\ RowSeen

LEMMA InsideFinite == IsFiniteSet(Inside) /\ IsFiniteSet(Intruders)
                        /\ Cardinality(Inside) \in Nat /\ Cardinality(Intruders) \in Nat
<1>1. Inside \subseteq Requests /\ Intruders \subseteq Requests
    BY DEF Inside, Intruders
<1>2. QED
    BY <1>1, FS_Subset, FS_CardinalityType

LEMMA Smaller ==
    ASSUME NEW S, NEW T, IsFiniteSet(T), S \subseteq T
    PROVE  Cardinality(S) <= Cardinality(T) /\ Cardinality(S) \in Nat
BY FS_Subset, FS_CardinalityType

LEMMA OneMore ==
    ASSUME NEW S, NEW T, NEW x, IsFiniteSet(T), S \subseteq T \union {x}
    PROVE  Cardinality(S) <= Cardinality(T) + 1 /\ Cardinality(S) \in Nat
<1>1. IsFiniteSet(T \union {x})
    BY FS_AddElement
<1>2. Cardinality(T) \in Nat
    BY FS_CardinalityType
<1>3. Cardinality(T \union {x}) = Cardinality(T)
        \/ Cardinality(T \union {x}) = Cardinality(T) + 1
    BY FS_AddElement
<1>4. Cardinality(S) <= Cardinality(T \union {x}) /\ Cardinality(S) \in Nat
    BY <1>1, Smaller
<1>5. QED
    BY <1>2, <1>3, <1>4

\* Trading one intruder for another: the releaser leaves, and the request whose
\* lock it deleted takes its place.
LEMMA OneForOne ==
    ASSUME NEW S, NEW T, NEW x, NEW y, IsFiniteSet(T), y \in T,
           S \subseteq (T \ {y}) \union {x}
    PROVE  Cardinality(S) <= Cardinality(T) /\ Cardinality(S) \in Nat
<1>1. IsFiniteSet(T \ {y}) /\ Cardinality(T \ {y}) = Cardinality(T) - 1
    BY FS_RemoveElement
<1>2. Cardinality(S) <= Cardinality(T \ {y}) + 1 /\ Cardinality(S) \in Nat
    BY <1>1, OneMore
<1>3. QED
    BY <1>1, <1>2, FS_CardinalityType

-----------------------------------------------------------------------------
LEMMA TypeInit == CacheInit => TypeInv /\ ExistingIsFound
<1> SUFFICES ASSUME CacheInit PROVE TypeInv /\ ExistingIsFound
    OBVIOUS
<1>1. CacheTypeOK
    <2>1. /\ row \in BOOLEAN /\ cached \in BOOLEAN /\ (cached => row)
          /\ existed \in [Requests -> BOOLEAN]
        BY DEF CacheInit
    <2>2. lock \in Requests \union {NoOwner}
        BY DEF CacheInit
    <2>3. step \in [Requests -> {"idle", "lock", "load", "store", "unlock", "poll",
                                "fallback", "fallback_store"}]
        BY DEF CacheInit
    <2>4. polls \in [Requests -> 0..MaxRetries] /\ lapses \in 0..MaxLapses
        BY DEF CacheInit
    <2>5. answer \in [Requests -> {"open", "row", "none", "error"}]
        BY DEF CacheInit
    <2>6. QED
        BY <2>1, <2>2, <2>3, <2>4, <2>5 DEF CacheTypeOK
<1>2. RowSeen
    BY DEF CacheInit, RowSeen
<1>3. ExistingIsFound
    BY DEF CacheInit, ExistingIsFound
<1>4. QED
    BY <1>1, <1>2, <1>3 DEF TypeInv

LEMMA TypeStep == TypeInv /\ ExistingIsFound /\ [CacheNext]_cacheVars
                    => TypeInv' /\ ExistingIsFound'
<1> SUFFICES ASSUME TypeInv, ExistingIsFound, [CacheNext]_cacheVars
             PROVE  TypeInv' /\ ExistingIsFound'
    OBVIOUS
<1> DEFINE Good == TypeInv /\ ExistingIsFound
<1> USE DEF TypeInv, CacheTypeOK, RowSeen, ExistingIsFound
<1>1. ASSUME NEW p \in Requests, Get(p) PROVE Good'
    BY <1>1 DEF Get, Goto, Return
<1>2. ASSUME NEW p \in Requests, SetLock(p) PROVE Good'
    BY <1>2 DEF SetLock, Goto
<1>3. ASSUME NEW p \in Requests, Load(p) PROVE Good'
    BY <1>3 DEF Load, Goto
<1>4. ASSUME NEW p \in Requests, Store(p) PROVE Good'
    BY <1>4 DEF Store, Goto
<1>5. ASSUME NEW p \in Requests, LoadFails(p) PROVE Good'
    BY <1>5 DEF LoadFails, Goto
<1>6. ASSUME NEW p \in Requests, Unlock(p) PROVE Good'
    BY <1>6 DEF Unlock, Goto, Return
<1>7. ASSUME NEW p \in Requests, Poll(p) PROVE Good'
    BY <1>7 DEF Poll, Goto, Return
<1>8. ASSUME NEW p \in Requests, Fallback(p) PROVE Good'
    BY <1>8 DEF Fallback, Goto, Return
<1>9. ASSUME NEW p \in Requests, FallbackStore(p) PROVE Good'
    BY <1>9 DEF FallbackStore, Goto, Return
<1>10. ASSUME NEW p \in Requests, Crash(p) PROVE Good'
    BY <1>10 DEF Crash, Goto, Return
<1>11. ASSUME Register PROVE Good'
    BY <1>11 DEF Register
<1>12. ASSUME DropKey PROVE Good'
    BY <1>12 DEF DropKey
<1>13. ASSUME LockExpires PROVE Good'
    BY <1>13 DEF LockExpires
<1>14. ASSUME UNCHANGED cacheVars PROVE Good'
    BY <1>14 DEF cacheVars
<1>15. QED
    BY <1>1, <1>2, <1>3, <1>4, <1>5, <1>6, <1>7, <1>8, <1>9, <1>10, <1>11, <1>12,
       <1>13, <1>14 DEF CacheNext, RequestStep

-----------------------------------------------------------------------------
LEMMA IntrudersInit == CacheInit => FewIntruders
<1> SUFFICES ASSUME CacheInit PROVE FewIntruders
    OBVIOUS
<1>1. Intruders = {} /\ lapses = 0
    BY DEF CacheInit, Intruders, Inside
<1>2. QED
    BY <1>1, FS_EmptySet DEF FewIntruders

\* Steps that let nobody in and leave the lock and the lapses alone.
LEMMA NobodyEnters ==
    ASSUME CacheTypeOK, FewIntruders, lock' = lock, lapses' = lapses,
           Inside' \subseteq Inside
    PROVE  FewIntruders'
<1>1. Intruders' \subseteq Intruders
    BY DEF Intruders
<1>2. Cardinality(Intruders') <= Cardinality(Intruders) /\ Cardinality(Intruders') \in Nat
    BY <1>1, InsideFinite, Smaller
<1>3. QED
    BY <1>2, InsideFinite DEF FewIntruders, CacheTypeOK

LEMMA IntrudersStep ==
    ASSUME CacheTypeOK, FewIntruders, [CacheNext]_cacheVars
    PROVE  FewIntruders'
<1>1. ASSUME NEW p \in Requests, Get(p) PROVE FewIntruders'
    <2>1. Inside' \subseteq Inside
        BY <1>1 DEF Get, Goto, Return, Inside, CacheTypeOK
    <2>2. QED
        BY <1>1, <2>1, NobodyEnters DEF Get
<1>2. ASSUME NEW p \in Requests, SetLock(p) PROVE FewIntruders'
    <2>1. CASE lock = NoOwner
        <3>1. Inside' \subseteq Inside \union {p} /\ lock' = p /\ lapses' = lapses
            BY <1>2, <2>1 DEF SetLock, Goto, Inside, CacheTypeOK
        <3>2. Intruders' \subseteq Intruders
            BY <2>1, <3>1 DEF Intruders, Inside
        <3>3. Cardinality(Intruders') <= Cardinality(Intruders)
                /\ Cardinality(Intruders') \in Nat
            BY <3>2, InsideFinite, Smaller
        <3>4. QED
            BY <3>1, <3>3, InsideFinite DEF FewIntruders, CacheTypeOK
    <2>2. CASE lock # NoOwner
        <3>1. Inside' \subseteq Inside
            BY <1>2, <2>2 DEF SetLock, Goto, Inside, CacheTypeOK
        <3>2. QED
            BY <1>2, <2>2, <3>1, NobodyEnters DEF SetLock
    <2>3. QED
        BY <2>1, <2>2
<1>3. ASSUME NEW p \in Requests, Load(p) PROVE FewIntruders'
    <2>1. Inside' \subseteq Inside
        BY <1>3 DEF Load, Goto, Inside, CacheTypeOK
    <2>2. QED
        BY <1>3, <2>1, NobodyEnters DEF Load
<1>4. ASSUME NEW p \in Requests, Store(p) PROVE FewIntruders'
    <2>1. Inside' \subseteq Inside
        BY <1>4 DEF Store, Goto, Inside, CacheTypeOK
    <2>2. QED
        BY <1>4, <2>1, NobodyEnters DEF Store
<1>5. ASSUME NEW p \in Requests, LoadFails(p) PROVE FewIntruders'
    <2>1. Inside' \subseteq Inside
        BY <1>5 DEF LoadFails, Goto, Inside, CacheTypeOK
    <2>2. QED
        BY <1>5, <2>1, NobodyEnters DEF LoadFails
<1>6. ASSUME NEW p \in Requests, Unlock(p) PROVE FewIntruders'
    <2>0. p \in Inside /\ Inside' = Inside \ {p} /\ lock' = NoOwner /\ lapses' = lapses
        BY <1>6 DEF Unlock, Goto, Return, Inside, CacheTypeOK
    <2>1. CASE lock = p
        <3>1. Intruders' \subseteq Intruders
            BY <2>0, <2>1 DEF Intruders
        <3>2. Cardinality(Intruders') <= Cardinality(Intruders)
                /\ Cardinality(Intruders') \in Nat
            BY <3>1, InsideFinite, Smaller
        <3>3. QED
            BY <2>0, <3>2, InsideFinite DEF FewIntruders, CacheTypeOK
    <2>2. CASE lock # p
        <3>1. p \in Intruders /\ Intruders' \subseteq (Intruders \ {p}) \union {lock}
            BY <2>0, <2>2 DEF Intruders
        <3>2. Cardinality(Intruders') <= Cardinality(Intruders)
                /\ Cardinality(Intruders') \in Nat
            BY <3>1, InsideFinite, OneForOne
        <3>3. QED
            BY <2>0, <3>2, InsideFinite DEF FewIntruders, CacheTypeOK
    <2>3. QED
        BY <2>1, <2>2
<1>7. ASSUME NEW p \in Requests, Poll(p) PROVE FewIntruders'
    <2>1. Inside' \subseteq Inside
        BY <1>7 DEF Poll, Goto, Return, Inside, CacheTypeOK
    <2>2. QED
        BY <1>7, <2>1, NobodyEnters DEF Poll
<1>8. ASSUME NEW p \in Requests, Fallback(p) PROVE FewIntruders'
    <2>1. Inside' \subseteq Inside
        BY <1>8 DEF Fallback, Goto, Return, Inside, CacheTypeOK
    <2>2. QED
        BY <1>8, <2>1, NobodyEnters DEF Fallback
<1>9. ASSUME NEW p \in Requests, FallbackStore(p) PROVE FewIntruders'
    <2>1. Inside' \subseteq Inside
        BY <1>9 DEF FallbackStore, Goto, Return, Inside, CacheTypeOK
    <2>2. QED
        BY <1>9, <2>1, NobodyEnters DEF FallbackStore
<1>10. ASSUME NEW p \in Requests, Crash(p) PROVE FewIntruders'
    <2>1. Inside' \subseteq Inside
        BY <1>10 DEF Crash, Goto, Return, Inside, CacheTypeOK
    <2>2. QED
        BY <1>10, <2>1, NobodyEnters DEF Crash
<1>11. ASSUME Register \/ DropKey \/ UNCHANGED cacheVars PROVE FewIntruders'
    <2>1. Inside' \subseteq Inside /\ lock' = lock /\ lapses' = lapses
        BY <1>11 DEF Register, DropKey, cacheVars, Inside
    <2>2. QED
        BY <2>1, NobodyEnters
<1>12. ASSUME LockExpires PROVE FewIntruders'
    <2>0. Inside' = Inside /\ lock' = NoOwner
        BY <1>12 DEF LockExpires, Inside
    <2>1. CASE lock \in Inside
        <3>1. Intruders' \subseteq Intruders \union {lock}
            BY <2>0 DEF Intruders
        <3>2. Cardinality(Intruders') <= Cardinality(Intruders) + 1
                /\ Cardinality(Intruders') \in Nat
            BY <3>1, InsideFinite, OneMore
        <3>3. QED
            BY <1>12, <2>1, <3>2, InsideFinite DEF LockExpires, FewIntruders, CacheTypeOK
    <2>2. CASE lock \notin Inside
        <3>1. Intruders' \subseteq Intruders
            BY <2>0, <2>2 DEF Intruders
        <3>2. Cardinality(Intruders') <= Cardinality(Intruders)
                /\ Cardinality(Intruders') \in Nat
            BY <3>1, InsideFinite, Smaller
        <3>3. QED
            BY <1>12, <2>2, <3>2, InsideFinite DEF LockExpires, FewIntruders, CacheTypeOK
    <2>3. QED
        BY <2>1, <2>2
<1>13. QED
    BY <1>1, <1>2, <1>3, <1>4, <1>5, <1>6, <1>7, <1>8, <1>9, <1>10, <1>11, <1>12
    DEF CacheNext, RequestStep

-----------------------------------------------------------------------------
CacheInv == TypeInv /\ ExistingIsFound /\ FewIntruders

LEMMA CacheInvariant == CacheSpec => []CacheInv
<1>1. CacheInit => CacheInv
    BY TypeInit, IntrudersInit DEF CacheInv
<1>2. CacheInv /\ [CacheNext]_cacheVars => CacheInv'
    BY TypeStep, IntrudersStep DEF CacheInv, TypeInv
<1>3. QED
    BY <1>1, <1>2, PTL DEF CacheSpec

\* The types of the cache, its lock and its readers; what is cached is a row.
THEOREM CacheTypeCorrect == CacheSpec => []CacheTypeOK
<1>1. CacheInv => CacheTypeOK
    BY DEF CacheInv, TypeInv
<1>2. QED
    BY <1>1, CacheInvariant, PTL

\* One loader at a time, and one more for each that outlived its lock, however
\* often a late loader deletes the lock of another.
THEOREM SingleFlight == CacheSpec => []LoadersBounded
<1>1. ASSUME CacheInv PROVE LoadersBounded
    <2>1. Inside \subseteq Intruders \union {lock}
        BY DEF Intruders
    <2>2. Cardinality(Inside) <= Cardinality(Intruders) + 1
        BY <2>1, InsideFinite, OneMore
    <2>3. QED
        BY <1>1, <2>2, InsideFinite
        DEF CacheInv, FewIntruders, LoadersBounded, TypeInv, CacheTypeOK
<1>2. QED
    BY <1>1, CacheInvariant, PTL

\* Nobody who existed when the view began is answered 404.
THEOREM ExistingUsersAreFound == CacheSpec => []ExistingIsFound
<1>1. CacheInv => ExistingIsFound
    BY DEF CacheInv
<1>2. QED
    BY <1>1, CacheInvariant, PTL
=============================================================================
