--------------------------- MODULE FeedReadProofs ---------------------------
(***************************************************************************)
(* Proofs about FeedRead, for any posts, times, page size and evictions.   *)
(***************************************************************************)
EXTENDS FeedRead, FiniteSetTheorems, TLAPS

USE ReadAssumption

\* A whole page of the merged posts is no older than p.
Crowded(p) ==
    \E A \in SUBSET merged :
        /\ Cardinality(A) = PageSize
        /\ \A q \in A : TimeOf[q] >= TimeOf[p]

\* The merge has taken from source what the page may need of it.
Covered(source) ==
    \A p \in kept[source] : TimeOf[p] <= before => p \in merged \/ Crowded(p)

\* The rebuild starts from a feed that was empty.
Rebuild ==
    /\ Cardinality(selected) <= MaxSize
    /\ step \in {"select", "zadd"} => Cardinality(feed["global"]) <= MaxSize

\* Nothing is shown before the first page.
FirstPage == shown = {} /\ step \notin {"idle", "done"} => before = Latest

\* What is behind the cursor has been seen or scrolled past.
Behind ==
    \A p \in Steady : TimeOf[p] > before => p \in shown \union ScrolledPast

ReadInv ==
    /\ ReadTypeOK /\ Rebuild /\ FirstPage
    /\ step \in {"timeline", "exists", "select", "zadd", "global"} => Covered("home")
    /\ step \in {"exists", "select", "zadd", "global"} => Covered("timeline")
    /\ NothingSkipped /\ Behind /\ SeenToTheEnd

-----------------------------------------------------------------------------
(* Sets of posts *)

LEMMA PostSets ==
    ASSUME NEW S, S \subseteq Posts
    PROVE  IsFiniteSet(S) /\ Cardinality(S) \in Nat
BY FS_Subset, FS_CardinalityType

LEMMA Smaller ==
    ASSUME NEW T, T \subseteq Posts, NEW S, S \subseteq T
    PROVE  /\ Cardinality(S) <= Cardinality(T)
           /\ Cardinality(S) \in Nat /\ Cardinality(T) \in Nat
           /\ Cardinality(T) <= Cardinality(S) => S = T
<1>1. IsFiniteSet(T) /\ IsFiniteSet(S) /\ Cardinality(S) \in Nat /\ Cardinality(T) \in Nat
    BY PostSets
<1>2. Cardinality(S) <= Cardinality(T) /\ (Cardinality(S) = Cardinality(T) => S = T)
    BY <1>1, FS_Subset
<1>3. QED
    BY <1>1, <1>2

\* What LIMIT leaves out is older than all it returns, which is then as much
\* as was asked for.
LEMMA NewestTakes ==
    ASSUME NEW S, S \subseteq Posts, NEW n \in Nat, NEW T \in Newest(S, n)
    PROVE  /\ T \subseteq S /\ Cardinality(T) <= n
           /\ \A p \in S \ T :
                Cardinality(T) = n /\ \A q \in T : TimeOf[q] >= TimeOf[p]
<1>1. T \subseteq S /\ Cardinality(T) = (IF Cardinality(S) < n THEN Cardinality(S) ELSE n)
        /\ \A q \in T, r \in S \ T : TimeOf[q] >= TimeOf[r]
    BY DEF Newest
<1>2. Cardinality(S) \in Nat /\ (Cardinality(S) <= Cardinality(T) => T = S)
    BY <1>1, Smaller
<1>3. Cardinality(T) <= n
    BY <1>1, <1>2
<1>4. ASSUME NEW p \in S \ T PROVE Cardinality(T) = n
    BY <1>1, <1>2, <1>4
<1>5. QED
    BY <1>1, <1>3, <1>4

LEMMA Union2 ==
    ASSUME NEW S, S \subseteq Posts, NEW T, T \subseteq Posts,
           Cardinality(S) <= MaxSize, Cardinality(T) <= MaxSize
    PROVE  Cardinality(S \union T) <= 2 * MaxSize
<1>1. IsFiniteSet(S) /\ IsFiniteSet(T) /\ Cardinality(S) \in Nat /\ Cardinality(T) \in Nat
        /\ Cardinality(S \intersect T) \in Nat
    BY PostSets
<1>2. Cardinality(S \union T) = Cardinality(S) + Cardinality(T) - Cardinality(S \intersect T)
    BY <1>1, FS_Union
<1>3. QED
    BY <1>1, <1>2

LEMMA OneMore ==
    ASSUME NEW S, NEW x, IsFiniteSet(S)
    PROVE  /\ Cardinality(S \union {x}) <= Cardinality(S) + 1
           /\ Cardinality(S \union {x}) \in Nat /\ Cardinality(S) \in Nat
<1>1. Cardinality(S) \in Nat
    BY FS_CardinalityType
<1>2. Cardinality(S \union {x}) = IF x \in S THEN Cardinality(S) ELSE Cardinality(S) + 1
    BY FS_AddElement
<1>3. QED
    BY <1>1, <1>2

LEMMA Empty == Cardinality({}) = 0
BY FS_EmptySet

\* Pushes to the reader's home feed that have not trimmed it yet.
Fanning == {p \in Posts : stage[p] = "fanning_out"}

LEMMA FanningIsCounted == Cardinality(Fanning) \in Nat /\ Cardinality(Fanning') \in Nat
<1>1. Fanning \subseteq Posts /\ Fanning' \subseteq Posts
    BY DEF Fanning
<1>2. QED
    BY <1>1, PostSets

LEMMA TypeSets ==
    ASSUME ReadTypeOK
    PROVE  /\ rows \subseteq Posts /\ merged \subseteq Posts /\ selected \subseteq Posts
           /\ \A s \in Sources : feed[s] \subseteq Posts /\ kept[s] \subseteq feed[s]
           /\ Steady \subseteq Posts
           /\ before \in Int /\ \A p \in Posts : TimeOf[p] \in Nat
BY DEF ReadTypeOK, Steady

\* A rounded-down cursor goes back by less than two seconds, and lies before the
\* post it is taken from also when that post is the first of its second.
LEMMA CursorIsNear ==
    ASSUME NEW p \in Posts
    PROVE  /\ Cursor(p) \in (-Second)..Latest
           /\ TimeOf[p] < Cursor(p) + 2 * Second
           /\ Cursor(p) < TimeOf[p] /\ Cursor(p) \in Int
<1>1. TimeOf[p] \in Nat /\ TimeOf[p] < Latest
    OBVIOUS
<1> DEFINE d == TimeOf[p] \div Second
           m == d * Second
<1>2. d \in Nat /\ TimeOf[p] = Second * d + (TimeOf[p] % Second)
        /\ TimeOf[p] % Second \in 0..(Second - 1)
    BY <1>1
<1>3. \A i, j \in Nat : i * j \in Nat /\ i * j = j * i
    OBVIOUS
<1>4. m \in Nat /\ m = Second * d
    BY <1>2, <1>3
<1>5. Cursor(p) = m - Second
    BY DEF Cursor
<1> HIDE DEF d, m
<1>6. QED
    BY <1>1, <1>2, <1>4, <1>5

-----------------------------------------------------------------------------
(* Types *)

LEMMA TypeInit == ReadInit => ReadTypeOK /\ Rebuild
<1> SUFFICES ASSUME ReadInit PROVE ReadTypeOK /\ Rebuild
    OBVIOUS
<1>1. rows = {p \in Posts : stage[p] # "none"}
        /\ stage \in [Posts -> {"none", "row", "pushed", "fanning_out", "fanned_out"}]
    BY DEF ReadInit
<1>2. feed \in [Sources -> SUBSET rows] /\ kept \in [Sources -> SUBSET rows]
        /\ \A s \in Sources : kept[s] \subseteq feed[s]
    BY DEF ReadInit
<1>3. Cardinality(feed["home"]) = 0 /\ Cardinality(feed["timeline"]) = 0
        /\ Cardinality(feed["global"]) = 0 /\ Cardinality(selected) = 0
    BY Empty DEF ReadInit, Sources
<1>4. step = "idle" /\ before = Latest /\ merged = {} /\ selected = {} /\ shown = {}
        /\ ends = {} /\ evictions = 0
    BY DEF ReadInit
<1>5. before \in (-Second)..Latest /\ evictions \in 0..MaxEvictions
    BY <1>4
<1>6. failures \in 0..MaxFailures
    BY DEF ReadInit
<1>7. Cardinality(feed["home"]) <= MaxSize + Cardinality(Fanning)
    BY <1>3, FanningIsCounted
<1>8. QED
    BY <1>1, <1>2, <1>3, <1>4, <1>5, <1>6, <1>7 DEF ReadTypeOK, Rebuild, Fanning

\* What a change of the sets must keep to.
LEMMA BecomeType ==
    ASSUME ReadTypeOK, NEW f, Become(f), f \in [Sources -> SUBSET rows'],
           rows \subseteq rows'
    PROVE  /\ feed' = f /\ kept' \in [Sources -> SUBSET rows']
           /\ \A s \in Sources : kept'[s] \subseteq feed'[s] /\ kept'[s] \subseteq kept[s]
BY DEF Become, ReadTypeOK

LEMMA TypeStep == ReadTypeOK /\ Rebuild /\ [ReadNext]_readVars => ReadTypeOK' /\ Rebuild'
<1> SUFFICES ASSUME ReadTypeOK, Rebuild, [ReadNext]_readVars
             PROVE  ReadTypeOK' /\ Rebuild'
    OBVIOUS
<1>a. /\ rows \subseteq Posts /\ merged \subseteq Posts /\ selected \subseteq Posts
      /\ \A s \in Sources : feed[s] \subseteq Posts /\ kept[s] \subseteq feed[s]
    BY TypeSets
<1>b. \A n \in Nat, S \in SUBSET Posts : \A T \in Newest(S, n) :
        T \subseteq S /\ Cardinality(T) <= n
    BY NewestTakes
<1>c. "home" \in Sources /\ "timeline" \in Sources /\ "global" \in Sources
    BY DEF Sources
<1>1. ASSUME NEW p \in Posts, Commit(p) PROVE ReadTypeOK' /\ Rebuild'
    <2>1. /\ stage[p] = "none" /\ rows' = rows \union {p}
          /\ stage' = [stage EXCEPT ![p] = "row"]
          /\ feed' = feed /\ step' = step /\ before' = before /\ merged' = merged
          /\ selected' = selected /\ shown' = shown /\ ends' = ends /\ kept' = kept
          /\ UNCHANGED bounds
        BY <1>1 DEF Commit, reader
    <2>2. rows' = {q \in Posts : stage'[q] # "none"}
            /\ stage' \in [Posts -> {"none", "row", "pushed", "fanning_out", "fanned_out"}]
        BY <2>1 DEF ReadTypeOK
    <2>3. feed' \in [Sources -> SUBSET rows'] /\ kept' \in [Sources -> SUBSET rows']
        BY <2>1 DEF ReadTypeOK
    <2>4. Fanning' = Fanning
        BY <2>1 DEF Fanning, ReadTypeOK
    <2>5. QED
        BY <2>1, <2>2, <2>3, <2>4 DEF ReadTypeOK, Rebuild, Fanning, bounds
<1>2. ASSUME NEW p \in Posts, Push(p) PROVE ReadTypeOK' /\ Rebuild'
    <2>1. /\ stage[p] = "row" /\ stage' = [stage EXCEPT ![p] = "pushed"]
          /\ rows' = rows /\ step' = step /\ before' = before /\ merged' = merged
          /\ selected' = selected /\ shown' = shown /\ ends' = ends
          /\ UNCHANGED bounds
        BY <1>2 DEF Push, reader
    <2>2. PICK g \in Newest(feed["global"] \union {p}, MaxSize),
               t \in Newest(feed["timeline"] \union ({p} \intersect Celebrity), MaxSize) :
                 Become([feed EXCEPT !["global"] = g, !["timeline"] = t])
        BY <1>2 DEF Push
    <2> DEFINE f == [feed EXCEPT !["global"] = g, !["timeline"] = t]
    <2>3. p \in rows /\ g \subseteq rows /\ t \subseteq rows
            /\ Cardinality(g) <= MaxSize /\ Cardinality(t) <= MaxSize
        <3>1. p \in rows
            BY <2>1 DEF ReadTypeOK
        <3>2. feed["global"] \union {p} \in SUBSET rows
                /\ feed["timeline"] \union ({p} \intersect Celebrity) \in SUBSET rows
            BY <3>1, <1>c DEF ReadTypeOK
        <3>3. QED
            BY <3>1, <3>2, <1>a, <1>b
    <2>4. f \in [Sources -> SUBSET rows] /\ f["global"] = g /\ f["timeline"] = t
            /\ f["home"] = feed["home"]
        BY <2>3, <1>c DEF ReadTypeOK
    <2>5. feed' = f /\ kept' \in [Sources -> SUBSET rows]
            /\ \A s \in Sources : kept'[s] \subseteq feed'[s]
        BY <2>1, <2>2, <2>4, BecomeType
    <2> HIDE DEF f
    <2>6. rows' = {q \in Posts : stage'[q] # "none"}
            /\ stage' \in [Posts -> {"none", "row", "pushed", "fanning_out", "fanned_out"}]
        BY <2>1 DEF ReadTypeOK
    <2>7. /\ Cardinality(feed'["home"]) <= MaxSize + Cardinality(Fanning')
          /\ Cardinality(feed'["timeline"]) <= MaxSize
          /\ Cardinality(feed'["global"]) <= MaxSize
        <3>1. Fanning' = Fanning
            BY <2>1 DEF Fanning, ReadTypeOK
        <3>2. QED
            BY <3>1, <2>3, <2>4, <2>5 DEF ReadTypeOK, Fanning
    <2>8. Cardinality(feed'["global"]) <= 2 * MaxSize
        <3>1. Cardinality(g) \in Nat
            BY <2>3, <1>a, PostSets
        <3>2. QED
            BY <3>1, <2>3, <2>4, <2>5
    <2>9. QED
        BY <2>1, <2>4, <2>5, <2>6, <2>7, <2>8 DEF ReadTypeOK, Rebuild, Fanning, bounds
<1>3. ASSUME NEW p \in Posts, FanOut(p) PROVE ReadTypeOK' /\ Rebuild'
    <2> DEFINE f == [feed EXCEPT !["home"] = feed["home"] \union {p}]
    <2>1. /\ stage[p] = "pushed" /\ stage' = [stage EXCEPT ![p] = "fanning_out"]
          /\ rows' = rows /\ step' = step /\ before' = before /\ merged' = merged
          /\ selected' = selected /\ shown' = shown /\ ends' = ends
          /\ UNCHANGED bounds /\ Become(f)
        BY <1>3 DEF FanOut, reader
    <2>2. p \in rows
        BY <2>1 DEF ReadTypeOK
    <2>3. /\ f \in [Sources -> SUBSET rows] /\ f["global"] = feed["global"]
          /\ f["timeline"] = feed["timeline"] /\ f["home"] = feed["home"] \union {p}
        BY <2>2, <1>c DEF ReadTypeOK
    <2>4. feed' = f /\ kept' \in [Sources -> SUBSET rows]
            /\ \A s \in Sources : kept'[s] \subseteq feed'[s]
        BY <2>1, <2>3, BecomeType
    <2> HIDE DEF f
    <2>5. rows' = {q \in Posts : stage'[q] # "none"}
            /\ stage' \in [Posts -> {"none", "row", "pushed", "fanning_out", "fanned_out"}]
        BY <2>1 DEF ReadTypeOK
    \* The feed grows by one post at most, and so do the pushes under way.
    <2>6. Cardinality(feed'["home"]) <= MaxSize + Cardinality(Fanning')
        <3>1. p \notin Fanning /\ Fanning' = Fanning \union {p}
            BY <2>1 DEF Fanning, ReadTypeOK
        <3>2. IsFiniteSet(Fanning) /\ IsFiniteSet(feed["home"])
            BY <1>a, <1>c, PostSets DEF Fanning
        <3>3. Cardinality(Fanning') = Cardinality(Fanning) + 1
            BY <3>1, <3>2, FS_AddElement
        <3>4. Cardinality(feed["home"] \union {p}) <= Cardinality(feed["home"]) + 1
                /\ Cardinality(feed["home"] \union {p}) \in Nat
                /\ Cardinality(feed["home"]) \in Nat
            BY <3>2, OneMore
        <3>5. Cardinality(feed["home"]) <= MaxSize + Cardinality(Fanning)
            BY DEF ReadTypeOK, Fanning
        <3>6. feed'["home"] = feed["home"] \union {p}
            BY <2>3, <2>4
        <3>7. Cardinality(feed'["home"]) <= Cardinality(feed["home"]) + 1
                /\ Cardinality(feed'["home"]) \in Nat /\ MaxSize \in Nat
                /\ Cardinality(Fanning) \in Nat
            BY <3>4, <3>6, FanningIsCounted, ReadAssumption
        <3>8. QED
            BY <3>3, <3>4, <3>5, <3>7
    <2>7. QED
        BY <2>1, <2>3, <2>4, <2>5, <2>6 DEF ReadTypeOK, Rebuild, Fanning, bounds
<1>16. ASSUME NEW p \in Posts, TrimHome(p) PROVE ReadTypeOK' /\ Rebuild'
    <2>1. /\ stage[p] = "fanning_out" /\ stage' = [stage EXCEPT ![p] = "fanned_out"]
          /\ rows' = rows /\ step' = step /\ before' = before /\ merged' = merged
          /\ selected' = selected /\ shown' = shown /\ ends' = ends
          /\ UNCHANGED bounds
        BY <1>16 DEF TrimHome, reader
    <2>2. PICK h \in Newest(feed["home"], MaxSize) :
                 Become([feed EXCEPT !["home"] = h])
        BY <1>16 DEF TrimHome
    <2> DEFINE f == [feed EXCEPT !["home"] = h]
    <2>3. h \subseteq rows /\ Cardinality(h) <= MaxSize
        <3>1. feed["home"] \in SUBSET rows
            BY <1>c DEF ReadTypeOK
        <3>2. QED
            BY <3>1, <1>a, <1>b
    <2>4. f \in [Sources -> SUBSET rows] /\ f["global"] = feed["global"]
            /\ f["timeline"] = feed["timeline"] /\ f["home"] = h
        BY <2>3, <1>c DEF ReadTypeOK
    <2>5. feed' = f /\ kept' \in [Sources -> SUBSET rows]
            /\ \A s \in Sources : kept'[s] \subseteq feed'[s]
        BY <2>1, <2>2, <2>4, BecomeType
    <2> HIDE DEF f
    <2>6. rows' = {q \in Posts : stage'[q] # "none"}
            /\ stage' \in [Posts -> {"none", "row", "pushed", "fanning_out", "fanned_out"}]
        BY <2>1 DEF ReadTypeOK
    <2>7. Cardinality(feed'["home"]) <= MaxSize + Cardinality(Fanning')
        <3>1. Cardinality(h) \in Nat
            BY <2>3, <1>a, PostSets
        <3>2. QED
            BY <3>1, <2>3, <2>4, <2>5, FanningIsCounted
    <2>8. QED
        BY <2>1, <2>4, <2>5, <2>6, <2>7 DEF ReadTypeOK, Rebuild, Fanning, bounds
<1>4. ASSUME NEW s \in Sources, Evict(s) PROVE ReadTypeOK' /\ Rebuild'
    <2>1. /\ evictions < MaxEvictions /\ evictions' = evictions + 1 /\ failures' = failures
          /\ Become([feed EXCEPT ![s] = {}])
          /\ rows' = rows /\ stage' = stage /\ step' = step /\ before' = before
          /\ merged' = merged /\ selected' = selected /\ shown' = shown /\ ends' = ends
        BY <1>4 DEF Evict, reader, writer
    <2> DEFINE f == [feed EXCEPT ![s] = {}]
    <2>2. f \in [Sources -> SUBSET rows]
            /\ \A r \in Sources : f[r] = feed[r] \/ f[r] = {}
        BY DEF ReadTypeOK
    <2>3. feed' = f /\ kept' \in [Sources -> SUBSET rows]
            /\ \A r \in Sources : kept'[r] \subseteq feed'[r]
        BY <2>1, <2>2, BecomeType
    <2> HIDE DEF f
    <2>4. (/\ Cardinality(feed["home"]) <= MaxSize + Cardinality(Fanning)
           /\ Cardinality(feed["timeline"]) <= MaxSize
           /\ Cardinality(feed["global"]) <= 2 * MaxSize
           /\ step \in {"select", "zadd"} => Cardinality(feed["global"]) <= MaxSize)'
        <3>1. \A r \in Sources : Cardinality(feed'[r]) = Cardinality(feed[r])
                                    \/ Cardinality(feed'[r]) = 0
            BY <2>2, <2>3, Empty
        <3>2. 0 <= MaxSize /\ 0 <= 2 * MaxSize
            OBVIOUS
        <3>3. Cardinality(feed'["home"]) <= MaxSize + Cardinality(Fanning')
            <4>1. Fanning' = Fanning /\ Cardinality(feed["home"]) <= MaxSize + Cardinality(Fanning)
                BY <2>1 DEF Fanning, ReadTypeOK
            <4>2. QED
                BY <4>1, <3>1, <1>c, FanningIsCounted
        <3>4. Cardinality(feed'["timeline"]) <= MaxSize
            BY <3>1, <3>2, <1>c DEF ReadTypeOK
        <3>5. Cardinality(feed'["global"]) <= 2 * MaxSize
            BY <3>1, <3>2, <1>c DEF ReadTypeOK
        <3>6. step' \in {"select", "zadd"} => Cardinality(feed'["global"]) <= MaxSize
            BY <2>1, <3>1, <3>2, <1>c DEF Rebuild
        <3>7. QED
            BY <3>3, <3>4, <3>5, <3>6
    <2>5. evictions' \in 0..MaxEvictions
        BY <2>1 DEF ReadTypeOK
    <2>6. QED
        BY <2>1, <2>2, <2>3, <2>4, <2>5 DEF ReadTypeOK, Rebuild, Fanning
<1>5. CASE ReadHome
    <2>1. merged' \subseteq rows
        <3>1. {p \in feed["home"] : TimeOf[p] <= before} \in SUBSET rows
            BY <1>c DEF ReadTypeOK
        <3>2. QED
            BY <3>1, <1>5, <1>a, <1>b DEF ReadHome, ReadFrom
    <2>2. QED
        BY <1>5, <2>1 DEF ReadHome, writer, bounds, ReadTypeOK, Rebuild
<1>6. CASE ReadTimeline
    <2>1. merged' \subseteq rows
        <3>1. {p \in feed["timeline"] : TimeOf[p] <= before} \in SUBSET rows
            BY <1>c DEF ReadTypeOK
        <3>2. \A rs \in ReadFrom("timeline") : rs \subseteq rows
            BY <3>1, <1>a, <1>b DEF ReadFrom
        <3>3. QED
            BY <3>2, <1>6 DEF ReadTimeline, ReadTypeOK
    <2>2. QED
        BY <1>6, <2>1 DEF ReadTimeline, writer, bounds, ReadTypeOK, Rebuild
<1>7. CASE Exists
    <2>1. /\ step' = IF feed["global"] = {} THEN "select" ELSE "global"
          /\ rows' = rows /\ stage' = stage /\ feed' = feed /\ before' = before
          /\ merged' = merged /\ selected' = selected /\ shown' = shown /\ ends' = ends
          /\ kept' = kept /\ UNCHANGED bounds
        BY <1>7 DEF Exists, writer
    <2>2. step' \in {"select", "zadd"} => Cardinality(feed'["global"]) <= MaxSize
        BY <2>1, Empty
    <2>3. step' \in {"select", "global"}
        BY <2>1
    <2>4. QED
        BY <2>1, <2>2, <2>3 DEF ReadTypeOK, Rebuild, bounds
<1>8. CASE Select
    <2>1. selected' \subseteq rows /\ Cardinality(selected') <= MaxSize
        BY <1>8, <1>a, <1>b DEF Select
    <2>2. step = "select" /\ step' \in {"global", "zadd"}
        BY <1>8 DEF Select
    <2>3. QED
        BY <1>8, <2>1, <2>2 DEF Select, writer, bounds, ReadTypeOK, Rebuild
<1>9. CASE Backfill
    <2>1. /\ step = "zadd" /\ step' = "global" /\ selected' = {}
          /\ feed' = [feed EXCEPT !["global"] = feed["global"] \union selected]
          /\ kept' = IF shown = {}
                       THEN [kept EXCEPT !["global"] = kept["global"] \union selected]
                       ELSE kept
          /\ rows' = rows /\ stage' = stage /\ before' = before /\ merged' = merged
          /\ shown' = shown /\ ends' = ends /\ UNCHANGED bounds
        BY <1>9 DEF Backfill, writer
    <2>2. Cardinality(feed["global"] \union selected) <= 2 * MaxSize
        BY <2>1, <1>a, <1>c, Union2 DEF Rebuild
    <2>3. /\ feed' \in [Sources -> SUBSET rows] /\ feed'["home"] = feed["home"]
          /\ feed'["timeline"] = feed["timeline"]
          /\ feed'["global"] = feed["global"] \union selected
        BY <2>1, <1>c DEF ReadTypeOK
    <2>4. kept' \in [Sources -> SUBSET rows] /\ \A s \in Sources : kept'[s] \subseteq feed'[s]
        BY <2>1, <1>c DEF ReadTypeOK
    <2>5. QED
        BY <2>1, <2>2, <2>3, <2>4, Empty DEF ReadTypeOK, Rebuild, bounds
<1>10. CASE ReadGlobal
    <2>1. merged' \subseteq rows
        <3>1. {p \in feed["global"] : TimeOf[p] <= before} \in SUBSET rows
            BY <1>c DEF ReadTypeOK
        <3>2. \A rs \in ReadFrom("global") : merged \union rs \in SUBSET rows
            BY <3>1, <1>a, <1>b DEF ReadFrom, ReadTypeOK
        <3>3. QED
            BY <3>2, <1>10, <1>a, <1>b DEF ReadGlobal
    <2>2. QED
        BY <1>10, <2>1 DEF ReadGlobal, writer, bounds, ReadTypeOK, Rebuild
<1>11. CASE Open
    <2>1. /\ step' = "home" /\ before' = Latest /\ shown' = {} /\ ends' = {}
          /\ kept' = feed /\ feed' = feed /\ rows' = rows /\ stage' = stage
          /\ merged' = merged /\ selected' = selected /\ UNCHANGED bounds
        BY <1>11 DEF Open, writer
    <2>2. before' \in (-Second)..Latest
        BY <2>1
    <2>3. kept' \in [Sources -> SUBSET rows'] /\ \A s \in Sources : kept'[s] \subseteq feed'[s]
        BY <2>1 DEF ReadTypeOK
    <2>4. QED
        BY <2>1, <2>2, <2>3 DEF ReadTypeOK, Rebuild, bounds
<1>12. CASE Leave
    <2>1. kept' = [s \in Sources |-> {}] /\ selected' = {} /\ step' = "idle"
            /\ before' = Latest /\ merged' = {} /\ shown' = {} /\ ends' = {}
            /\ rows' = rows /\ stage' = stage /\ feed' = feed /\ UNCHANGED bounds
        BY <1>12 DEF Leave, writer
    <2>2. kept' \in [Sources -> SUBSET rows] /\ \A s \in Sources : kept'[s] \subseteq feed'[s]
        BY <2>1
    <2>3. QED
        BY <2>1, <2>2, Empty DEF ReadTypeOK, Rebuild, bounds
<1>17. CASE LoadFails
    <2>1. step' = "home" /\ selected' = {} /\ merged' = {} /\ failures < MaxFailures
            /\ failures' = failures + 1
        BY <1>17 DEF LoadFails
    <2>2. failures' \in 0..MaxFailures
        BY <2>1 DEF ReadTypeOK
    <2>3. QED
        BY <1>17, <2>1, <2>2, Empty DEF LoadFails, writer, ReadTypeOK, Rebuild
<1>13. CASE Show
    <2>1. /\ shown' = shown \union merged /\ merged' = {} /\ step' \in {"home", "done"}
          /\ rows' = rows /\ stage' = stage /\ feed' = feed /\ selected' = selected
          /\ kept' = kept /\ UNCHANGED bounds
        BY <1>13 DEF Show, writer
    <2>2. before' \in (-Second)..Latest /\ ends' \subseteq shown'
        <3>1. CASE \E p \in merged : before' = Cursor(p) /\ ends' = ends \union {p}
            BY <3>1, <2>1, <1>a, CursorIsNear DEF ReadTypeOK
        <3>2. CASE before' = before /\ ends' = ends
            BY <3>2, <2>1 DEF ReadTypeOK
        <3>3. QED
            BY <1>13, <3>1, <3>2 DEF Show
    <2>3. QED
        BY <2>1, <2>2 DEF ReadTypeOK, Rebuild, bounds
<1>14. CASE UNCHANGED readVars
    BY <1>14 DEF readVars, writer, reader, bounds, ReadTypeOK, Rebuild
<1>15. QED
    BY <1>1, <1>2, <1>3, <1>4, <1>5, <1>6, <1>7, <1>8, <1>9, <1>10, <1>11, <1>12, <1>13,
       <1>14, <1>16, <1>17 DEF ReadNext, Environment, Scroll

-----------------------------------------------------------------------------
(* The page and the scroll *)

LEMMA InitInv == ReadInit => ReadInv
<1> SUFFICES ASSUME ReadInit PROVE ReadInv
    OBVIOUS
<1>1. ReadTypeOK /\ Rebuild
    BY TypeInit
<1>2. step = "idle" /\ before = Latest
    BY DEF ReadInit
<1>3. Behind
    BY <1>1, <1>2, TypeSets DEF Behind
<1>4. QED
    BY <1>1, <1>2, <1>3 DEF ReadInv, FirstPage, NothingSkipped, SeenToTheEnd

\* While the reader stands still, and posts only leave what was kept, nothing
\* that was established is lost.
LEMMA Quiet ==
    ASSUME ReadInv, ReadTypeOK', Rebuild',
           step' = step, before' = before, merged' = merged, shown' = shown,
           ends' = ends, \A s \in Sources : kept'[s] \subseteq kept[s]
    PROVE  ReadInv'
<1>1. Steady' \subseteq Steady
    BY DEF Steady
<1>2. \A s \in Sources : Covered(s) => Covered(s)'
    BY DEF Covered, Crowded
<1>3. "home" \in Sources /\ "timeline" \in Sources
    BY DEF Sources
<1>4. FirstPage'
    BY DEF ReadInv, FirstPage
<1>5. NothingSkipped'
    BY <1>1 DEF ReadInv, NothingSkipped
<1>6. ScrolledPast' = ScrolledPast
    BY DEF ScrolledPast
<1>7. Behind' /\ SeenToTheEnd'
    BY <1>1, <1>6 DEF ReadInv, Behind, SeenToTheEnd
<1>8. QED
    BY <1>2, <1>3, <1>4, <1>5, <1>7 DEF ReadInv

\* A read of one set covers it.
LEMMA ReadCovers ==
    ASSUME ReadTypeOK, NEW s \in Sources, NEW rs \in ReadFrom(s), NEW p \in kept[s],
           TimeOf[p] <= before, p \notin rs
    PROVE  /\ rs \subseteq Posts /\ Cardinality(rs) = PageSize
           /\ \A q \in rs : TimeOf[q] >= TimeOf[p]
<1> DEFINE S == {q \in feed[s] : TimeOf[q] <= before}
<1>1. S \subseteq Posts /\ rs \in Newest(S, PageSize) /\ p \in S
    BY TypeSets DEF ReadFrom
<1> HIDE DEF S
<1>2. rs \subseteq S /\ p \in S \ rs
    BY <1>1, NewestTakes
<1>3. Cardinality(rs) = PageSize /\ \A q \in rs : TimeOf[q] >= TimeOf[p]
    BY <1>1, <1>2, NewestTakes
<1>4. QED
    BY <1>1, <1>2, <1>3

\* More posts only make a page more crowded.
LEMMA MergeMore ==
    ASSUME NEW s, Covered(s), kept' = kept, before' = before, merged \subseteq merged'
    PROVE  Covered(s)'
BY DEF Covered, Crowded

\* The cut to a page keeps what is newest of all that was merged.
LEMMA PageHolds ==
    ASSUME NEW U, U \subseteq Posts, NEW page \in Newest(U, PageSize),
           NEW p \in Posts, p \notin page,
           p \in U \/ \E A \in SUBSET U : /\ Cardinality(A) = PageSize
                                          /\ \A q \in A : TimeOf[q] >= TimeOf[p]
    PROVE  Cardinality(page) = PageSize /\ \A q \in page : TimeOf[q] >= TimeOf[p]
<1>1. /\ page \subseteq U /\ Cardinality(page) <= PageSize
      /\ \A r \in U \ page :
            Cardinality(page) = PageSize /\ \A q \in page : TimeOf[q] >= TimeOf[r]
    BY NewestTakes
<1>2. CASE p \in U
    BY <1>1, <1>2
<1>3. ASSUME NEW A \in SUBSET U, Cardinality(A) = PageSize,
             \A q \in A : TimeOf[q] >= TimeOf[p]
      PROVE  Cardinality(page) = PageSize /\ \A q \in page : TimeOf[q] >= TimeOf[p]
    <2>1. CASE A \subseteq page
        <3>1. page \subseteq Posts
            BY <1>1
        <3>2. A = page
            BY <2>1, <3>1, <1>1, <1>3, Smaller
        <3>3. QED
            BY <1>3, <3>2
    <2>2. ASSUME NEW a \in A, a \notin page
          PROVE  Cardinality(page) = PageSize /\ \A q \in page : TimeOf[q] >= TimeOf[p]
        <3>1. Cardinality(page) = PageSize /\ \A q \in page : TimeOf[q] >= TimeOf[a]
            BY <1>1, <2>2
        <3>2. TimeOf[a] >= TimeOf[p] /\ a \in Posts
            BY <1>3, <2>2
        <3>3. \A q \in page : TimeOf[q] \in Nat
            BY <1>1
        <3>4. TimeOf[a] \in Nat /\ TimeOf[p] \in Nat
            BY <3>2
        <3>5. QED
            BY <3>1, <3>2, <3>3, <3>4
    <2>3. QED
        BY <2>1, <2>2
<1>4. QED
    BY <1>2, <1>3

LEMMA StepInv == ReadInv /\ [ReadNext]_readVars => ReadInv'
<1> SUFFICES ASSUME ReadInv, [ReadNext]_readVars PROVE ReadInv'
    OBVIOUS
<1>a. ReadTypeOK' /\ Rebuild' /\ ReadTypeOK
    BY TypeStep DEF ReadInv
<1>b. /\ rows \subseteq Posts /\ merged \subseteq Posts /\ Steady \subseteq Posts
      /\ \A s \in Sources : feed[s] \subseteq Posts /\ kept[s] \subseteq feed[s]
      /\ before \in Int /\ \A p \in Posts : TimeOf[p] \in Nat /\ TimeOf[p] < Latest
    BY <1>a, TypeSets
<1>c. "home" \in Sources /\ "timeline" \in Sources /\ "global" \in Sources
        /\ Sources = {"home", "timeline", "global"}
    BY DEF Sources
<1>1. ASSUME NEW p \in Posts, Commit(p) PROVE ReadInv'
    BY <1>1, <1>a, Quiet DEF Commit, reader
<1>2. ASSUME NEW p \in Posts, Push(p) PROVE ReadInv'
    <2>1. \A s \in Sources : kept'[s] \subseteq kept[s]
        BY <1>2 DEF Push, Become
    <2>2. QED
        BY <1>2, <1>a, <2>1, Quiet DEF Push, reader
<1>3. ASSUME NEW p \in Posts, FanOut(p) PROVE ReadInv'
    <2>1. \A s \in Sources : kept'[s] \subseteq kept[s]
        BY <1>3 DEF FanOut, Become
    <2>2. QED
        BY <1>3, <1>a, <2>1, Quiet DEF FanOut, reader
<1>14. ASSUME NEW p \in Posts, TrimHome(p) PROVE ReadInv'
    <2>1. \A s \in Sources : kept'[s] \subseteq kept[s]
        BY <1>14 DEF TrimHome, Become
    <2>2. QED
        BY <1>14, <1>a, <2>1, Quiet DEF TrimHome, reader
<1>4. ASSUME NEW s \in Sources, Evict(s) PROVE ReadInv'
    <2>1. \A r \in Sources : kept'[r] \subseteq kept[r]
        BY <1>4 DEF Evict, Become
    <2>2. QED
        BY <1>4, <1>a, <2>1, Quiet DEF Evict, reader
<1>5. CASE ReadHome
    <2>1. /\ step = "home" /\ step' = "timeline" /\ merged' \in ReadFrom("home")
          /\ before' = before /\ shown' = shown /\ ends' = ends /\ kept' = kept
        BY <1>5 DEF ReadHome
    <2>2. Covered("home")'
        <3> SUFFICES ASSUME NEW p \in kept["home"], TimeOf[p] <= before, p \notin merged'
                     PROVE  Crowded(p)'
            BY <2>1 DEF Covered
        <3>1. Cardinality(merged') = PageSize /\ \A q \in merged' : TimeOf[q] >= TimeOf[p]
            BY <2>1, <1>a, <1>c, ReadCovers
        <3>2. QED
            BY <3>1 DEF Crowded
    <2>3. Steady' = Steady /\ ScrolledPast' = ScrolledPast
        BY <2>1 DEF Steady, ScrolledPast
    <2>4. FirstPage' /\ Behind' /\ SeenToTheEnd' /\ NothingSkipped'
        BY <2>1, <2>3 DEF ReadInv, FirstPage, Behind, SeenToTheEnd, NothingSkipped
    <2>5. QED
        BY <1>a, <2>1, <2>2, <2>4 DEF ReadInv
<1>6. CASE ReadTimeline
    <2>1. PICK rs \in ReadFrom("timeline") : merged' = merged \union rs
        BY <1>6 DEF ReadTimeline
    <2>2. /\ step = "timeline" /\ step' = "exists"
          /\ before' = before /\ shown' = shown /\ ends' = ends /\ kept' = kept
        BY <1>6 DEF ReadTimeline
    <2>3. Covered("home")'
        BY <2>1, <2>2, MergeMore DEF ReadInv
    <2>4. Covered("timeline")'
        <3> SUFFICES ASSUME NEW p \in kept["timeline"], TimeOf[p] <= before, p \notin merged'
                     PROVE  Crowded(p)'
            BY <2>2 DEF Covered
        <3>1. Cardinality(rs) = PageSize /\ \A q \in rs : TimeOf[q] >= TimeOf[p]
            BY <2>1, <1>a, <1>c, ReadCovers
        <3>2. QED
            BY <3>1, <2>1 DEF Crowded
    <2>5. Steady' = Steady /\ ScrolledPast' = ScrolledPast
        BY <2>2 DEF Steady, ScrolledPast
    <2>6. FirstPage' /\ Behind' /\ SeenToTheEnd' /\ NothingSkipped'
        BY <2>2, <2>5 DEF ReadInv, FirstPage, Behind, SeenToTheEnd, NothingSkipped
    <2>7. QED
        BY <1>a, <2>2, <2>3, <2>4, <2>6 DEF ReadInv
<1>7. CASE Exists \/ Select
    <2>1. /\ step \in {"exists", "select"} /\ step' \in {"select", "zadd", "global"}
          /\ before' = before /\ shown' = shown /\ ends' = ends /\ kept' = kept
          /\ merged' = merged
        BY <1>7 DEF Exists, Select
    <2>2. Covered("home")' /\ Covered("timeline")'
        BY <2>1, MergeMore DEF ReadInv
    <2>3. Steady' = Steady /\ ScrolledPast' = ScrolledPast
        BY <2>1 DEF Steady, ScrolledPast
    <2>4. FirstPage' /\ Behind' /\ SeenToTheEnd' /\ NothingSkipped'
        BY <2>1, <2>3 DEF ReadInv, FirstPage, Behind, SeenToTheEnd, NothingSkipped
    <2>5. QED
        BY <1>a, <2>1, <2>2, <2>4 DEF ReadInv
<1>8. CASE Backfill
    <2>1. /\ step = "zadd" /\ step' = "global"
          /\ before' = before /\ merged' = merged /\ shown' = shown /\ ends' = ends
          /\ kept' = IF shown = {}
                       THEN [kept EXCEPT !["global"] = kept["global"] \union selected]
                       ELSE kept
        BY <1>8 DEF Backfill
    <2>2. kept'["home"] = kept["home"] /\ kept'["timeline"] = kept["timeline"]
        BY <2>1, <1>a DEF ReadTypeOK
    <2>3. Covered("home")' /\ Covered("timeline")'
        BY <2>1, <2>2 DEF ReadInv, Covered, Crowded
    <2>4. FirstPage' /\ SeenToTheEnd' /\ NothingSkipped'
        BY <2>1 DEF ReadInv, FirstPage, SeenToTheEnd, NothingSkipped
    <2>5. Behind'
        <3>1. CASE shown = {}
            <4>1. before' = Latest /\ Steady' \subseteq Posts
                BY <3>1, <2>1, <1>a, TypeSets DEF ReadInv, FirstPage, Steady, ReadTypeOK
            <4>2. QED
                BY <4>1, <1>b DEF Behind
        <3>2. CASE shown # {}
            BY <3>2, <2>1 DEF ReadInv, Behind, Steady, ScrolledPast
        <3>3. QED
            BY <3>1, <3>2
    <2>6. QED
        BY <1>a, <2>1, <2>3, <2>4, <2>5 DEF ReadInv
<1>9. CASE ReadGlobal
    <2>1. PICK rs \in ReadFrom("global") : merged' \in Newest(merged \union rs, PageSize)
        BY <1>9 DEF ReadGlobal
    <2>2. /\ step = "global" /\ step' = "answer"
          /\ before' = before /\ shown' = shown /\ ends' = ends /\ kept' = kept
        BY <1>9 DEF ReadGlobal
    <2>3. Steady' = Steady /\ ScrolledPast' = ScrolledPast
        BY <2>2 DEF Steady, ScrolledPast
    <2>4. NothingSkipped'
        <3> SUFFICES ASSUME NEW p \in Steady, p \notin merged', TimeOf[p] <= before
                     PROVE  /\ Cardinality(merged') = PageSize
                            /\ \A q \in merged' : TimeOf[q] >= TimeOf[p]
            BY <2>2, <2>3 DEF NothingSkipped
        <3> DEFINE U == merged \union rs
        <3>1. rs \subseteq Posts
            <4>1. {q \in feed["global"] : TimeOf[q] <= before} \subseteq Posts
                BY <1>b, <1>c
            <4>2. QED
                BY <4>1, <2>1, NewestTakes DEF ReadFrom
        <3>2. PICK s \in Sources : p \in kept[s]
            BY DEF Steady
        <3>3. CASE s = "global"
            <4>1. CASE p \in rs
                BY <4>1, <3>1, <1>b, <2>1, PageHolds
            <4>2. CASE p \notin rs
                <5>1. Cardinality(rs) = PageSize /\ \A q \in rs : TimeOf[q] >= TimeOf[p]
                    BY <4>2, <3>2, <3>3, <2>1, <1>a, ReadCovers
                <5>2. QED
                    BY <5>1, <3>1, <1>b, <2>1, PageHolds
            <4>3. QED
                BY <4>1, <4>2
        <3>4. CASE s # "global"
            <4>1. Covered(s)
                BY <3>2, <3>4, <2>2, <1>c DEF ReadInv
            <4>2. p \in merged \/ \E A \in SUBSET merged :
                                    /\ Cardinality(A) = PageSize
                                    /\ \A q \in A : TimeOf[q] >= TimeOf[p]
                BY <4>1, <3>2 DEF Covered, Crowded
            <4>3. p \in U \/ \E A \in SUBSET U :
                                    /\ Cardinality(A) = PageSize
                                    /\ \A q \in A : TimeOf[q] >= TimeOf[p]
                BY <4>2
            <4>4. U \subseteq Posts /\ p \in Posts
                BY <3>1, <1>b
            <4>5. QED
                BY <4>3, <4>4, <2>1, PageHolds
        <3>5. QED
            BY <3>3, <3>4
    <2>5. FirstPage' /\ Behind' /\ SeenToTheEnd'
        BY <2>2, <2>3 DEF ReadInv, FirstPage, Behind, SeenToTheEnd
    <2>6. QED
        BY <1>a, <2>2, <2>4, <2>5 DEF ReadInv
<1>10. CASE Open \/ Leave
    <2>1. step' \in {"home", "idle"} /\ before' = Latest
        BY <1>10 DEF Open, Leave
    <2>2. Behind'
        BY <2>1, <1>a, <1>b, TypeSets DEF Behind, Steady, ReadTypeOK
    <2>3. FirstPage' /\ SeenToTheEnd' /\ NothingSkipped'
        BY <2>1 DEF FirstPage, SeenToTheEnd, NothingSkipped
    <2>4. QED
        BY <1>a, <2>1, <2>2, <2>3 DEF ReadInv
<1>15. CASE LoadFails
    <2>1. /\ step' = "home" /\ before' = before /\ shown' = shown /\ shown # {}
          /\ ends' = ends /\ kept' = kept /\ step \notin {"idle", "done"}
        BY <1>15 DEF LoadFails
    <2>2. Steady' = Steady /\ ScrolledPast' = ScrolledPast
        BY <2>1 DEF Steady, ScrolledPast
    <2>3. FirstPage' /\ Behind' /\ SeenToTheEnd' /\ NothingSkipped'
        BY <2>1, <2>2 DEF ReadInv, FirstPage, Behind, SeenToTheEnd, NothingSkipped
    <2>4. QED
        BY <1>a, <2>1, <2>3 DEF ReadInv
<1>11. CASE Show
    <2>1. step = "answer" /\ shown' = shown \union merged /\ kept' = kept
            /\ Steady' = Steady
        BY <1>11 DEF Show, Steady
    <2>2. \A p \in Steady : p \notin merged /\ TimeOf[p] <= before =>
            /\ Cardinality(merged) = PageSize
            /\ \A q \in merged : TimeOf[q] >= TimeOf[p]
        BY <2>1 DEF ReadInv, NothingSkipped
    <2>3. CASE Cardinality(merged) = PageSize
        <3>1. PICK o \in merged : before' = Cursor(o) /\ ends' = ends \union {o}
            BY <1>11, <2>3 DEF Show
        <3>2. step' = "home"
            BY <1>11, <2>3 DEF Show
        <3>3. ScrolledPast \subseteq ScrolledPast'
            BY <3>1 DEF ScrolledPast
        <3>4. Behind'
            <4> SUFFICES ASSUME NEW p \in Steady, TimeOf[p] > before',
                                p \notin shown'
                         PROVE  p \in ScrolledPast'
                BY <2>1 DEF Behind
            <4>1. CASE TimeOf[p] > before
                BY <4>1, <2>1, <3>3 DEF ReadInv, Behind
            <4>2. CASE ~(TimeOf[p] > before)
                <5>1. p \in Posts /\ o \in Posts /\ TimeOf[p] \in Nat /\ TimeOf[o] \in Nat
                    BY <3>1, <1>b
                <5>2. TimeOf[o] >= TimeOf[p]
                    BY <4>2, <2>1, <2>2, <5>1, <1>b
                <5>3. Cursor(o) \in Int /\ TimeOf[o] < Cursor(o) + 2 * Second
                    BY <5>1, CursorIsNear
                <5>4. TimeOf[o] - TimeOf[p] \in 0..(2 * Second - 1)
                    BY <5>1, <5>2, <5>3, <3>1
                <5>5. QED
                    BY <5>1, <5>4, <3>1 DEF ScrolledPast
            <4>3. QED
                BY <4>1, <4>2
        <3>5. FirstPage'
            BY <2>1, <3>1 DEF FirstPage
        <3>6. NothingSkipped' /\ SeenToTheEnd'
            BY <3>2 DEF NothingSkipped, SeenToTheEnd
        <3>7. QED
            BY <1>a, <3>2, <3>4, <3>5, <3>6 DEF ReadInv
    <2>4. CASE Cardinality(merged) # PageSize
        <3>1. step' = "done" /\ before' = before /\ ends' = ends
            BY <1>11, <2>4 DEF Show
        <3>2. ScrolledPast' = ScrolledPast
            BY <3>1 DEF ScrolledPast
        <3>3. Behind'
            BY <3>1, <3>2, <2>1 DEF ReadInv, Behind
        <3>4. SeenToTheEnd'
            <4> SUFFICES ASSUME NEW p \in Steady PROVE p \in shown' \union ScrolledPast'
                BY <2>1 DEF SeenToTheEnd
            <4>1. CASE TimeOf[p] > before
                BY <4>1, <2>1, <3>2 DEF ReadInv, Behind
            <4>2. CASE ~(TimeOf[p] > before)
                BY <4>2, <2>1, <2>2, <2>4, <1>b
            <4>3. QED
                BY <4>1, <4>2
        <3>5. QED
            BY <1>a, <3>1, <3>3, <3>4 DEF ReadInv, FirstPage, NothingSkipped
    <2>5. QED
        BY <2>3, <2>4
<1>12. CASE UNCHANGED readVars
    BY <1>12, <1>a, Quiet DEF readVars, reader
<1>13. QED
    BY <1>1, <1>2, <1>3, <1>4, <1>5, <1>6, <1>7, <1>8, <1>9, <1>10, <1>11, <1>12,
       <1>14, <1>15 DEF ReadNext, Environment, Scroll

LEMMA InvAlways == ReadSpec => []ReadInv
BY InitInv, StepInv, PTL DEF ReadSpec

\* Rows, sets and pages keep their types; the trimmed sets keep to their
\* bound, and the rebuilt one to twice that.
THEOREM ReadTypeCorrect == ReadSpec => []ReadTypeOK
<1>1. ReadInv => ReadTypeOK
    BY DEF ReadInv
<1>2. QED
    BY <1>1, InvAlways, PTL

\* No page skips a post that was there to be merged, for any page size and any
\* times of the posts.
THEOREM NoPostIsSkipped == ReadSpec => []NothingSkipped
<1>1. ReadInv => NothingSkipped
    BY DEF ReadInv
<1>2. QED
    BY <1>1, InvAlways, PTL

\* Who scrolls to the end misses only what the cursor jumps over.
THEOREM EndSeesAll == ReadSpec => []SeenToTheEnd
<1>1. ReadInv => SeenToTheEnd
    BY DEF ReadInv
<1>2. QED
    BY <1>1, InvAlways, PTL

-----------------------------------------------------------------------------
(* Where one page ends and the next begins *)

\* The page in the making lies behind the cursor, and all that was shown lies
\* ahead of it.
PageAhead ==
    /\ \A q \in merged : TimeOf[q] <= before
    /\ step \notin {"idle", "done"} => \A q \in shown : TimeOf[q] > before

\* The filter of useFeed has nothing to remove when it appends a page: no post
\* of it is in the list already, however the sets changed between the requests.
ShownOnce == step = "answer" => merged \intersect shown = {}

\* A request for more asks for older posts than the one before it, however many
\* posts share a second: the client never asks for the same page twice.
ScrollsBack == Show /\ step' = "home" => before' < before

LEMMA AheadStep ==
    ASSUME ReadTypeOK, PageAhead, [ReadNext]_readVars
    PROVE  PageAhead'
<1>a. /\ merged \subseteq Posts /\ shown \subseteq Posts /\ before \in Int
      /\ \A s \in Sources : feed[s] \subseteq Posts
      /\ \A p \in Posts : TimeOf[p] \in Nat /\ TimeOf[p] < Latest
    BY TypeSets DEF ReadTypeOK
<1>b. ASSUME NEW s \in Sources, NEW rs \in ReadFrom(s)
      PROVE  rs \subseteq Posts /\ \A q \in rs : TimeOf[q] <= before
    <2> DEFINE S == {p \in feed[s] : TimeOf[p] <= before}
    <2>1. S \subseteq Posts /\ rs \in Newest(S, PageSize)
        BY <1>a, <1>b DEF ReadFrom
    <2>2. rs \subseteq S
        BY <2>1, NewestTakes
    <2>3. QED
        BY <2>1, <2>2
<1>c. "home" \in Sources /\ "timeline" \in Sources /\ "global" \in Sources
    BY DEF Sources
<1>1. CASE UNCHANGED reader /\ UNCHANGED shown
    BY <1>1 DEF PageAhead, reader
<1>2. CASE ReadHome
    <2>1. step' = "timeline" /\ merged' \in ReadFrom("home") /\ before' = before
            /\ step = "home" /\ shown' = shown
        BY <1>2 DEF ReadHome
    <2>2. \A q \in merged' : TimeOf[q] <= before
        BY <2>1, <1>b, <1>c
    <2>3. QED
        BY <2>1, <2>2 DEF PageAhead
<1>3. CASE ReadTimeline
    <2>1. PICK rs \in ReadFrom("timeline") : merged' = merged \union rs
        BY <1>3 DEF ReadTimeline
    <2>2. step' = "exists" /\ before' = before /\ step = "timeline" /\ shown' = shown
        BY <1>3 DEF ReadTimeline
    <2>3. \A q \in merged' : TimeOf[q] <= before
        BY <2>1, <1>b, <1>c DEF PageAhead
    <2>4. QED
        BY <2>2, <2>3 DEF PageAhead
<1>4. CASE Exists \/ Select \/ Backfill
    <2>1. step \notin {"idle", "done"} /\ merged' = merged /\ before' = before
            /\ shown' = shown
        BY <1>4 DEF Exists, Select, Backfill
    <2>2. QED
        BY <2>1 DEF PageAhead
<1>5. CASE ReadGlobal
    <2>1. PICK rs \in ReadFrom("global") : merged' \in Newest(merged \union rs, PageSize)
        BY <1>5 DEF ReadGlobal
    <2>2. step = "global" /\ before' = before /\ shown' = shown
        BY <1>5 DEF ReadGlobal
    <2>3. merged' \subseteq merged \union rs
        BY <2>1, <1>a, <1>b, <1>c, NewestTakes
    <2>4. \A q \in merged' : TimeOf[q] <= before
        BY <2>3, <1>b, <1>c DEF PageAhead
    <2>5. QED
        BY <2>2, <2>4 DEF PageAhead
<1>6. CASE Open
    <2>1. before' = Latest /\ shown' = {} /\ merged' = merged
        BY <1>6 DEF Open
    <2>2. \A q \in merged' : TimeOf[q] <= before'
        BY <2>1, <1>a
    <2>3. QED
        BY <2>1, <2>2 DEF PageAhead
<1>7. CASE Leave
    <2>1. merged' = {} /\ shown' = {}
        BY <1>7 DEF Leave
    <2>2. QED
        BY <2>1 DEF PageAhead
<1>8. CASE Show
    <2>1. step = "answer" /\ merged' = {} /\ shown' = shown \union merged
        BY <1>8 DEF Show
    <2>2. CASE Cardinality(merged) = PageSize
        <3>1. PICK p \in merged : /\ \A q \in merged : TimeOf[p] <= TimeOf[q]
                                  /\ before' = Cursor(p)
            BY <1>8, <2>2 DEF Show
        <3>2. before' \in Int /\ before' < TimeOf[p] /\ TimeOf[p] <= before
            BY <3>1, <1>a, CursorIsNear DEF PageAhead
        <3>3. \A q \in merged : TimeOf[q] > before'
            BY <3>1, <3>2, <1>a
        <3>4. \A q \in shown : TimeOf[q] > before'
            <4>1. \A q \in shown : TimeOf[q] > before /\ TimeOf[q] \in Int
                BY <2>1, <1>a DEF PageAhead
            <4>2. before' < before
                BY <3>1, <3>2, <1>a
            <4>3. QED
                BY <4>1, <4>2, <3>2, <1>a
        <3>5. QED
            BY <2>1, <3>3, <3>4 DEF PageAhead
    <2>3. CASE Cardinality(merged) # PageSize
        <3>1. step' = "done"
            BY <1>8, <2>3 DEF Show
        <3>2. QED
            BY <2>1, <3>1 DEF PageAhead
    <2>4. QED
        BY <2>2, <2>3
<1>13. CASE LoadFails
    BY <1>13 DEF LoadFails, PageAhead
<1>9. ASSUME NEW p \in Posts, Commit(p) \/ Push(p) \/ FanOut(p) \/ TrimHome(p)
      PROVE  PageAhead'
    <2>1. UNCHANGED reader /\ UNCHANGED shown
        BY <1>9 DEF Commit, Push, FanOut, TrimHome
    <2>2. QED
        BY <2>1, <1>1
<1>10. ASSUME NEW s \in Sources, Evict(s) PROVE PageAhead'
    <2>1. UNCHANGED reader /\ UNCHANGED shown
        BY <1>10 DEF Evict
    <2>2. QED
        BY <2>1, <1>1
<1>11. CASE UNCHANGED readVars
    BY <1>11, <1>1 DEF readVars
<1>12. QED
    BY <1>2, <1>3, <1>4, <1>5, <1>6, <1>7, <1>8, <1>9, <1>10, <1>11, <1>13
       DEF ReadNext, Environment, Scroll

LEMMA PageAlwaysAhead == ReadSpec => [](ReadTypeOK /\ PageAhead)
<1>1. ReadInit => PageAhead
    BY DEF ReadInit, PageAhead
<1>2. ReadTypeOK /\ PageAhead /\ [ReadNext]_readVars => PageAhead'
    BY AheadStep
<1>3. QED
    BY <1>1, <1>2, ReadTypeCorrect, PTL DEF ReadSpec

\* No post is shown twice in one scroll, while posts are created, fanned out
\* late, and sets are evicted and rebuilt.
THEOREM NoPostIsShownTwice == ReadSpec => []ShownOnce
<1>1. ReadTypeOK /\ PageAhead => ShownOnce
    <2> SUFFICES ASSUME ReadTypeOK, PageAhead, step = "answer",
                        NEW q \in merged \intersect shown
                 PROVE  FALSE
        BY DEF ShownOnce
    <2>1. TimeOf[q] <= before /\ TimeOf[q] > before
        BY DEF PageAhead
    <2>2. before \in Int /\ TimeOf[q] \in Nat
        BY TypeSets
    <2>3. QED
        BY <2>1, <2>2
<1>2. QED
    BY <1>1, PageAlwaysAhead, PTL

\* The cursor moves back with every full page.  This is the step that ScrollEnds
\* rests on: a scroll cannot ask for the same page again.
THEOREM CursorMovesBack == ReadSpec => [][ScrollsBack]_readVars
<1>1. ReadTypeOK /\ PageAhead => [ScrollsBack]_readVars
    <2> SUFFICES ASSUME ReadTypeOK, PageAhead, Show, step' = "home"
                 PROVE  before' < before
        BY DEF ScrollsBack
    <2>1. PICK p \in merged : before' = Cursor(p)
        BY DEF Show
    <2>2. p \in Posts /\ before \in Int /\ TimeOf[p] <= before
        BY <2>1, TypeSets DEF PageAhead
    <2>3. QED
        BY <2>1, <2>2, CursorIsNear
<1>2. QED
    BY <1>1, PageAlwaysAhead, PTL
=============================================================================
