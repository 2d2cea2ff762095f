--------------------------- MODULE HomeFeedProofs ---------------------------
(***************************************************************************)
(* Proofs about SocialGraph and about HomeFeed, which is built on it, for  *)
(* any users, authors, workers, requests and posts, and any length of      *)
(* feeds and backfills: first the follow graph alone, under GraphSpec,     *)
(* then the feeds, under FeedSpec, and what the graph promises there.      *)
(***************************************************************************)
EXTENDS HomeFeed, TLAPS, FiniteSetTheorems

-----------------------------------------------------------------------------
(* The follow graph: types, and which process can be at which await *)

UserSteps == {"count_followers", "count_following", "set_counters"}
PairSteps == {"follow_graph", "follow_enqueue", "unfollow_graph"}
WorkerSteps == {"select_followers", "add_followers", "random_followers",
                "got_followers"}

\* Which process can be at which await, and what it is about there.
StepSubjects ==
    \A p \in Procs :
        /\ step[p] \in PairSteps => p \in Clients /\ subject[p] \in Pairs
        /\ step[p] \in UserSteps => p \in Clients /\ \E u \in Users : subject[p] = <<u, u>>
        /\ step[p] \in WorkerSteps => p \in Workers /\ \E u \in Users : subject[p] = <<u, u>>

StepShape == step \in [Procs -> GraphSteps \union {"idle"}] /\ StepSubjects

\* What a worker is about to add came from the table.
HydratesPairs ==
    \A w \in Workers :
        step[w] = "add_followers" => ids[w] \X {subject[w][1]} \subseteq Pairs

\* What the counters need, which holds with the steps of HomeFeed too.
GraphTypes == GraphTypeOK /\ StepSubjects

GraphTypeInv == GraphTypeOK /\ StepShape /\ HydratesPairs

\* A request between commit and MULTI agrees with the table, unless another
\* request of its pair has committed since.
RequestsAgree ==
    \A c \in Clients :
        subject[c] \notin overlapped =>
            /\ step[c] = "follow_graph" => subject[c] \in follows
            /\ step[c] = "unfollow_graph" => subject[c] \notin follows

-----------------------------------------------------------------------------
LEMMA FollowersFinite ==
    ASSUME NEW rel \in SUBSET Pairs, NEW u \in Users
    PROVE  /\ FollowersIn(rel, u) \subseteq Users
           /\ FolloweesIn(rel, u) \subseteq Users
           /\ IsFiniteSet(FollowersIn(rel, u))
           /\ IsFiniteSet(FolloweesIn(rel, u))
           /\ Cardinality(FollowersIn(rel, u)) \in Nat
           /\ Cardinality(FolloweesIn(rel, u)) \in Nat
<1>1. /\ FollowersIn(rel, u) \subseteq Users
      /\ FolloweesIn(rel, u) \subseteq Users
    BY GraphAssumption DEF FollowersIn, FolloweesIn
<1>2. IsFiniteSet(FollowersIn(rel, u)) /\ IsFiniteSet(FolloweesIn(rel, u))
    BY <1>1, FS_Subset, GraphAssumption
<1> QED BY <1>1, <1>2, FS_CardinalityType

LEMMA FollowersArePairs ==
    ASSUME NEW rel \in SUBSET Pairs, NEW u
    PROVE  FollowersIn(rel, u) \X {u} \subseteq Pairs
<1> SUFFICES ASSUME NEW p \in rel, p[2] = u PROVE <<p[1], u>> \in Pairs
    BY DEF FollowersIn
<1>1. p \in Pairs /\ p \in Users \X Users
    BY GraphAssumption
<1>2. p = <<p[1], p[2]>>
    BY <1>1
<1> QED BY <1>1, <1>2

LEMMA SecondReplaced ==
    ASSUME NEW t \in Nat \X Nat, NEW n \in Nat
    PROVE  [t EXCEPT ![2] = n] \in Nat \X Nat
OBVIOUS

\* What a backfill counts, and what get_followers reads.
LEMMA ReadsUsers ==
    ASSUME GraphTypes, NEW p \in Procs, step[p] \in UserSteps \union WorkerSteps
    PROVE  /\ subject[p] = <<subject[p][1], subject[p][1]>>
           /\ subject[p][1] \in Users
           /\ \A rel \in {follows, followers} :
                /\ FollowersIn(rel, subject[p][1]) \subseteq Users
                /\ Cardinality(FollowersIn(rel, subject[p][1])) \in Nat
                /\ Cardinality(FolloweesIn(rel, subject[p][1])) \in Nat
<1>1. PICK u \in Users : subject[p] = <<u, u>>
    BY DEF GraphTypes, StepSubjects
<1>2. subject[p][1] = u
    BY <1>1
<1>3. follows \in SUBSET Pairs /\ followers \in SUBSET Pairs
    BY DEF GraphTypes, GraphTypeOK
<1> QED BY <1>1, <1>2, <1>3, FollowersFinite

LEMMA GraphInit_Type == GraphInit => GraphTypeInv
BY GraphAssumption
   DEF GraphInit, GraphTypeInv, GraphTypeOK, StepShape, StepSubjects, HydratesPairs, Procs,
       PairSteps, UserSteps, WorkerSteps, NoSubject, Counts

LEMMA GraphNext_Type ==
    ASSUME GraphTypeInv, [Next]_graphVars
    PROVE  GraphTypeInv'
<1> USE GraphAssumption
    DEF GraphTypeInv, GraphTypes, GraphTypeOK, StepShape, StepSubjects, HydratesPairs, Procs,
        PairSteps, UserSteps, WorkerSteps, NoSubject, Counts, GraphSteps, GoTo, Done, Free
<1>1. ASSUME NEW c \in Clients, NEW pair \in Pairs, FollowCommit(c, pair)
      PROVE  GraphTypeInv'
    BY <1>1 DEF FollowCommit, StartRequest, CountersOf, Keys, sets, counters, locals, graphBounds
<1>2. ASSUME NEW c \in Clients, NEW pair \in Pairs, UnfollowCommit(c, pair)
      PROVE  GraphTypeInv'
    BY <1>2 DEF UnfollowCommit, StartRequest, CountersOf, Keys, sets, counters
<1>3. ASSUME NEW c \in Clients, FollowGraph(c) PROVE GraphTypeInv'
    BY <1>3 DEF FollowGraph, graphBounds, Value
<1>4. ASSUME NEW c \in Clients, UnfollowGraph(c) PROVE GraphTypeInv'
    BY <1>4 DEF UnfollowGraph, graphBounds, Value
<1>5. ASSUME NEW c \in Clients, FollowEnqueue(c) PROVE GraphTypeInv'
    BY <1>5 DEF FollowEnqueue, graphBounds, sets, counters
<1>6. ASSUME NEW c \in Clients, NEW u \in Users, ViewProfile(c, u)
      PROVE  GraphTypeInv'
    BY <1>6 DEF ViewProfile, sets, counters
<1>7. ASSUME NEW c \in Clients, CountFollowers(c) PROVE GraphTypeInv'
    <2>1. Cardinality(FollowersIn(follows, subject[c][1])) \in Nat
        BY <1>7, ReadsUsers DEF CountFollowers
    <2>2. stale' \subseteq Keys
        BY <1>7, ReadsUsers DEF CountFollowers, CountedAcross, Keys
    <2> QED BY <1>7, <2>1, <2>2 DEF CountFollowers, sets, counters
<1>8. ASSUME NEW c \in Clients, CountFollowing(c) PROVE GraphTypeInv'
    <2>1. Cardinality(FolloweesIn(follows, subject[c][1])) \in Nat
        BY <1>8, ReadsUsers DEF CountFollowing
    <2> DEFINE n == Cardinality(FolloweesIn(follows, subject[c][1]))
    <2>2. /\ counted' = [counted EXCEPT ![c] = [@ EXCEPT ![2] = n]]
          /\ counted[c] \in Nat \X Nat
        BY <1>8 DEF CountFollowing
    <2> HIDE DEF n
    <2>3. [counted[c] EXCEPT ![2] = n] \in Nat \X Nat
        BY <2>1, <2>2, SecondReplaced DEF n
    <2>4. counted' \in [Clients -> Nat \X Nat]
        BY <2>2, <2>3
    <2>5. stale' \subseteq Keys
        BY <1>8, ReadsUsers DEF CountFollowing, CountedAcross, Keys
    <2> QED BY <1>8, <2>4, <2>5 DEF CountFollowing, sets, counters
<1>9. ASSUME NEW c \in Clients, SetCounters(c) PROVE GraphTypeInv'
    BY <1>9 DEF SetCounters, graphBounds, sets
<1>10. ASSUME NEW w \in Workers, NEW u \in Users, Free(w), SizeFollowers(w, u)
       PROVE  GraphTypeInv'
    BY <1>10 DEF SizeFollowers, sets, counters
<1>11. ASSUME NEW w \in Workers, RandomFollowers(w) PROVE GraphTypeInv'
    <2>1. FollowersIn(followers, subject[w][1]) \subseteq Users
        BY <1>11, ReadsUsers DEF RandomFollowers
    <2> QED BY <1>11, <2>1 DEF RandomFollowers, graphBounds, sets, counters
<1>12. ASSUME NEW w \in Workers, SelectFollowers(w) PROVE GraphTypeInv'
    <2> DEFINE found == FollowersIn(follows, subject[w][1])
    <2>1. found \subseteq Users
        BY <1>12, ReadsUsers DEF SelectFollowers
    <2>2. found \X {subject[w][1]} \subseteq Pairs
        BY FollowersArePairs
    <2> HIDE DEF found
    <2>3. /\ step[w] = "select_followers"
          /\ ids' = [ids EXCEPT ![w] = found]
          /\ GoTo(w, IF found = {} THEN "got_followers" ELSE "add_followers", subject[w])
          /\ UNCHANGED <<follows, sets, counters, counted, graphBounds>>
        BY <1>12 DEF SelectFollowers, found
    <2>4. GraphTypeOK' /\ StepShape'
        BY <2>1, <2>3 DEF graphBounds, sets, counters
    <2>5. HydratesPairs'
        BY <2>1, <2>2, <2>3 DEF graphBounds, sets, counters
    <2> QED BY <2>4, <2>5
<1>13. ASSUME NEW w \in Workers, AddFollowers(w) PROVE GraphTypeInv'
    BY <1>13 DEF AddFollowers, graphBounds, counters
<1>14. ASSUME NEW w \in Workers, DropFollowers(w) PROVE GraphTypeInv'
    BY <1>14 DEF DropFollowers, graphBounds, sets, counters
<1>15. ASSUME NEW u \in Users, EvictGraphKey(u) PROVE GraphTypeInv'
    <2>1. stale' \subseteq Keys
        BY <1>15 DEF EvictGraphKey, Keys
    <2>2. followers' \subseteq followers /\ following' \subseteq following
        BY <1>15 DEF EvictGraphKey, sets, counters
    <2>3. followerCount' \in [Users -> Counts] /\ followingCount' \in [Users -> Counts]
        BY <1>15 DEF EvictGraphKey, counters
    <2>4. /\ UNCHANGED <<follows, step, subject, counted, ids, overlapped, cut>>
          /\ UNCHANGED <<requests, profiles, reads, aborts>>
          /\ graphEvictions' \in 0..MaxGraphEvictions
        BY <1>15 DEF EvictGraphKey, locals
    <2> QED BY <2>1, <2>2, <2>3, <2>4
<1>16. ASSUME NEW c \in Clients, AbortRequest(c) PROVE GraphTypeInv'
    <2>1. cut' \subseteq Pairs
        BY <1>16 DEF AbortRequest, Pending
    <2> QED BY <1>16, <2>1 DEF AbortRequest, sets, counters
<1>17. CASE UNCHANGED graphVars
    BY <1>17 DEF graphVars, graphBounds, sets, counters, locals
<1> QED BY <1>1, <1>2, <1>3, <1>4, <1>5, <1>6, <1>7, <1>8, <1>9, <1>10, <1>11,
           <1>12, <1>13, <1>14, <1>15, <1>16, <1>17
        DEF Next, GraphClientNext, GraphWorkerNext

\* In every reachable state the table, the sets, the counters and the processes
\* have their types; in particular only pairs that users made are hydrated.
THEOREM GraphTypeCorrect == GraphSpec => []GraphTypeOK
<1>1. GraphTypeInv => GraphTypeOK BY DEF GraphTypeInv
<1> QED BY GraphInit_Type, GraphNext_Type, <1>1, PTL DEF GraphSpec

-----------------------------------------------------------------------------
(* The sets *)

SetsInv == GraphTypeInv /\ RequestsAgree /\ NoFollowerLost /\ FollowingExact

LEMMA GraphInit_Sets == GraphInit => SetsInv
<1>1. GraphInit => RequestsAgree /\ NoFollowerLost /\ FollowingExact
    BY DEF GraphInit, RequestsAgree, NoFollowerLost, FollowingExact, Spoilt, Procs
<1> QED BY <1>1, GraphInit_Type DEF SetsInv

\* The commit of a request makes its pair overlapped if another one is pending.
LEMMA CommitOverlaps ==
    ASSUME SetsInv, NEW c \in Clients, NEW pair \in Pairs, StartRequest(c, pair)
    PROVE  /\ overlapped \subseteq overlapped' /\ stale \subseteq stale'
           /\ \A d \in Clients :
                subject[d] = pair /\ step[d] \in {"follow_graph", "unfollow_graph"}
                    => pair \in overlapped'
           /\ step[c] = "idle" /\ subject[c] = NoSubject /\ NoSubject \notin Pairs
<1>1. overlapped' = overlapped \union {q \in {pair} : InFlight(q)} /\ stale \subseteq stale'
    BY DEF StartRequest
<1>2. ASSUME NEW d \in Clients, subject[d] = pair,
             step[d] \in {"follow_graph", "unfollow_graph"}
      PROVE  InFlight(pair)
    BY <1>2 DEF InFlight, Pending
<1>3. step[c] = "idle" /\ subject[c] = NoSubject
    BY DEF StartRequest, Free, SetsInv, GraphTypeInv, GraphTypeOK, Procs
<1>4. NoSubject \notin Pairs
    BY GraphAssumption DEF NoSubject
<1> QED BY <1>1, <1>2, <1>3, <1>4

GraphInv == RequestsAgree /\ NoFollowerLost /\ FollowingExact

\* What a cut-off request leaves undone concerns its pair only.
LEMMA AbortRequest_Sets ==
    ASSUME GraphTypeOK, GraphInv, NEW c \in Clients, AbortRequest(c)
    PROVE  GraphInv'
<1> USE DEF RequestsAgree, NoFollowerLost, FollowingExact, Spoilt, Pending, GoTo, Done
<1>typ. /\ follows \subseteq Pairs
        /\ DOMAIN step = Procs /\ DOMAIN subject = Procs
        /\ Clients \subseteq Procs /\ Workers \subseteq Procs
    BY DEF GraphTypeOK, Procs
<1>1. /\ UNCHANGED <<follows, followers, following, overlapped, stale>>
      /\ GoTo(c, "idle", NoSubject)
      /\ cut \subseteq cut'
      /\ step[c] \in {"follow_graph", "unfollow_graph"} => subject[c] \in cut'
    BY DEF AbortRequest, sets
<1>2. ASSUME NEW s \in {"follow_graph", "unfollow_graph"}, NEW pair, pair \notin Spoilt'
      PROVE  Pending(s, pair)' = Pending(s, pair)
    BY <1>1, <1>2, <1>typ
<1>3. RequestsAgree'
    BY <1>1, <1>typ DEF GraphInv
<1>4. NoFollowerLost'
    <2> SUFFICES ASSUME NEW pair \in (follows \ Spoilt)'
                 PROVE  \/ pair \in followers' \/ Pending("follow_graph", pair)' # {}
                        \/ <<"followers", pair[2]>> \in stale'
        BY Zenon
    <2>1. Pending("follow_graph", pair)' = Pending("follow_graph", pair)
        BY <1>2
    <2>2. pair \in follows \ Spoilt
        BY <1>1
    <2> HIDE DEF Pending
    <2> QED BY <1>1, <2>1, <2>2 DEF GraphInv
<1>5. FollowingExact'
    <2> SUFFICES ASSUME NEW pair \in (Pairs \ Spoilt)'
                 PROVE  /\ pair \in following' =>
                            \/ pair \in follows'
                            \/ Pending("unfollow_graph", pair)' # {}
                        /\ pair \in follows' =>
                            \/ pair \in following'
                            \/ Pending("follow_graph", pair)' # {}
                            \/ <<"following", pair[1]>> \in stale'
        BY Zenon
    <2>1. /\ Pending("follow_graph", pair)' = Pending("follow_graph", pair)
          /\ Pending("unfollow_graph", pair)' = Pending("unfollow_graph", pair)
        BY <1>2
    <2>2. pair \in Pairs \ Spoilt
        BY <1>1
    <2> HIDE DEF Pending
    <2> QED BY <1>1, <2>1, <2>2 DEF GraphInv
<1> QED BY <1>3, <1>4, <1>5 DEF GraphInv

LEMMA GraphNext_Sets ==
    ASSUME SetsInv, [Next]_graphVars
    PROVE  SetsInv'
<1>0. GraphTypeInv'
    BY GraphNext_Type DEF SetsInv
<1> DEFINE Agreement == RequestsAgree /\ NoFollowerLost /\ FollowingExact
<1> USE DEF RequestsAgree, NoFollowerLost, FollowingExact, Spoilt, Pending, GoTo, Done
<1>typ. /\ follows \subseteq Pairs
        /\ DOMAIN step = Procs /\ DOMAIN subject = Procs
        /\ Clients \subseteq Procs /\ Workers \subseteq Procs
    BY GraphAssumption DEF SetsInv, GraphTypeInv, GraphTypeOK, Procs
<1>1. ASSUME NEW c \in Clients, NEW pair \in Pairs, FollowCommit(c, pair)
      PROVE  Agreement'
    <2>1. StartRequest(c, pair) BY <1>1 DEF FollowCommit
    <2> QED BY <1>1, <2>1, <1>typ, CommitOverlaps
            DEF FollowCommit, SetsInv, sets
<1>2. ASSUME NEW c \in Clients, NEW pair \in Pairs, UnfollowCommit(c, pair)
      PROVE  Agreement'
    <2>1. StartRequest(c, pair) BY <1>2 DEF UnfollowCommit
    <2> QED BY <1>2, <2>1, <1>typ, CommitOverlaps
            DEF UnfollowCommit, SetsInv, sets
<1>3. ASSUME NEW c \in Clients, FollowGraph(c) PROVE Agreement'
    BY <1>3, <1>typ DEF FollowGraph, SetsInv, graphBounds
<1>4. ASSUME NEW c \in Clients, UnfollowGraph(c) PROVE Agreement'
    BY <1>4, <1>typ DEF UnfollowGraph, SetsInv, graphBounds
<1>5. ASSUME NEW p \in Procs, step[p] \notin {"follow_graph", "unfollow_graph"},
             NEW s, s \notin {"follow_graph", "unfollow_graph"}, NEW x, GoTo(p, s, x),
             UNCHANGED <<follows, following, overlapped, cut>>,
             followers \subseteq followers', stale \subseteq stale'
      PROVE  Agreement'
    BY <1>5, <1>typ DEF SetsInv
<1>6. ASSUME NEW u \in Users, EvictGraphKey(u) PROVE Agreement'
    BY <1>6, <1>typ DEF EvictGraphKey, SetsInv, locals, sets
<1>7. ASSUME UNCHANGED graphVars PROVE Agreement'
    <2>1. UNCHANGED <<follows, followers, following, step, subject, overlapped,
                      cut, stale>>
        BY <1>7 DEF graphVars, sets, locals, graphBounds
    <2> QED BY <2>1 DEF SetsInv
<1>8. ASSUME NEW c \in Clients, FollowEnqueue(c) PROVE Agreement'
    BY <1>5, <1>8, <1>typ DEF FollowEnqueue, sets, graphBounds
<1>9. ASSUME NEW c \in Clients, NEW u \in Users, ViewProfile(c, u) PROVE Agreement'
    BY <1>5, <1>9, <1>typ DEF ViewProfile, Free, sets
<1>10. ASSUME NEW c \in Clients, CountFollowers(c) PROVE Agreement'
    BY <1>5, <1>10, <1>typ DEF CountFollowers, CountedAcross, sets
<1>11. ASSUME NEW c \in Clients, CountFollowing(c) PROVE Agreement'
    BY <1>5, <1>11, <1>typ DEF CountFollowing, CountedAcross, sets
<1>12. ASSUME NEW c \in Clients, SetCounters(c) PROVE Agreement'
    BY <1>5, <1>12, <1>typ DEF SetCounters, sets, graphBounds
<1>13. ASSUME NEW w \in Workers, NEW u \in Users, Free(w), SizeFollowers(w, u)
       PROVE  Agreement'
    BY <1>5, <1>13, <1>typ DEF SizeFollowers, Free, sets
<1>14. ASSUME NEW w \in Workers, GraphWorkerNext(w) PROVE Agreement'
    <2>1. CASE RandomFollowers(w)
        BY <1>5, <2>1, <1>typ DEF RandomFollowers, sets, graphBounds
    <2>2. CASE SelectFollowers(w)
        BY <1>5, <2>2, <1>typ DEF SelectFollowers, sets, graphBounds
    <2>3. CASE AddFollowers(w)
        BY <1>5, <2>3, <1>typ DEF AddFollowers, graphBounds
    <2> QED BY <1>14, <2>1, <2>2, <2>3 DEF GraphWorkerNext
<1>15. ASSUME NEW w \in Workers, DropFollowers(w) PROVE Agreement'
    BY <1>5, <1>15, <1>typ DEF DropFollowers, sets, graphBounds
<1>16. ASSUME NEW c \in Clients, AbortRequest(c) PROVE Agreement'
    BY <1>16, AbortRequest_Sets DEF SetsInv, GraphTypeInv, GraphInv
<1> HIDE DEF Agreement
<1>17. Agreement'
    BY <1>1, <1>2, <1>3, <1>4, <1>6, <1>7, <1>8, <1>9, <1>10, <1>11, <1>12,
       <1>13, <1>14, <1>15, <1>16
    DEF Next, GraphClientNext
<1> QED BY <1>0, <1>17 DEF SetsInv, Agreement

\* Whoever follows in the table is in the Redis set or about to be added to it,
\* unless that set was evicted, or two requests of the pair overlapped or one
\* was cut off (follow, unfollow and get_followers).
THEOREM NoFollowerIsLost == GraphSpec => []NoFollowerLost
<1>1. SetsInv => NoFollowerLost BY DEF SetsInv
<1> QED BY GraphInit_Sets, GraphNext_Sets, <1>1, PTL DEF GraphSpec

\* The following set shows no former followee and, unless it was evicted, every
\* present one, but for a request about to apply its change.
THEOREM FollowingIsExact == GraphSpec => []FollowingExact
<1>1. SetsInv => FollowingExact BY DEF SetsInv
<1> QED BY GraphInit_Sets, GraphNext_Sets, <1>1, PTL DEF GraphSpec

-----------------------------------------------------------------------------
(* The counters *)

Bit(b) == IF b THEN 1 ELSE 0
Side(k, u) == {p \in Pairs : p[k] = u}

\* No request is between commit and MULTI that owes counter k of user u.
NoneOwed(k, u) == \A pair \in Side(k, u) : ~InFlight(pair)

\* What a backfill is about to SET is still what the table holds, and nothing
\* is owed to it, unless the counter is marked stale.
CountsAgree ==
    \A c \in Clients, u \in Users :
        subject[c] = <<u, u>> =>
            /\ step[c] \in {"count_following", "set_counters"}
                  /\ <<"follower_count", u>> \notin stale =>
                /\ counted[c][1] = Cardinality(FollowersIn(follows, u))
                /\ NoneOwed(2, u)
            /\ step[c] = "set_counters" /\ <<"following_count", u>> \notin stale =>
                /\ counted[c][2] = Cardinality(FolloweesIn(follows, u))
                /\ NoneOwed(1, u)

CountersGood == GraphTypes /\ CountsAgree /\ CountersExact
CountersInv == GraphTypeInv /\ CountsAgree /\ CountersExact

\* Two finite sets that differ in c at most.
LEMMA OneMoves ==
    ASSUME NEW S, NEW T, NEW c, IsFiniteSet(S), IsFiniteSet(T), S \ {c} = T \ {c}
    PROVE  /\ Cardinality(S) \in Nat /\ Cardinality(T) \in Nat
           /\ Cardinality(T) - Bit(c \in T) = Cardinality(S) - Bit(c \in S)
<1>1. Cardinality(S) \in Nat /\ Cardinality(T) \in Nat
    BY FS_CardinalityType
<1>2. ASSUME NEW R, IsFiniteSet(R)
      PROVE  Cardinality(R \ {c}) = Cardinality(R) - Bit(c \in R)
    <2>1. CASE c \in R
        BY <1>2, <2>1, FS_RemoveElement DEF Bit
    <2>2. CASE c \notin R
        <3>1. R \ {c} = R BY <2>2
        <3>2. Cardinality(R) \in Nat BY <1>2, FS_CardinalityType
        <3> QED BY <2>2, <3>1, <3>2 DEF Bit
    <2> QED BY <2>1, <2>2
<1> QED BY <1>1, <1>2

\* The pairs of u, counted on either side, when one pair joins or leaves.
LEMMA PairMoves ==
    ASSUME NEW R \in SUBSET Pairs, NEW pair \in Pairs, pair \notin R, NEW u \in Users
    PROVE  /\ Cardinality(FollowersIn(R \union {pair}, u))
                = Cardinality(FollowersIn(R, u)) + Bit(pair[2] = u)
           /\ Cardinality(FolloweesIn(R \union {pair}, u))
                = Cardinality(FolloweesIn(R, u)) + Bit(pair[1] = u)
<1>1. \A p \in Pairs : p = <<p[1], p[2]>>
    BY GraphAssumption
<1>2. \A Q \in SUBSET Pairs : IsFiniteSet(FollowersIn(Q, u)) /\ IsFiniteSet(FolloweesIn(Q, u))
    BY FollowersFinite
<1>3. /\ IsFiniteSet(FollowersIn(R, u)) /\ IsFiniteSet(FollowersIn(R \union {pair}, u))
      /\ IsFiniteSet(FolloweesIn(R, u)) /\ IsFiniteSet(FolloweesIn(R \union {pair}, u))
    BY <1>2
<1>4. Cardinality(FollowersIn(R \union {pair}, u))
        = Cardinality(FollowersIn(R, u)) + Bit(pair[2] = u)
    <2>1. CASE pair[2] = u
        <3>1. FollowersIn(R \union {pair}, u) = FollowersIn(R, u) \union {pair[1]}
            BY <2>1 DEF FollowersIn
        <3>2. pair[1] \notin FollowersIn(R, u)
            BY <1>1, <2>1 DEF FollowersIn
        <3>3. Cardinality(FollowersIn(R, u) \union {pair[1]}) = Cardinality(FollowersIn(R, u)) + 1
            BY <1>3, <3>2, FS_AddElement
        <3>4. Bit(pair[2] = u) = 1
            BY <2>1 DEF Bit
        <3> QED BY <3>1, <3>3, <3>4
    <2>2. CASE pair[2] # u
        <3>1. FollowersIn(R \union {pair}, u) = FollowersIn(R, u)
            BY <2>2 DEF FollowersIn
        <3> QED BY <1>3, <2>2, <3>1, FS_CardinalityType DEF Bit
    <2> QED BY <2>1, <2>2
<1>5. Cardinality(FolloweesIn(R \union {pair}, u))
        = Cardinality(FolloweesIn(R, u)) + Bit(pair[1] = u)
    <2>1. CASE pair[1] = u
        <3>1. FolloweesIn(R \union {pair}, u) = FolloweesIn(R, u) \union {pair[2]}
            BY <2>1 DEF FolloweesIn
        <3>2. pair[2] \notin FolloweesIn(R, u)
            <4> SUFFICES ASSUME NEW p \in R, p[1] = u, p[2] = pair[2]
                         PROVE  FALSE
                BY DEF FolloweesIn
            <4>1. p = pair
                BY <1>1, <2>1
            <4> QED BY <4>1
        <3>3. Cardinality(FolloweesIn(R, u) \union {pair[2]}) = Cardinality(FolloweesIn(R, u)) + 1
            BY <1>3, <3>2, FS_AddElement
        <3>4. Bit(pair[1] = u) = 1
            BY <2>1 DEF Bit
        <3> QED BY <3>1, <3>3, <3>4
    <2>2. CASE pair[1] # u
        <3>1. FolloweesIn(R \union {pair}, u) = FolloweesIn(R, u)
            BY <2>2 DEF FolloweesIn
        <3> QED BY <1>3, <2>2, <3>1, FS_CardinalityType DEF Bit
    <2> QED BY <2>1, <2>2
<1> QED BY <1>4, <1>5

\* What the requests in flight still owe the counters, when one of them moves.
LEMMA DeltaMoves ==
    ASSUME GraphTypeOK, NEW c \in Clients, NEW s, NEW x, GoTo(c, s, x), NEW P
    PROVE  /\ PendingDelta(P) \in Int /\ PendingDelta(P)' \in Int
           /\ PendingDelta(P)' = PendingDelta(P)
                + Bit(s = "follow_graph" /\ x \in P)
                - Bit(step[c] = "follow_graph" /\ subject[c] \in P)
                - Bit(s = "unfollow_graph" /\ x \in P)
                + Bit(step[c] = "unfollow_graph" /\ subject[c] \in P)
<1> DEFINE At(t) == {d \in Clients : step[d] = t /\ subject[d] \in P}
<1>1. /\ DOMAIN step = Procs /\ DOMAIN subject = Procs /\ Clients \subseteq Procs
    BY DEF GraphTypeOK, Procs
<1>2. step'[c] = s /\ subject'[c] = x
    BY <1>1 DEF GoTo
<1>3. ASSUME NEW t
      PROVE  /\ Cardinality(At(t)) \in Nat /\ Cardinality(At(t)') \in Nat
             /\ Cardinality(At(t)') - Bit(s = t /\ x \in P)
                  = Cardinality(At(t)) - Bit(step[c] = t /\ subject[c] \in P)
    <2>1. At(t) \subseteq Clients /\ At(t)' \subseteq Clients
        OBVIOUS
    <2>2. IsFiniteSet(At(t)) /\ IsFiniteSet(At(t)')
        BY <2>1, FS_Subset, GraphAssumption
    <2>3. At(t) \ {c} = At(t)' \ {c}
        BY <1>1 DEF GoTo
    <2>4. /\ c \in At(t) <=> (step[c] = t /\ subject[c] \in P)
          /\ c \in At(t)' <=> (s = t /\ x \in P)
        BY <1>2
    <2> HIDE DEF At
    <2>5. Bit(c \in At(t)) = Bit(step[c] = t /\ subject[c] \in P)
        BY <2>4 DEF Bit
    <2>6. Bit(c \in At(t)') = Bit(s = t /\ x \in P)
        BY <2>4 DEF Bit
    <2> QED BY <2>2, <2>3, <2>5, <2>6, OneMoves
<1>4. /\ PendingDelta(P) = Cardinality(At("follow_graph")) - Cardinality(At("unfollow_graph"))
      /\ PendingDelta(P)' = Cardinality(At("follow_graph")') - Cardinality(At("unfollow_graph")')
    BY DEF PendingDelta
<1> HIDE DEF At
<1> QED BY <1>3, <1>4 DEF Bit

LEMMA SidesOfPair ==
    ASSUME NEW pair \in Pairs, NEW u \in Users
    PROVE  (pair \in Side(2, u) <=> pair[2] = u) /\ (pair \in Side(1, u) <=> pair[1] = u)
BY DEF Side

\* CountersExact for one user, with its sets of pairs named.
ExactFor(u) ==
    /\ <<"follower_count", u>> \notin stale /\ (\A p \in cut : p[2] # u) =>
        Value(followerCount[u]) + PendingDelta(Side(2, u)) = Cardinality(FollowersIn(follows, u))
    /\ <<"following_count", u>> \notin stale /\ (\A p \in cut : p[1] # u) =>
        Value(followingCount[u]) + PendingDelta(Side(1, u)) = Cardinality(FolloweesIn(follows, u))

LEMMA CountersByUser ==
    /\ CountersExact <=> \A u \in Users : ExactFor(u)
    /\ CountersExact' <=> \A u \in Users : ExactFor(u)'
BY DEF CountersExact, ExactFor, Side

LEMMA GraphInit_Counters == GraphInit => CountersInv
<1> SUFFICES ASSUME GraphInit PROVE CountersInv
    OBVIOUS
<1>1. CountsAgree
    BY DEF GraphInit, CountsAgree, Procs
<1>2. ASSUME NEW u \in Users PROVE ExactFor(u)
    <2>1. FollowersIn(follows, u) = {} /\ FolloweesIn(follows, u) = {}
        BY DEF GraphInit, FollowersIn, FolloweesIn
    <2>2. ASSUME NEW P PROVE PendingDelta(P) = 0
        <3>1. /\ {c \in Clients : step[c] = "follow_graph" /\ subject[c] \in P} = {}
              /\ {c \in Clients : step[c] = "unfollow_graph" /\ subject[c] \in P} = {}
            BY DEF GraphInit, Procs
        <3> QED BY <3>1, FS_EmptySet DEF PendingDelta
    <2>3. Value(followerCount[u]) = 0 /\ Value(followingCount[u]) = 0
        BY DEF GraphInit, Value
    <2> QED BY <2>1, <2>2, <2>3, FS_EmptySet DEF ExactFor
<1> QED BY <1>1, <1>2, CountersByUser, GraphInit_Type DEF CountersInv

LEMMA CounterTypes ==
    ASSUME GraphTypeOK
    PROVE  /\ \A u \in Users : Value(followerCount[u]) \in Int /\ Value(followingCount[u]) \in Int
           /\ \A R \in SUBSET Pairs, u \in Users :
                /\ Cardinality(FollowersIn(R, u)) \in Int
                /\ Cardinality(FolloweesIn(R, u)) \in Int
           /\ \A pair \in Pairs, u \in Users :
                /\ Bit(pair \in Side(2, u)) = Bit(pair[2] = u) /\ Bit(pair[2] = u) \in Int
                /\ Bit(pair \in Side(1, u)) = Bit(pair[1] = u) /\ Bit(pair[1] = u) \in Int
           /\ DOMAIN step = Procs /\ DOMAIN subject = Procs
           /\ Clients \subseteq Procs /\ Workers \subseteq Procs
<1>1. \A u \in Users : Value(followerCount[u]) \in Int /\ Value(followingCount[u]) \in Int
    BY DEF GraphTypeOK, Counts, Value
<1>2. ASSUME NEW R \in SUBSET Pairs, NEW u \in Users
      PROVE  /\ Cardinality(FollowersIn(R, u)) \in Int
             /\ Cardinality(FolloweesIn(R, u)) \in Int
    BY <1>2, FollowersFinite
<1>3. ASSUME NEW pair \in Pairs, NEW u \in Users
      PROVE  /\ Bit(pair \in Side(2, u)) = Bit(pair[2] = u) /\ Bit(pair[2] = u) \in Int
             /\ Bit(pair \in Side(1, u)) = Bit(pair[1] = u) /\ Bit(pair[1] = u) \in Int
    BY <1>3, SidesOfPair DEF Bit
<1>4. /\ DOMAIN step = Procs /\ DOMAIN subject = Procs
      /\ Clients \subseteq Procs /\ Workers \subseteq Procs
    BY DEF GraphTypeOK, Procs
<1> QED BY <1>1, <1>2, <1>3, <1>4

LEMMA FollowCommit_Counters ==
    ASSUME GraphTypeOK, CountersExact,
           NEW c \in Clients, NEW pair \in Pairs, FollowCommit(c, pair)
    PROVE  CountersExact'
<1>1. /\ step[c] = "idle" /\ pair \notin follows /\ follows' = follows \union {pair}
      /\ follows \in SUBSET Pairs /\ follows' \in SUBSET Pairs
      /\ GoTo(c, "follow_graph", pair)
      /\ UNCHANGED <<followerCount, followingCount, cut>> /\ stale \subseteq stale'
    BY DEF FollowCommit, StartRequest, Free, counters, GraphTypeOK
<1>2. ASSUME NEW u \in Users PROVE ExactFor(u)'
    <2>1. \A k \in {1, 2} :
            /\ PendingDelta(Side(k, u)) \in Int
            /\ PendingDelta(Side(k, u))' = PendingDelta(Side(k, u)) + Bit(pair \in Side(k, u))
        BY <1>1, DeltaMoves DEF Bit
    <2>2. ExactFor(u)
        BY <1>1, <1>2, CountersByUser
    <2>3. /\ Cardinality(FollowersIn(follows', u)) = Cardinality(FollowersIn(follows, u)) + Bit(pair[2] = u)
          /\ Cardinality(FolloweesIn(follows', u)) = Cardinality(FolloweesIn(follows, u)) + Bit(pair[1] = u)
        BY <1>1, PairMoves
    <2>4. /\ Cardinality(FollowersIn(follows', u)) \in Int
          /\ Cardinality(FolloweesIn(follows', u)) \in Int
        BY <1>1, CounterTypes
    <2> QED BY CounterTypes, <1>1, <2>1, <2>2, <2>3, <2>4 DEF ExactFor
<1> QED BY <1>2, CountersByUser

LEMMA UnfollowCommit_Counters ==
    ASSUME GraphTypeOK, CountersExact,
           NEW c \in Clients, NEW pair \in Pairs, UnfollowCommit(c, pair)
    PROVE  CountersExact'
<1>1. /\ step[c] = "idle" /\ pair \in follows /\ follows' = follows \ {pair}
      /\ follows \in SUBSET Pairs /\ follows' \in SUBSET Pairs
      /\ GoTo(c, "unfollow_graph", pair)
      /\ UNCHANGED <<followerCount, followingCount, cut>> /\ stale \subseteq stale'
    BY DEF UnfollowCommit, StartRequest, Free, counters, GraphTypeOK
<1>2. ASSUME NEW u \in Users PROVE ExactFor(u)'
    <2>1. \A k \in {1, 2} :
            /\ PendingDelta(Side(k, u)) \in Int
            /\ PendingDelta(Side(k, u))' = PendingDelta(Side(k, u)) - Bit(pair \in Side(k, u))
        BY <1>1, DeltaMoves DEF Bit
    <2>2. ExactFor(u)
        BY <1>1, <1>2, CountersByUser
    <2>3. /\ Cardinality(FollowersIn(follows, u)) = Cardinality(FollowersIn(follows', u)) + Bit(pair[2] = u)
          /\ Cardinality(FolloweesIn(follows, u)) = Cardinality(FolloweesIn(follows', u)) + Bit(pair[1] = u)
        <3>1. pair \notin follows' /\ follows = follows' \union {pair}
            BY <1>1
        <3> QED BY <1>1, <3>1, PairMoves
    <2>4. /\ Cardinality(FollowersIn(follows', u)) \in Int
          /\ Cardinality(FolloweesIn(follows', u)) \in Int
        BY <1>1, CounterTypes
    <2>5. /\ Bit(pair \in Side(2, u)) = Bit(pair[2] = u) /\ Bit(pair[2] = u) \in Int
          /\ Bit(pair \in Side(1, u)) = Bit(pair[1] = u) /\ Bit(pair[1] = u) \in Int
          /\ Value(followerCount[u]) \in Int /\ Value(followingCount[u]) \in Int
        BY CounterTypes
    <2>6. /\ PendingDelta(Side(2, u))' = PendingDelta(Side(2, u)) - Bit(pair[2] = u)
          /\ PendingDelta(Side(1, u))' = PendingDelta(Side(1, u)) - Bit(pair[1] = u)
          /\ PendingDelta(Side(2, u)) \in Int /\ PendingDelta(Side(1, u)) \in Int
        BY <2>1, <2>5
    <2>7. UNCHANGED <<followerCount, followingCount, cut>> /\ stale \subseteq stale'
        BY <1>1
    <2>8. ASSUME <<"follower_count", u>> \notin stale, \A p \in cut : p[2] # u
          PROVE  Value(followerCount[u]) + PendingDelta(Side(2, u))'
                    = Cardinality(FollowersIn(follows', u))
        <3>1. Value(followerCount[u]) + PendingDelta(Side(2, u)) = Cardinality(FollowersIn(follows, u))
            BY <2>2, <2>8 DEF ExactFor
        <3> QED BY <2>3, <2>4, <2>5, <2>6, <3>1
    <2>9. ASSUME <<"following_count", u>> \notin stale, \A p \in cut : p[1] # u
          PROVE  Value(followingCount[u]) + PendingDelta(Side(1, u))'
                    = Cardinality(FolloweesIn(follows', u))
        <3>1. Value(followingCount[u]) + PendingDelta(Side(1, u)) = Cardinality(FolloweesIn(follows, u))
            BY <2>2, <2>9 DEF ExactFor
        <3> DEFINE v == Value(followingCount[u])
                   d == PendingDelta(Side(1, u))
                   e == PendingDelta(Side(1, u))'
                   n == Cardinality(FolloweesIn(follows, u))
                   m == Cardinality(FolloweesIn(follows', u))
                   b == Bit(pair[1] = u)
        <3>2. v \in Int /\ d \in Int /\ m \in Int /\ b \in Int
            BY <2>4, <2>5, <2>6
        <3>3. v + d = n /\ n = m + b /\ e = d - b
            BY <2>3, <2>6, <3>1
        <3> HIDE DEF v, d, e, n, m, b
        <3>4. v + e = m
            BY <3>2, <3>3
        <3> QED BY <3>4 DEF v, e, m
    <2> QED BY <2>7, <2>8, <2>9 DEF ExactFor
<1> QED BY <1>2, CountersByUser

LEMMA FollowGraph_Counters ==
    ASSUME GraphTypeOK, CountersExact,
           NEW c \in Clients, subject[c] \in Pairs, FollowGraph(c)
    PROVE  CountersExact'
<1> DEFINE pair == subject[c]
<1>1. /\ step[c] = "follow_graph" /\ pair \in Pairs /\ pair \in Users \X Users
      /\ follows \in SUBSET Pairs
      /\ UNCHANGED <<follows, cut, stale>>
    BY GraphAssumption DEF FollowGraph, graphBounds, GraphTypeOK
<1>2. \E x : GoTo(c, "follow_enqueue", x)
    BY DEF FollowGraph
<1>3. ASSUME NEW u \in Users PROVE ExactFor(u)'
    <2>1. \A k \in {1, 2} :
            /\ PendingDelta(Side(k, u)) \in Int
            /\ PendingDelta(Side(k, u))' = PendingDelta(Side(k, u)) - Bit(pair \in Side(k, u))
        BY <1>1, <1>2, DeltaMoves DEF Bit
    <2>2. ExactFor(u)
        BY <1>1, <1>3, CountersByUser
    <2>3. /\ Value(followerCount'[u]) = Value(followerCount[u]) + Bit(pair[2] = u)
          /\ Value(followingCount'[u]) = Value(followingCount[u]) + Bit(pair[1] = u)
        BY <1>1, GraphAssumption DEF FollowGraph, Value, Bit, GraphTypeOK, Counts
    <2>4. /\ Cardinality(FollowersIn(follows, u)) \in Int
          /\ Cardinality(FolloweesIn(follows, u)) \in Int
        BY <1>1, CounterTypes
    <2> HIDE DEF pair
    <2> QED BY CounterTypes, <1>1, <2>1, <2>2, <2>3, <2>4 DEF ExactFor
<1> QED BY <1>3, CountersByUser

LEMMA UnfollowGraph_Counters ==
    ASSUME GraphTypeOK, CountersExact,
           NEW c \in Clients, subject[c] \in Pairs, UnfollowGraph(c)
    PROVE  CountersExact'
<1> DEFINE pair == subject[c]
<1>1. /\ step[c] = "unfollow_graph" /\ pair \in Pairs /\ pair \in Users \X Users
      /\ follows \in SUBSET Pairs
      /\ UNCHANGED <<follows, cut, stale>>
    BY GraphAssumption DEF UnfollowGraph, graphBounds, GraphTypeOK
<1>2. \E x : GoTo(c, "idle", x)
    BY DEF UnfollowGraph, Done
<1>3. ASSUME NEW u \in Users PROVE ExactFor(u)'
    <2>1. \A k \in {1, 2} :
            /\ PendingDelta(Side(k, u)) \in Int
            /\ PendingDelta(Side(k, u))' = PendingDelta(Side(k, u)) + Bit(pair \in Side(k, u))
        BY <1>1, <1>2, DeltaMoves DEF Bit
    <2>2. ExactFor(u)
        BY <1>1, <1>3, CountersByUser
    <2>3. /\ Value(followerCount'[u]) = Value(followerCount[u]) - Bit(pair[2] = u)
          /\ Value(followingCount'[u]) = Value(followingCount[u]) - Bit(pair[1] = u)
        BY <1>1, GraphAssumption DEF UnfollowGraph, Value, Bit, GraphTypeOK, Counts
    <2>4. /\ Cardinality(FollowersIn(follows, u)) \in Int
          /\ Cardinality(FolloweesIn(follows, u)) \in Int
        BY <1>1, CounterTypes
    <2> HIDE DEF pair
    <2> QED BY CounterTypes, <1>1, <2>1, <2>2, <2>3, <2>4 DEF ExactFor
<1> QED BY <1>3, CountersByUser

\* Steps that move no counter and owe none.
LEMMA CountersKept ==
    ASSUME CountersExact,
           \A c \in Clients : \A s \in {"follow_graph", "unfollow_graph"} :
               /\ step'[c] = s <=> step[c] = s
               /\ step[c] = s => subject'[c] = subject[c],
           UNCHANGED <<follows, followerCount, followingCount, cut>>, stale \subseteq stale'
    PROVE  CountersExact'
<1>1. ASSUME NEW P PROVE PendingDelta(P)' = PendingDelta(P)
    <2>1. \A s \in {"follow_graph", "unfollow_graph"} :
            {c \in Clients : step'[c] = s /\ subject'[c] \in P}
                = {c \in Clients : step[c] = s /\ subject[c] \in P}
        OBVIOUS
    <2> QED BY <2>1 DEF PendingDelta
<1>2. ASSUME NEW u \in Users PROVE ExactFor(u)'
    <2>1. ExactFor(u) BY <1>2, CountersByUser
    <2> QED BY <1>1, <2>1 DEF ExactFor
<1> QED BY <1>2, CountersByUser

\* What a cut-off request owed is owed to the two users of its pair.
LEMMA AbortRequest_Counters ==
    ASSUME GraphTypeOK, CountersExact, NEW c \in Clients, AbortRequest(c),
           step[c] \in {"follow_graph", "unfollow_graph"} => subject[c] \in Pairs
    PROVE  CountersExact'
<1> DEFINE pair == subject[c]
<1>1. /\ UNCHANGED <<follows, followerCount, followingCount, stale>>
      /\ GoTo(c, "idle", NoSubject)
      /\ cut \subseteq cut'
    BY DEF AbortRequest, Done, counters
<1>2. step[c] \in {"follow_graph", "unfollow_graph"} => pair \in cut' /\ pair \in Pairs
    BY DEF AbortRequest, Pending
<1>3. ASSUME NEW k \in {1, 2}, NEW u \in Users, \A p \in cut' : p[k] # u
      PROVE  PendingDelta(Side(k, u))' = PendingDelta(Side(k, u))
    <2>1. step[c] \in {"follow_graph", "unfollow_graph"} => pair \notin Side(k, u)
        BY <1>2, <1>3 DEF Side
    <2> HIDE DEF pair
    <2>2. /\ PendingDelta(Side(k, u)) \in Int
          /\ PendingDelta(Side(k, u))' = PendingDelta(Side(k, u))
                - Bit(step[c] = "follow_graph" /\ pair \in Side(k, u))
                + Bit(step[c] = "unfollow_graph" /\ pair \in Side(k, u))
        BY <1>1, DeltaMoves DEF Bit, pair
    <2> QED BY <2>1, <2>2 DEF Bit
<1>4. ASSUME NEW u \in Users PROVE ExactFor(u)'
    <2>1. ExactFor(u) BY <1>1, <1>4, CountersByUser
    <2> QED BY <1>1, <1>3, <2>1 DEF ExactFor
<1> QED BY <1>4, CountersByUser

\* A backfill sets a counter to what it holds already, unless it is stale.
LEMMA BackfillSets ==
    ASSUME CountersGood, NEW c \in Clients, SetCounters(c), NEW u \in Users
    PROVE  /\ <<"follower_count", u>> \notin stale /\ (\A p \in cut : p[2] # u) =>
                Value(followerCount'[u]) = Value(followerCount[u])
           /\ <<"following_count", u>> \notin stale /\ (\A p \in cut : p[1] # u) =>
                Value(followingCount'[u]) = Value(followingCount[u])
<1> DEFINE v == subject[c][1]
<1>1. /\ step[c] = "set_counters" /\ subject[c] = <<v, v>> /\ v \in Users
      /\ followerCount' = [followerCount EXCEPT ![v] = counted[c][1]]
      /\ followingCount' = [followingCount EXCEPT ![v] = counted[c][2]]
      /\ GraphTypeOK
    BY ReadsUsers DEF SetCounters, CountersGood, GraphTypes, UserSteps, Procs
<1>2. /\ counted[c][1] \in Nat /\ counted[c][2] \in Nat
      /\ followerCount \in [Users -> Counts] /\ followingCount \in [Users -> Counts]
      /\ Missing \notin Int /\ follows \in SUBSET Pairs
    BY <1>1, GraphAssumption DEF GraphTypeOK
<1> HIDE DEF v
<1>3. CASE u # v
    BY <1>1, <1>2, <1>3
<1>4. CASE u = v
    <2>1. /\ Value(followerCount'[u]) = counted[c][1]
          /\ Value(followingCount'[u]) = counted[c][2]
        BY <1>1, <1>2, <1>4 DEF Value
    <2>2. ExactFor(u) /\ Value(followerCount[u]) \in Int /\ Value(followingCount[u]) \in Int
        BY <1>1, CountersByUser, CounterTypes DEF CountersGood
    <2>3. ASSUME NEW k \in {1, 2}, NoneOwed(k, u) PROVE PendingDelta(Side(k, u)) = 0
        <3>1. /\ {d \in Clients : step[d] = "follow_graph" /\ subject[d] \in Side(k, u)} = {}
              /\ {d \in Clients : step[d] = "unfollow_graph" /\ subject[d] \in Side(k, u)} = {}
            BY <2>3 DEF NoneOwed, InFlight, Pending
        <3> QED BY <3>1, FS_EmptySet DEF PendingDelta
    <2>4. ASSUME <<"follower_count", u>> \notin stale, \A p \in cut : p[2] # u
          PROVE  Value(followerCount'[u]) = Value(followerCount[u])
        <3>1. NoneOwed(2, u) /\ counted[c][1] = Cardinality(FollowersIn(follows, u))
            BY <1>1, <1>4, <2>4 DEF CountersGood, CountsAgree
        <3>2. Value(followerCount[u]) + 0 = Cardinality(FollowersIn(follows, u))
            BY <2>2, <2>3, <2>4, <3>1 DEF ExactFor
        <3> QED BY <2>1, <2>2, <3>1, <3>2
    <2>5. ASSUME <<"following_count", u>> \notin stale, \A p \in cut : p[1] # u
          PROVE  Value(followingCount'[u]) = Value(followingCount[u])
        <3>1. NoneOwed(1, u) /\ counted[c][2] = Cardinality(FolloweesIn(follows, u))
            BY <1>1, <1>4, <2>5 DEF CountersGood, CountsAgree
        <3>2. Value(followingCount[u]) + 0 = Cardinality(FolloweesIn(follows, u))
            BY <2>2, <2>3, <2>5, <3>1 DEF ExactFor
        <3> QED BY <2>1, <2>2, <3>1, <3>2
    <2> QED BY <2>4, <2>5
<1> QED BY <1>3, <1>4

LEMMA SetCounters_Counters ==
    ASSUME CountersGood, NEW c \in Clients, SetCounters(c)
    PROVE  CountersExact'
<1>1. /\ step[c] = "set_counters" /\ GoTo(c, "idle", NoSubject) /\ GraphTypeOK
      /\ UNCHANGED <<follows, cut, stale>>
    BY DEF SetCounters, Done, graphBounds, CountersGood, GraphTypes
<1>2. ASSUME NEW P PROVE PendingDelta(P)' = PendingDelta(P)
    BY <1>1, DeltaMoves DEF Bit
<1>3. ASSUME NEW u \in Users PROVE ExactFor(u)'
    <2>1. ExactFor(u)
        BY CountersByUser DEF CountersGood
    <2> QED BY <1>1, <1>2, <2>1, BackfillSets DEF ExactFor
<1> QED BY <1>3, CountersByUser

\* An evicted counter is stale, and the other one is untouched.
LEMMA EvictGraphKey_Counters ==
    ASSUME GraphTypeOK, CountersExact, NEW v \in Users, EvictGraphKey(v)
    PROVE  CountersExact'
<1>1. /\ UNCHANGED <<follows, step, subject, cut>> /\ stale \subseteq stale'
      /\ \A u \in Users :
          /\ <<"follower_count", u>> \notin stale' => followerCount'[u] = followerCount[u]
          /\ <<"following_count", u>> \notin stale' => followingCount'[u] = followingCount[u]
    BY DEF EvictGraphKey, locals, counters, GraphTypeOK
<1>2. ASSUME NEW P PROVE PendingDelta(P)' = PendingDelta(P)
    BY <1>1 DEF PendingDelta
<1>3. ASSUME NEW u \in Users PROVE ExactFor(u)'
    <2>1. ExactFor(u) BY CountersByUser
    <2> QED BY <1>1, <1>2, <2>1 DEF ExactFor
<1> QED BY <1>3, CountersByUser

\* Steps that leave the table and the backfills that have counted it alone, and
\* start no request.
LEMMA CountsKept ==
    ASSUME CountsAgree, follows' = follows, stale \subseteq stale',
           \A c \in Clients :
               /\ step'[c] \in {"count_following", "set_counters"} =>
                    step'[c] = step[c] /\ subject'[c] = subject[c] /\ counted'[c] = counted[c]
               /\ step'[c] \in {"follow_graph", "unfollow_graph"} =>
                    step'[c] = step[c] /\ subject'[c] = subject[c]
    PROVE  CountsAgree'
<1>1. ASSUME NEW pair, InFlight(pair)' PROVE InFlight(pair)
    BY <1>1 DEF InFlight, Pending
<1>2. ASSUME NEW k, NEW u, NoneOwed(k, u) PROVE NoneOwed(k, u)'
    BY <1>1, <1>2 DEF NoneOwed, Side
<1> QED BY <1>2 DEF CountsAgree

\* A request that begins marks the counters that a backfill has counted.
LEMMA StartRequest_Counts ==
    ASSUME GraphTypes, CountsAgree, NEW c \in Clients, NEW pair \in Pairs,
           StartRequest(c, pair), NEW s \in {"follow_graph", "unfollow_graph"},
           GoTo(c, s, pair), counted' = counted,
           \/ pair \notin follows /\ follows' = follows \union {pair}
           \/ pair \in follows /\ follows' = follows \ {pair}
    PROVE  CountsAgree'
<1>1. /\ DOMAIN step = Procs /\ DOMAIN subject = Procs /\ Clients \subseteq Procs
      /\ follows \in SUBSET Pairs /\ follows' \in SUBSET Pairs
      /\ stale \subseteq stale'
    BY DEF GraphTypes, GraphTypeOK, Procs, StartRequest
<1>2. ASSUME NEW k \in {1, 2}, NEW u \in Users, pair[k] # u, NoneOwed(k, u)
      PROVE  NoneOwed(k, u)'
    <2> SUFFICES ASSUME NEW q \in Side(k, u), NEW d \in Clients, subject'[d] = q,
                        step'[d] \in {"follow_graph", "unfollow_graph"}
                 PROVE  FALSE
        BY DEF NoneOwed, InFlight, Pending, Side
    <2>1. q # pair
        BY <1>2 DEF Side
    <2>2. d # c /\ subject[d] = q /\ step[d] = step'[d]
        BY <1>1, <2>1 DEF GoTo
    <2> QED BY <1>2, <2>2 DEF NoneOwed, InFlight, Pending
<1>3. ASSUME NEW u \in Users
      PROVE  /\ pair[2] # u => FollowersIn(follows', u) = FollowersIn(follows, u)
             /\ pair[1] # u => FolloweesIn(follows', u) = FolloweesIn(follows, u)
    BY <1>1 DEF FollowersIn, FolloweesIn
<1>4. ASSUME NEW d \in Clients, step'[d] \in {"count_following", "set_counters"}
      PROVE  step'[d] = step[d] /\ subject'[d] = subject[d]
    BY <1>1, <1>4 DEF GoTo
<1> SUFFICES ASSUME NEW d \in Clients, NEW u \in Users, subject'[d] = <<u, u>>,
                    step'[d] \in {"count_following", "set_counters"}
             PROVE  /\ <<"follower_count", u>> \notin stale' =>
                        /\ counted'[d][1] = Cardinality(FollowersIn(follows', u))
                        /\ NoneOwed(2, u)'
                    /\ step'[d] = "set_counters" /\ <<"following_count", u>> \notin stale' =>
                        /\ counted'[d][2] = Cardinality(FolloweesIn(follows', u))
                        /\ NoneOwed(1, u)'
    BY DEF CountsAgree
<1>5. step'[d] = step[d] /\ subject[d] = <<u, u>> /\ counted' = counted
    BY <1>4
<1>6. ASSUME <<"follower_count", u>> \notin stale'
      PROVE  counted'[d][1] = Cardinality(FollowersIn(follows', u)) /\ NoneOwed(2, u)'
    <2>1. CountRead(<<"follower_count", u>>)
        BY <1>5 DEF CountRead
    <2>2. pair[2] # u
        BY <1>6, <2>1 DEF StartRequest, CountersOf
    <2>3. counted[d][1] = Cardinality(FollowersIn(follows, u)) /\ NoneOwed(2, u)
        BY <1>1, <1>5, <1>6 DEF CountsAgree
    <2> QED BY <1>2, <1>3, <1>5, <2>2, <2>3
<1>7. ASSUME step'[d] = "set_counters", <<"following_count", u>> \notin stale'
      PROVE  counted'[d][2] = Cardinality(FolloweesIn(follows', u)) /\ NoneOwed(1, u)'
    <2>1. CountRead(<<"following_count", u>>)
        BY <1>5, <1>7 DEF CountRead
    <2>2. pair[1] # u
        BY <1>7, <2>1 DEF StartRequest, CountersOf
    <2>3. counted[d][2] = Cardinality(FolloweesIn(follows, u)) /\ NoneOwed(1, u)
        BY <1>1, <1>5, <1>7 DEF CountsAgree
    <2> QED BY <1>2, <1>3, <1>5, <2>2, <2>3
<1> QED BY <1>6, <1>7

\* A count reads the table, and marks the counter if a request owes to it.
LEMMA Count_Counts ==
    ASSUME GraphTypes, CountsAgree, NEW c \in Clients, CountFollowers(c) \/ CountFollowing(c)
    PROVE  CountsAgree'
<1>1. /\ DOMAIN step = Procs /\ DOMAIN subject = Procs /\ Clients \subseteq Procs
      /\ counted \in [Clients -> Nat \X Nat] /\ follows' = follows /\ stale \subseteq stale'
    BY DEF GraphTypes, GraphTypeOK, Procs, CountFollowers, CountFollowing, CountedAcross
<1>2. \A k, u : NoneOwed(k, u) => NoneOwed(k, u)'
    <2>1. \A d \in Clients : step'[d] \in {"follow_graph", "unfollow_graph"} =>
                                step'[d] = step[d] /\ subject'[d] = subject[d]
        BY <1>1 DEF CountFollowers, CountFollowing, GoTo
    <2> QED BY <2>1 DEF NoneOwed, InFlight, Pending, Side
<1>3. ASSUME NEW k \in {1, 2}, NEW u \in Users,
             \A pair \in Pairs : pair[k] = u => ~InFlight(pair)
      PROVE  NoneOwed(k, u)
    BY <1>3 DEF NoneOwed, Side
<1> SUFFICES ASSUME NEW d \in Clients, NEW u \in Users, subject'[d] = <<u, u>>
             PROVE  /\ step'[d] \in {"count_following", "set_counters"}
                          /\ <<"follower_count", u>> \notin stale' =>
                        /\ counted'[d][1] = Cardinality(FollowersIn(follows, u))
                        /\ NoneOwed(2, u)'
                    /\ step'[d] = "set_counters" /\ <<"following_count", u>> \notin stale' =>
                        /\ counted'[d][2] = Cardinality(FolloweesIn(follows, u))
                        /\ NoneOwed(1, u)'
    BY <1>1 DEF CountsAgree
<1>4. CASE d # c
    <2>1. step'[d] = step[d] /\ subject'[d] = subject[d] /\ counted'[d] = counted[d]
        BY <1>1, <1>4 DEF CountFollowers, CountFollowing, GoTo
    <2> QED BY <1>1, <1>2, <2>1 DEF CountsAgree
<1>5. CASE d = c /\ CountFollowers(c)
    <2>1. /\ subject[c] = <<u, u>> /\ step'[c] = "count_following"
          /\ counted'[c][1] = Cardinality(FollowersIn(follows, u))
        BY <1>1, <1>5 DEF CountFollowers, GoTo
    <2>2. <<"follower_count", u>> \notin stale' => NoneOwed(2, u)
        BY <1>3, <1>5, <2>1 DEF CountFollowers, CountedAcross, CountersOf
    <2> QED BY <1>2, <1>5, <2>1, <2>2
<1>6. CASE d = c /\ CountFollowing(c)
    <2>1. /\ subject[c] = <<u, u>> /\ step[c] = "count_following" /\ step'[c] = "set_counters"
          /\ counted'[c][2] = Cardinality(FolloweesIn(follows, u))
          /\ counted'[c][1] = counted[c][1]
        BY <1>1, <1>6 DEF CountFollowing, GoTo
    <2>2. <<"following_count", u>> \notin stale' => NoneOwed(1, u)
        BY <1>3, <1>6, <2>1 DEF CountFollowing, CountedAcross, CountersOf
    <2>3. <<"follower_count", u>> \notin stale' =>
            counted[c][1] = Cardinality(FollowersIn(follows, u)) /\ NoneOwed(2, u)
        BY <1>1, <2>1 DEF CountsAgree
    <2> QED BY <1>2, <1>6, <2>1, <2>2, <2>3
<1> QED BY <1>4, <1>5, <1>6

\* The counter block of a request and its commit each move one unit between the
\* table, the requests in flight and the counter.
LEMMA GraphNext_Counters ==
    ASSUME CountersInv, [Next]_graphVars
    PROVE  CountersInv'
<1>type. GraphTypeInv' /\ GraphTypeOK /\ GraphTypes /\ CountersGood
    BY GraphNext_Type DEF CountersInv, CountersGood, GraphTypeInv, GraphTypes, StepShape
<1>steps. /\ DOMAIN step = Procs /\ DOMAIN subject = Procs
          /\ Clients \subseteq Procs /\ Workers \subseteq Procs
          /\ Clients \intersect Workers = {}
    BY <1>type, CounterTypes, GraphAssumption
<1>pair. \A c \in Clients : step[c] \in {"follow_graph", "unfollow_graph"} => subject[c] \in Pairs
    BY <1>steps, <1>type DEF GraphTypes, StepSubjects, PairSteps
<1> DEFINE Good == CountsAgree /\ CountersExact
<1>1. ASSUME NEW c \in Clients, NEW pair \in Pairs,
             FollowCommit(c, pair) \/ UnfollowCommit(c, pair)
      PROVE  Good'
    <2>1. CountersExact'
        BY <1>1, <1>type, FollowCommit_Counters, UnfollowCommit_Counters DEF CountersInv
    <2>2. CASE FollowCommit(c, pair)
        BY <2>1, <2>2, <1>type, StartRequest_Counts DEF FollowCommit, CountersInv
    <2>3. CASE UnfollowCommit(c, pair)
        BY <2>1, <2>3, <1>type, StartRequest_Counts DEF UnfollowCommit, CountersInv
    <2> QED BY <1>1, <2>2, <2>3
<1>2. ASSUME NEW c \in Clients, FollowGraph(c) \/ UnfollowGraph(c) \/ AbortRequest(c)
      PROVE  Good'
    <2>1. ASSUME FollowGraph(c) \/ UnfollowGraph(c) PROVE subject[c] \in Pairs
        BY <1>pair, <2>1 DEF FollowGraph, UnfollowGraph
    <2>2. CountersExact'
        BY <1>2, <1>type, <1>pair, <2>1, FollowGraph_Counters, UnfollowGraph_Counters,
           AbortRequest_Counters DEF CountersInv
    <2>3. /\ follows' = follows /\ stale' = stale
          /\ \E s \in {"idle", "follow_enqueue"} : \E x : GoTo(c, s, x)
          /\ \A d \in Clients \ {c} : counted'[d] = counted[d]
        <3>1. counted \in [Clients -> Nat \X Nat]
            BY <1>type DEF GraphTypeOK
        <3>2. CASE FollowGraph(c)
            BY <3>2 DEF FollowGraph, graphBounds
        <3>3. CASE UnfollowGraph(c)
            BY <3>3 DEF UnfollowGraph, Done, graphBounds
        <3>4. CASE AbortRequest(c)
            BY <3>1, <3>4 DEF AbortRequest, Done
        <3> QED BY <1>2, <3>2, <3>3, <3>4
    <2>4. CountsAgree'
        BY <2>3, <1>steps, CountsKept DEF CountersInv, GoTo
    <2> QED BY <2>2, <2>4
<1>3. ASSUME NEW p \in Procs, NEW s, NEW x, GoTo(p, s, x),
             step[p] \notin {"follow_graph", "unfollow_graph"},
             s \notin {"follow_graph", "unfollow_graph"},
             p \in Clients => s \notin {"count_following", "set_counters"},
             UNCHANGED <<follows, followerCount, followingCount, counted, cut, stale>>
      PROVE  Good'
    <2>1. \A c \in Clients : \A t \in {"follow_graph", "unfollow_graph"} :
            /\ step'[c] = t <=> step[c] = t
            /\ step[c] = t => subject'[c] = subject[c]
        BY <1>3, <1>steps DEF GoTo
    <2>2. CountersExact'
        BY <1>3, <2>1, CountersKept DEF CountersInv
    <2>3. CountsAgree'
        BY <1>3, <1>steps, CountsKept DEF CountersInv, GoTo
    <2> QED BY <2>2, <2>3
<1>4. ASSUME NEW c \in Clients, SetCounters(c) PROVE Good'
    <2>1. /\ follows' = follows /\ stale' = stale /\ GoTo(c, "idle", NoSubject)
          /\ \A d \in Clients \ {c} : counted'[d] = counted[d]
        BY <1>4 DEF SetCounters, Done, graphBounds
    <2>2. CountsAgree'
        BY <2>1, <1>steps, CountsKept DEF CountersInv, GoTo
    <2> QED BY <1>4, <1>type, <2>2, SetCounters_Counters
<1>5. ASSUME NEW u \in Users, EvictGraphKey(u) PROVE Good'
    <2>1. UNCHANGED <<follows, step, subject, counted>> /\ stale \subseteq stale'
        BY <1>5 DEF EvictGraphKey, locals
    <2>2. CountsAgree'
        BY <2>1, CountsKept DEF CountersInv
    <2> QED BY <1>5, <2>2, <1>type, EvictGraphKey_Counters DEF CountersInv
<1>6. ASSUME NEW c \in Clients, CountFollowers(c) \/ CountFollowing(c) PROVE Good'
    <2>1. CountsAgree'
        BY <1>6, <1>type, Count_Counts DEF CountersInv
    <2>2. /\ UNCHANGED <<follows, followerCount, followingCount, cut>> /\ stale \subseteq stale'
          /\ \E s \in {"count_following", "set_counters"} : \E x : GoTo(c, s, x)
          /\ step[c] \in {"count_followers", "count_following"}
        BY <1>6 DEF CountFollowers, CountFollowing, CountedAcross, counters
    <2>3. \A d \in Clients : \A t \in {"follow_graph", "unfollow_graph"} :
            /\ step'[d] = t <=> step[d] = t
            /\ step[d] = t => subject'[d] = subject[d]
        BY <2>2, <1>steps DEF GoTo
    <2> QED BY <2>1, <2>2, <2>3, CountersKept DEF CountersInv
<1>7. ASSUME NEW c \in Clients, FollowEnqueue(c) PROVE Good'
    BY <1>3, <1>7, <1>steps DEF FollowEnqueue, Done, counters, graphBounds
<1>8. ASSUME NEW c \in Clients, NEW u \in Users, ViewProfile(c, u) PROVE Good'
    BY <1>3, <1>8, <1>steps DEF ViewProfile, Free, counters
<1>9. ASSUME NEW w \in Workers, NEW u \in Users, Free(w), SizeFollowers(w, u)
      PROVE  Good'
    BY <1>3, <1>9, <1>steps DEF SizeFollowers, Free, counters
<1>10. ASSUME NEW w \in Workers, GraphWorkerNext(w) \/ DropFollowers(w) PROVE Good'
    <2>1. CASE RandomFollowers(w)
        BY <1>3, <2>1, <1>steps DEF RandomFollowers, counters, graphBounds
    <2>2. CASE SelectFollowers(w)
        BY <1>3, <2>2, <1>steps DEF SelectFollowers, counters, graphBounds
    <2>3. CASE AddFollowers(w)
        BY <1>3, <2>3, <1>steps DEF AddFollowers, counters, graphBounds
    <2>4. CASE DropFollowers(w)
        BY <1>3, <2>4, <1>steps DEF DropFollowers, Done, counters, graphBounds
    <2> QED BY <1>10, <2>1, <2>2, <2>3, <2>4 DEF GraphWorkerNext
<1>11. ASSUME UNCHANGED graphVars PROVE Good'
    <2>1. UNCHANGED <<follows, followerCount, followingCount, step, subject, counted, cut, stale>>
        BY <1>11 DEF graphVars, counters, locals, graphBounds
    <2>2. CountsAgree'
        BY <2>1, CountsKept DEF CountersInv
    <2>3. CountersExact'
        BY <2>1, CountersKept DEF CountersInv
    <2> QED BY <2>2, <2>3
<1> HIDE DEF Good
<1>12. Good'
    BY <1>1, <1>2, <1>4, <1>5, <1>6, <1>7, <1>8, <1>9, <1>10, <1>11
    DEF Next, GraphClientNext
<1> QED BY <1>type, <1>12 DEF CountersInv, Good

\* A counter differs from the table by exactly the requests in flight, however
\* many overlap, even of one pair, and whatever profile views set it meanwhile,
\* unless it was evicted, a backfill's count or SET met such a request, or one
\* was cut off.
THEOREM CountersAreExact == GraphSpec => []CountersExact
<1>1. CountersInv => CountersExact BY DEF CountersInv
<1> QED BY GraphInit_Counters, GraphNext_Counters, <1>1, PTL DEF GraphSpec

-----------------------------------------------------------------------------
(* The feeds *)

-----------------------------------------------------------------------------
(* Newest *)

LEMMA PostNumbers == \A p \in PostIds : p \in Nat
BY FeedAssumption DEF PostIds

LEMMA PostSets ==
    ASSUME NEW T \in SUBSET PostIds, NEW S \in SUBSET T
    PROVE  /\ IsFiniteSet(S) /\ IsFiniteSet(T)
           /\ Cardinality(S) \in Nat /\ Cardinality(T) \in Nat
           /\ Cardinality(S) <= Cardinality(T)
           /\ S # T => Cardinality(S) < Cardinality(T)
<1>1. IsFiniteSet(PostIds)
    BY FS_Interval, FeedAssumption DEF PostIds
<1>2. IsFiniteSet(T)
    BY <1>1, FS_Subset
<1>3. IsFiniteSet(S) /\ Cardinality(S) <= Cardinality(T)
        /\ (Cardinality(S) = Cardinality(T) => S = T)
    BY <1>2, FS_Subset
<1>4. Cardinality(S) \in Nat /\ Cardinality(T) \in Nat
    BY <1>2, <1>3, FS_CardinalityType
<1> QED BY <1>2, <1>3, <1>4

\* How many posts of S are newer than p.
Newer(S, p) == {q \in S : q > p}
Rank(S, p) == Cardinality(Newer(S, p))

LEMMA RankFacts ==
    ASSUME NEW S \in SUBSET PostIds
    PROVE  /\ \A p \in PostIds : Rank(S, p) \in Nat /\ Rank(S, p) <= Cardinality(S)
           /\ \A p \in S : Rank(S, p) < Cardinality(S)
           /\ \A p, q \in S : p < q => Rank(S, q) < Rank(S, p)
<1>1. ASSUME NEW p \in PostIds
      PROVE  Rank(S, p) \in Nat /\ Rank(S, p) <= Cardinality(S)
                /\ (p \in S => Rank(S, p) < Cardinality(S))
    <2>1. Newer(S, p) \in SUBSET S /\ (p \in S => Newer(S, p) # S)
        BY PostNumbers DEF Newer
    <2> QED BY <2>1, PostSets DEF Rank
<1>2. ASSUME NEW p \in S, NEW q \in S, p < q PROVE Rank(S, q) < Rank(S, p)
    <2>1. Newer(S, q) \in SUBSET Newer(S, p) /\ Newer(S, p) \in SUBSET PostIds
        <3>1. p \in Nat /\ q \in Nat /\ \A r \in S : r \in Nat
            BY PostNumbers
        <3>2. \A r \in S : r > q => r > p
            BY <1>2, <3>1
        <3> QED BY <3>2 DEF Newer
    <2>2. q \in Newer(S, p) /\ q \notin Newer(S, q)
        BY <1>2, PostNumbers DEF Newer
    <2> QED BY <2>1, <2>2, PostSets DEF Rank
<1> QED BY <1>1, <1>2

\* A trim to n leaves n posts, or all if there are fewer: ranks are different,
\* so all of 0, 1, ... occur.
LEMMA NewestSize ==
    ASSUME NEW S \in SUBSET PostIds, NEW n \in Nat
    PROVE  /\ Newest(S, n) \in SUBSET S
           /\ Cardinality(Newest(S, n)) = IF Cardinality(S) < n THEN Cardinality(S) ELSE n
<1> DEFINE k == Cardinality(S)
           m == IF k < n THEN k ELSE n
           N == Newest(S, n)
           f == [p \in S |-> Rank(S, p)]
           g == [p \in N |-> Rank(S, p)]
<1>1. N = {p \in S : Rank(S, p) < n}
    BY DEF Newest, Rank, Newer
<1>2. k \in Nat /\ m \in Nat /\ m <= k /\ m <= n
    BY PostSets
<1>3. \A p \in S : Rank(S, p) \in 0..(k - 1)
    BY <1>2, RankFacts
<1>4. \A p, q \in S : Rank(S, p) = Rank(S, q) => p = q
    <2> SUFFICES ASSUME NEW p \in S, NEW q \in S, Rank(S, p) = Rank(S, q), p # q
                 PROVE  FALSE
        OBVIOUS
    <2>1. p < q \/ q < p
        BY PostNumbers
    <2>2. Rank(S, p) \in Nat /\ Rank(S, q) \in Nat
        BY RankFacts
    <2> QED BY <2>1, <2>2, RankFacts
<1>5. \A i \in Nat : IsFiniteSet(0..(i - 1)) /\ Cardinality(0..(i - 1)) = i
    BY FS_Interval
<1> HIDE DEF k, m, N
<1>6. \A i \in 0..(k - 1) : \E p \in S : Rank(S, p) = i
    <2>1. f \in Injection(S, 0..(k - 1))
        BY <1>3, <1>4 DEF Injection, IsInjective
    <2>2. Cardinality(S) = Cardinality(0..(k - 1)) /\ IsFiniteSet(0..(k - 1))
        BY <1>2, <1>5 DEF k
    <2> HIDE DEF f
    <2>3. f \in Surjection(S, 0..(k - 1))
        BY <2>1, <2>2, FS_Injection
    <2>4. \A i \in 0..(k - 1) : \E p \in S : f[p] = i
        BY <2>3 DEF Surjection
    <2> QED BY <2>4 DEF f
<1>7. g \in Injection(N, 0..(m - 1)) /\ g \in Surjection(N, 0..(m - 1))
    <2>1. \A p \in N : p \in S /\ Rank(S, p) \in 0..(m - 1)
        <3> SUFFICES ASSUME NEW p \in N PROVE p \in S /\ Rank(S, p) \in 0..(m - 1)
            OBVIOUS
        <3>1. p \in S /\ Rank(S, p) < n /\ Rank(S, p) \in 0..(k - 1)
            BY <1>1, <1>3
        <3> QED BY <1>2, <3>1 DEF m
    <2>2. \A i \in 0..(m - 1) : \E p \in N : Rank(S, p) = i
        BY <1>1, <1>2, <1>6
    <2> QED BY <1>1, <1>4, <2>1, <2>2 DEF Injection, IsInjective, Surjection
<1>8. Cardinality(N) = m
    <2> HIDE DEF g
    <2> QED BY <1>2, <1>5, <1>7, FS_Injection
<1> QED BY <1>1, <1>8 DEF N, m, k

-----------------------------------------------------------------------------
(* Covers: p is in a feed, or pushed out of it *)

Covers(S, p) == p \in S \/ Cardinality({q \in S : q > p}) >= FeedMax

LEMMA CoversMore ==
    ASSUME NEW T \in SUBSET PostIds, NEW S \in SUBSET PostIds, NEW p \in PostIds,
           Covers(S, p),
           \A q \in S : q >= p => q \in T
    PROVE  Covers(T, p)
<1>1. CASE p \in S
    BY <1>1 DEF Covers, PostIds
<1>2. CASE p \notin S
    <2>1. Newer(S, p) \in SUBSET Newer(T, p) /\ Newer(T, p) \in SUBSET PostIds
        <3> SUFFICES ASSUME NEW q \in S, q > p PROVE q \in T
            BY DEF Newer
        <3> QED BY PostNumbers
    <2>2. Rank(S, p) <= Rank(T, p) /\ Rank(S, p) \in Nat /\ Rank(T, p) \in Nat
        BY <2>1, PostSets DEF Rank
    <2>3. Rank(S, p) >= FeedMax
        BY <1>2 DEF Covers, Rank, Newer
    <2>4. Rank(T, p) >= FeedMax
        BY <2>2, <2>3, FeedAssumption
    <2> QED BY <2>4 DEF Covers, Rank, Newer
<1> QED BY <1>1, <1>2

LEMMA TrimCovers ==
    ASSUME NEW S \in SUBSET PostIds, NEW p \in PostIds, Covers(S, p)
    PROVE  Covers(Newest(S, FeedMax), p)
<1>1. CASE Rank(S, p) < FeedMax
    BY <1>1, RankFacts, FeedAssumption DEF Covers, Newest, Rank, Newer
<1>2. CASE ~(Rank(S, p) < FeedMax)
    <2> DEFINE U == Newer(S, p)
    <2>1. U \in SUBSET PostIds /\ Cardinality(U) \in Nat /\ Cardinality(U) >= FeedMax
        <3>1. U \in SUBSET S
            BY DEF Newer
        <3>2. Cardinality(U) \in Nat
            BY <3>1, PostSets
        <3> QED BY <1>2, <3>1, <3>2, FeedAssumption DEF Rank
    <2>2. Cardinality(Newest(U, FeedMax)) = FeedMax
        <3> HIDE DEF U
        <3> QED BY <2>1, NewestSize, FeedAssumption
    <2>3. Newest(U, FeedMax) = {q \in Newest(S, FeedMax) : q > p}
        <3>1. \A q \in U : {r \in U : r > q} = {r \in S : r > q}
            BY PostNumbers DEF Newer
        <3> QED BY <3>1 DEF Newest, Newer
    <2> QED BY <2>2, <2>3, FeedAssumption DEF Covers
<1> QED BY <1>1, <1>2

\* A backfill copies what covers each recent post of its author.
LEMMA RecentCopied ==
    ASSUME NEW A \in SUBSET PostIds, NEW S \in SUBSET A, NEW p \in PostIds,
           Covers(S, p), p \in Newest(A, BackfillLimit)
    PROVE  Covers(Newest(S, BackfillLimit), p)
<1>1. Rank(A, p) < BackfillLimit /\ Rank(A, p) \in Nat
    BY RankFacts DEF Newest, Rank, Newer
<1>2. ASSUME NEW q \in S, q >= p PROVE q \in Newest(S, BackfillLimit)
    <2>1. Newer(S, q) \in SUBSET Newer(A, p) /\ Newer(A, p) \in SUBSET PostIds
        BY <1>2, PostNumbers DEF Newer
    <2>2. Rank(S, q) \in Nat /\ Rank(S, q) <= Rank(A, p)
        BY <2>1, PostSets DEF Rank
    <2>3. Rank(S, q) < BackfillLimit
        BY <1>1, <2>2, FeedAssumption
    <2> QED BY <2>3 DEF Newest, Rank, Newer
<1>3. Newest(S, BackfillLimit) \in SUBSET PostIds
    BY DEF Newest
<1> QED BY <1>2, <1>3, CoversMore

-----------------------------------------------------------------------------
(* Types, and which process can be where with what *)

PostSteps == {"post_timeline", "post_count", "post_enqueue"}
FanSteps == {"select_followers", "add_followers", "random_followers", "got_followers"}
Serving == {"add_followers", "got_followers", "push_trim"}

ClientAt(c) ==
    \/ step[c] = "idle" /\ draft[c] = NoPost
    \/ step[c] \in PairSteps /\ subject[c] \in Pairs /\ draft[c] = NoPost
    \/ /\ step[c] \in UserSteps /\ draft[c] = NoPost
       /\ \E u \in Users : subject[c] = <<u, u>>
    \/ /\ step[c] \in PostSteps
       /\ subject[c] = <<subject[c][1], subject[c][1]>>
       /\ <<draft[c], subject[c][1]>> \in posts

\* A profile view writes posts of its user only.
RebuildAt(c) ==
    rebuild[c] # NoRebuild =>
        step[c] = "set_counters" /\ rebuild[c].posts \subseteq Posts(subject[c][1])

WorkerAt(w) ==
    \/ step[w] = "idle" /\ job[w] = NoJob
    \/ /\ step[w] \in FanSteps
       /\ job[w] # NoJob /\ job[w].type = "fanout_post"
       /\ subject[w] = <<job[w].author, job[w].author>>
    \/ /\ step[w] = "push_trim"
       /\ job[w] # NoJob /\ job[w].type = "fanout_post"
       /\ subject[w] \in Pairs /\ subject[w][2] = job[w].author
    \/ /\ step[w] \in {"backfill_add", "ack"}
       /\ job[w] # NoJob /\ job[w].type = "backfill_follower"
       /\ subject[w] = job[w].pair

\* Fan-out serves pairs of the graph only.
ServesPairs(w) ==
    step[w] \in Serving => \A f \in ids[w] : <<f, job[w].author>> \in Pairs

Shapes ==
    /\ \A c \in Clients : ClientAt(c) /\ RebuildAt(c)
    /\ \A w \in Workers : WorkerAt(w) /\ ServesPairs(w)

\* Jobs are numbered, and the post of one exists.
Known(j) ==
    /\ j.id <= lastJob
    /\ j.type = "fanout_post" => <<j.post, j.author>> \in posts

JobsKnown ==
    /\ \A j \in jobs : Known(j)
    /\ \A w \in Workers : job[w] # NoJob => Known(job[w])

\* A post has one author, and a timeline has its author's posts.
PostsKnown ==
    /\ \A row \in posts : row[1] <= Cardinality(posts)
    /\ \A row, other \in posts : row[1] = other[1] => row = other
    /\ \A u \in Users : userPosts[u] \subseteq Posts(u)

\* Only an abort cuts a pair.
Uncut == aborts = 0 => cut = {}

FeedTypeInv ==
    /\ FeedTypeOK /\ Shapes /\ JobsKnown /\ PostsKnown /\ Uncut

LEMMA JobFacts ==
    /\ \A j \in JobType :
        /\ j # NoJob /\ j.id \in Nat /\ j.type \in {"fanout_post", "backfill_follower"}
        /\ j.type = "fanout_post" => j.post \in PostIds /\ j.author \in Users
        /\ j.type = "backfill_follower" => j.pair \in Pairs
    /\ \A n \in Nat : \A p \in PostIds : \A u \in Users :
        [type |-> "fanout_post", id |-> n, post |-> p, author |-> u] \in JobType
    /\ \A n \in Nat : \A pair \in Pairs :
        [type |-> "backfill_follower", id |-> n, pair |-> pair] \in JobType
BY DEF JobType, NoJob

LEMMA PairFacts ==
    /\ \A pair \in Pairs :
        /\ pair[1] \in Users /\ pair[2] \in Users /\ pair[1] # pair[2]
        /\ pair = <<pair[1], pair[2]>> /\ pair # NoSubject
        /\ \A u : pair # <<u, u>>
    /\ \A u : <<u, u>> # NoSubject
BY GraphAssumption DEF NoSubject

LEMMA PostsFinite ==
    ASSUME posts \subseteq PostIds \X Authors
    PROVE  IsFiniteSet(posts) /\ Cardinality(posts) \in Nat
<1>1. IsFiniteSet(PostIds)
    BY FS_Interval, FeedAssumption DEF PostIds
<1>2. IsFiniteSet(Authors)
    BY FS_Subset, GraphAssumption, FeedAssumption
<1>3. IsFiniteSet(PostIds \X Authors)
    BY <1>1, <1>2, FS_Product
<1> QED BY <1>3, FS_Subset, FS_CardinalityType

LEMMA FeedInit_Type == FeedInit => FeedTypeInv
<1> SUFFICES ASSUME FeedInit PROVE FeedTypeInv
    OBVIOUS
<1>1. GraphTypeOK
    BY GraphInit_Type DEF FeedInit, GraphTypeInv
<1>2. FeedTypeOK
    BY <1>1, FeedAssumption, GraphAssumption DEF FeedInit, GraphInit, FeedTypeOK, Free, Procs, PostIds, NoRebuild
<1>3. Shapes /\ JobsKnown /\ Uncut
    BY DEF FeedInit, GraphInit, Shapes, ClientAt, RebuildAt, WorkerAt, ServesPairs, JobsKnown, Uncut,
           Procs, Serving
<1>4. PostsKnown
    BY DEF FeedInit, PostsKnown
<1> QED BY <1>2, <1>3, <1>4 DEF FeedTypeInv


\* The parts of the type invariant.
GraphData ==
    /\ follows \subseteq Pairs /\ followers \subseteq Pairs /\ following \subseteq Pairs
    /\ followerCount \in [Users -> Counts] /\ followingCount \in [Users -> Counts]
    /\ counted \in [Clients -> Nat \X Nat]
    /\ ids \in [Workers -> SUBSET Users]
    /\ overlapped \subseteq Pairs /\ cut \subseteq Pairs /\ stale \subseteq Keys
    /\ requests \in 0..MaxRequests /\ profiles \in 0..MaxProfiles
    /\ reads \in 0..MaxReads /\ aborts \in 0..MaxAborts
    /\ graphEvictions \in 0..MaxGraphEvictions

FeedData ==
    /\ posts \subseteq PostIds \X Authors
    /\ userPosts \in [Users -> SUBSET PostIds] /\ home \in [Users -> SUBSET PostIds]
    /\ jobs \subseteq JobType
    /\ lastJob \in Nat
    /\ skipped \subseteq PostIds
    /\ draft \in [Clients -> PostIds \union {NoPost}]
    /\ job \in [Workers -> JobType \union {NoJob}]
    /\ copied \in [Workers -> SUBSET PostIds]
    /\ rebuild \in [Clients -> [at : {"exists", "select", "write"}, posts : SUBSET PostIds]]
    /\ crashes \in 0..MaxCrashes
    /\ feedEvictions \in 0..MaxFeedEvictions

Busy == \A w \in Workers : Free(w) <=> job[w] = NoJob

StepsTyped ==
    /\ DOMAIN step = Procs
    /\ subject \in [Procs -> Pairs \union {<<u, u>> : u \in Users} \union {NoSubject}]
    /\ \A p \in Procs : step[p] = "idle" <=> subject[p] = NoSubject

LEMMA Moves ==
    ASSUME FeedTypeInv, NEW p \in Procs, NEW s, NEW x, GoTo(p, s, x),
           IF s = "idle" THEN x = NoSubject
                         ELSE x \in Pairs \union {<<u, u>> : u \in Users}
    PROVE  /\ StepsTyped'
           /\ step'[p] = s /\ subject'[p] = x
           /\ \A q \in Procs \ {p} : step'[q] = step[q] /\ subject'[q] = subject[q]
<1>1. DOMAIN step = Procs
        /\ subject \in [Procs -> Pairs \union {<<u, u>> : u \in Users} \union {NoSubject}]
        /\ \A q \in Procs : step[q] = "idle" <=> subject[q] = NoSubject
    BY DEF FeedTypeInv, FeedTypeOK, GraphTypeOK
<1>2. step' = [step EXCEPT ![p] = s] /\ subject' = [subject EXCEPT ![p] = x]
    BY DEF GoTo
<1>3. step'[p] = s /\ subject'[p] = x /\ DOMAIN step' = Procs
        /\ \A q \in Procs \ {p} : step'[q] = step[q] /\ subject'[q] = subject[q]
    BY <1>1, <1>2
<1>4. x \in Pairs \union {<<u, u>> : u \in Users} => x # NoSubject
    BY PairFacts
<1>5. subject' \in [Procs -> Pairs \union {<<u, u>> : u \in Users} \union {NoSubject}]
    BY <1>1, <1>2
<1> QED BY <1>1, <1>3, <1>4, <1>5 DEF StepsTyped

\* A step of a client, which leaves workers alone.
LEMMA ClientMoves ==
    ASSUME FeedTypeInv, NEW c \in Clients, NEW s, NEW x, GoTo(c, s, x),
           posts \subseteq posts', UNCHANGED <<job, ids>>,
           \A d \in Clients \ {c} : draft'[d] = draft[d] /\ rebuild'[d] = rebuild[d],
           rebuild'[c] = NoRebuild \/ (rebuild' = rebuild /\ step[c] # "set_counters"),
           \/ s = "idle" /\ x = NoSubject /\ draft'[c] = NoPost
           \/ s \in PairSteps /\ x \in Pairs /\ draft'[c] = NoPost
           \/ s \in UserSteps /\ draft'[c] = NoPost /\ \E u \in Users : x = <<u, u>>
           \/ s \in PostSteps /\ \E u \in Users : x = <<u, u>> /\ <<draft'[c], u>> \in posts'
    PROVE  StepsTyped' /\ Shapes' /\ Busy'
<1>1. c \in Procs /\ \A w \in Workers : w \in Procs \ {c}
    BY GraphAssumption DEF Procs
<1>2. IF s = "idle" THEN x = NoSubject
                    ELSE x \in Pairs \union {<<u, u>> : u \in Users}
    BY DEF PairSteps, PostSteps, UserSteps
<1>3. /\ StepsTyped' /\ step'[c] = s /\ subject'[c] = x
      /\ \A q \in Procs \ {c} : step'[q] = step[q] /\ subject'[q] = subject[q]
    BY <1>1, <1>2, Moves
<1>4. ASSUME NEW d \in Clients PROVE ClientAt(d)' /\ RebuildAt(d)'
    <2>0. ClientAt(d) /\ RebuildAt(d)
        BY DEF FeedTypeInv, Shapes
    <2>1. CASE d = c
        <3>1. ASSUME s \in PostSteps,
                     \E u \in Users : x = <<u, u>> /\ <<draft'[c], u>> \in posts'
              PROVE  ClientAt(d)'
            <4>1. PICK u \in Users : x = <<u, u>> /\ <<draft'[c], u>> \in posts'
                BY <3>1
            <4>2. subject'[c][1] = u
                BY <1>3, <4>1
            <4> QED BY <1>3, <2>1, <3>1, <4>1, <4>2 DEF ClientAt
        <3>2. ClientAt(d)'
            BY <1>3, <2>1, <3>1 DEF ClientAt
        <3>3. RebuildAt(d)'
            BY <2>0, <2>1 DEF RebuildAt
        <3> QED BY <3>2, <3>3
    <2>2. CASE d # c
        <3>1. step'[d] = step[d] /\ subject'[d] = subject[d] /\ draft'[d] = draft[d]
                /\ rebuild'[d] = rebuild[d]
            BY <1>3, <2>2 DEF Procs
        <3>2. ClientAt(d)'
            BY <2>0, <3>1 DEF ClientAt
        <3>3. RebuildAt(d)'
            BY <2>0, <3>1 DEF RebuildAt, Posts
        <3> QED BY <3>2, <3>3
    <2> QED BY <2>1, <2>2
<1>5. ASSUME NEW w \in Workers
      PROVE  WorkerAt(w)' /\ ServesPairs(w)' /\ (Free(w)' <=> job'[w] = NoJob)
    <2>1. step'[w] = step[w] /\ subject'[w] = subject[w] /\ job'[w] = job[w] /\ ids'[w] = ids[w]
        BY <1>1, <1>3
    <2>2. WorkerAt(w) /\ ServesPairs(w) /\ (Free(w) <=> job[w] = NoJob)
        BY DEF FeedTypeInv, FeedTypeOK, Shapes
    <2> QED BY <2>1, <2>2 DEF WorkerAt, ServesPairs, Free
<1> QED BY <1>3, <1>4, <1>5 DEF Shapes, Busy, Busy

\* A step of a worker, which leaves clients alone.
LEMMA WorkerMoves ==
    ASSUME FeedTypeInv, NEW w \in Workers, NEW s, NEW x, GoTo(w, s, x),
           UNCHANGED <<draft, rebuild, posts>>,
           \A v \in Workers \ {w} : job'[v] = job[v] /\ ids'[v] = ids[v],
           IF s = "idle" THEN x = NoSubject
                         ELSE x \in Pairs \union {<<u, u>> : u \in Users},
           step'[w] = s /\ subject'[w] = x => WorkerAt(w)' /\ ServesPairs(w)'
    PROVE  StepsTyped' /\ Shapes' /\ Busy'
<1>1. w \in Procs /\ \A c \in Clients : c \in Procs \ {w}
    BY GraphAssumption DEF Procs
<1>2. /\ StepsTyped' /\ step'[w] = s /\ subject'[w] = x
      /\ \A q \in Procs \ {w} : step'[q] = step[q] /\ subject'[q] = subject[q]
    BY <1>1, Moves
<1>3. ASSUME NEW c \in Clients PROVE ClientAt(c)' /\ RebuildAt(c)'
    <2>1. step'[c] = step[c] /\ subject'[c] = subject[c] /\ draft'[c] = draft[c]
        BY <1>1, <1>2
    <2>2. ClientAt(c) /\ RebuildAt(c)
        BY DEF FeedTypeInv, Shapes
    <2> QED BY <2>1, <2>2 DEF ClientAt, RebuildAt, Posts
<1>4. ASSUME NEW v \in Workers
      PROVE  WorkerAt(v)' /\ ServesPairs(v)' /\ (Free(v)' <=> job'[v] = NoJob)
    <2>1. WorkerAt(v)' /\ ServesPairs(v)'
        <3>1. CASE v = w
            BY <1>2, <3>1
        <3>2. CASE v # w
            <4>1. step'[v] = step[v] /\ subject'[v] = subject[v] /\ job'[v] = job[v]
                    /\ ids'[v] = ids[v]
                BY <1>2, <3>2 DEF Procs
            <4>2. WorkerAt(v) /\ ServesPairs(v)
                BY DEF FeedTypeInv, Shapes
            <4> QED BY <4>1, <4>2 DEF WorkerAt, ServesPairs
        <3> QED BY <3>1, <3>2
    <2> QED BY <2>1 DEF WorkerAt, Free, FanSteps
<1> QED BY <1>2, <1>3, <1>4 DEF Shapes, Busy

LEMMA ClientFacts ==
    ASSUME FeedTypeInv, NEW c \in Clients
    PROVE  /\ step[c] \in PostSteps =>
                /\ draft[c] \in PostIds /\ <<draft[c], subject[c][1]>> \in posts
                /\ subject[c][1] \in Authors /\ subject[c][1] \in Users
                /\ subject[c] = <<subject[c][1], subject[c][1]>>
           /\ step[c] \in PairSteps => subject[c] \in Pairs /\ draft[c] = NoPost
           /\ step[c] \in UserSteps =>
                /\ draft[c] = NoPost /\ subject[c][1] \in Users
                /\ subject[c] = <<subject[c][1], subject[c][1]>>
           /\ step[c] = "idle" => draft[c] = NoPost
           /\ step[c] # "set_counters" => rebuild[c] = NoRebuild
           /\ rebuild[c].posts \subseteq Posts(subject[c][1])
<1>1. ClientAt(c) /\ posts \subseteq PostIds \X Authors /\ Authors \subseteq Users
    BY FeedAssumption DEF FeedTypeInv, FeedTypeOK, Shapes
<1>2. RebuildAt(c)
    BY DEF FeedTypeInv, Shapes
<1> QED BY <1>1, <1>2 DEF ClientAt, RebuildAt, NoRebuild, PairSteps, PostSteps, UserSteps

LEMMA WorkerFacts ==
    ASSUME FeedTypeInv, NEW w \in Workers
    PROVE  /\ step[w] \in FanSteps \union {"push_trim"} =>
                /\ job[w] \in JobType /\ job[w].type = "fanout_post"
                /\ job[w].post \in PostIds /\ job[w].author \in Users
                /\ <<job[w].post, job[w].author>> \in posts
           /\ step[w] \in FanSteps => subject[w] = <<job[w].author, job[w].author>>
           /\ step[w] = "push_trim" =>
                subject[w] \in Pairs /\ subject[w][1] \in Users /\ subject[w][2] = job[w].author
           /\ step[w] \in {"backfill_add", "ack"} =>
                /\ job[w] \in JobType /\ job[w].type = "backfill_follower"
                /\ subject[w] = job[w].pair /\ subject[w] \in Pairs
                /\ subject[w][1] \in Users
           /\ step[w] = "idle" => job[w] = NoJob
<1>1. WorkerAt(w) /\ job[w] \in JobType \union {NoJob}
        /\ (job[w] # NoJob => Known(job[w]))
    BY DEF FeedTypeInv, FeedTypeOK, Shapes, JobsKnown
<1>2. CASE step[w] \in FanSteps \union {"push_trim"}
    <2>1. job[w] \in JobType /\ job[w].type = "fanout_post" /\ Known(job[w])
        BY <1>1, <1>2 DEF WorkerAt, FanSteps
    <2> QED BY <1>1, <1>2, <2>1, JobFacts, PairFacts DEF WorkerAt, FanSteps, Known
<1>3. CASE step[w] \in {"backfill_add", "ack"}
    BY <1>1, <1>3, JobFacts, PairFacts DEF WorkerAt, FanSteps
<1>4. CASE step[w] \notin FanSteps \union {"push_trim", "backfill_add", "ack"}
    BY <1>1, <1>4 DEF WorkerAt, FanSteps
<1> QED BY <1>2, <1>3, <1>4

LEMMA TypeParts ==
    /\ FeedTypeOK <=> GraphData /\ FeedData /\ StepsTyped /\ Busy
    /\ FeedTypeOK' <=> GraphData' /\ FeedData' /\ StepsTyped' /\ Busy'
BY DEF FeedTypeOK, GraphTypeOK, GraphData, FeedData, StepsTyped, Busy

LEMMA NewPost ==
    ASSUME FeedTypeInv, NEW u \in Authors,
           posts' = posts \union {<<Cardinality(posts) + 1, u>>}, UNCHANGED userPosts
    PROVE  PostsKnown'
<1>1. IsFiniteSet(posts) /\ Cardinality(posts) \in Nat
    BY PostsFinite DEF FeedTypeInv, FeedTypeOK
<1>2. \A row \in posts : row[1] \in Nat /\ row[1] <= Cardinality(posts)
    BY PostNumbers DEF FeedTypeInv, FeedTypeOK, PostsKnown
<1> DEFINE n == Cardinality(posts)
<1>3. <<n + 1, u>> \notin posts
    BY <1>1, <1>2
<1>4. Cardinality(posts') = n + 1
    BY <1>1, <1>3, FS_AddElement
<1>5. \A row \in posts' : row = <<n + 1, u>> \/ row \in posts
    OBVIOUS
<1>6. \A row \in posts' : row[1] <= Cardinality(posts')
    BY <1>1, <1>2, <1>4, <1>5
<1>7. \A row, other \in posts' : row[1] = other[1] => row = other
    BY <1>1, <1>2, <1>5 DEF FeedTypeInv, PostsKnown
<1>8. \A v \in Users : userPosts'[v] \subseteq Posts(v)'
    BY DEF FeedTypeInv, PostsKnown, Posts
<1> QED BY <1>6, <1>7, <1>8 DEF PostsKnown

LEMMA FeedNext_Type ==
    ASSUME FeedTypeInv, [FeedNext]_feedVars
    PROVE  FeedTypeInv'
<1> USE DEF sets, counters, graphBounds, feeds, queue, running, feedBounds, feedOnly
<1>typ. GraphData /\ FeedData /\ StepsTyped /\ Busy /\ PostsKnown /\ JobsKnown /\ Uncut
    BY TypeParts DEF FeedTypeInv
<1>all. ASSUME GraphData', FeedData', StepsTyped' /\ Shapes' /\ Busy',
               JobsKnown' /\ PostsKnown', Uncut'
        PROVE  FeedTypeInv'
    BY <1>all, TypeParts DEF FeedTypeInv
<1>graph. ASSUME UNCHANGED <<follows, sets, counters, counted, ids, graphBounds>>
          PROVE  GraphData' /\ Uncut'
    BY <1>graph, <1>typ DEF GraphData, Uncut
<1>feed. ASSUME UNCHANGED <<feeds, queue, skipped, running, feedBounds>>
         PROVE  FeedData' /\ JobsKnown' /\ PostsKnown'
    BY <1>feed, <1>typ DEF FeedData, JobsKnown, Known, PostsKnown, Posts
<1>same. ASSUME UNCHANGED <<posts, userPosts>> PROVE PostsKnown'
    BY <1>same, <1>typ DEF PostsKnown, Posts
<1>kept. ASSUME posts \subseteq posts', UNCHANGED <<jobs, lastJob, job>> PROVE JobsKnown'
    BY <1>kept, <1>typ DEF JobsKnown, Known
<1>client. ASSUME NEW c \in Clients, NEW s, NEW x, GoTo(c, s, x), UNCHANGED <<draft, rebuild, posts, job, ids>>,
                  step[c] # "set_counters", draft[c] = NoPost /\ s \in PairSteps /\ x \in Pairs
           PROVE  StepsTyped' /\ Shapes' /\ Busy'
    BY <1>client, ClientMoves
<1>1. ASSUME NEW c \in Clients, NEW u \in Authors, PostCommit(c, u)
       PROVE  FeedTypeInv'
    <2>1. draft'[c] = Cardinality(posts) + 1 /\ Cardinality(posts) + 1 \in PostIds /\ u \in Users
            /\ draft \in [Clients -> PostIds \union {NoPost}]
        BY <1>1, <1>typ, PostsFinite, FeedAssumption DEF PostCommit, FeedData, PostIds
    <2>g. GraphData' /\ Uncut'
        BY <1>graph, <1>1 DEF PostCommit
    <2>f. FeedData'
        BY <1>1, <1>typ, <2>1 DEF PostCommit, FeedData
    <2>m. StepsTyped' /\ Shapes' /\ Busy'
        <3>1. GoTo(c, "post_timeline", <<u, u>>) /\ posts \subseteq posts' /\ UNCHANGED <<rebuild, job, ids>> /\ step[c] # "set_counters"
                /\ <<draft'[c], u>> \in posts' /\ \A d \in Clients \ {c} : draft'[d] = draft[d]
            BY <1>1, <2>1 DEF PostCommit, Free
        <3> QED BY <2>1, <3>1, ClientMoves DEF PostSteps
    <2>k. JobsKnown' /\ PostsKnown'
        BY <1>1, <1>kept, NewPost DEF PostCommit
    <2> QED BY <1>all, <2>g, <2>f, <2>m, <2>k
<1>2. ASSUME NEW c \in Clients, NEW pair \in Pairs, FollowCommit(c, pair),
               UNCHANGED feedOnly
       PROVE  FeedTypeInv'
    <2>g. GraphData' /\ Uncut'
        BY <1>2, <1>typ, GraphAssumption
        DEF FollowCommit, StartRequest, CountersOf, Keys, GraphData, Uncut
    <2>f. FeedData'
        BY <1>feed, <1>2 DEF FollowCommit
    <2>m. StepsTyped' /\ Shapes' /\ Busy'
        <3>1. GoTo(c, "follow_graph", pair) /\ draft[c] = NoPost /\ step[c] # "set_counters"
            BY <1>2, ClientFacts DEF FollowCommit, StartRequest, Free
        <3> QED BY <1>client, <1>2, <3>1 DEF FollowCommit, PairSteps
    <2>k. JobsKnown' /\ PostsKnown'
        BY <1>feed, <1>2 DEF FollowCommit
    <2> QED BY <1>all, <2>g, <2>f, <2>m, <2>k
<1>3. ASSUME NEW c \in Clients, NEW pair \in Pairs, UnfollowCommit(c, pair),
               UNCHANGED feedOnly
       PROVE  FeedTypeInv'
    <2>g. GraphData' /\ Uncut'
        BY <1>3, <1>typ, GraphAssumption
        DEF UnfollowCommit, StartRequest, CountersOf, Keys, GraphData, Uncut
    <2>f. FeedData'
        BY <1>feed, <1>3 DEF UnfollowCommit
    <2>m. StepsTyped' /\ Shapes' /\ Busy'
        <3>1. GoTo(c, "unfollow_graph", pair) /\ draft[c] = NoPost /\ step[c] # "set_counters"
            BY <1>3, ClientFacts DEF UnfollowCommit, StartRequest, Free
        <3> QED BY <1>client, <1>3, <3>1 DEF UnfollowCommit, PairSteps
    <2>k. JobsKnown' /\ PostsKnown'
        BY <1>feed, <1>3 DEF UnfollowCommit
    <2> QED BY <1>all, <2>g, <2>f, <2>m, <2>k
<1>4. ASSUME NEW c \in Clients, PostTimeline(c)
       PROVE  FeedTypeInv'
    <2>1. /\ subject[c][1] \in Authors /\ draft[c] \in PostIds
          /\ subject[c][1] \in Users /\ <<draft[c], subject[c][1]>> \in posts
        BY <1>4, ClientFacts DEF PostTimeline, PostSteps
    <2>2. \A S \in SUBSET PostIds : Newest(S, FeedMax) \in SUBSET S
        BY DEF Newest
    <2>g. GraphData' /\ Uncut'
        BY <1>graph, <1>4 DEF PostTimeline
    <2>f. FeedData'
        <3>1. userPosts' \in [Users -> SUBSET PostIds] /\ home' \in [Users -> SUBSET PostIds]
            BY <1>4, <1>typ, <2>1, <2>2 DEF PostTimeline, FeedData
        <3> QED BY <1>4, <1>typ, <3>1 DEF PostTimeline, FeedData
    <2>m. StepsTyped' /\ Shapes' /\ Busy'
        <3>1. GoTo(c, "post_count", <<subject[c][1], subject[c][1]>>)
            BY <1>4 DEF PostTimeline
        <3>2. UNCHANGED <<posts, job, ids, draft, rebuild>> /\ step[c] # "set_counters"
            BY <1>4 DEF PostTimeline
        <3> QED BY <2>1, <3>1, <3>2, ClientMoves DEF PostSteps
    <2>k. JobsKnown' /\ PostsKnown'
        <3>1. \A u \in Users : \/ userPosts'[u] \subseteq userPosts[u]
                               \/ u = subject[c][1] /\ userPosts'[u] \subseteq userPosts[u] \union {draft[c]}
            BY <1>4, <1>typ, <2>1, <2>2 DEF PostTimeline, FeedData
        <3>2. draft[c] \in Posts(subject[c][1])
            BY <2>1 DEF Posts
        <3> QED BY <1>4, <1>kept, <1>typ, <3>1, <3>2 DEF PostTimeline, PostsKnown, Posts
    <2> QED BY <1>all, <2>g, <2>f, <2>m, <2>k
<1>5. ASSUME NEW c \in Clients, PostCount(c)
       PROVE  FeedTypeInv'
    <2>1. /\ draft[c] \in PostIds /\ subject[c][1] \in Users
          /\ <<draft[c], subject[c][1]>> \in posts /\ DOMAIN draft = Clients
        BY <1>5, <1>typ, ClientFacts DEF PostCount, PostSteps, FeedData
    <2>g. GraphData' /\ Uncut'
        BY <1>graph, <1>5 DEF PostCount
    <2>f. FeedData'
        <3>1. skipped' \subseteq PostIds /\ draft' \in [Clients -> PostIds \union {NoPost}]
            BY <1>5, <1>typ, <2>1 DEF PostCount, FeedData
        <3> QED BY <1>5, <1>typ, <3>1 DEF PostCount, FeedData
    <2>m. StepsTyped' /\ Shapes' /\ Busy'
        <3>1. UNCHANGED <<posts, job, ids, rebuild>> /\ step[c] # "set_counters"
            BY <1>5 DEF PostCount
        <3>2. CASE Value(followerCount[subject[c][1]]) <= Threshold
            <4>1. GoTo(c, "post_enqueue", <<subject[c][1], subject[c][1]>>) /\ draft' = draft
                BY <1>5, <3>2 DEF PostCount
            <4> QED BY <2>1, <3>1, <4>1, ClientMoves DEF PostSteps
        <3>3. CASE ~(Value(followerCount[subject[c][1]]) <= Threshold)
            <4>1. GoTo(c, "idle", NoSubject) /\ draft' = [draft EXCEPT ![c] = NoPost]
                BY <1>5, <3>3 DEF PostCount, Done
            <4> QED BY <2>1, <3>1, <4>1, ClientMoves
        <3> QED BY <3>2, <3>3
    <2>k. JobsKnown' /\ PostsKnown'
        BY <1>5, <1>kept, <1>same DEF PostCount
    <2> QED BY <1>all, <2>g, <2>f, <2>m, <2>k
<1>6. ASSUME NEW c \in Clients, PostEnqueue(c)
       PROVE  FeedTypeInv'
    <2>1. /\ draft[c] \in PostIds /\ subject[c][1] \in Users
          /\ <<draft[c], subject[c][1]>> \in posts /\ DOMAIN draft = Clients
        BY <1>6, <1>typ, ClientFacts DEF PostEnqueue, PostSteps, FeedData
    <2>j. lastJob \in Nat /\ lastJob + 1 \in Nat
        BY <1>typ DEF FeedData
    <2>3. PICK j \in JobType : j = [type |-> "fanout_post", id |-> lastJob + 1,
                                   post |-> draft[c], author |-> subject[c][1]]
        BY <2>1, <2>j, JobFacts
    <2>2. /\ j.id = lastJob + 1 /\ j.type = "fanout_post" /\ <<j.post, j.author>> \in posts
          /\ lastJob \in Nat /\ lastJob + 1 \in Nat
        BY <2>1, <2>j, <2>3
    <2>4. jobs' = jobs \union {j} /\ lastJob' = lastJob + 1
        BY <1>6, <2>3 DEF PostEnqueue, Enqueue
    <2>g. GraphData' /\ Uncut'
        BY <1>graph, <1>6 DEF PostEnqueue
    <2>f. FeedData'
        <3>1. draft' \in [Clients -> PostIds \union {NoPost}]
            BY <1>6, <1>typ DEF PostEnqueue, FeedData
        <3> QED BY <1>6, <1>typ, <2>2, <2>3, <2>4, <3>1 DEF PostEnqueue, FeedData
    <2>m. StepsTyped' /\ Shapes' /\ Busy'
        <3>1. GoTo(c, "idle", NoSubject) /\ UNCHANGED <<posts, job, ids, rebuild>> /\ step[c] # "set_counters"
                /\ draft' = [draft EXCEPT ![c] = NoPost]
            BY <1>6 DEF PostEnqueue, Done
        <3> QED BY <2>1, <3>1, ClientMoves
    <2>k. JobsKnown' /\ PostsKnown'
        <3>1. \A i \in JobType : Known(i) => Known(i)'
            BY <1>6, <2>2, <2>4, JobFacts DEF PostEnqueue, Known
        <3>2. Known(j)'
            BY <1>6, <2>2, <2>4 DEF PostEnqueue, Known
        <3>3. JobsKnown'
            BY <1>6, <1>typ, <2>4, <3>1, <3>2 DEF PostEnqueue, JobsKnown, FeedData
        <3> QED BY <1>6, <1>same, <3>3 DEF PostEnqueue
    <2> QED BY <1>all, <2>g, <2>f, <2>m, <2>k
<1>7. ASSUME NEW c \in Clients, FollowPublish(c)
       PROVE  FeedTypeInv'
    <2>1. subject[c] \in Pairs /\ draft[c] = NoPost
        BY <1>7, ClientFacts DEF FollowPublish, FollowEnqueue, PairSteps
    <2>j. lastJob \in Nat /\ lastJob + 1 \in Nat
        BY <1>typ DEF FeedData
    <2>3. PICK j \in JobType : j = [type |-> "backfill_follower", id |-> lastJob + 1,
                                   pair |-> subject[c]]
        BY <2>1, <2>j, JobFacts
    <2>2. j.id = lastJob + 1 /\ j.type = "backfill_follower" /\ lastJob \in Nat /\ lastJob + 1 \in Nat
        BY <2>j, <2>3
    <2>4. jobs' = jobs \union {j} /\ lastJob' = lastJob + 1
        BY <1>7, <2>3 DEF FollowPublish, Enqueue
    <2>g. GraphData' /\ Uncut'
        BY <1>graph, <1>7 DEF FollowPublish, FollowEnqueue
    <2>f. FeedData'
        BY <1>7, <1>typ, <2>2, <2>3, <2>4 DEF FollowPublish, FeedData
    <2>m. StepsTyped' /\ Shapes' /\ Busy'
        <3>1. GoTo(c, "idle", NoSubject) /\ UNCHANGED <<draft, posts, job, ids, rebuild>>
                /\ step[c] # "set_counters"
            BY <1>7 DEF FollowPublish, FollowEnqueue, Done
        <3> QED BY <2>1, <3>1, ClientMoves
    <2>k. JobsKnown' /\ PostsKnown'
        <3>1. \A i \in JobType : Known(i) => Known(i)'
            BY <1>7, <2>2, <2>4, JobFacts DEF FollowPublish, Known
        <3>2. Known(j)'
            BY <1>7, <2>2, <2>4 DEF FollowPublish, Known
        <3>3. JobsKnown'
            BY <1>7, <1>typ, <2>4, <3>1, <3>2 DEF FollowPublish, JobsKnown, FeedData
        <3> QED BY <1>7, <1>same, <3>3 DEF FollowPublish
    <2> QED BY <1>all, <2>g, <2>f, <2>m, <2>k
<1>8. ASSUME NEW c \in Clients, FollowGraph(c), UNCHANGED feedOnly
       PROVE  FeedTypeInv'
    <2>1. subject[c] \in Pairs /\ draft[c] = NoPost /\ subject[c][1] \in Users /\ subject[c][2] \in Users
        BY <1>8, ClientFacts, PairFacts DEF FollowGraph, PairSteps
    <2>2. \A v \in Counts : Value(v) + 1 \in Counts /\ Value(v) - 1 \in Counts
        BY DEF Counts, Value
    <2>3. followerCount' \in [Users -> Counts] /\ followingCount' \in [Users -> Counts]
        BY <1>8, <1>typ, <2>1, <2>2 DEF FollowGraph, GraphData
    <2>g. GraphData' /\ Uncut'
        BY <1>8, <1>typ, <2>1, <2>3 DEF FollowGraph, GraphData, Uncut
    <2>f. FeedData'
        BY <1>feed, <1>8 DEF FollowGraph
    <2>m. StepsTyped' /\ Shapes' /\ Busy'
        <3>1. GoTo(c, "follow_enqueue", subject[c]) /\ UNCHANGED <<draft, posts, job, ids, rebuild>>
                /\ step[c] # "set_counters"
            BY <1>8 DEF FollowGraph, Done
        <3> QED BY <2>1, <3>1, ClientMoves DEF PairSteps
    <2>k. JobsKnown' /\ PostsKnown'
        BY <1>feed, <1>8 DEF FollowGraph
    <2> QED BY <1>all, <2>g, <2>f, <2>m, <2>k
<1>9. ASSUME NEW c \in Clients, UnfollowGraph(c), UNCHANGED feedOnly
       PROVE  FeedTypeInv'
    <2>1. subject[c] \in Pairs /\ draft[c] = NoPost /\ subject[c][1] \in Users /\ subject[c][2] \in Users
        BY <1>9, ClientFacts, PairFacts DEF UnfollowGraph, PairSteps
    <2>2. \A v \in Counts : Value(v) + 1 \in Counts /\ Value(v) - 1 \in Counts
        BY DEF Counts, Value
    <2>3. followerCount' \in [Users -> Counts] /\ followingCount' \in [Users -> Counts]
        BY <1>9, <1>typ, <2>1, <2>2 DEF UnfollowGraph, GraphData
    <2>g. GraphData' /\ Uncut'
        BY <1>9, <1>typ, <2>1, <2>3 DEF UnfollowGraph, GraphData, Uncut
    <2>f. FeedData'
        BY <1>feed, <1>9 DEF UnfollowGraph
    <2>m. StepsTyped' /\ Shapes' /\ Busy'
        <3>1. GoTo(c, "idle", NoSubject) /\ UNCHANGED <<draft, posts, job, ids, rebuild>>
                /\ step[c] # "set_counters"
            BY <1>9 DEF UnfollowGraph, Done
        <3> QED BY <2>1, <3>1, ClientMoves DEF PairSteps
    <2>k. JobsKnown' /\ PostsKnown'
        BY <1>feed, <1>9 DEF UnfollowGraph
    <2> QED BY <1>all, <2>g, <2>f, <2>m, <2>k
<1>10. ASSUME NEW c \in Clients, Abort(c)
       PROVE  FeedTypeInv'
    <2>1. GoTo(c, "idle", NoSubject) /\ draft' = [draft EXCEPT ![c] = NoPost]
            /\ UNCHANGED <<posts, job, ids>> /\ DOMAIN draft = Clients
            /\ rebuild' = [rebuild EXCEPT ![c] = NoRebuild] /\ DOMAIN rebuild = Clients
        BY <1>10, <1>typ DEF Abort, AbortRequest, Done, FeedData
    <2>g. GraphData' /\ Uncut'
        <3>1. cut' \subseteq Pairs
            BY <1>10, <1>typ, ClientFacts DEF Abort, AbortRequest, Pending, PairSteps, GraphData
        <3>2. aborts \in 0..MaxAborts /\ aborts' = aborts + 1 /\ aborts < MaxAborts
            BY <1>10, <1>typ DEF Abort, AbortRequest, GraphData
        <3>3. aborts' \in 0..MaxAborts /\ aborts' # 0
            BY <3>2, GraphAssumption
        <3>4. counted' \in [Clients -> Nat \X Nat]
            BY <1>10, <1>typ DEF Abort, AbortRequest, GraphData
        <3> QED BY <1>10, <1>typ, <3>1, <3>3, <3>4 DEF Abort, AbortRequest, GraphData, Uncut
    <2>f. FeedData'
        <3>1. draft' \in [Clients -> PostIds \union {NoPost}]
            BY <1>typ, <2>1 DEF FeedData
        <3>2. rebuild' \in [Clients -> [at : {"exists", "select", "write"},
                                       posts : SUBSET PostIds]]
            BY <1>typ, <2>1 DEF FeedData, NoRebuild
        <3> QED BY <1>10, <1>typ, <3>1, <3>2 DEF Abort, FeedData
    <2>m. StepsTyped' /\ Shapes' /\ Busy'
        BY <2>1, ClientMoves
    <2>k. JobsKnown' /\ PostsKnown'
        BY <1>10, <1>kept, <1>same DEF Abort
    <2> QED BY <1>all, <2>g, <2>f, <2>m, <2>k
<1>11. ASSUME NEW w \in Workers, NEW j \in jobs, TakeFanout(w, j)
       PROVE  FeedTypeInv'
    <2>1. j \in JobType /\ j # NoJob /\ j.type = "fanout_post" /\ j.author \in Users /\ Known(j)
        BY <1>11, <1>typ, JobFacts DEF TakeFanout, FeedData, JobsKnown
    <2>2. job' = [job EXCEPT ![w] = j] /\ job \in [Workers -> JobType \union {NoJob}]
        BY <1>11, <1>typ DEF TakeFanout, FeedData
    <2>g. GraphData' /\ Uncut'
        BY <1>11, <1>typ, GraphAssumption DEF TakeFanout, SizeFollowers, GraphData, Uncut
    <2>f. FeedData'
        BY <1>11, <1>typ, <2>1, <2>2 DEF TakeFanout, FeedData
    <2>m. StepsTyped' /\ Shapes' /\ Busy'
        <3>1. PICK s \in {"select_followers", "random_followers"} : GoTo(w, s, <<j.author, j.author>>)
            BY <1>11 DEF TakeFanout, SizeFollowers
        <3>2. UNCHANGED <<draft, rebuild, posts, ids>>
            BY <1>11 DEF TakeFanout, SizeFollowers
        <3>3. job'[w] = j /\ \A v \in Workers \ {w} : job'[v] = job[v]
            BY <2>2
        <3>4. step'[w] = s /\ subject'[w] = <<j.author, j.author>> => WorkerAt(w)' /\ ServesPairs(w)'
            BY <2>1, <3>3 DEF WorkerAt, ServesPairs, FanSteps, Serving
        <3> QED BY <2>1, <3>1, <3>2, <3>3, <3>4, WorkerMoves
    <2>k. JobsKnown' /\ PostsKnown'
        BY <1>11, <1>same, <1>typ, <2>1, <2>2 DEF TakeFanout, JobsKnown, Known
    <2> QED BY <1>all, <2>g, <2>f, <2>m, <2>k
<1>12. ASSUME NEW w \in Workers, NEW j \in jobs, TakeBackfill(w, j)
       PROVE  FeedTypeInv'
    <2>1. j \in JobType /\ j # NoJob /\ j.type = "backfill_follower" /\ j.pair \in Pairs /\ Known(j)
            /\ j.pair[2] \in Users
        BY <1>12, <1>typ, JobFacts, PairFacts DEF TakeBackfill, FeedData, JobsKnown
    <2>2. job' = [job EXCEPT ![w] = j] /\ job \in [Workers -> JobType \union {NoJob}]
        BY <1>12, <1>typ DEF TakeBackfill, FeedData
    <2>3. Newest(userPosts[j.pair[2]], BackfillLimit) \in SUBSET PostIds
        BY <1>typ, <2>1 DEF Newest, FeedData
    <2>g. GraphData' /\ Uncut'
        BY <1>graph, <1>12 DEF TakeBackfill
    <2>f. FeedData'
        <3>1. copied' \in [Workers -> SUBSET PostIds]
            BY <1>12, <1>typ, <2>3 DEF TakeBackfill, FeedData
        <3> QED BY <1>12, <1>typ, <2>1, <2>2, <3>1 DEF TakeBackfill, FeedData
    <2>m. StepsTyped' /\ Shapes' /\ Busy'
        <3>1. PICK s \in {"backfill_add", "ack"} : GoTo(w, s, j.pair)
            BY <1>12 DEF TakeBackfill
        <3>2. UNCHANGED <<draft, rebuild, posts, ids>>
            BY <1>12 DEF TakeBackfill
        <3>3. job'[w] = j /\ \A v \in Workers \ {w} : job'[v] = job[v]
            BY <2>2
        <3>4. step'[w] = s /\ subject'[w] = j.pair => WorkerAt(w)' /\ ServesPairs(w)'
            BY <2>1, <3>3 DEF WorkerAt, ServesPairs, FanSteps, Serving
        <3> QED BY <2>1, <3>1, <3>2, <3>3, <3>4, WorkerMoves
    <2>k. JobsKnown' /\ PostsKnown'
        BY <1>12, <1>same, <1>typ, <2>1, <2>2 DEF TakeBackfill, JobsKnown, Known
    <2> QED BY <1>all, <2>g, <2>f, <2>m, <2>k
<1>13. ASSUME NEW w \in Workers, RandomFollowers(w), UNCHANGED feedOnly
       PROVE  FeedTypeInv'
    <2>0. /\ subject[w] = <<job[w].author, job[w].author>> /\ job[w].author \in Users
          /\ job[w] \in JobType /\ job[w].type = "fanout_post"
        BY <1>13, WorkerFacts DEF RandomFollowers, FanSteps
    <2>1. /\ subject[w] = <<job[w].author, job[w].author>> /\ job[w].author \in Users
          /\ job[w] # NoJob /\ job[w].type = "fanout_post" /\ subject[w][1] = job[w].author
        BY <2>0, JobFacts
    <2>2. \A f \in FollowersIn(followers, job[w].author) : <<f, job[w].author>> \in Pairs /\ f \in Users
        BY <1>typ, PairFacts DEF FollowersIn, GraphData
    <2>3. ids' \in [Workers -> SUBSET Users] /\ ids' = [ids EXCEPT ![w] = FollowersIn(followers, job[w].author)]
        BY <1>13, <1>typ, <2>1, <2>2 DEF RandomFollowers, GraphData
    <2>g. GraphData' /\ Uncut'
        BY <1>13, <1>typ, <2>3 DEF RandomFollowers, GraphData, Uncut
    <2>f. FeedData'
        BY <1>feed, <1>13 DEF RandomFollowers
    <2>m. StepsTyped' /\ Shapes' /\ Busy'
        <3>1. GoTo(w, "got_followers", subject[w]) /\ UNCHANGED <<draft, rebuild, posts, job>>
            BY <1>13 DEF RandomFollowers
        <3>2. \A f \in ids'[w] : <<f, job[w].author>> \in Pairs
            BY <1>typ, <2>2, <2>3 DEF GraphData
        <3>3. \A v \in Workers \ {w} : ids'[v] = ids[v]
            BY <1>typ, <2>3 DEF GraphData
        <3>4. step'[w] = "got_followers" /\ subject'[w] = subject[w] => WorkerAt(w)' /\ ServesPairs(w)'
            BY <2>1, <3>1, <3>2 DEF WorkerAt, ServesPairs, FanSteps, Serving
        <3> QED BY <2>1, <3>1, <3>3, <3>4, WorkerMoves
    <2>k. JobsKnown' /\ PostsKnown'
        BY <1>feed, <1>13 DEF RandomFollowers
    <2> QED BY <1>all, <2>g, <2>f, <2>m, <2>k
<1>14. ASSUME NEW w \in Workers, SelectFollowers(w), UNCHANGED feedOnly
       PROVE  FeedTypeInv'
    <2>0. /\ subject[w] = <<job[w].author, job[w].author>> /\ job[w].author \in Users
          /\ job[w] \in JobType /\ job[w].type = "fanout_post"
        BY <1>14, WorkerFacts DEF SelectFollowers, FanSteps
    <2>1. /\ subject[w] = <<job[w].author, job[w].author>> /\ job[w].author \in Users
          /\ job[w] # NoJob /\ job[w].type = "fanout_post" /\ subject[w][1] = job[w].author
        BY <2>0, JobFacts
    <2>2. \A f \in FollowersIn(follows, job[w].author) : <<f, job[w].author>> \in Pairs /\ f \in Users
        BY <1>typ, PairFacts DEF FollowersIn, GraphData
    <2>3. ids' \in [Workers -> SUBSET Users] /\ ids' = [ids EXCEPT ![w] = FollowersIn(follows, job[w].author)]
        BY <1>14, <1>typ, <2>1, <2>2 DEF SelectFollowers, GraphData
    <2>g. GraphData' /\ Uncut'
        BY <1>14, <1>typ, <2>3 DEF SelectFollowers, GraphData, Uncut
    <2>f. FeedData'
        BY <1>feed, <1>14 DEF SelectFollowers
    <2>m. StepsTyped' /\ Shapes' /\ Busy'
        <3>1. PICK s \in {"got_followers", "add_followers"} : GoTo(w, s, subject[w])
            BY <1>14 DEF SelectFollowers
        <3>0. UNCHANGED <<draft, rebuild, posts, job>>
            BY <1>14 DEF SelectFollowers
        <3>2. \A f \in ids'[w] : <<f, job[w].author>> \in Pairs
            BY <1>typ, <2>2, <2>3 DEF GraphData
        <3>3. \A v \in Workers \ {w} : ids'[v] = ids[v]
            BY <1>typ, <2>3 DEF GraphData
        <3>4. step'[w] = s /\ subject'[w] = subject[w] => WorkerAt(w)' /\ ServesPairs(w)'
            BY <2>1, <3>0, <3>2 DEF WorkerAt, ServesPairs, FanSteps, Serving
        <3> QED BY <2>1, <3>0, <3>1, <3>3, <3>4, WorkerMoves
    <2>k. JobsKnown' /\ PostsKnown'
        BY <1>feed, <1>14 DEF SelectFollowers
    <2> QED BY <1>all, <2>g, <2>f, <2>m, <2>k
<1>15. ASSUME NEW w \in Workers, AddFollowers(w), UNCHANGED feedOnly
       PROVE  FeedTypeInv'
    <2>0. /\ subject[w] = <<job[w].author, job[w].author>> /\ job[w].author \in Users
          /\ job[w] \in JobType /\ job[w].type = "fanout_post"
        BY <1>15, WorkerFacts DEF AddFollowers, FanSteps
    <2>1. /\ subject[w] = <<job[w].author, job[w].author>> /\ job[w].author \in Users
          /\ job[w] # NoJob /\ job[w].type = "fanout_post" /\ subject[w][1] = job[w].author
        BY <2>0, JobFacts
    <2>2. \A f \in ids[w] : <<f, job[w].author>> \in Pairs
        BY <1>15 DEF AddFollowers, FeedTypeInv, Shapes, ServesPairs, Serving
    <2>g. GraphData' /\ Uncut'
        <3>1. followers' \subseteq Pairs
            BY <1>15, <1>typ, <2>1, <2>2 DEF AddFollowers, GraphData
        <3> QED BY <1>15, <1>typ, <3>1 DEF AddFollowers, GraphData, Uncut
    <2>f. FeedData'
        BY <1>feed, <1>15 DEF AddFollowers
    <2>m. StepsTyped' /\ Shapes' /\ Busy'
        <3>1. GoTo(w, "got_followers", subject[w]) /\ UNCHANGED <<draft, rebuild, posts, job, ids>>
            BY <1>15 DEF AddFollowers
        <3>2. step'[w] = "got_followers" /\ subject'[w] = subject[w] => WorkerAt(w)' /\ ServesPairs(w)'
            BY <2>1, <2>2, <3>1 DEF WorkerAt, ServesPairs, FanSteps, Serving
        <3> QED BY <2>1, <3>1, <3>2, WorkerMoves
    <2>k. JobsKnown' /\ PostsKnown'
        BY <1>feed, <1>15 DEF AddFollowers
    <2> QED BY <1>all, <2>g, <2>f, <2>m, <2>k
<1>16. ASSUME NEW w \in Workers, NEW f \in ids[w], PushAdd(w, f)
       PROVE  FeedTypeInv'
    <2>0. /\ subject[w] = <<job[w].author, job[w].author>> /\ job[w].author \in Users
          /\ job[w] \in JobType /\ job[w].type = "fanout_post"
        BY <1>16, WorkerFacts DEF PushAdd, FanSteps
    <2>1. /\ subject[w] = <<job[w].author, job[w].author>> /\ job[w].author \in Users
          /\ job[w] # NoJob /\ job[w].type = "fanout_post" /\ subject[w][1] = job[w].author
        BY <2>0, JobFacts
    <2>2. \A g \in ids[w] : <<g, job[w].author>> \in Pairs /\ g \in Users
        BY <1>16, <1>typ DEF PushAdd, FeedTypeInv, Shapes, ServesPairs, Serving, GraphData
    <2>3. job[w].post \in PostIds
        BY <1>16, WorkerFacts DEF PushAdd, FanSteps
    <2>g. GraphData' /\ Uncut'
        <3>1. ids' \in [Workers -> SUBSET Users]
            BY <1>16, <1>typ DEF PushAdd, GraphData
        <3> QED BY <1>16, <1>typ, <3>1 DEF PushAdd, GraphData, Uncut
    <2>f. FeedData'
        <3>1. home' \in [Users -> SUBSET PostIds]
            BY <1>16, <1>typ, <2>2, <2>3 DEF PushAdd, FeedData
        <3> QED BY <1>16, <1>typ, <3>1 DEF PushAdd, FeedData
    <2>m. StepsTyped' /\ Shapes' /\ Busy'
        <3>1. GoTo(w, "push_trim", <<f, job[w].author>>) /\ UNCHANGED <<draft, rebuild, posts, job>>
            BY <1>16 DEF PushAdd
        <3>2. /\ \A v \in Workers \ {w} : ids'[v] = ids[v]
              /\ \A g \in ids'[w] : <<g, job[w].author>> \in Pairs
            BY <1>16, <1>typ, <2>2 DEF PushAdd, GraphData
        <3>3. step'[w] = "push_trim" /\ subject'[w] = <<f, job[w].author>> => WorkerAt(w)' /\ ServesPairs(w)'
            BY <2>1, <2>2, <3>1, <3>2 DEF WorkerAt, ServesPairs, FanSteps, Serving
        <3> QED BY <2>1, <2>2, <3>1, <3>2, <3>3, WorkerMoves
    <2>k. JobsKnown' /\ PostsKnown'
        BY <1>16, <1>kept, <1>same DEF PushAdd
    <2> QED BY <1>all, <2>g, <2>f, <2>m, <2>k
<1>17. ASSUME NEW w \in Workers, PushTrim(w)
       PROVE  FeedTypeInv'
    <2>1. subject[w][1] \in Users /\ job[w].author \in Users /\ job[w] # NoJob /\ job[w].type = "fanout_post"
        BY <1>17, WorkerFacts, JobFacts DEF PushTrim
    <2>2. Newest(home[subject[w][1]], FeedMax) \in SUBSET PostIds
        BY <1>typ, <2>1 DEF Newest, FeedData
    <2>g. GraphData' /\ Uncut'
        BY <1>graph, <1>17 DEF PushTrim
    <2>f. FeedData'
        <3>1. home' \in [Users -> SUBSET PostIds]
            BY <1>17, <1>typ, <2>2 DEF PushTrim, FeedData
        <3> QED BY <1>17, <1>typ, <3>1 DEF PushTrim, FeedData
    <2>m. StepsTyped' /\ Shapes' /\ Busy'
        <3>1. GoTo(w, "got_followers", <<job[w].author, job[w].author>>)
                /\ UNCHANGED <<draft, rebuild, posts, job, ids>>
            BY <1>17 DEF PushTrim
        <3>2. \A g \in ids[w] : <<g, job[w].author>> \in Pairs
            BY <1>17 DEF PushTrim, FeedTypeInv, Shapes, ServesPairs, Serving
        <3>3. step'[w] = "got_followers" /\ subject'[w] = <<job[w].author, job[w].author>>
                => WorkerAt(w)' /\ ServesPairs(w)'
            BY <2>1, <3>1, <3>2 DEF WorkerAt, ServesPairs, FanSteps, Serving
        <3> QED BY <2>1, <3>1, <3>3, WorkerMoves
    <2>k. JobsKnown' /\ PostsKnown'
        BY <1>17, <1>kept, <1>same DEF PushTrim
    <2> QED BY <1>all, <2>g, <2>f, <2>m, <2>k
<1>18. ASSUME NEW w \in Workers, BackfillAdd(w)
       PROVE  FeedTypeInv'
    <2>1. /\ job[w] # NoJob /\ job[w].type = "backfill_follower"
          /\ subject[w] = job[w].pair /\ subject[w] \in Pairs /\ subject[w][1] \in Users
        BY <1>18, WorkerFacts, JobFacts DEF BackfillAdd
    <2>2. Newest(home[subject[w][1]] \union copied[w], FeedMax) \in SUBSET PostIds
        BY <1>typ, <2>1 DEF Newest, FeedData
    <2>g. GraphData' /\ Uncut'
        BY <1>graph, <1>18 DEF BackfillAdd
    <2>f. FeedData'
        <3>1. home' \in [Users -> SUBSET PostIds] /\ copied' \in [Workers -> SUBSET PostIds]
            BY <1>18, <1>typ, <2>2 DEF BackfillAdd, FeedData
        <3> QED BY <1>18, <1>typ, <3>1 DEF BackfillAdd, FeedData
    <2>m. StepsTyped' /\ Shapes' /\ Busy'
        <3>1. GoTo(w, "ack", subject[w]) /\ UNCHANGED <<draft, rebuild, posts, job, ids>>
            BY <1>18 DEF BackfillAdd
        <3>2. step'[w] = "ack" /\ subject'[w] = subject[w] => WorkerAt(w)' /\ ServesPairs(w)'
            BY <2>1, <3>1 DEF WorkerAt, ServesPairs, FanSteps, Serving
        <3> QED BY <2>1, <3>1, <3>2, WorkerMoves
    <2>k. JobsKnown' /\ PostsKnown'
        BY <1>18, <1>kept, <1>same DEF BackfillAdd
    <2> QED BY <1>all, <2>g, <2>f, <2>m, <2>k
<1>19. ASSUME NEW w \in Workers, AckJob(w)
       PROVE  FeedTypeInv'
    <2>1. job' = [job EXCEPT ![w] = NoJob] /\ job \in [Workers -> JobType \union {NoJob}]
            /\ GoTo(w, "idle", NoSubject) /\ UNCHANGED <<draft, rebuild, posts, userPosts, lastJob>>
            /\ jobs' \subseteq jobs
        BY <1>19, <1>typ DEF AckJob, Done, FeedData
    <2>2. ids' \in [Workers -> SUBSET Users] /\ \A v \in Workers \ {w} : ids'[v] = ids[v]
        BY <1>19, <1>typ DEF AckJob, GraphData
    <2>g. GraphData' /\ Uncut'
        BY <1>19, <1>typ, <2>2 DEF AckJob, GraphData, Uncut
    <2>f. FeedData'
        <3>1. copied' \in [Workers -> SUBSET PostIds] /\ crashes' \in 0..MaxCrashes
            BY <1>19, <1>typ, FeedAssumption DEF AckJob, FeedData
        <3> QED BY <1>19, <1>typ, <2>1, <3>1 DEF AckJob, FeedData
    <2>m. StepsTyped' /\ Shapes' /\ Busy'
        <3>1. step'[w] = "idle" /\ subject'[w] = NoSubject => WorkerAt(w)' /\ ServesPairs(w)'
            BY <2>1 DEF WorkerAt, ServesPairs, Serving
        <3> QED BY <2>1, <2>2, <3>1, WorkerMoves
    <2>k. JobsKnown' /\ PostsKnown'
        BY <1>same, <1>typ, <2>1 DEF JobsKnown, Known
    <2> QED BY <1>all, <2>g, <2>f, <2>m, <2>k
<1>20. ASSUME NEW w \in Workers, CrashWorker(w)
       PROVE  FeedTypeInv'
    <2>1. job' = [job EXCEPT ![w] = NoJob] /\ job \in [Workers -> JobType \union {NoJob}]
            /\ GoTo(w, "idle", NoSubject) /\ UNCHANGED <<draft, rebuild, posts, userPosts, lastJob>>
            /\ jobs' \subseteq jobs
        BY <1>20, <1>typ DEF CrashWorker, Done, FeedData
    <2>2. ids' \in [Workers -> SUBSET Users] /\ \A v \in Workers \ {w} : ids'[v] = ids[v]
        BY <1>20, <1>typ DEF CrashWorker, GraphData
    <2>g. GraphData' /\ Uncut'
        BY <1>20, <1>typ, <2>2 DEF CrashWorker, GraphData, Uncut
    <2>f. FeedData'
        <3>1. copied' \in [Workers -> SUBSET PostIds] /\ crashes' \in 0..MaxCrashes
            BY <1>20, <1>typ, FeedAssumption DEF CrashWorker, FeedData
        <3> QED BY <1>20, <1>typ, <2>1, <3>1 DEF CrashWorker, FeedData
    <2>m. StepsTyped' /\ Shapes' /\ Busy'
        <3>1. step'[w] = "idle" /\ subject'[w] = NoSubject => WorkerAt(w)' /\ ServesPairs(w)'
            BY <2>1 DEF WorkerAt, ServesPairs, Serving
        <3> QED BY <2>1, <2>2, <3>1, WorkerMoves
    <2>k. JobsKnown' /\ PostsKnown'
        BY <1>same, <1>typ, <2>1 DEF JobsKnown, Known
    <2> QED BY <1>all, <2>g, <2>f, <2>m, <2>k
<1>21. ASSUME NEW u \in Users, EvictFeed(u) PROVE FeedTypeInv'
    <2>1. UNCHANGED <<graphVars, posts, queue, skipped, running, crashes>>
        BY <1>21 DEF EvictFeed
    <2>2. /\ home' \in [Users -> SUBSET PostIds] /\ userPosts' \in [Users -> SUBSET PostIds]
          /\ feedEvictions' \in 0..MaxFeedEvictions
          /\ \A v \in Users : userPosts'[v] \subseteq userPosts[v]
        BY <1>21, <1>typ, FeedAssumption DEF EvictFeed, FeedData
    <2>3. FeedData'
        BY <1>typ, <2>1, <2>2 DEF FeedData
    <2>4. StepsTyped' /\ Busy' /\ Shapes'
        BY <1>typ, <2>1 DEF graphVars, locals, StepsTyped, Busy, Free, FeedTypeInv, Shapes,
                            ClientAt, RebuildAt, Posts, WorkerAt, ServesPairs
    <2>5. PostsKnown'
        BY <1>typ, <2>1, <2>2 DEF PostsKnown, Posts
    <2> QED BY <1>all, <1>graph, <1>kept, <2>1, <2>3, <2>4, <2>5 DEF graphVars, locals
<1>22. CASE UNCHANGED feedVars
    <2>1. StepsTyped' /\ Busy' /\ Shapes'
        BY <1>22, <1>typ DEF feedVars, graphVars, locals, StepsTyped, Busy, Free, FeedTypeInv,
                             Shapes, ClientAt, RebuildAt, Posts, WorkerAt, ServesPairs
    <2> QED BY <1>all, <1>graph, <1>feed, <1>22, <2>1 DEF feedVars, graphVars, locals
<1>23. ASSUME NEW c \in Clients, NEW u \in Users, ViewProfile(c, u), UNCHANGED feedOnly
       PROVE  FeedTypeInv'
    <2>g. GraphData' /\ Uncut'
        BY <1>23, <1>typ, GraphAssumption DEF ViewProfile, GraphData, Uncut
    <2>m. StepsTyped' /\ Shapes' /\ Busy'
        <3>1. GoTo(c, "count_followers", <<u, u>>) /\ UNCHANGED <<draft, posts, job, ids, rebuild>>
                /\ step[c] # "set_counters" /\ draft[c] = NoPost
            BY <1>23, ClientFacts DEF ViewProfile, Free
        <3> QED BY <3>1, ClientMoves DEF UserSteps
    <2> QED BY <1>all, <1>feed, <1>23, <2>g, <2>m
<1>24. ASSUME NEW c \in Clients, CountFollowers(c), UNCHANGED feedOnly PROVE FeedTypeInv'
    <2>1. /\ draft[c] = NoPost /\ subject[c][1] \in Users
          /\ subject[c] = <<subject[c][1], subject[c][1]>>
        BY <1>24, ClientFacts DEF CountFollowers, UserSteps
    <2>g. GraphData' /\ Uncut'
        <3>1. Cardinality(FollowersIn(follows, subject[c][1])) \in Nat
            BY <1>typ, <2>1, FollowersFinite DEF GraphData
        <3>2. counted' \in [Clients -> Nat \X Nat]
            BY <1>24, <1>typ, <3>1 DEF CountFollowers, GraphData
        <3>3. stale' \subseteq Keys
            BY <1>24, <1>typ, <2>1 DEF CountFollowers, CountedAcross, Keys, GraphData
        <3> QED BY <1>24, <1>typ, <3>2, <3>3 DEF CountFollowers, GraphData, Uncut
    <2>m. StepsTyped' /\ Shapes' /\ Busy'
        <3>1. GoTo(c, "count_following", subject[c]) /\ UNCHANGED <<draft, posts, job, ids, rebuild>>
                /\ step[c] # "set_counters"
            BY <1>24 DEF CountFollowers
        <3> QED BY <2>1, <3>1, ClientMoves DEF UserSteps
    <2> QED BY <1>all, <1>feed, <1>24, <2>g, <2>m
<1>25. ASSUME NEW c \in Clients, CountFollowing(c), UNCHANGED feedOnly PROVE FeedTypeInv'
    <2>1. /\ draft[c] = NoPost /\ subject[c][1] \in Users
          /\ subject[c] = <<subject[c][1], subject[c][1]>>
        BY <1>25, ClientFacts DEF CountFollowing, UserSteps
    <2>g. GraphData' /\ Uncut'
        <3> DEFINE n == Cardinality(FolloweesIn(follows, subject[c][1]))
        <3>1. n \in Nat
            BY <1>typ, <2>1, FollowersFinite DEF GraphData
        <3>2. /\ counted' = [counted EXCEPT ![c] = [@ EXCEPT ![2] = n]]
              /\ counted[c] \in Nat \X Nat
            BY <1>25, <1>typ DEF CountFollowing, GraphData
        <3>3. stale' \subseteq Keys
            BY <1>25, <1>typ, <2>1 DEF CountFollowing, CountedAcross, Keys, GraphData
        <3> HIDE DEF n
        <3>4. [counted[c] EXCEPT ![2] = n] \in Nat \X Nat
            BY <3>1, <3>2, SecondReplaced
        <3>5. counted' \in [Clients -> Nat \X Nat]
            BY <1>typ, <3>2, <3>4 DEF GraphData
        <3> QED BY <1>25, <1>typ, <3>3, <3>5 DEF CountFollowing, GraphData, Uncut
    <2>m. StepsTyped' /\ Shapes' /\ Busy'
        <3>1. GoTo(c, "set_counters", subject[c]) /\ UNCHANGED <<draft, posts, job, ids, rebuild>>
                /\ step[c] # "set_counters"
            BY <1>25 DEF CountFollowing
        <3> QED BY <2>1, <3>1, ClientMoves DEF UserSteps
    <2> QED BY <1>all, <1>feed, <1>25, <2>g, <2>m
<1>26. ASSUME NEW c \in Clients, LookTimeline(c) \/ SelectPosts(c) PROVE FeedTypeInv'
    <2>1. UNCHANGED <<graphVars, feeds, queue, skipped, draft, job, copied, feedBounds>>
        BY <1>26 DEF LookTimeline, SelectPosts
    <2>2. /\ rebuild' \in [Clients -> [at : {"exists", "select", "write"}, posts : SUBSET PostIds]]
          /\ step[c] = "set_counters" /\ rebuild'[c].posts \subseteq Posts(subject[c][1])
          /\ \A d \in Clients \ {c} : rebuild'[d] = rebuild[d]
        <3>1. Posts(subject[c][1]) \in SUBSET PostIds /\ rebuild[c].posts \subseteq Posts(subject[c][1])
            BY ClientFacts DEF Posts
        <3>2. CASE LookTimeline(c)
            BY <1>typ, <3>1, <3>2 DEF LookTimeline, FeedData
        <3>3. CASE SelectPosts(c)
            BY <1>typ, <3>1, <3>3 DEF SelectPosts, FeedData
        <3> QED BY <1>26, <3>2, <3>3
    <2>3. FeedData'
        BY <1>typ, <2>1, <2>2 DEF FeedData
    <2>4. \A d \in Clients : RebuildAt(d)'
        BY <2>1, <2>2 DEF RebuildAt, Posts, FeedTypeInv, Shapes, graphVars, locals
    <2>5. StepsTyped' /\ Busy' /\ Shapes'
        BY <1>typ, <2>1, <2>4 DEF graphVars, locals, StepsTyped, Busy, Free, FeedTypeInv, Shapes,
                            ClientAt, WorkerAt, ServesPairs
    <2> QED BY <1>all, <1>graph, <1>same, <1>kept, <2>1, <2>3, <2>5 DEF graphVars, locals
<1>27. ASSUME NEW c \in Clients, WriteCounters(c) PROVE FeedTypeInv'
    <2>1. /\ subject[c][1] \in Users /\ rebuild[c].posts \subseteq Posts(subject[c][1])
          /\ draft[c] = NoPost
        BY <1>27, ClientFacts DEF WriteCounters, SetCounters, UserSteps
    <2>2. Posts(subject[c][1]) \in SUBSET PostIds
        BY DEF Posts
    <2>g. GraphData' /\ Uncut'
        <3>1. counted[c][1] \in Counts /\ counted[c][2] \in Counts
            BY <1>typ DEF GraphData, Counts
        <3>2. followerCount' \in [Users -> Counts] /\ followingCount' \in [Users -> Counts]
            BY <1>27, <1>typ, <2>1, <3>1 DEF WriteCounters, SetCounters, GraphData
        <3>3. counted' \in [Clients -> Nat \X Nat]
            BY <1>27, <1>typ DEF WriteCounters, SetCounters, GraphData
        <3> QED BY <1>27, <1>typ, <3>2, <3>3 DEF WriteCounters, SetCounters, GraphData, Uncut
    <2>f. FeedData'
        <3>1. userPosts' \in [Users -> SUBSET PostIds]
            BY <1>27, <1>typ, <2>1, <2>2 DEF WriteCounters, FeedData
        <3>2. rebuild' \in [Clients -> [at : {"exists", "select", "write"}, posts : SUBSET PostIds]]
            BY <1>27, <1>typ DEF WriteCounters, FeedData, NoRebuild
        <3> QED BY <1>27, <1>typ, <3>1, <3>2 DEF WriteCounters, FeedData
    <2>m. StepsTyped' /\ Shapes' /\ Busy'
        <3>1. GoTo(c, "idle", NoSubject) /\ UNCHANGED <<draft, posts, job, ids>>
                /\ rebuild' = [rebuild EXCEPT ![c] = NoRebuild] /\ DOMAIN rebuild = Clients
            BY <1>27, <1>typ DEF WriteCounters, SetCounters, Done, FeedData
        <3> QED BY <2>1, <3>1, ClientMoves
    <2>k. JobsKnown' /\ PostsKnown'
        <3>1. \A u \in Users : userPosts'[u] \subseteq Posts(u)
            BY <1>27, <1>typ, <2>1 DEF WriteCounters, PostsKnown, FeedData
        <3> QED BY <1>27, <1>kept, <1>typ, <3>1 DEF WriteCounters, PostsKnown, Posts
    <2> QED BY <1>all, <2>g, <2>f, <2>m, <2>k
<1>28. ASSUME NEW u \in Users, EvictGraphKey(u), UNCHANGED feedOnly PROVE FeedTypeInv'
    <2>g. GraphData' /\ Uncut'
        <3>1. graphEvictions' \in 0..MaxGraphEvictions
            BY <1>28, <1>typ, GraphAssumption DEF EvictGraphKey, GraphData
        <3>2. /\ followers' \subseteq Pairs /\ following' \subseteq Pairs
              /\ followerCount' \in [Users -> Counts] /\ followingCount' \in [Users -> Counts]
              /\ stale' \subseteq Keys
            BY <1>28, <1>typ DEF EvictGraphKey, GraphData, Counts, Keys
        <3> QED BY <1>28, <1>typ, <3>1, <3>2 DEF EvictGraphKey, GraphData, Uncut, locals
    <2>m. StepsTyped' /\ Busy' /\ Shapes'
        BY <1>28, <1>typ DEF EvictGraphKey, locals, StepsTyped, Busy, Free, FeedTypeInv, Shapes,
                             ClientAt, RebuildAt, Posts, WorkerAt, ServesPairs
    <2> QED BY <1>all, <1>feed, <1>28, <2>g, <2>m
<1> QED BY <1>1, <1>2, <1>3, <1>4, <1>5, <1>6, <1>7, <1>8, <1>9, <1>10, <1>11, <1>12,
           <1>13, <1>14, <1>15, <1>16, <1>17, <1>18, <1>19, <1>20, <1>21, <1>22, <1>23, <1>24,
           <1>25, <1>26, <1>27, <1>28
        DEF FeedNext, ClientStep, WorkerStep, GraphWorkerNext, Mishap

\* The feed types hold in every reachable state: every request, fan-out and
\* backfill writes what its keys are for, whatever they interleave with.
THEOREM FeedTypeCorrect == FeedSpec => []FeedTypeOK
<1>1. FeedTypeInv => FeedTypeOK BY DEF FeedTypeInv
<1> QED BY FeedInit_Type, FeedNext_Type, <1>1, PTL DEF FeedSpec

-----------------------------------------------------------------------------
(* Which steps touch a home feed *)

LEMMA Went ==
    ASSUME FeedTypeInv, NEW p \in Procs, NEW s, NEW x, GoTo(p, s, x)
    PROVE  /\ step'[p] = s /\ subject'[p] = x
           /\ \A q \in Procs \ {p} : step'[q] = step[q] /\ subject'[q] = subject[q]
BY DEF FeedTypeInv, FeedTypeOK, GraphTypeOK, GoTo

\* A process goes on without touching a home feed, and is about no trim.
Elsewhere ==
    /\ UNCHANGED <<home, crashes, feedEvictions>>
    /\ \E p \in Procs : \E s, x :
        GoTo(p, s, x) /\ step[p] # "push_trim" /\ s # "push_trim"

LEMMA FeedSteps ==
    ASSUME FeedTypeInv, [FeedNext]_feedVars
    PROVE  \/ \E c \in Clients : PostTimeline(c)
           \/ \E w \in Workers : (\E f \in ids[w] : PushAdd(w, f)) \/ PushTrim(w)
                                 \/ BackfillAdd(w) \/ CrashWorker(w)
           \/ \E u \in Users : EvictFeed(u)
           \/ Elsewhere
           \/ UNCHANGED <<home, crashes, feedEvictions, step, subject>>
<1> USE DEF feeds, feedBounds, feedOnly, Elsewhere, Done, Free
<1>procs. Clients \subseteq Procs /\ Workers \subseteq Procs
    BY DEF Procs
<1>1. ASSUME NEW c \in Clients, NEW u \in Authors, PostCommit(c, u) PROVE Elsewhere
    BY <1>1, <1>procs DEF PostCommit
<1>2. ASSUME NEW c \in Clients, NEW pair \in Pairs,
             FollowCommit(c, pair) \/ UnfollowCommit(c, pair), UNCHANGED feedOnly
      PROVE  Elsewhere
    BY <1>2, <1>procs DEF FollowCommit, UnfollowCommit, StartRequest
<1>3. ASSUME NEW c \in Clients, PostCount(c) \/ PostEnqueue(c) PROVE Elsewhere
    BY <1>3, <1>procs DEF PostCount, PostEnqueue
<1>4. ASSUME NEW c \in Clients, FollowPublish(c) PROVE Elsewhere
    BY <1>4, <1>procs DEF FollowPublish, FollowEnqueue
<1>5. ASSUME NEW c \in Clients, FollowGraph(c) \/ UnfollowGraph(c), UNCHANGED feedOnly
      PROVE  Elsewhere
    BY <1>5, <1>procs DEF FollowGraph, UnfollowGraph
<1>11. ASSUME NEW c \in Clients, UNCHANGED feedOnly,
              (\E u \in Users : ViewProfile(c, u)) \/ CountFollowers(c) \/ CountFollowing(c)
       PROVE  Elsewhere
    BY <1>11, <1>procs DEF ViewProfile, CountFollowers, CountFollowing
<1>12. ASSUME NEW c \in Clients, WriteCounters(c) PROVE Elsewhere
    BY <1>12, <1>procs DEF WriteCounters, SetCounters
<1>13. ASSUME \/ \E c \in Clients : LookTimeline(c) \/ SelectPosts(c)
              \/ (\E u \in Users : EvictGraphKey(u)) /\ UNCHANGED feedOnly
       PROVE  UNCHANGED <<home, crashes, feedEvictions, step, subject>>
    BY <1>13 DEF LookTimeline, SelectPosts, EvictGraphKey, graphVars, locals
<1>6. ASSUME NEW c \in Clients, Abort(c) PROVE Elsewhere
    <2>1. step[c] # "push_trim"
        BY DEF FeedTypeInv, Shapes, ClientAt, PairSteps, PostSteps, UserSteps
    <2> QED BY <1>6, <2>1, <1>procs DEF Abort, AbortRequest
<1>7. ASSUME NEW w \in Workers, NEW j \in jobs, TakeFanout(w, j) \/ TakeBackfill(w, j)
      PROVE  Elsewhere
    BY <1>7, <1>procs DEF TakeFanout, TakeBackfill, SizeFollowers
<1>8. ASSUME NEW w \in Workers, GraphWorkerNext(w), UNCHANGED feedOnly PROVE Elsewhere
    BY <1>8, <1>procs DEF GraphWorkerNext, RandomFollowers, SelectFollowers, AddFollowers
<1>9. ASSUME NEW w \in Workers, AckJob(w) PROVE Elsewhere
    BY <1>9, <1>procs DEF AckJob
<1>10. ASSUME UNCHANGED feedVars PROVE UNCHANGED <<home, crashes, feedEvictions, step, subject>>
    BY <1>10 DEF feedVars, graphVars, locals
<1> QED BY <1>1, <1>2, <1>3, <1>4, <1>5, <1>6, <1>7, <1>8, <1>9, <1>10, <1>11, <1>12, <1>13
        DEF FeedNext, ClientStep, WorkerStep, Mishap

-----------------------------------------------------------------------------
(* The bound of a home feed *)

Trimming(u) == {w \in Workers : step[w] = "push_trim" /\ subject[w][1] = u}
BoundedFor(u) == Cardinality(home[u]) <= FeedMax + crashes + Cardinality(Trimming(u))

LEMMA TrimmingFinite ==
    ASSUME NEW S \in SUBSET Workers, NEW T \in SUBSET S
    PROVE  /\ IsFiniteSet(S) /\ Cardinality(S) \in Nat /\ Cardinality(T) \in Nat
           /\ Cardinality(T) <= Cardinality(S)
           /\ \A w \in Workers \ S : Cardinality(S \union {w}) = Cardinality(S) + 1
<1>1. IsFiniteSet(S)
    BY FS_Subset, FeedAssumption
<1> QED BY <1>1, FS_Subset, FS_CardinalityType, FS_AddElement

LEMMA OneMore ==
    ASSUME NEW S, IsFiniteSet(S), NEW x
    PROVE  /\ Cardinality(S) \in Nat /\ Cardinality(S \union {x}) \in Nat
           /\ Cardinality(S \union {x}) <= Cardinality(S) + 1
<1>0. Cardinality(S) \in Nat
    BY FS_CardinalityType
<1>1. Cardinality(S \union {x}) = IF x \in S THEN Cardinality(S) ELSE Cardinality(S) + 1
    <2>1. x \in S => S \union {x} = S
        OBVIOUS
    <2> QED BY <2>1, FS_AddElement
<1> QED BY <1>0, <1>1

LEMMA BoundKept ==
    ASSUME FeedTypeInv, FeedTypeInv', NEW u \in Users, BoundedFor(u),
           \/ Cardinality(home'[u]) <= FeedMax
           \/ /\ Cardinality(home'[u]) <= Cardinality(home[u])
              /\ crashes' = crashes /\ Trimming(u) \subseteq Trimming(u)'
    PROVE  BoundedFor(u)'
<1>1. /\ Cardinality(home[u]) \in Nat /\ Cardinality(home'[u]) \in Nat
      /\ crashes \in Nat /\ crashes' \in Nat
    BY PostSets, FeedAssumption DEF FeedTypeInv, FeedTypeOK
<1>2. Cardinality(Trimming(u)) \in Nat /\ Cardinality(Trimming(u)') \in Nat
    BY TrimmingFinite DEF Trimming
<1>3. Trimming(u) \subseteq Trimming(u)' => Cardinality(Trimming(u)) <= Cardinality(Trimming(u)')
    <2> Trimming(u)' \in SUBSET Workers
        BY DEF Trimming
    <2> QED BY TrimmingFinite
<1>4. Cardinality(Trimming(u)') = Cardinality(Trimming(u))'
    OBVIOUS
<1> QED BY <1>1, <1>2, <1>3, FeedAssumption DEF BoundedFor

LEMMA FeedNext_Bounded ==
    ASSUME FeedTypeInv, HomeBounded, [FeedNext]_feedVars
    PROVE  HomeBounded'
<1>inv. FeedTypeInv'
    BY FeedNext_Type
<1>typ. /\ home \in [Users -> SUBSET PostIds] /\ home' \in [Users -> SUBSET PostIds]
        /\ crashes \in Nat /\ Clients \subseteq Procs /\ Workers \subseteq Procs
        /\ \A w \in Workers : w \notin Clients
    BY <1>inv, FeedAssumption, GraphAssumption DEF FeedTypeInv, FeedTypeOK, Procs
<1>bound. \A u \in Users : BoundedFor(u)
    BY DEF HomeBounded, BoundedFor, Trimming
<1>short. ASSUME NEW S \in SUBSET PostIds PROVE Cardinality(Newest(S, FeedMax)) <= FeedMax
    <2>1. FeedMax \in Nat /\ Cardinality(S) \in Nat
        BY PostSets, FeedAssumption
    <2> QED BY <2>1, NewestSize
<1> SUFFICES ASSUME NEW u \in Users PROVE BoundedFor(u)'
    BY DEF HomeBounded, BoundedFor, Trimming
<1>1. ASSUME NEW c \in Clients, PostTimeline(c) PROVE BoundedFor(u)'
    <2>1. subject[c][1] \in Users /\ draft[c] \in PostIds
        BY <1>1, ClientFacts DEF PostTimeline, PostSteps
    <2>2. home' = [home EXCEPT ![subject[c][1]] = Newest(@ \union {draft[c]}, FeedMax)]
            /\ crashes' = crashes /\ \E x : GoTo(c, "post_count", x)
        BY <1>1 DEF PostTimeline, feedBounds
    <2>3. Trimming(u) \subseteq Trimming(u)'
        BY <1>typ, <2>2, Went DEF Trimming
    <2>4. CASE u = subject[c][1]
        <3>1. home'[u] = Newest(home[u] \union {draft[c]}, FeedMax)
                /\ home[u] \union {draft[c]} \in SUBSET PostIds
            BY <1>typ, <2>1, <2>2, <2>4
        <3>2. Cardinality(home'[u]) <= FeedMax
            BY <1>short, <3>1
        <3> QED BY <1>inv, <1>bound, <3>2, BoundKept
    <2>5. CASE u # subject[c][1]
        <3>1. home'[u] = home[u]
            BY <1>typ, <2>2, <2>5
        <3>2. Cardinality(home'[u]) <= Cardinality(home[u])
            BY <1>typ, <3>1, PostSets
        <3> QED BY <1>inv, <1>bound, <2>2, <2>3, <3>2, BoundKept
    <2> QED BY <2>4, <2>5
<1>2. ASSUME NEW w \in Workers, NEW f \in ids[w], PushAdd(w, f) PROVE BoundedFor(u)'
    <2>1. /\ home' = [home EXCEPT ![f] = @ \union {job[w].post}]
          /\ crashes' = crashes /\ step[w] = "got_followers"
          /\ \E x : GoTo(w, "push_trim", x) /\ x[1] = f
        BY <1>2 DEF PushAdd, feedBounds
    <2>2. \A v \in Workers : /\ v # w => step'[v] = step[v] /\ subject'[v] = subject[v]
                             /\ step'[w] = "push_trim" /\ subject'[w][1] = f
        BY <1>typ, <2>1, Went
    <2>3. CASE u = f
        <3>1. Trimming(u)' = Trimming(u) \union {w} /\ w \notin Trimming(u)
            BY <2>1, <2>2, <2>3 DEF Trimming
        <3>2. Cardinality(Trimming(u)') = Cardinality(Trimming(u)) + 1
                /\ Cardinality(Trimming(u)) \in Nat
            <4>1. Trimming(u) \in SUBSET Workers
                BY DEF Trimming
            <4> QED BY <3>1, <4>1, TrimmingFinite
        <3>3. Cardinality(home'[u]) <= Cardinality(home[u]) + 1
            <4>1. home'[u] = home[u] \union {job[w].post} /\ home[u] \in SUBSET PostIds
                BY <1>typ, <2>1, <2>3
            <4>2. IsFiniteSet(home[u]) /\ Cardinality(home[u]) \in Nat
                BY <4>1, PostSets
            <4> QED BY <4>1, <4>2, OneMore
        <3>4. Cardinality(home[u]) \in Nat /\ Cardinality(home'[u]) \in Nat
            BY <1>typ, PostSets
        <3> QED BY <1>typ, <1>bound, <2>1, <3>2, <3>3, <3>4, FeedAssumption DEF BoundedFor
    <2>4. CASE u # f
        <3>1. home'[u] = home[u] /\ Cardinality(home[u]) \in Nat
            BY <1>typ, <2>1, <2>4, PostSets
        <3>2. Trimming(u) \subseteq Trimming(u)'
            BY <2>1, <2>2, <2>4 DEF Trimming
        <3>3. Cardinality(home'[u]) <= Cardinality(home[u])
            BY <3>1
        <3> QED BY <1>inv, <1>bound, <2>1, <3>2, <3>3, BoundKept
    <2> QED BY <2>3, <2>4
<1>3. ASSUME NEW w \in Workers, PushTrim(w) PROVE BoundedFor(u)'
    <2>1. /\ home' = [home EXCEPT ![subject[w][1]] = Newest(@, FeedMax)]
          /\ crashes' = crashes /\ \E x : GoTo(w, "got_followers", x)
        BY <1>3 DEF PushTrim, feedBounds
    <2>2. CASE u = subject[w][1]
        <3>1. Cardinality(home'[u]) <= FeedMax
            BY <1>short, <1>typ, <2>1, <2>2
        <3> QED BY <1>inv, <1>bound, <3>1, BoundKept
    <2>3. CASE u # subject[w][1]
        <3>1. home'[u] = home[u] /\ Cardinality(home[u]) \in Nat
            BY <1>typ, <2>1, <2>3, PostSets
        <3>2. Trimming(u) \subseteq Trimming(u)'
            BY <1>typ, <2>1, <2>3, Went DEF Trimming
        <3>3. Cardinality(home'[u]) <= Cardinality(home[u])
            BY <3>1
        <3> QED BY <1>inv, <1>bound, <2>1, <3>2, <3>3, BoundKept
    <2> QED BY <2>2, <2>3
<1>4. ASSUME NEW w \in Workers, BackfillAdd(w) PROVE BoundedFor(u)'
    <2>1. /\ home' = [home EXCEPT ![subject[w][1]] = Newest(@ \union copied[w], FeedMax)]
          /\ crashes' = crashes /\ \E x : GoTo(w, "ack", x) /\ copied[w] \in SUBSET PostIds
          /\ step[w] = "backfill_add"
        BY <1>4 DEF BackfillAdd, feedBounds, FeedTypeInv, FeedTypeOK
    <2>2. CASE u = subject[w][1]
        <3>1. home'[u] = Newest(home[u] \union copied[w], FeedMax)
                /\ home[u] \union copied[w] \in SUBSET PostIds
            BY <1>typ, <2>1, <2>2
        <3>2. Cardinality(home'[u]) <= FeedMax
            BY <1>short, <3>1
        <3> QED BY <1>inv, <1>bound, <3>2, BoundKept
    <2>3. CASE u # subject[w][1]
        <3>1. home'[u] = home[u] /\ Cardinality(home[u]) \in Nat
            BY <1>typ, <2>1, <2>3, PostSets
        <3>2. Trimming(u) \subseteq Trimming(u)'
            BY <1>typ, <2>1, <2>3, Went DEF Trimming
        <3>3. Cardinality(home'[u]) <= Cardinality(home[u])
            BY <3>1
        <3> QED BY <1>inv, <1>bound, <2>1, <3>2, <3>3, BoundKept
    <2> QED BY <2>2, <2>3
<1>5. ASSUME NEW w \in Workers, CrashWorker(w) PROVE BoundedFor(u)'
    <2>1. home' = home /\ crashes' = crashes + 1 /\ GoTo(w, "idle", NoSubject)
        BY <1>5 DEF CrashWorker, feeds, Done
    <2>2. Trimming(u) \subseteq Trimming(u)' \union {w}
        BY <1>typ, <2>1, Went DEF Trimming
    <2>3. Cardinality(Trimming(u)) <= Cardinality(Trimming(u)') + 1
            /\ Cardinality(Trimming(u)) \in Nat /\ Cardinality(Trimming(u)') \in Nat
        <3>1. Trimming(u)' \in SUBSET Workers /\ Trimming(u) \in SUBSET Workers
            BY DEF Trimming
        <3>2. IsFiniteSet(Trimming(u)') /\ Cardinality(Trimming(u)) \in Nat
                /\ Cardinality(Trimming(u)') \in Nat
            BY <3>1, TrimmingFinite
        <3>3. Trimming(u)' \union {w} \in SUBSET Workers
            BY <3>1
        <3>4. Cardinality(Trimming(u)) <= Cardinality(Trimming(u)' \union {w})
            BY <2>2, <3>3, TrimmingFinite
        <3>5. Cardinality(Trimming(u)' \union {w}) <= Cardinality(Trimming(u)') + 1
                /\ Cardinality(Trimming(u)' \union {w}) \in Nat
            BY <3>2, OneMore
        <3> QED BY <3>2, <3>4, <3>5
    <2>4. Cardinality(home[u]) \in Nat
        BY <1>typ, PostSets
    <2> QED BY <1>typ, <1>bound, <2>1, <2>3, <2>4, FeedAssumption DEF BoundedFor
<1>6. ASSUME NEW v \in Users, EvictFeed(v) PROVE BoundedFor(u)'
    <2>1. /\ home' = [home EXCEPT ![v] = {}] \/ home' = home
          /\ crashes' = crashes /\ UNCHANGED <<step, subject>>
        BY <1>6 DEF EvictFeed, graphVars, locals
    <2>2. home'[u] \in SUBSET home[u] /\ home[u] \in SUBSET PostIds
        BY <1>typ, <2>1
    <2>3. Cardinality(home'[u]) <= Cardinality(home[u])
        BY <2>2, PostSets
    <2>4. Trimming(u) \subseteq Trimming(u)'
        BY <2>1 DEF Trimming
    <2> QED BY <1>inv, <1>bound, <2>1, <2>3, <2>4, BoundKept
<1>7. ASSUME Elsewhere \/ UNCHANGED <<home, crashes, feedEvictions, step, subject>>
      PROVE  BoundedFor(u)'
    <2>1. home'[u] = home[u] /\ crashes' = crashes /\ Cardinality(home[u]) \in Nat
        BY <1>7, <1>typ, PostSets DEF Elsewhere
    <2>2. Trimming(u) \subseteq Trimming(u)'
        <3>1. CASE Elsewhere
            <4>1. PICK p \in Procs : \E s, x :
                    GoTo(p, s, x) /\ step[p] # "push_trim" /\ s # "push_trim"
                BY <3>1 DEF Elsewhere
            <4>2. \A q \in Procs : step[q] = "push_trim" =>
                    step'[q] = "push_trim" /\ subject'[q] = subject[q]
                BY <4>1, Went
            <4> QED BY <1>typ, <4>2 DEF Trimming
        <3> QED BY <1>7, <3>1 DEF Trimming
    <2>3. Cardinality(home'[u]) <= Cardinality(home[u])
        BY <2>1
    <2> QED BY <1>inv, <1>bound, <2>1, <2>2, <2>3, BoundKept
<1> QED BY <1>1, <1>2, <1>3, <1>4, <1>5, <1>6, <1>7, FeedSteps

\* A home feed exceeds FEED_MAX_SIZE by at most one post per fan-out between ZADD
\* and its trim, and one per crash there, whatever else writes to it.
THEOREM HomeFeedsBounded == FeedSpec => []HomeBounded
<1>1. FeedInit => HomeBounded
    <2> SUFFICES ASSUME FeedInit, NEW u \in Users PROVE BoundedFor(u)
        BY DEF HomeBounded, BoundedFor, Trimming
    <2>1. Cardinality(home[u]) = 0 /\ crashes = 0
        BY FS_EmptySet DEF FeedInit
    <2>2. Cardinality(Trimming(u)) \in Nat
        BY TrimmingFinite DEF Trimming
    <2> QED BY <2>1, <2>2, FeedAssumption DEF BoundedFor
<1> QED BY FeedInit_Type, FeedNext_Type, FeedNext_Bounded, <1>1, PTL DEF FeedSpec

-----------------------------------------------------------------------------
(* Whose step changes what *)

ClientKeeps(c) ==
    /\ step'[c] = step[c] /\ subject'[c] = subject[c] /\ draft'[c] = draft[c]
    /\ counted'[c] = counted[c]
ClientMoved(c) ==
    \/ \E u \in Authors : PostCommit(c, u)
    \/ \E pair \in Pairs :
        (FollowCommit(c, pair) \/ UnfollowCommit(c, pair)) /\ UNCHANGED feedOnly
    \/ ClientStep(c) \/ Abort(c)
    \/ \E u \in Users : ViewProfile(c, u) /\ UNCHANGED feedOnly

WorkerKeeps(w) ==
    /\ step'[w] = step[w] /\ subject'[w] = subject[w] /\ job'[w] = job[w]
    /\ ids'[w] = ids[w] /\ copied'[w] = copied[w]
WorkerMoved(w) ==
    \/ \E j \in jobs : TakeFanout(w, j) \/ TakeBackfill(w, j)
    \/ WorkerStep(w) \/ CrashWorker(w)

Evicted == \E u \in Users : EvictFeed(u) \/ (EvictGraphKey(u) /\ UNCHANGED feedOnly)

LEMMA ClientGoes ==
    ASSUME FeedTypeInv, NEW c \in Clients, ClientMoved(c)
    PROVE  /\ \A d \in Clients \ {c} : ClientKeeps(d)
           /\ \A w \in Workers : WorkerKeeps(w)
<1> USE DEF running, feedOnly
<1>1. (\E s, x : GoTo(c, s, x)) \/ UNCHANGED <<step, subject>>
    BY DEF ClientMoved, ClientStep, PostCommit, FollowCommit, UnfollowCommit, PostTimeline,
           PostCount, PostEnqueue, FollowPublish, FollowEnqueue, FollowGraph, UnfollowGraph,
           Abort, AbortRequest, Done, ViewProfile, CountFollowers, CountFollowing,
           LookTimeline, SelectPosts, WriteCounters, SetCounters, graphVars, locals
<1>2. /\ UNCHANGED <<job, ids, copied>>
      /\ \A d \in Clients \ {c} : draft'[d] = draft[d]
    <2>1. draft \in [Clients -> PostIds \union {NoPost}]
        BY DEF FeedTypeInv, FeedTypeOK
    <2> QED BY <2>1 DEF ClientMoved, ClientStep, PostCommit, FollowCommit, UnfollowCommit,
            PostTimeline, PostCount, PostEnqueue, FollowPublish, FollowEnqueue, FollowGraph,
            UnfollowGraph, Abort, AbortRequest, ViewProfile, CountFollowers, CountFollowing,
            LookTimeline, SelectPosts, WriteCounters, SetCounters, graphVars, locals
<1>3. \A d \in Clients \ {c} : counted'[d] = counted[d]
    <2>1. counted \in [Clients -> Nat \X Nat]
        BY DEF FeedTypeInv, FeedTypeOK, GraphTypeOK
    <2> QED BY <2>1 DEF ClientMoved, ClientStep, PostCommit, FollowCommit, UnfollowCommit,
            PostTimeline, PostCount, PostEnqueue, FollowPublish, FollowEnqueue, FollowGraph,
            UnfollowGraph, Abort, AbortRequest, ViewProfile, CountFollowers, CountFollowing,
            LookTimeline, SelectPosts, WriteCounters, SetCounters, graphVars, locals
<1>4. c \in Procs /\ \A q \in Clients \union Workers : q \in Procs
        /\ \A w \in Workers : w # c
    BY GraphAssumption DEF Procs
<1>5. \A q \in Procs \ {c} : step'[q] = step[q] /\ subject'[q] = subject[q]
    BY <1>1, <1>4, Went
<1> QED BY <1>2, <1>3, <1>4, <1>5 DEF ClientKeeps, WorkerKeeps

LEMMA WorkerGoes ==
    ASSUME FeedTypeInv, NEW w \in Workers, WorkerMoved(w)
    PROVE  /\ \A c \in Clients : ClientKeeps(c)
           /\ \A v \in Workers \ {w} : WorkerKeeps(v)
<1> USE DEF running, feedOnly
<1>1. \E s, x : GoTo(w, s, x)
    BY DEF WorkerMoved, WorkerStep, GraphWorkerNext, TakeFanout, TakeBackfill, SizeFollowers,
           RandomFollowers, SelectFollowers, AddFollowers, PushAdd, PushTrim, BackfillAdd,
           AckJob, CrashWorker, Done
<1>2. UNCHANGED <<draft, counted>>
    BY DEF WorkerMoved, WorkerStep, GraphWorkerNext, TakeFanout, TakeBackfill, SizeFollowers,
           RandomFollowers, SelectFollowers, AddFollowers, PushAdd, PushTrim, BackfillAdd,
           AckJob, CrashWorker
<1>typ. DOMAIN job = Workers /\ DOMAIN ids = Workers /\ DOMAIN copied = Workers
    BY DEF FeedTypeInv, FeedTypeOK, GraphTypeOK
<1>3. \A v \in Workers \ {w} : job'[v] = job[v]
    BY <1>typ DEF WorkerMoved, WorkerStep, GraphWorkerNext, TakeFanout, TakeBackfill,
           RandomFollowers, SelectFollowers, AddFollowers, PushAdd, PushTrim, BackfillAdd,
           AckJob, CrashWorker
<1>4. \A v \in Workers \ {w} : ids'[v] = ids[v]
    BY <1>typ DEF WorkerMoved, WorkerStep, GraphWorkerNext, TakeFanout, TakeBackfill,
           SizeFollowers, RandomFollowers, SelectFollowers, AddFollowers, PushAdd, PushTrim,
           BackfillAdd, AckJob, CrashWorker
<1>5. \A v \in Workers \ {w} : copied'[v] = copied[v]
    BY <1>typ DEF WorkerMoved, WorkerStep, GraphWorkerNext, TakeFanout, TakeBackfill,
           RandomFollowers, SelectFollowers, AddFollowers, PushAdd, PushTrim, BackfillAdd,
           AckJob, CrashWorker
<1>6. w \in Procs /\ \A q \in Clients \union Workers : q \in Procs
        /\ \A c \in Clients : w # c
    BY GraphAssumption DEF Procs
<1> QED BY <1>1, <1>2, <1>3, <1>4, <1>5, <1>6, Went DEF ClientKeeps, WorkerKeeps

\* A step is one client's, one worker's, an eviction or nothing.
LEMMA StepKinds ==
    ASSUME FeedTypeInv, [FeedNext]_feedVars
    PROVE  \/ \E c \in Clients :
                /\ ClientMoved(c)
                /\ \A d \in Clients \ {c} : ClientKeeps(d)
                /\ \A w \in Workers : WorkerKeeps(w)
           \/ \E w \in Workers :
                /\ WorkerMoved(w)
                /\ \A c \in Clients : ClientKeeps(c)
                /\ \A v \in Workers \ {w} : WorkerKeeps(v)
           \/ /\ Evicted \/ UNCHANGED feedVars
              /\ \A c \in Clients : ClientKeeps(c)
              /\ \A w \in Workers : WorkerKeeps(w)
<1>1. \/ \E c \in Clients : ClientMoved(c)
      \/ \E w \in Workers : WorkerMoved(w)
      \/ Evicted \/ UNCHANGED feedVars
    BY DEF FeedNext, Mishap, ClientMoved, WorkerMoved, Evicted
<1>2. ASSUME Evicted \/ UNCHANGED feedVars
      PROVE  (\A c \in Clients : ClientKeeps(c)) /\ (\A w \in Workers : WorkerKeeps(w))
    <2>1. UNCHANGED <<step, subject, counted, draft, job, ids, copied>>
        BY <1>2 DEF Evicted, EvictFeed, EvictGraphKey, feedVars, feedOnly, graphVars, locals, running
    <2> QED BY <2>1 DEF ClientKeeps, WorkerKeeps
<1> QED BY <1>1, <1>2, ClientGoes, WorkerGoes

LEMMA ClientShares ==
    ASSUME NEW c \in Clients, ClientMoved(c)
    PROVE  /\ UNCHANGED posts \/ \E u \in Authors : PostCommit(c, u)
           /\ UNCHANGED userPosts \/ PostTimeline(c) \/ WriteCounters(c)
           /\ UNCHANGED home \/ PostTimeline(c)
           /\ UNCHANGED skipped \/ PostCount(c)
           /\ UNCHANGED <<jobs, lastJob>> \/ PostEnqueue(c) \/ FollowPublish(c)
           /\ UNCHANGED aborts \/ Abort(c)
           /\ \/ UNCHANGED <<follows, overlapped, requests>>
              \/ \E pair \in Pairs : FollowCommit(c, pair) \/ UnfollowCommit(c, pair)
           /\ \/ UNCHANGED <<sets, counters>>
              \/ (FollowGraph(c) \/ UnfollowGraph(c)) /\ UNCHANGED feedOnly
              \/ WriteCounters(c)
           /\ stale \subseteq stale'
           /\ UNCHANGED <<crashes, feedEvictions, graphEvictions>>
<1> USE DEF feeds, queue, feedBounds, graphBounds, feedOnly
<1> DEFINE Rest == <<crashes, feedEvictions, graphEvictions>>
<1>1. ASSUME NEW u \in Authors, PostCommit(c, u) PROVE UNCHANGED <<userPosts, home, skipped,
            jobs, lastJob, aborts, follows, overlapped, requests, sets, counters, stale, Rest>>
    BY <1>1 DEF PostCommit
<1>2. ASSUME NEW pair \in Pairs, FollowCommit(c, pair) \/ UnfollowCommit(c, pair),
             UNCHANGED feedOnly
      PROVE  /\ UNCHANGED <<posts, userPosts, home, skipped, jobs, lastJob, aborts, sets,
                            counters, Rest>>
             /\ stale \subseteq stale'
    BY <1>2 DEF FollowCommit, UnfollowCommit, StartRequest
<1>3. ASSUME PostTimeline(c)
      PROVE  UNCHANGED <<posts, skipped, jobs, lastJob, aborts, follows, overlapped, requests,
                         sets, counters, stale, Rest>>
    BY <1>3 DEF PostTimeline
<1>4. ASSUME PostCount(c)
      PROVE  UNCHANGED <<posts, userPosts, home, jobs, lastJob, aborts, follows, overlapped,
                         requests, sets, counters, stale, Rest>>
    BY <1>4 DEF PostCount
<1>5. ASSUME PostEnqueue(c) \/ FollowPublish(c)
      PROVE  UNCHANGED <<posts, userPosts, home, skipped, aborts, follows, overlapped,
                         requests, sets, counters, stale, Rest>>
    BY <1>5 DEF PostEnqueue, FollowPublish, FollowEnqueue
<1>6. ASSUME FollowGraph(c) \/ UnfollowGraph(c), UNCHANGED feedOnly
      PROVE  UNCHANGED <<posts, userPosts, home, skipped, jobs, lastJob, aborts, follows,
                         overlapped, requests, stale, Rest>>
    BY <1>6 DEF FollowGraph, UnfollowGraph
<1>7. ASSUME Abort(c)
      PROVE  UNCHANGED <<posts, userPosts, home, skipped, jobs, lastJob, follows, overlapped,
                         requests, sets, counters, stale, Rest>>
    BY <1>7 DEF Abort, AbortRequest
<1>8. ASSUME (\E u \in Users : ViewProfile(c, u)) \/ CountFollowers(c) \/ CountFollowing(c),
             UNCHANGED feedOnly
      PROVE  /\ UNCHANGED <<posts, userPosts, home, skipped, jobs, lastJob, aborts, follows,
                            overlapped, requests, sets, counters, Rest>>
             /\ stale \subseteq stale'
    BY <1>8 DEF ViewProfile, CountFollowers, CountFollowing, CountedAcross
<1>9. ASSUME LookTimeline(c) \/ SelectPosts(c)
      PROVE  UNCHANGED <<posts, userPosts, home, skipped, jobs, lastJob, aborts, follows,
                         overlapped, requests, sets, counters, stale, Rest>>
    BY <1>9 DEF LookTimeline, SelectPosts, graphVars
<1>10. ASSUME WriteCounters(c)
       PROVE  UNCHANGED <<posts, home, skipped, jobs, lastJob, aborts, follows, overlapped,
                          requests, stale, Rest>>
    BY <1>10 DEF WriteCounters, SetCounters
<1> QED BY <1>1, <1>2, <1>3, <1>4, <1>5, <1>6, <1>7, <1>8, <1>9, <1>10 DEF ClientMoved, ClientStep

LEMMA WorkerShares ==
    ASSUME NEW w \in Workers, WorkerMoved(w)
    PROVE  /\ UNCHANGED <<posts, userPosts, skipped, lastJob, aborts, follows, following,
                          counters, overlapped, cut, requests, feedEvictions,
                          graphEvictions, stale>>
           /\ followers \subseteq followers'
           /\ UNCHANGED jobs \/ AckJob(w)
           /\ UNCHANGED home \/ (\E f \in ids[w] : PushAdd(w, f)) \/ PushTrim(w) \/ BackfillAdd(w)
<1> USE DEF feeds, queue, feedBounds, graphBounds, feedOnly, sets
<1>1. ASSUME NEW j \in jobs, TakeFanout(w, j) \/ TakeBackfill(w, j)
      PROVE  UNCHANGED <<posts, userPosts, skipped, lastJob, aborts, follows, following,
                         counters, overlapped, cut, requests, feedEvictions, graphEvictions,
                         followers, jobs, home, stale>>
    BY <1>1 DEF TakeFanout, TakeBackfill, SizeFollowers
<1>2. ASSUME GraphWorkerNext(w), UNCHANGED feedOnly
      PROVE  /\ UNCHANGED <<posts, userPosts, skipped, lastJob, aborts, follows, following,
                            counters, overlapped, cut, requests, feedEvictions,
                            graphEvictions, jobs, home, stale>>
             /\ followers \subseteq followers'
    BY <1>2 DEF GraphWorkerNext, RandomFollowers, SelectFollowers, AddFollowers
<1>3. ASSUME (\E f \in ids[w] : PushAdd(w, f)) \/ PushTrim(w) \/ BackfillAdd(w)
      PROVE  UNCHANGED <<posts, userPosts, skipped, lastJob, aborts, follows, following,
                         counters, overlapped, cut, requests, feedEvictions, graphEvictions,
                         followers, jobs, stale>>
    BY <1>3 DEF PushAdd, PushTrim, BackfillAdd
<1>4. ASSUME AckJob(w) \/ CrashWorker(w)
      PROVE  UNCHANGED <<posts, userPosts, skipped, lastJob, aborts, follows, following,
                         counters, overlapped, cut, requests, feedEvictions, graphEvictions,
                         followers, home, stale>> /\ (UNCHANGED jobs \/ AckJob(w))
    BY <1>4 DEF AckJob, CrashWorker
<1> QED BY <1>1, <1>2, <1>3, <1>4 DEF WorkerMoved, WorkerStep

\* An eviction takes a feed, a timeline, a set or a counter.
LEMMA OtherShares ==
    ASSUME Evicted \/ UNCHANGED feedVars
    PROVE  /\ UNCHANGED <<posts, skipped, jobs, lastJob, aborts, follows, overlapped, cut,
                          requests, crashes, step, subject, counted>>
           /\ stale \subseteq stale'
           /\ UNCHANGED <<userPosts, home, feedEvictions>> \/ \E u \in Users : EvictFeed(u)
           /\ UNCHANGED <<sets, counters, stale>> \/ \E u \in Users : EvictGraphKey(u)
BY DEF Evicted, EvictFeed, EvictGraphKey, feedVars, feedOnly, graphVars, graphBounds, locals,
       feeds, queue, feedBounds

-----------------------------------------------------------------------------
(* What a feed covers it goes on covering *)

OnTimeline(a, p) == Covers(userPosts[a], p)

\* One post added, the rest trimmed.
LEMMA AddCovers ==
    ASSUME NEW S \in SUBSET PostIds, NEW A \in SUBSET PostIds, NEW p \in PostIds
    PROVE  /\ Covers(S, p) \/ Covers(A, p) => Covers(S \union A, p)
           /\ Covers(S, p) \/ Covers(A, p) => Covers(Newest(S \union A, FeedMax), p)
<1>1. Covers(S, p) \/ Covers(A, p) => Covers(S \union A, p)
    <2>1. S \union A \in SUBSET PostIds
        OBVIOUS
    <2> QED BY <2>1, CoversMore
<1>2. S \union A \in SUBSET PostIds
    OBVIOUS
<1> QED BY <1>1, <1>2, TrimCovers

LEMMA TimelineKept ==
    ASSUME FeedTypeInv, [FeedNext]_feedVars, feedEvictions' = feedEvictions,
           NEW a \in Users, NEW p \in PostIds, OnTimeline(a, p)
    PROVE  OnTimeline(a, p)'
<1>typ. userPosts \in [Users -> SUBSET PostIds] /\ userPosts[a] \in SUBSET PostIds
    BY DEF FeedTypeInv, FeedTypeOK
<1>add. ASSUME NEW A \in SUBSET PostIds,
               \/ userPosts'[a] = userPosts[a]
               \/ userPosts'[a] = userPosts[a] \union A
               \/ userPosts'[a] = Newest(userPosts[a] \union A, FeedMax)
        PROVE  OnTimeline(a, p)'
    <2>1. /\ Covers(userPosts[a] \union A, p)
          /\ Covers(Newest(userPosts[a] \union A, FeedMax), p)
        BY <1>typ, AddCovers DEF OnTimeline
    <2>2. Covers(userPosts'[a], p)
        BY <1>add, <2>1 DEF OnTimeline
    <2> QED BY <2>2 DEF OnTimeline, Covers
<1>1. ASSUME NEW c \in Clients, PostTimeline(c) PROVE OnTimeline(a, p)'
    <2>1. {draft[c]} \in SUBSET PostIds
        BY <1>1, ClientFacts DEF PostTimeline, PostSteps
    <2> QED BY <1>1, <1>typ, <1>add, <2>1 DEF PostTimeline
<1>2. ASSUME NEW c \in Clients, WriteCounters(c) PROVE OnTimeline(a, p)'
    <2>1. rebuild[c].posts \in SUBSET PostIds
        BY DEF FeedTypeInv, FeedTypeOK
    <2> QED BY <1>2, <1>typ, <1>add, <2>1 DEF WriteCounters
<1>3. ASSUME NEW u \in Users, EvictFeed(u) PROVE FALSE
    BY <1>3, FeedAssumption DEF EvictFeed, FeedTypeInv, FeedTypeOK
<1>4. UNCHANGED userPosts \/ \E c \in Clients : PostTimeline(c) \/ WriteCounters(c)
    BY <1>3, StepKinds, ClientShares, WorkerShares, OtherShares
<1> QED BY <1>1, <1>2, <1>4 DEF OnTimeline, Covers

LEMMA HomeKept ==
    ASSUME FeedTypeInv, [FeedNext]_feedVars, NEW u \in Users, NEW p \in PostIds,
           InFeed(u, p), feedEvictions' = feedEvictions
    PROVE  InFeed(u, p)'
<1>typ. home \in [Users -> SUBSET PostIds] /\ home[u] \in SUBSET PostIds /\ Covers(home[u], p)
    BY DEF FeedTypeInv, FeedTypeOK, InFeed, Covers
<1>good. ASSUME Covers(home'[u], p) PROVE InFeed(u, p)'
    BY <1>good DEF Covers, InFeed
<1>add. ASSUME NEW A \in SUBSET PostIds, NEW v,
              home' = [home EXCEPT ![v] = Newest(@ \union A, FeedMax)]
       PROVE  InFeed(u, p)'
    <2>1. home'[u] \in {home[u], Newest(home[u] \union A, FeedMax)}
        BY <1>add, <1>typ
    <2>2. Covers(Newest(home[u] \union A, FeedMax), p)
        BY <1>typ, AddCovers
    <2> QED BY <1>good, <1>typ, <2>1, <2>2
<1>1. ASSUME NEW c \in Clients, PostTimeline(c) PROVE InFeed(u, p)'
    <2>1. {draft[c]} \in SUBSET PostIds
        BY <1>1, ClientFacts DEF PostTimeline, PostSteps
    <2> QED BY <1>1, <1>add, <2>1 DEF PostTimeline
<1>2. ASSUME NEW w \in Workers, NEW f \in ids[w], PushAdd(w, f) PROVE InFeed(u, p)'
    <2>1. {job[w].post} \in SUBSET PostIds
        BY <1>2, WorkerFacts DEF PushAdd, FanSteps
    <2>2. home'[u] \in {home[u], home[u] \union {job[w].post}}
        BY <1>2, <1>typ DEF PushAdd
    <2>3. Covers(home[u] \union {job[w].post}, p)
        BY <1>typ, <2>1, AddCovers
    <2> QED BY <1>good, <1>typ, <2>2, <2>3
<1>3. ASSUME NEW w \in Workers, PushTrim(w) PROVE InFeed(u, p)'
    <2>1. home'[u] \in {home[u], Newest(home[u], FeedMax)}
        BY <1>3, <1>typ DEF PushTrim
    <2> QED BY <1>good, <1>typ, <2>1, TrimCovers
<1>4. ASSUME NEW w \in Workers, BackfillAdd(w) PROVE InFeed(u, p)'
    BY <1>4, <1>add DEF BackfillAdd, FeedTypeInv, FeedTypeOK
<1>5. ASSUME NEW v \in Users, EvictFeed(v) PROVE FALSE
    BY <1>5, FeedAssumption DEF EvictFeed, FeedTypeInv, FeedTypeOK
<1>6. \/ UNCHANGED home
      \/ \E c \in Clients : PostTimeline(c)
      \/ \E w \in Workers : (\E f \in ids[w] : PushAdd(w, f)) \/ PushTrim(w) \/ BackfillAdd(w)
    BY <1>5, StepKinds, ClientShares, WorkerShares, OtherShares
<1>7. ASSUME UNCHANGED home PROVE InFeed(u, p)'
    BY <1>7, <1>good, <1>typ
<1> QED BY <1>1, <1>2, <1>3, <1>4, <1>6, <1>7

LEMMA ClientTurn ==
    ASSUME NEW c \in Clients, ClientMoved(c)
    PROVE  /\ step[c] = "post_timeline" => PostTimeline(c) \/ Abort(c)
           /\ step[c] = "post_count" => PostCount(c) \/ Abort(c)
           /\ step[c] = "post_enqueue" => PostEnqueue(c) \/ Abort(c)
           /\ step[c] = "follow_graph" => (FollowGraph(c) /\ UNCHANGED feedOnly) \/ Abort(c)
           /\ step[c] = "follow_enqueue" => FollowPublish(c) \/ Abort(c)
           /\ step[c] = "unfollow_graph" => (UnfollowGraph(c) /\ UNCHANGED feedOnly) \/ Abort(c)
           /\ step[c] \in UserSteps =>
                \/ (CountFollowers(c) \/ CountFollowing(c)) /\ UNCHANGED feedOnly
                \/ LookTimeline(c) \/ SelectPosts(c) \/ WriteCounters(c) \/ Abort(c)
           /\ step[c] = "idle" =>
                \/ \E u \in Authors : PostCommit(c, u)
                \/ \E pair \in Pairs :
                    (FollowCommit(c, pair) \/ UnfollowCommit(c, pair)) /\ UNCHANGED feedOnly
                \/ \E u \in Users : ViewProfile(c, u) /\ UNCHANGED feedOnly
BY DEF ClientMoved, ClientStep, PostCommit, FollowCommit, UnfollowCommit, StartRequest, Free,
       PostTimeline, PostCount, PostEnqueue, FollowPublish, FollowEnqueue, FollowGraph,
       UnfollowGraph, Abort, AbortRequest, ViewProfile, CountFollowers, CountFollowing,
       LookTimeline, SelectPosts, WriteCounters, SetCounters, UserSteps

\* What brings a client to an await that matters below.
LEMMA ClientLands ==
    ASSUME FeedTypeInv, NEW c \in Clients, ClientMoved(c)
    PROVE  /\ step'[c] = "follow_graph" => \E pair \in Pairs : FollowCommit(c, pair)
           /\ step'[c] = "unfollow_graph" => \E pair \in Pairs : UnfollowCommit(c, pair)
           /\ step'[c] = "post_count" => PostTimeline(c)
           /\ step'[c] = "post_enqueue" => PostCount(c)
           /\ step'[c] = "count_following" => CountFollowers(c)
           /\ step'[c] = "set_counters" =>
                CountFollowing(c) \/ UNCHANGED <<step, subject, counted>>
<1>on. \A s, x : GoTo(c, s, x) => step'[c] = s
    BY Went DEF Procs
<1>1. ASSUME NEW u \in Authors, PostCommit(c, u) PROVE step'[c] = "post_timeline"
    BY <1>1, <1>on DEF PostCommit
<1>2. /\ PostTimeline(c) => step'[c] = "post_count"
      /\ PostCount(c) => step'[c] \in {"post_enqueue", "idle"}
      /\ PostEnqueue(c) \/ FollowPublish(c) \/ UnfollowGraph(c) \/ Abort(c) \/ WriteCounters(c)
            => step'[c] = "idle"
      /\ FollowGraph(c) => step'[c] = "follow_enqueue"
      /\ CountFollowers(c) => step'[c] = "count_following"
      /\ CountFollowing(c) => step'[c] = "set_counters"
    BY <1>on DEF PostTimeline, PostCount, PostEnqueue, FollowPublish, FollowEnqueue,
                 UnfollowGraph, Abort, AbortRequest, WriteCounters, SetCounters, Done,
                 FollowGraph, CountFollowers, CountFollowing
<1>3. ASSUME NEW u \in Users, ViewProfile(c, u) PROVE step'[c] = "count_followers"
    BY <1>3, <1>on DEF ViewProfile
<1>4. ASSUME NEW pair \in Pairs
      PROVE  /\ FollowCommit(c, pair) => step'[c] = "follow_graph"
             /\ UnfollowCommit(c, pair) => step'[c] = "unfollow_graph"
    BY <1>on DEF FollowCommit, UnfollowCommit
<1>5. ASSUME LookTimeline(c) \/ SelectPosts(c)
      PROVE  step'[c] = "set_counters" /\ UNCHANGED <<step, subject, counted>>
    BY <1>5 DEF LookTimeline, SelectPosts, graphVars, locals
<1> QED BY <1>1, <1>2, <1>3, <1>4, <1>5 DEF ClientMoved, ClientStep

LEMMA WorkerTurn ==
    ASSUME NEW w \in Workers, WorkerMoved(w)
    PROVE  /\ step[w] = "idle" => \E j \in jobs : TakeFanout(w, j) \/ TakeBackfill(w, j)
           /\ step[w] = "random_followers" => (RandomFollowers(w) /\ UNCHANGED feedOnly) \/ CrashWorker(w)
           /\ step[w] = "select_followers" => (SelectFollowers(w) /\ UNCHANGED feedOnly) \/ CrashWorker(w)
           /\ step[w] = "add_followers" => (AddFollowers(w) /\ UNCHANGED feedOnly) \/ CrashWorker(w)
           /\ step[w] = "got_followers" =>
                (\E f \in ids[w] : PushAdd(w, f)) \/ (ids[w] = {} /\ AckJob(w)) \/ CrashWorker(w)
           /\ step[w] = "push_trim" => PushTrim(w) \/ CrashWorker(w)
           /\ step[w] = "backfill_add" => BackfillAdd(w) \/ CrashWorker(w)
           /\ step[w] = "ack" => AckJob(w) \/ CrashWorker(w)
<1>1. ASSUME NEW j \in jobs, TakeFanout(w, j) \/ TakeBackfill(w, j) PROVE step[w] = "idle"
    BY <1>1 DEF TakeFanout, TakeBackfill, Free
<1>2. CrashWorker(w) => step[w] # "idle"
    BY DEF CrashWorker, Free
<1>3. /\ RandomFollowers(w) => step[w] = "random_followers"
      /\ SelectFollowers(w) => step[w] = "select_followers"
      /\ AddFollowers(w) => step[w] = "add_followers"
      /\ \A f : PushAdd(w, f) => step[w] = "got_followers"
      /\ PushTrim(w) => step[w] = "push_trim"
      /\ BackfillAdd(w) => step[w] = "backfill_add"
    BY DEF RandomFollowers, SelectFollowers, AddFollowers, PushAdd, PushTrim, BackfillAdd
<1>4. AckJob(w) => step[w] = "ack" \/ (step[w] = "got_followers" /\ ids[w] = {})
    BY DEF AckJob
<1> QED BY <1>1, <1>2, <1>3, <1>4 DEF WorkerMoved, WorkerStep, GraphWorkerNext

LEMMA LostBefore ==
    ASSUME FeedTypeInv, [FeedNext]_feedVars
    PROVE  /\ aborts' = 0 => aborts = 0 /\ \A c \in Clients : ~Abort(c)
           /\ feedEvictions' = 0 => feedEvictions = 0 /\ feedEvictions' = feedEvictions
           /\ NothingLost' => NothingLost /\ feedEvictions' = feedEvictions
<1>typ. aborts \in Nat /\ feedEvictions \in Nat
    BY FeedAssumption, GraphAssumption DEF FeedTypeInv, FeedTypeOK, GraphTypeOK
<1>1. ASSUME NEW c \in Clients, Abort(c) PROVE aborts' = aborts + 1
    BY <1>1 DEF Abort, AbortRequest
<1>2. ASSUME NEW u \in Users, EvictFeed(u)
      PROVE  feedEvictions' = feedEvictions + 1 /\ aborts' = aborts
    BY <1>2 DEF EvictFeed, graphVars, graphBounds
<1>3. \/ UNCHANGED <<aborts, feedEvictions>>
      \/ UNCHANGED feedEvictions /\ \E c \in Clients : Abort(c)
      \/ \E u \in Users : EvictFeed(u)
    BY StepKinds, ClientShares, WorkerShares, OtherShares
<1>4. ASSUME NEW c \in Clients, Abort(c), aborts' = 0 PROVE FALSE
    BY <1>typ, <1>1, <1>4
<1>5. ASSUME NEW u \in Users, EvictFeed(u), feedEvictions' = 0 PROVE FALSE
    BY <1>typ, <1>2, <1>5
<1> QED BY <1>typ, <1>1, <1>2, <1>3, <1>4, <1>5 DEF NothingLost

\* The post is committed, and its author's request is about to write the feeds.
Unwritten(p) == \E c \in Clients : step[c] = "post_timeline" /\ draft[c] = p

\* A row of posts is new, or as old as the step.
LEMMA RowsKept ==
    ASSUME FeedTypeInv, [FeedNext]_feedVars, aborts' = 0, NEW row \in posts'
    PROVE  /\ row \in posts =>
                /\ row[2] \in Users /\ row[1] \in PostIds
                /\ Unwritten(row[1]) =>
                    \/ Unwritten(row[1])'
                    \/ \E c \in Clients : PostTimeline(c) /\ draft[c] = row[1]
                                          /\ subject[c][1] = row[2]
           /\ row \notin posts => Unwritten(row[1])'
<1>typ. /\ posts \subseteq PostIds \X Authors /\ Authors \subseteq Users
        /\ draft \in [Clients -> PostIds \union {NoPost}]
        /\ \A one, other \in posts : one[1] = other[1] => one = other
    BY FeedAssumption DEF FeedTypeInv, FeedTypeOK, PostsKnown
<1>1. ASSUME row \in posts, Unwritten(row[1])
      PROVE  \/ Unwritten(row[1])'
             \/ \E c \in Clients : PostTimeline(c) /\ draft[c] = row[1] /\ subject[c][1] = row[2]
    <2>1. PICK c \in Clients : step[c] = "post_timeline" /\ draft[c] = row[1]
        BY <1>1 DEF Unwritten
    <2>2. ClientKeeps(c) \/ ClientMoved(c)
        BY StepKinds
    <2>3. CASE ClientKeeps(c)
        BY <2>1, <2>3 DEF ClientKeeps, Unwritten
    <2>4. CASE ClientMoved(c)
        <3>1. PostTimeline(c)
            BY <2>1, <2>4, ClientTurn, LostBefore
        <3>2. <<draft[c], subject[c][1]>> \in posts
            BY <2>1, ClientFacts DEF PostSteps
        <3>3. <<draft[c], subject[c][1]>> = row
            BY <1>typ, <1>1, <2>1, <3>2
        <3>4. subject[c][1] = row[2]
            BY <3>3
        <3> QED BY <2>1, <3>1, <3>4
    <2> QED BY <2>2, <2>3, <2>4
<1>2. ASSUME row \notin posts PROVE Unwritten(row[1])'
    <2>1. PICK c \in Clients : \E u \in Authors : PostCommit(c, u)
        BY <1>2, StepKinds, ClientShares, WorkerShares, OtherShares
    <2>2. PICK u \in Authors : PostCommit(c, u)
        BY <2>1
    <2>3. row = <<Cardinality(posts) + 1, u>> /\ draft'[c] = Cardinality(posts) + 1
            /\ \E x : GoTo(c, "post_timeline", x)
        BY <1>typ, <1>2, <2>2 DEF PostCommit
    <2>4. step'[c] = "post_timeline" /\ draft'[c] = row[1]
        BY <2>3, Went DEF Procs
    <2> QED BY <2>4 DEF Unwritten
<1> QED BY <1>typ, <1>1, <1>2

LEMMA FeedNext_ReadYourWrites ==
    ASSUME FeedTypeInv, ReadYourWrites, [FeedNext]_feedVars
    PROVE  ReadYourWrites'
<1> SUFFICES ASSUME NothingLost', NEW row \in posts'
             PROVE  InFeed(row[2], row[1])' \/ Unwritten(row[1])'
    BY DEF ReadYourWrites, Unwritten
<1>1. aborts' = 0 /\ NothingLost /\ feedEvictions' = feedEvictions
    BY LostBefore DEF NothingLost
<1>2. CASE row \in posts /\ InFeed(row[2], row[1])
    BY <1>1, <1>2, RowsKept, HomeKept
<1>3. CASE row \in posts /\ Unwritten(row[1])
    <2>1. ASSUME NEW c \in Clients, PostTimeline(c), draft[c] = row[1], subject[c][1] = row[2]
          PROVE  InFeed(row[2], row[1])'
        <3>1. /\ home \in [Users -> SUBSET PostIds] /\ row[2] \in Users /\ row[1] \in PostIds
              /\ home[row[2]] \in SUBSET PostIds
            BY <1>1, <1>3, RowsKept DEF FeedTypeInv, FeedTypeOK
        <3>2. home'[row[2]] = Newest(home[row[2]] \union {row[1]}, FeedMax)
            BY <2>1, <3>1 DEF PostTimeline
        <3>3. Covers({row[1]}, row[1]) /\ {row[1]} \in SUBSET PostIds
            BY <3>1 DEF Covers
        <3>4. Covers(home'[row[2]], row[1])
            BY <3>1, <3>2, <3>3, AddCovers
        <3> QED BY <3>4 DEF Covers, InFeed
    <2> QED BY <1>1, <1>3, <2>1, RowsKept
<1>4. row \in posts => InFeed(row[2], row[1]) \/ Unwritten(row[1])
    BY <1>1 DEF ReadYourWrites, Unwritten
<1> QED BY <1>1, <1>2, <1>3, <1>4, RowsKept

\* "Read-your-writes": from the moment its request reads the follower count, a
\* new post is in its author's feed, or pushed out by newer ones, whatever trims,
\* pushes and backfills run meanwhile.
THEOREM AuthorsSeeTheirPosts == FeedSpec => []ReadYourWrites
<1>1. FeedInit => ReadYourWrites
    BY DEF FeedInit, ReadYourWrites
<1> QED BY FeedInit_Type, FeedNext_Type, FeedNext_ReadYourWrites, <1>1, PTL DEF FeedSpec

-----------------------------------------------------------------------------
(* What is fanned out is on its author's timeline *)

TimelineRows ==
    aborts = 0 => \A row \in posts : OnTimeline(row[2], row[1]) \/ Unwritten(row[1])
TimelineJobs ==
    \A j \in jobs : j.type = "fanout_post" => OnTimeline(j.author, j.post)
TimelineWorkers ==
    \A w \in Workers :
        step[w] \in FanSteps \union {"push_trim"} => OnTimeline(job[w].author, job[w].post)
TimelineClients ==
    \A c \in Clients :
        step[c] \in {"post_count", "post_enqueue"} => OnTimeline(subject[c][1], draft[c])
Timelines == TimelineRows /\ TimelineJobs /\ TimelineWorkers /\ TimelineClients
TimelineInv == feedEvictions = 0 => Timelines

LEMMA FeedNext_Timeline ==
    ASSUME FeedTypeInv, TimelineInv, [FeedNext]_feedVars
    PROVE  TimelineInv'
<1> SUFFICES ASSUME feedEvictions' = 0 PROVE Timelines'
    BY DEF TimelineInv
<1>ev. feedEvictions = 0 /\ feedEvictions' = feedEvictions /\ Timelines
    BY LostBefore DEF TimelineInv
<1>typ. /\ userPosts \in [Users -> SUBSET PostIds] /\ jobs \subseteq JobType
        /\ \A c \in Clients : c \in Procs
        /\ \A w \in Workers : w \in Procs
    BY DEF FeedTypeInv, FeedTypeOK, Procs
<1>kept. \A a \in Users : \A p \in PostIds : OnTimeline(a, p) => OnTimeline(a, p)'
    BY <1>ev, TimelineKept
<1>new. ASSUME NEW c \in Clients, PostTimeline(c)
        PROVE  /\ subject[c][1] \in Users /\ draft[c] \in PostIds
               /\ Covers(userPosts'[subject[c][1]], draft[c])
    <2>1. subject[c][1] \in Users /\ draft[c] \in PostIds
        BY <1>new, ClientFacts DEF PostTimeline, PostSteps
    <2>2. /\ userPosts'[subject[c][1]] = Newest(userPosts[subject[c][1]] \union {draft[c]}, FeedMax)
          /\ userPosts[subject[c][1]] \in SUBSET PostIds
        BY <1>new, <1>typ, <2>1 DEF PostTimeline
    <2>3. Covers({draft[c]}, draft[c]) /\ {draft[c]} \in SUBSET PostIds
        BY <2>1 DEF Covers
    <2> QED BY <2>1, <2>2, <2>3, AddCovers
<1>1. TimelineRows'
    <2> SUFFICES ASSUME aborts' = 0, NEW row \in posts'
                 PROVE  OnTimeline(row[2], row[1])' \/ Unwritten(row[1])'
        BY DEF TimelineRows
    <2>1. aborts = 0
        BY LostBefore
    <2>2. CASE row \in posts /\ OnTimeline(row[2], row[1])
        BY <1>kept, <2>2, RowsKept
    <2>3. CASE row \in posts /\ Unwritten(row[1])
        <3>1. ASSUME NEW c \in Clients, PostTimeline(c), draft[c] = row[1], subject[c][1] = row[2]
              PROVE  OnTimeline(row[2], row[1])'
            <4>1. Covers(userPosts'[row[2]], row[1])
                BY <1>new, <3>1
            <4> QED BY <4>1 DEF OnTimeline, Covers
        <3> QED BY <2>3, <3>1, RowsKept
    <2> QED BY <1>ev, <2>1, <2>2, <2>3, RowsKept DEF Timelines, TimelineRows
<1>2. TimelineJobs'
    <2> SUFFICES ASSUME NEW j \in jobs', j.type = "fanout_post" PROVE OnTimeline(j.author, j.post)'
        BY DEF TimelineJobs
    <2>1. CASE j \in jobs
        <3>1. j.author \in Users /\ j.post \in PostIds /\ OnTimeline(j.author, j.post)
            BY <1>ev, <1>typ, <2>1, JobFacts DEF Timelines, TimelineJobs
        <3> QED BY <1>kept, <3>1
    <2>2. CASE j \notin jobs
        <3>1. PICK c \in Clients : PostEnqueue(c) \/ FollowPublish(c)
            BY <2>2, StepKinds, ClientShares, WorkerShares, OtherShares DEF AckJob
        <3>2. PostEnqueue(c) /\ j.author = subject[c][1] /\ j.post = draft[c]
            BY <2>2, <3>1 DEF PostEnqueue, FollowPublish, Enqueue
        <3>3. PICK a \in Users, p \in PostIds : a = subject[c][1] /\ p = draft[c]
            BY <3>2, ClientFacts DEF PostEnqueue, PostSteps
        <3>4. OnTimeline(a, p)
            BY <1>ev, <3>2, <3>3 DEF PostEnqueue, Timelines, TimelineClients
        <3> QED BY <1>kept, <3>2, <3>3, <3>4
    <2> QED BY <2>1, <2>2
<1>3. TimelineWorkers'
    <2> SUFFICES ASSUME NEW w \in Workers, step'[w] \in FanSteps \union {"push_trim"}
                 PROVE  OnTimeline(job[w].author, job[w].post)'
        BY DEF TimelineWorkers
    <2>keep. ASSUME step[w] \in FanSteps \union {"push_trim"}, job'[w] = job[w]
             PROVE  OnTimeline(job[w].author, job[w].post)'
        <3>1. PICK a \in Users, p \in PostIds : a = job[w].author /\ p = job[w].post
            BY <2>keep, WorkerFacts
        <3>2. OnTimeline(a, p)'
            BY <1>ev, <1>kept, <2>keep, <3>1 DEF Timelines, TimelineWorkers
        <3> QED BY <2>keep, <3>1, <3>2
    <2>1. CASE WorkerKeeps(w)
        BY <2>1, <2>keep DEF WorkerKeeps
    <2>2. CASE WorkerMoved(w)
        <3>1. ASSUME NEW j \in jobs, TakeFanout(w, j) PROVE OnTimeline(job[w].author, job[w].post)'
            <4>1. j.author \in Users /\ j.post \in PostIds /\ OnTimeline(j.author, j.post)
                BY <1>ev, <1>typ, <3>1, JobFacts DEF Timelines, TimelineJobs, TakeFanout
            <4>2. job'[w] = j
                BY <3>1 DEF TakeFanout, FeedTypeInv, FeedTypeOK
            <4>3. OnTimeline(j.author, j.post)'
                BY <1>kept, <4>1
            <4> QED BY <4>2, <4>3
        <3>2. ASSUME NEW j \in jobs, TakeBackfill(w, j) PROVE FALSE
            BY <1>typ, <3>2, Went DEF TakeBackfill, FanSteps
        <3>3. ASSUME AckJob(w) \/ CrashWorker(w) \/ BackfillAdd(w) PROVE FALSE
            BY <1>typ, <3>3, Went DEF AckJob, CrashWorker, BackfillAdd, Done, FanSteps
        <3>4. ASSUME GraphWorkerNext(w), UNCHANGED feedOnly
              PROVE  step[w] \in FanSteps /\ job'[w] = job[w]
            BY <3>4 DEF GraphWorkerNext, RandomFollowers, SelectFollowers, AddFollowers, FanSteps,
                        feedOnly, running
        <3>5. ASSUME (\E f \in ids[w] : PushAdd(w, f)) \/ PushTrim(w)
              PROVE  step[w] \in FanSteps \union {"push_trim"} /\ job'[w] = job[w]
            BY <3>5 DEF PushAdd, PushTrim, FanSteps, running
        <3> QED BY <2>2, <2>keep, <3>1, <3>2, <3>3, <3>4, <3>5 DEF WorkerMoved, WorkerStep
    <2> QED BY <2>1, <2>2, StepKinds
<1>4. TimelineClients'
    <2> SUFFICES ASSUME NEW c \in Clients, step'[c] \in {"post_count", "post_enqueue"}
                 PROVE  OnTimeline(subject[c][1], draft[c])'
        BY DEF TimelineClients
    <2>keep. ASSUME step[c] \in {"post_count", "post_enqueue"}, draft'[c] = draft[c],
                    subject'[c][1] = subject[c][1]
             PROVE  OnTimeline(subject[c][1], draft[c])'
        <3>1. PICK a \in Users, p \in PostIds : a = subject[c][1] /\ p = draft[c]
            BY <2>keep, ClientFacts DEF PostSteps
        <3>2. OnTimeline(a, p)'
            BY <1>ev, <1>kept, <2>keep, <3>1 DEF Timelines, TimelineClients
        <3> QED BY <2>keep, <3>1, <3>2
    <2>1. CASE ClientKeeps(c)
        BY <2>1, <2>keep DEF ClientKeeps
    <2>2. CASE PostTimeline(c)
        <3>1. /\ subject'[c][1] = subject[c][1] /\ draft'[c] = draft[c]
            BY <1>typ, <2>2, Went DEF PostTimeline, running
        <3>2. Covers(userPosts'[subject'[c][1]], draft'[c])
            BY <1>new, <2>2, <3>1
        <3> QED BY <3>2 DEF OnTimeline, Covers
    <2>3. CASE PostCount(c)
        <3>1. CASE Value(followerCount[subject[c][1]]) <= Threshold
            BY <1>typ, <2>3, <2>keep, <3>1, Went DEF PostCount
        <3>2. CASE ~(Value(followerCount[subject[c][1]]) <= Threshold)
            BY <1>typ, <2>3, <3>2, Went DEF PostCount, Done
        <3> QED BY <3>1, <3>2
    <2>4. CASE ClientMoved(c)
        BY <2>2, <2>3, <2>4, ClientLands
    <2> QED BY <2>1, <2>2, <2>3, <2>4, StepKinds
<1> QED BY <1>1, <1>2, <1>3, <1>4 DEF Timelines

-----------------------------------------------------------------------------
(* The follow sets, under the steps of feeds *)

\* The steps that neither commit a follow, nor apply one to the graph, nor give
\* one up.
Aside(c) ==
    \/ \E u \in Authors : PostCommit(c, u)
    \/ PostTimeline(c) \/ PostCount(c) \/ PostEnqueue(c) \/ FollowPublish(c)
    \/ \E u \in Users : ViewProfile(c, u)
    \/ CountFollowers(c) \/ CountFollowing(c)
    \/ LookTimeline(c) \/ SelectPosts(c) \/ WriteCounters(c)

LEMMA AsideSteps ==
    ASSUME FeedTypeInv, NEW c \in Clients, ClientMoved(c), Aside(c)
    PROVE  /\ step[c] \notin {"follow_graph", "unfollow_graph"}
           /\ step'[c] \notin {"follow_graph", "unfollow_graph"}
           /\ UNCHANGED <<follows, sets, overlapped, cut>> /\ stale \subseteq stale'
<1>1. step[c] \notin {"follow_graph", "unfollow_graph"}
    BY DEF Aside, PostCommit, PostTimeline, PostCount, PostEnqueue, FollowPublish, FollowEnqueue,
           ViewProfile, CountFollowers, CountFollowing, LookTimeline, SelectPosts, WriteCounters,
           SetCounters, Free
<1>2. UNCHANGED <<follows, sets, overlapped, cut>> /\ stale \subseteq stale'
    <2>1. UNCHANGED <<follows, sets, overlapped, cut>>
        BY DEF Aside, PostCommit, PostTimeline, PostCount, PostEnqueue, FollowPublish,
               FollowEnqueue, ViewProfile, CountFollowers, CountFollowing, LookTimeline,
               SelectPosts, WriteCounters, SetCounters, graphVars, graphBounds
    <2> QED BY <2>1, ClientShares
<1>on. \A s, x : GoTo(c, s, x) => step'[c] = s
    BY Went DEF Procs
<1>3. ASSUME NEW u, PostCommit(c, u) \/ ViewProfile(c, u)
      PROVE  step'[c] \in {"post_timeline", "count_followers"}
    BY <1>3, <1>on DEF PostCommit, ViewProfile
<1>4. /\ PostTimeline(c) => step'[c] = "post_count"
      /\ PostCount(c) => step'[c] \in {"post_enqueue", "idle"}
      /\ PostEnqueue(c) \/ FollowPublish(c) \/ WriteCounters(c) => step'[c] = "idle"
      /\ CountFollowers(c) => step'[c] = "count_following"
      /\ CountFollowing(c) => step'[c] = "set_counters"
      /\ LookTimeline(c) \/ SelectPosts(c) => step'[c] = "set_counters"
    BY <1>on DEF PostTimeline, PostCount, PostEnqueue, FollowPublish, FollowEnqueue,
                 WriteCounters, SetCounters, Done, CountFollowers, CountFollowing,
                 LookTimeline, SelectPosts, graphVars, locals
<1> QED BY <1>1, <1>2, <1>3, <1>4 DEF Aside

LEMMA FeedNext_Graph ==
    ASSUME FeedTypeInv, GraphInv, [FeedNext]_feedVars
    PROVE  GraphInv'
<1> USE DEF RequestsAgree, NoFollowerLost, FollowingExact, Spoilt, Pending
<1>typ. /\ follows \subseteq Pairs /\ NoSubject \notin Pairs
        /\ \A c \in Clients : c \in Procs
    BY GraphAssumption DEF FeedTypeInv, FeedTypeOK, GraphTypeOK, Procs, NoSubject
<1>start. ASSUME NEW c \in Clients, NEW pair \in Pairs, StartRequest(c, pair)
          PROVE  /\ overlapped \subseteq overlapped' /\ stale \subseteq stale' /\ step[c] = "idle" /\ subject[c] = NoSubject
                 /\ \A d \in Clients :
                        subject[d] = pair /\ step[d] \in {"follow_graph", "unfollow_graph"}
                            => pair \in overlapped'
    <2>1. overlapped' = overlapped \union {q \in {pair} : InFlight(q)} /\ stale \subseteq stale'
        BY <1>start DEF StartRequest
    <2>2. ASSUME NEW d \in Clients, subject[d] = pair, step[d] \in {"follow_graph", "unfollow_graph"}
          PROVE  InFlight(pair)
        BY <2>2 DEF InFlight, Pending
    <2>3. step[c] = "idle" /\ subject[c] = NoSubject
        BY <1>start, <1>typ DEF StartRequest, Free, FeedTypeInv, FeedTypeOK, GraphTypeOK
    <2> QED BY <2>1, <2>2, <2>3
<1>1. ASSUME NEW c \in Clients, NEW pair \in Pairs, FollowCommit(c, pair)
      PROVE  GraphInv'
    <2>1. StartRequest(c, pair) /\ GoTo(c, "follow_graph", pair)
        BY <1>1 DEF FollowCommit
    <2>2. /\ step'[c] = "follow_graph" /\ subject'[c] = pair
          /\ \A d \in Clients \ {c} : step'[d] = step[d] /\ subject'[d] = subject[d]
        BY <1>typ, <2>1, Went
    <2>3. /\ follows' = follows \union {pair} /\ UNCHANGED <<followers, following, cut>>
        BY <1>1 DEF FollowCommit, sets
    <2> QED BY <1>start, <1>typ, <2>1, <2>2, <2>3 DEF GraphInv
<1>2. ASSUME NEW c \in Clients, NEW pair \in Pairs, UnfollowCommit(c, pair)
      PROVE  GraphInv'
    <2>1. StartRequest(c, pair) /\ GoTo(c, "unfollow_graph", pair)
        BY <1>2 DEF UnfollowCommit
    <2>2. /\ step'[c] = "unfollow_graph" /\ subject'[c] = pair
          /\ \A d \in Clients \ {c} : step'[d] = step[d] /\ subject'[d] = subject[d]
        BY <1>typ, <2>1, Went
    <2>3. /\ follows' = follows \ {pair} /\ UNCHANGED <<followers, following, cut>>
        BY <1>2 DEF UnfollowCommit, sets
    <2> QED BY <1>start, <1>typ, <2>1, <2>2, <2>3 DEF GraphInv
<1>3. ASSUME NEW c \in Clients, FollowGraph(c) PROVE GraphInv'
    <2>1. /\ step'[c] = "follow_enqueue" /\ step[c] = "follow_graph"
          /\ \A d \in Clients \ {c} : step'[d] = step[d] /\ subject'[d] = subject[d]
        BY <1>3, <1>typ, Went DEF FollowGraph
    <2>2. /\ following' = following \union {subject[c]} /\ followers' = followers \union {subject[c]}
          /\ UNCHANGED <<follows, overlapped, cut, stale>>
        BY <1>3 DEF FollowGraph, graphBounds
    <2> QED BY <1>typ, <2>1, <2>2 DEF GraphInv
<1>4. ASSUME NEW c \in Clients, UnfollowGraph(c) PROVE GraphInv'
    <2>1. /\ step'[c] = "idle" /\ step[c] = "unfollow_graph"
          /\ \A d \in Clients \ {c} : step'[d] = step[d] /\ subject'[d] = subject[d]
        BY <1>4, <1>typ, Went DEF UnfollowGraph, Done
    <2>2. /\ following' = following \ {subject[c]} /\ followers' = followers \ {subject[c]}
          /\ UNCHANGED <<follows, overlapped, cut, stale>>
        BY <1>4 DEF UnfollowGraph, graphBounds
    <2> QED BY <1>typ, <2>1, <2>2 DEF GraphInv
<1>5. ASSUME \A c \in Clients : \A s \in {"follow_graph", "unfollow_graph"} :
                 /\ step'[c] = s <=> step[c] = s
                 /\ step[c] = s => subject'[c] = subject[c],
             UNCHANGED <<follows, following, overlapped, cut>>,
             followers \subseteq followers', stale \subseteq stale'
      PROVE  GraphInv'
    BY <1>5 DEF GraphInv
<1>6. ASSUME NEW c \in Clients, ClientMoved(c), Aside(c), \A d \in Clients \ {c} : ClientKeeps(d)
      PROVE  GraphInv'
    BY <1>5, <1>6, AsideSteps DEF ClientKeeps, sets
<1>7. ASSUME NEW c \in Clients, Abort(c) PROVE GraphInv'
    BY <1>7, AbortRequest_Sets DEF Abort, FeedTypeInv, FeedTypeOK
<1>8. ASSUME NEW w \in Workers, WorkerMoved(w), \A c \in Clients : ClientKeeps(c)
      PROVE  GraphInv'
    BY <1>5, <1>8, WorkerShares DEF ClientKeeps
<1>9. ASSUME Evicted \/ UNCHANGED feedVars PROVE GraphInv'
    <2>1. UNCHANGED <<follows, overlapped, cut, step, subject>> /\ stale \subseteq stale'
        BY <1>9, OtherShares
    <2>2. CASE UNCHANGED <<sets, counters, stale>>
        BY <1>5, <2>1, <2>2 DEF sets
    <2>3. ASSUME NEW u \in Users, EvictGraphKey(u) PROVE GraphInv'
        BY <1>typ, <2>1, <2>3 DEF EvictGraphKey, GraphInv, sets
    <2> QED BY <1>9, <2>2, <2>3, OtherShares
<1>10. ASSUME NEW c \in Clients, ClientMoved(c)
       PROVE  \/ \E pair \in Pairs : FollowCommit(c, pair) \/ UnfollowCommit(c, pair)
              \/ FollowGraph(c) \/ UnfollowGraph(c) \/ Abort(c) \/ Aside(c)
    BY <1>10 DEF ClientMoved, ClientStep, Aside
<1> QED BY <1>1, <1>2, <1>3, <1>4, <1>6, <1>7, <1>8, <1>9, <1>10, StepKinds

-----------------------------------------------------------------------------
(* What brings a post to a follower other than fan-out *)

\* The request of the follow has still to publish the backfill.
Following(pair) ==
    \E c \in Clients : step[c] \in {"follow_graph", "follow_enqueue"} /\ subject[c] = pair

\* Every run of the backfill j has p, and has copied it once it has ended.
RunCopies(w, j, p) ==
    /\ step[w] = "backfill_add" => Covers(copied[w], p)
    /\ step[w] = "ack" => InFeed(j.pair[1], p)
WillCopy(j, p) == \A w \in Workers : job[w] = j => RunCopies(w, j, p)
CopyQueued(pair, p) ==
    \E j \in jobs : j.type = "backfill_follower" /\ j.pair = pair /\ WillCopy(j, p)

\* The post has reached the follower or is about to, unless the set that fan-out
\* reads was evicted.
Reached(pair, p) ==
    \/ InFeed(pair[1], p)
    \/ OnTimeline(pair[2], p) /\ (Following(pair) \/ CopyQueued(pair, p))
    \/ <<"followers", pair[2]>> \in stale

LEMMA StaleGrows ==
    ASSUME FeedTypeInv, [FeedNext]_feedVars
    PROVE  stale \subseteq stale'
BY StepKinds, ClientShares, WorkerShares, OtherShares

LEMMA RunKept ==
    ASSUME FeedTypeInv, [FeedNext]_feedVars, feedEvictions' = feedEvictions,
           NEW j \in jobs, j.type = "backfill_follower",
           NEW p \in Recent(j.pair[2]), OnTimeline(j.pair[2], p),
           WillCopy(j, p), NEW w \in Workers, job'[w] = j
    PROVE  RunCopies(w, j, p)'
<1>typ. /\ j \in JobType /\ j # NoJob /\ j.pair \in Pairs /\ j.pair[1] \in Users /\ j.pair[2] \in Users
        /\ Posts(j.pair[2]) \in SUBSET PostIds /\ p \in PostIds
        /\ userPosts[j.pair[2]] \in SUBSET Posts(j.pair[2])
        /\ job \in [Workers -> JobType \union {NoJob}] /\ copied \in [Workers -> SUBSET PostIds]
        /\ home \in [Users -> SUBSET PostIds]
        /\ w \in Procs
    BY JobFacts, PairFacts DEF FeedTypeInv, FeedTypeOK, PostsKnown, Posts, Recent, Newest, Procs
<1>1. CASE WorkerKeeps(w)
    <2>1. job[w] = j /\ RunCopies(w, j, p)
        BY <1>1 DEF WorkerKeeps, WillCopy
    <2>2. InFeed(j.pair[1], p) => InFeed(j.pair[1], p)'
        BY <1>typ, HomeKept
    <2>3. step'[w] = "backfill_add" => Covers(copied'[w], p)
        BY <1>1, <2>1 DEF WorkerKeeps, RunCopies
    <2>4. step'[w] = "ack" => InFeed(j.pair[1], p)'
        BY <1>1, <2>1, <2>2 DEF WorkerKeeps, RunCopies
    <2> QED BY <2>3, <2>4 DEF RunCopies, Covers
<1>2. ASSUME NEW k \in jobs, TakeBackfill(w, k) PROVE RunCopies(w, j, p)'
    <2> DEFINE found == Newest(userPosts[j.pair[2]], BackfillLimit)
    <2>1. k = j /\ copied'[w] = found
            /\ \E x : GoTo(w, IF found = {} THEN "ack" ELSE "backfill_add", x)
        BY <1>2, <1>typ DEF TakeBackfill
    <2>2. Covers(found, p)
        BY <1>typ, RecentCopied DEF OnTimeline, Recent
    <2>3. found # {}
        <3>1. ~Covers({}, p)
            <4>1. {q \in {} : q > p} = {}
                OBVIOUS
            <4> QED BY <4>1, FS_EmptySet, FeedAssumption DEF Covers
        <3> QED BY <2>2, <3>1
    <2> HIDE DEF found
    <2>4. step'[w] = "backfill_add"
        BY <1>typ, <2>1, <2>3, Went
    <2>5. Covers(copied'[w], p)
        BY <2>1, <2>2
    <2> QED BY <2>4, <2>5 DEF RunCopies, Covers
<1>3. ASSUME BackfillAdd(w) PROVE RunCopies(w, j, p)'
    <2>1. job[w] = j /\ step[w] = "backfill_add" /\ subject[w] = j.pair
        BY <1>3, WorkerFacts DEF BackfillAdd
    <2>2. Covers(copied[w], p) /\ copied[w] \in SUBSET PostIds /\ home[j.pair[1]] \in SUBSET PostIds
        BY <1>typ, <2>1 DEF WillCopy, RunCopies
    <2>3. home'[j.pair[1]] = Newest(home[j.pair[1]] \union copied[w], FeedMax)
        BY <1>3, <1>typ, <2>1 DEF BackfillAdd
    <2>4. Covers(home'[j.pair[1]], p)
        BY <1>typ, <2>2, <2>3, AddCovers
    <2>5. step'[w] = "ack"
        BY <1>3, <1>typ, Went DEF BackfillAdd
    <2> QED BY <2>4, <2>5 DEF RunCopies, InFeed, Covers
<1>4. ASSUME WorkerMoved(w), ~BackfillAdd(w), ~ \E k \in jobs : TakeBackfill(w, k)
      PROVE  RunCopies(w, j, p)'
    <2>1. ASSUME NEW k \in jobs, TakeFanout(w, k) PROVE FALSE
        BY <1>typ, <2>1 DEF TakeFanout
    <2>2. ASSUME AckJob(w) \/ CrashWorker(w) PROVE FALSE
        BY <1>typ, <2>2 DEF AckJob, CrashWorker
    <2>3. ASSUME GraphWorkerNext(w) \/ (\E f \in ids[w] : PushAdd(w, f)) \/ PushTrim(w)
          PROVE  \E s \in {"got_followers", "add_followers", "push_trim"} : \E x : GoTo(w, s, x)
        BY <2>3 DEF GraphWorkerNext, RandomFollowers, SelectFollowers, AddFollowers, PushAdd, PushTrim
    <2>4. step'[w] \notin {"backfill_add", "ack"}
        BY <1>4, <1>typ, <2>1, <2>2, <2>3, Went DEF WorkerMoved, WorkerStep
    <2> QED BY <2>4 DEF RunCopies
<1> QED BY <1>1, <1>2, <1>3, <1>4, StepKinds

\* Nobody runs a backfill that is just published.
LEMMA Published ==
    ASSUME FeedTypeInv, NEW c \in Clients, FollowPublish(c), NEW pair, subject[c] = pair, NEW p
    PROVE  CopyQueued(pair, p)'
<1>1. PICK j : j = [type |-> "backfill_follower", id |-> lastJob + 1, pair |-> subject[c]]
    OBVIOUS
<1>2. j \in jobs' /\ j.type = "backfill_follower" /\ j.pair = subject[c] /\ j.id = lastJob + 1
    BY <1>1 DEF FollowPublish, Enqueue
<1>3. ASSUME NEW w \in Workers, job'[w] = j PROVE FALSE
    <2>1. job[w] = j /\ lastJob \in Nat
        BY <1>3 DEF FollowPublish, running, FeedTypeInv, FeedTypeOK
    <2>2. j # NoJob
        <3>1. NoJob.type = "none"
            BY DEF NoJob
        <3> QED BY <1>2, <3>1
    <2>3. j.id <= lastJob
        BY <2>1, <2>2 DEF FeedTypeInv, JobsKnown, Known
    <2> QED BY <1>2, <2>1, <2>3
<1> QED BY <1>2, <1>3 DEF CopyQueued, WillCopy

LEMMA ReachedKept ==
    ASSUME FeedTypeInv, [FeedNext]_feedVars, NothingLost',
           NEW pair \in Pairs, NEW p \in Recent(pair[2]), Reached(pair, p)
    PROVE  Reached(pair, p)'
<1>typ. /\ pair[1] \in Users /\ pair[2] \in Users /\ p \in PostIds
        /\ feedEvictions' = feedEvictions /\ \A c \in Clients : ~Abort(c)
        /\ \A c \in Clients : c \in Procs
    BY LostBefore, PairFacts DEF Recent, Newest, Posts, Procs, NothingLost
<1>0. CASE <<"followers", pair[2]>> \in stale
    BY <1>0, StaleGrows DEF Reached
<1>1. CASE InFeed(pair[1], p)
    BY <1>1, <1>typ, HomeKept DEF Reached
<1>2. CASE OnTimeline(pair[2], p) /\ Following(pair)
    <2>1. PICK c \in Clients : step[c] \in {"follow_graph", "follow_enqueue"} /\ subject[c] = pair
        BY <1>2 DEF Following
    <2>2. OnTimeline(pair[2], p)'
        BY <1>2, <1>typ, TimelineKept
    <2>3. CASE ClientKeeps(c)
        BY <2>1, <2>2, <2>3 DEF ClientKeeps, Following, Reached
    <2>4. CASE FollowGraph(c)
        <3>1. step'[c] = "follow_enqueue" /\ subject'[c] = pair
            BY <1>typ, <2>1, <2>4, Went DEF FollowGraph
        <3> QED BY <2>2, <3>1 DEF Following, Reached
    <2>5. CASE FollowPublish(c)
        <3>1. CopyQueued(pair, p)'
            BY <2>1, <2>5, Published
        <3> QED BY <2>2, <3>1 DEF Reached
    <2> QED BY <1>typ, <2>1, <2>3, <2>4, <2>5, StepKinds, ClientTurn
<1>3. CASE OnTimeline(pair[2], p) /\ CopyQueued(pair, p)
    <2>1. PICK j \in jobs : j.type = "backfill_follower" /\ j.pair = pair /\ WillCopy(j, p)
        BY <1>3 DEF CopyQueued
    <2>2. OnTimeline(pair[2], p)'
        BY <1>3, <1>typ, TimelineKept
    <2>3. CASE j \in jobs'
        <3>1. WillCopy(j, p)'
            BY <1>3, <1>typ, <2>1, RunKept DEF WillCopy
        <3> QED BY <2>1, <2>2, <2>3, <3>1 DEF CopyQueued, Reached
    <2>4. CASE j \notin jobs'
        <3>1. PICK w \in Workers : AckJob(w) /\ job[w] = j
            BY <2>4, StepKinds, ClientShares, WorkerShares, OtherShares
            DEF AckJob, PostEnqueue, FollowPublish, Enqueue
        <3>2. step[w] = "ack"
            BY <2>1, <3>1, WorkerFacts DEF AckJob, FanSteps
        <3>3. InFeed(pair[1], p)
            BY <2>1, <3>1, <3>2 DEF WillCopy, RunCopies
        <3> QED BY <1>typ, <3>3, HomeKept DEF Reached
    <2> QED BY <2>3, <2>4
<1> QED BY <1>0, <1>1, <1>2, <1>3 DEF Reached

-----------------------------------------------------------------------------
(* No recent post is missed *)

Drafting(p) == \E c \in Clients : step[c] \in PostSteps /\ draft[c] = p
Queued(p) == \E j \in jobs : j.type = "fanout_post" /\ j.post = p

\* A post of someone followed is being created, waits to be fanned out, or has
\* reached the follower or is about to by the backfill of the follow.
Owed ==
    NothingLost =>
        \A pair \in follows \ overlapped : \A p \in Recent(pair[2]) \ skipped :
            Drafting(p) \/ Queued(p) \/ Reached(pair, p)

\* A fan-out has every follower on its list, but for the served and those whose
\* own backfill reaches the post.
ServedFor(w, pair) ==
    \A p \in Recent(pair[2]) :
        job[w].author = pair[2] /\ job[w].post = p => pair[1] \in ids[w] \/ Reached(pair, p)
Served ==
    NothingLost =>
        \A w \in Workers : step[w] \in Serving =>
            \A pair \in follows \ overlapped : ServedFor(w, pair)

MissInv == FeedTypeInv /\ TimelineInv /\ GraphInv /\ Served /\ Owed

LEMMA RecentBefore ==
    ASSUME FeedTypeInv, [FeedNext]_feedVars, NEW a \in Users, NEW p \in Recent(a)',
           <<p, a>> \in posts
    PROVE  p \in Recent(a) /\ p \in PostIds
<1> DEFINE B == {q \in Posts(a) : q > p}
           A == {q \in Posts(a)' : q > p}
<1>1. posts \subseteq posts'
    BY StepKinds, ClientShares, WorkerShares, OtherShares DEF PostCommit
<1>2. B \in SUBSET A /\ A \in SUBSET PostIds
    BY <1>1 DEF Posts
<1>3. Cardinality(A) < BackfillLimit /\ p \in PostIds
    BY DEF Recent, Newest, Posts
<1>4. Cardinality(A) \in Nat /\ Cardinality(B) \in Nat /\ Cardinality(B) <= Cardinality(A)
    <2> HIDE DEF A, B
    <2> QED BY <1>2, PostSets
<1>5. Cardinality(B) < BackfillLimit
    <2> HIDE DEF A, B
    <2> QED BY <1>3, <1>4, FeedAssumption
<1> QED BY <1>3, <1>5 DEF Recent, Newest, Posts

\* Who follows did so before, or has just committed the row.
LEMMA FollowersBefore ==
    ASSUME FeedTypeInv, [FeedNext]_feedVars, NEW pair \in follows' \ overlapped'
    PROVE  /\ pair \in Pairs /\ pair[1] \in Users /\ pair[2] \in Users
           /\ pair \in follows \ overlapped \/ Following(pair)'
           /\ pair \notin follows => UNCHANGED <<jobs, posts, userPosts>>
<1>1. follows' \subseteq Pairs
    BY FeedNext_Type DEF FeedTypeInv, FeedTypeOK, GraphTypeOK
<1>2. overlapped \subseteq overlapped'
    BY StepKinds, ClientShares, WorkerShares, OtherShares
    DEF FollowCommit, UnfollowCommit, StartRequest
<1>3. CASE pair \notin follows
    <2>1. PICK c \in Clients : ClientMoved(c) /\ pair \in follows'
        BY <1>3, StepKinds, WorkerShares, OtherShares
    <2>2. \E other \in Pairs : FollowCommit(c, other) \/ UnfollowCommit(c, other)
        BY <1>3, <2>1, ClientShares
    <2>3. FollowCommit(c, pair) /\ step[c] = "idle"
        BY <1>3, <2>1, <2>2 DEF FollowCommit, UnfollowCommit, StartRequest, Free
    <2>4. step'[c] = "follow_graph" /\ subject'[c] = pair
        BY <2>3, Went DEF FollowCommit, Procs
    <2>5. UNCHANGED feedOnly
        <3>1. ASSUME NEW u, PostCommit(c, u) \/ ViewProfile(c, u) PROVE FALSE
            BY <1>3, <2>1, <3>1 DEF PostCommit, ViewProfile
        <3> QED BY <2>1, <2>3, <3>1, ClientTurn
    <2> QED BY <1>1, <1>3, <2>4, <2>5, PairFacts DEF Following, feedOnly, feeds, queue
<1> QED BY <1>1, <1>2, <1>3, PairFacts

LEMMA FeedNext_Served ==
    ASSUME MissInv, [FeedNext]_feedVars
    PROVE  Served'
<1> SUFFICES ASSUME NothingLost', NEW w \in Workers, step'[w] \in Serving,
                    NEW pair \in follows' \ overlapped', NEW p \in Recent(pair[2])',
                    p = job'[w].post, job'[w].author = pair[2]
             PROVE  pair[1] \in ids'[w] \/ Reached(pair, p)'
    BY DEF Served, ServedFor
<1>inv. FeedTypeInv /\ TimelineInv /\ GraphInv /\ Served /\ NothingLost /\ w \in Procs
        /\ feedEvictions' = feedEvictions /\ FeedTypeInv'
    BY LostBefore, FeedNext_Type DEF MissInv, Procs
<1>pair. /\ pair \in Pairs /\ pair[1] \in Users /\ pair[2] \in Users
         /\ pair \in follows \ overlapped \/ Following(pair)'
    BY <1>inv, FollowersBefore
\* The worker goes on with its job.
<1>on. ASSUME step[w] \in FanSteps \union {"push_trim"}, job'[w] = job[w]
       PROVE  /\ p \in Recent(pair[2]) /\ p \in PostIds /\ OnTimeline(pair[2], p)
              /\ p = job[w].post /\ pair[2] = job[w].author
    <2>1. <<p, pair[2]>> \in posts /\ p = job[w].post /\ pair[2] = job[w].author
        BY <1>on, <1>inv, WorkerFacts
    <2> QED BY <1>inv, <1>on, <1>pair, <2>1, RecentBefore DEF NothingLost, TimelineInv, Timelines, TimelineWorkers
\* One who has just followed gets the post by the backfill.
<1>late. ASSUME step[w] \in FanSteps \union {"push_trim"}, job'[w] = job[w], Following(pair)'
         PROVE  Reached(pair, p)'
    <2>1. OnTimeline(pair[2], p)'
        BY <1>inv, <1>late, <1>on, <1>pair, TimelineKept
    <2> QED BY <1>late, <2>1 DEF Reached
<1>reach. ASSUME step[w] \in FanSteps \union {"push_trim"}, job'[w] = job[w], Reached(pair, p)
          PROVE  Reached(pair, p)'
    BY <1>inv, <1>reach, <1>on, <1>pair, ReachedKept
<1>same. ASSUME step[w] \in Serving, job'[w] = job[w], ids'[w] = ids[w]
         PROVE  pair[1] \in ids'[w] \/ Reached(pair, p)'
    <2>1. step[w] \in FanSteps \union {"push_trim"}
        BY <1>same DEF Serving, FanSteps
    <2>2. CASE pair \in follows \ overlapped
        <3>1. pair[1] \in ids[w] \/ Reached(pair, p)
            BY <1>inv, <1>on, <1>same, <2>1, <2>2 DEF Served, ServedFor
        <3> QED BY <1>reach, <1>same, <2>1, <3>1
    <2> QED BY <1>late, <1>pair, <1>same, <2>1, <2>2
<1>1. CASE WorkerKeeps(w)
    BY <1>1, <1>same DEF WorkerKeeps
<1>2. CASE RandomFollowers(w) /\ UNCHANGED feedOnly
    <2>1. /\ step[w] \in FanSteps /\ job'[w] = job[w] /\ subject[w] = <<job[w].author, job[w].author>>
          /\ ids'[w] = FollowersIn(followers, subject[w][1]) /\ follows' = follows
          /\ overlapped' = overlapped
        <3>1. step[w] \in FanSteps
            BY <1>2 DEF RandomFollowers, FanSteps
        <3>2. subject[w] = <<job[w].author, job[w].author>>
            BY <1>inv, <3>1, WorkerFacts
        <3>3. ids \in [Workers -> SUBSET Users]
            BY <1>inv DEF FeedTypeInv, FeedTypeOK, GraphTypeOK
        <3>4. ids'[w] = FollowersIn(followers, subject[w][1])
            BY <1>2, <3>3 DEF RandomFollowers
        <3> QED BY <1>2, <3>1, <3>2, <3>4 DEF RandomFollowers, feedOnly, running, graphBounds
    <2>2. subject[w][1] = pair[2] /\ pair \in follows \ overlapped
        BY <1>on, <2>1
    <2>3. cut = {}
        BY <1>inv DEF FeedTypeInv, Uncut, NothingLost
    <2>4. \/ pair \in followers \/ Pending("follow_graph", pair) # {}
          \/ <<"followers", pair[2]>> \in stale
        BY <1>inv, <2>2, <2>3 DEF GraphInv, NoFollowerLost, Spoilt
    <2>5. CASE pair \in followers
        BY <2>1, <2>2, <2>5 DEF FollowersIn
    <2>6. CASE Pending("follow_graph", pair) # {}
        <3>1. Following(pair)
            BY <2>6 DEF Pending, Following
        <3>2. Reached(pair, p)
            BY <1>on, <2>1, <3>1 DEF Reached
        <3> QED BY <1>reach, <2>1, <3>2
    <2>7. CASE <<"followers", pair[2]>> \in stale
        BY <1>inv, <2>7, StaleGrows DEF Reached
    <2> QED BY <2>4, <2>5, <2>6, <2>7
<1>3. CASE SelectFollowers(w) /\ UNCHANGED feedOnly
    <2>1. step[w] \in FanSteps /\ job'[w] = job[w]
        BY <1>3 DEF SelectFollowers, FanSteps, feedOnly, running
    <2>2. subject[w] = <<job[w].author, job[w].author>> /\ job[w].author = pair[2]
        BY <1>inv, <1>on, <2>1, WorkerFacts
    <2>3. ids'[w] = FollowersIn(follows, subject[w][1]) /\ follows' = follows
        BY <1>3, <1>inv DEF SelectFollowers, FeedTypeInv, FeedTypeOK, GraphTypeOK
    <2>4. subject[w][1] = pair[2]
        BY <2>2
    <2> QED BY <2>3, <2>4 DEF FollowersIn
<1>4. CASE AddFollowers(w) /\ UNCHANGED feedOnly
    BY <1>4, <1>same DEF AddFollowers, Serving, feedOnly, running
<1>5. ASSUME NEW f \in ids[w], PushAdd(w, f)
      PROVE  pair[1] \in ids'[w] \/ Reached(pair, p)'
    <2>1. /\ step[w] \in FanSteps /\ step[w] \in Serving /\ job'[w] = job[w]
          /\ follows' = follows /\ overlapped' = overlapped
        BY <1>5 DEF PushAdd, Serving, FanSteps, running, graphBounds
    <2>2. ids'[w] = ids[w] \ {f}
        BY <1>5, <1>inv DEF PushAdd, FeedTypeInv, FeedTypeOK, GraphTypeOK
    <2>3. pair[1] \in ids[w] \/ Reached(pair, p)
        BY <1>inv, <1>on, <2>1 DEF Served, ServedFor
    <2>4. CASE pair[1] = f
        <3>1. p \in home'[pair[1]]
            BY <1>5, <1>inv, <1>on, <1>pair, <2>1, <2>4 DEF PushAdd, FeedTypeInv, FeedTypeOK
        <3> QED BY <3>1 DEF Reached, InFeed
    <2> QED BY <1>reach, <2>1, <2>2, <2>3, <2>4
<1>6. CASE PushTrim(w)
    BY <1>6, <1>same DEF PushTrim, Serving, running
<1>7. ASSUME \/ \E j \in jobs : TakeFanout(w, j) \/ TakeBackfill(w, j)
             \/ BackfillAdd(w) \/ AckJob(w) \/ CrashWorker(w)
      PROVE  FALSE
    <2>1. \E s \in {"select_followers", "random_followers", "backfill_add", "ack", "idle"} :
            \E x : GoTo(w, s, x)
        BY <1>7 DEF TakeFanout, SizeFollowers, TakeBackfill, BackfillAdd, AckJob, CrashWorker, Done
    <2>2. step'[w] \in {"select_followers", "random_followers", "backfill_add", "ack", "idle"}
        BY <1>inv, <2>1, Went
    <2> QED BY <2>2 DEF Serving
<1>8. WorkerKeeps(w) \/ WorkerMoved(w)
    BY <1>inv, StepKinds
<1> QED BY <1>1, <1>2, <1>3, <1>4, <1>5, <1>6, <1>7, <1>8 DEF WorkerMoved, WorkerStep, GraphWorkerNext

LEMMA FeedNext_Owed ==
    ASSUME MissInv, [FeedNext]_feedVars
    PROVE  Owed'
<1> SUFFICES ASSUME NothingLost', NEW pair \in follows' \ overlapped',
                    NEW p \in Recent(pair[2])', p \notin skipped'
             PROVE  Drafting(p)' \/ Queued(p)' \/ Reached(pair, p)'
    BY DEF Owed
<1>inv. /\ FeedTypeInv /\ TimelineInv /\ Served /\ Owed /\ NothingLost
        /\ aborts' = 0 /\ aborts = 0 /\ \A c \in Clients : ~Abort(c)
        /\ \A c \in Clients : c \in Procs
    BY LostBefore DEF MissInv, NothingLost, Procs
<1>pair. /\ pair \in Pairs /\ pair[1] \in Users /\ pair[2] \in Users
         /\ pair \in follows \ overlapped \/ Following(pair)'
    BY <1>inv, FollowersBefore
<1>row. PICK row \in posts' : row = <<p, pair[2]>>
    BY DEF Recent, Newest, Posts
<1>unwritten. ASSUME Unwritten(p)' PROVE Drafting(p)'
    BY <1>unwritten DEF Unwritten, Drafting, PostSteps
<1>1. CASE row \notin posts
    BY <1>1, <1>inv, <1>row, <1>unwritten, RowsKept
<1>2. CASE row \in posts /\ pair \notin follows \ overlapped
    <2>1. OnTimeline(pair[2], p)' \/ Unwritten(p)'
        BY <1>inv, <1>row, FeedNext_Timeline DEF NothingLost, TimelineInv, Timelines, TimelineRows
    <2> QED BY <1>2, <1>pair, <1>unwritten, <2>1 DEF Reached
<1>3. CASE row \in posts /\ pair \in follows \ overlapped
    <2>old. p \in Recent(pair[2]) /\ p \in PostIds
        BY <1>3, <1>inv, <1>pair, <1>row, RecentBefore
    <2>reach. Reached(pair, p) => Reached(pair, p)'
        BY <1>inv, <1>pair, <2>old, ReachedKept
    <2>1. p \notin skipped
        BY <1>inv, StepKinds, ClientShares, WorkerShares, OtherShares DEF PostCount
    <2>2. Drafting(p) \/ Queued(p) \/ Reached(pair, p)
        BY <1>3, <1>inv, <2>old, <2>1 DEF Owed
    <2>3. CASE Drafting(p)
        <3>1. PICK c \in Clients : step[c] \in PostSteps /\ draft[c] = p
            BY <2>3 DEF Drafting
        <3>2. CASE ClientKeeps(c)
            BY <3>1, <3>2 DEF ClientKeeps, Drafting
        <3>3. CASE PostTimeline(c)
            BY <1>inv, <3>1, <3>3, Went DEF PostTimeline, running, Drafting, PostSteps
        <3>4. CASE PostCount(c)
            <4>1. p \in skipped' \/ (UNCHANGED draft /\ \E x : GoTo(c, "post_enqueue", x))
                BY <3>1, <3>4 DEF PostCount
            <4> QED BY <1>inv, <3>1, <4>1, Went DEF Drafting, PostSteps
        <3>5. CASE PostEnqueue(c)
            <4>1. PICK j : j = [type |-> "fanout_post", id |-> lastJob + 1, post |-> draft[c],
                                author |-> subject[c][1]]
                OBVIOUS
            <4>2. j \in jobs' /\ j.type = "fanout_post" /\ j.post = p
                BY <3>1, <3>5, <4>1 DEF PostEnqueue, Enqueue
            <4> QED BY <4>2 DEF Queued
        <3> QED BY <1>inv, <3>1, <3>2, <3>3, <3>4, <3>5, StepKinds, ClientTurn DEF PostSteps
    <2>4. CASE Queued(p)
        <3>1. PICK j \in jobs : j.type = "fanout_post" /\ j.post = p
            BY <2>4 DEF Queued
        <3>2. CASE j \in jobs'
            BY <3>1, <3>2 DEF Queued
        <3>3. CASE j \notin jobs'
            <4>1. PICK w \in Workers : AckJob(w) /\ job[w] = j
                BY <3>3, <1>inv, StepKinds, ClientShares, WorkerShares, OtherShares
                DEF AckJob, PostEnqueue, FollowPublish, Enqueue
            <4>2. step[w] = "got_followers" /\ ids[w] = {}
                BY <1>inv, <3>1, <4>1, WorkerFacts DEF AckJob
            <4>3. j.author = pair[2]
                <5>1. <<j.post, j.author>> \in posts
                    BY <1>inv, <4>1, <4>2, WorkerFacts DEF FanSteps
                <5>2. <<j.post, j.author>> = row
                    BY <1>3, <1>inv, <1>row, <3>1, <5>1 DEF FeedTypeInv, PostsKnown
                <5> QED BY <1>row, <5>2
            <4>4. Reached(pair, p)
                BY <1>3, <1>inv, <2>old, <3>1, <4>1, <4>2, <4>3 DEF Served, ServedFor, Serving
            <4> QED BY <2>reach, <4>4
        <3> QED BY <3>2, <3>3
    <2> QED BY <2>2, <2>3, <2>4, <2>reach
<1> QED BY <1>1, <1>2, <1>3

LEMMA FeedInit_Miss == FeedInit => MissInv
<1> SUFFICES ASSUME FeedInit PROVE MissInv
    OBVIOUS
<1>1. GraphInit /\ posts = {} /\ jobs = {} /\ follows = {} /\ following = {}
        /\ \A p \in Procs : step[p] = "idle"
    BY DEF FeedInit, GraphInit
<1>2. TimelineInv
    BY <1>1 DEF TimelineInv, Timelines, TimelineRows, TimelineJobs, TimelineWorkers, TimelineClients,
                FanSteps, Procs
<1>3. GraphInv
    BY <1>1 DEF GraphInv, RequestsAgree, NoFollowerLost, FollowingExact, Procs
<1>4. Served /\ Owed
    BY <1>1 DEF Served, Owed
<1> QED BY FeedInit_Type, <1>2, <1>3, <1>4 DEF MissInv

LEMMA FeedNext_Miss ==
    ASSUME MissInv, [FeedNext]_feedVars
    PROVE  MissInv'
<1>1. FeedTypeInv /\ TimelineInv /\ GraphInv
    BY DEF MissInv
<1> QED BY <1>1, FeedNext_Type, FeedNext_Timeline, FeedNext_Graph, FeedNext_Served,
           FeedNext_Owed DEF MissInv

LEMMA SettledReached ==
    ASSUME Settled, NEW pair, NEW p
    PROVE  /\ ~Drafting(p) /\ ~Queued(p) /\ ~Following(pair) /\ ~CopyQueued(pair, p)
           /\ ~Unwritten(p)
<1>1. \A c \in Clients : step[c] = "idle"
    BY DEF Settled, AllIdle, Free, Procs
<1>2. jobs = {}
    BY DEF Settled
<1> QED BY <1>1, <1>2 DEF Drafting, Queued, Following, CopyQueued, Unwritten, PostSteps

\* Once everything in flight is done, every follower's feed has the recent posts
\* of the followee, or newer ones in their place, in whatever order the follow,
\* the post, their two jobs, repeated runs and crashes of them met, unless the
\* followee's set of followers was evicted.
THEOREM NoPostIsMissed == FeedSpec => []NoMissedPost
<1>1. MissInv => NoMissedPost
    <2> SUFFICES ASSUME MissInv, Settled, NothingLost, NEW pair \in follows \ overlapped,
                        NEW p \in Recent(pair[2]) \ skipped
                 PROVE  InFeed(pair[1], p) \/ <<"followers", pair[2]>> \in stale
        BY Zenon DEF NoMissedPost
    <2> QED BY SettledReached DEF MissInv, Owed, Reached
<1> QED BY FeedInit_Miss, FeedNext_Miss, <1>1, PTL DEF FeedSpec

-----------------------------------------------------------------------------
(* The counters, under the steps of feeds *)

LEMMA FeedSubjects == FeedTypeInv => GraphTypes /\ Shapes
<1> SUFFICES ASSUME FeedTypeInv PROVE GraphTypes /\ Shapes
    OBVIOUS
<1>1. ASSUME NEW c \in Clients
      PROVE  /\ step[c] \in PairSteps => subject[c] \in Pairs
             /\ step[c] \in UserSteps => \E u \in Users : subject[c] = <<u, u>>
             /\ step[c] \notin WorkerSteps
    BY DEF FeedTypeInv, Shapes, ClientAt, PairSteps, UserSteps, PostSteps, WorkerSteps
<1>2. ASSUME NEW w \in Workers
      PROVE  /\ step[w] \notin PairSteps \union UserSteps
             /\ step[w] \in WorkerSteps => \E u \in Users : subject[w] = <<u, u>>
    <2>1. step[w] \in WorkerSteps => step[w] \in FanSteps
        BY DEF WorkerSteps, FanSteps
    <2>2. step[w] \in WorkerSteps => \E u \in Users : subject[w] = <<u, u>>
        BY <2>1, WorkerFacts
    <2>3. WorkerAt(w)
        BY DEF FeedTypeInv, Shapes
    <2>4. step[w] \notin PairSteps \union UserSteps
        BY <2>3 DEF WorkerAt, FanSteps, PairSteps, UserSteps
    <2> QED BY <2>2, <2>4
<1> QED BY <1>1, <1>2 DEF GraphTypes, StepSubjects, Procs, FeedTypeInv, FeedTypeOK

LEMMA FeedNext_Counters ==
    ASSUME FeedTypeInv, CountsAgree, CountersExact, [FeedNext]_feedVars
    PROVE  CountsAgree' /\ CountersExact'
<1>typ. /\ GraphTypeOK /\ GraphTypes /\ CountersGood
        /\ \A c \in Clients : c \in Procs
    BY FeedSubjects DEF FeedTypeInv, FeedTypeOK, CountersGood, Procs
<1>pair. \A c \in Clients : step[c] \in {"follow_graph", "unfollow_graph"} => subject[c] \in Pairs
    BY ClientFacts DEF PairSteps
<1> DEFINE Good == CountsAgree /\ CountersExact
<1>uncounted. ASSUME NEW c \in Clients, \A d \in Clients \ {c} : ClientKeeps(d),
                     follows' = follows, stale \subseteq stale',
                     step'[c] \in {"idle", "follow_enqueue"}
              PROVE  CountsAgree'
    BY <1>uncounted, CountsKept DEF ClientKeeps
<1>1. ASSUME NEW c \in Clients, NEW pair \in Pairs, FollowCommit(c, pair) \/ UnfollowCommit(c, pair)
      PROVE  Good'
    <2>1. CountersExact'
        BY <1>1, <1>typ, FollowCommit_Counters, UnfollowCommit_Counters
    <2>2. CASE FollowCommit(c, pair)
        BY <2>1, <2>2, <1>typ, StartRequest_Counts DEF FollowCommit
    <2>3. CASE UnfollowCommit(c, pair)
        BY <2>1, <2>3, <1>typ, StartRequest_Counts DEF UnfollowCommit
    <2> QED BY <1>1, <2>2, <2>3
<1>2. ASSUME NEW c \in Clients, FollowGraph(c) \/ UnfollowGraph(c) \/ Abort(c),
             \A d \in Clients \ {c} : ClientKeeps(d)
      PROVE  Good'
    <2>1. FollowGraph(c) \/ UnfollowGraph(c) => subject[c] \in Pairs
        BY <1>pair DEF FollowGraph, UnfollowGraph
    <2>2. CountersExact'
        BY <1>2, <1>typ, <1>pair, <2>1, FollowGraph_Counters, UnfollowGraph_Counters,
           AbortRequest_Counters DEF Abort
    <2>3. /\ follows' = follows /\ stale' = stale
          /\ \E s \in {"idle", "follow_enqueue"} : \E x : GoTo(c, s, x)
        BY <1>2 DEF FollowGraph, UnfollowGraph, Abort, AbortRequest, Done, graphBounds
    <2>4. step'[c] \in {"idle", "follow_enqueue"}
        BY <1>typ, <2>3, Went
    <2> QED BY <1>2, <1>uncounted, <2>2, <2>3, <2>4
<1>3. ASSUME NEW c \in Clients, WriteCounters(c), \A d \in Clients \ {c} : ClientKeeps(d)
      PROVE  Good'
    <2>1. SetCounters(c)
        BY <1>3 DEF WriteCounters
    <2>2. /\ follows' = follows /\ stale' = stale /\ GoTo(c, "idle", NoSubject)
        BY <2>1 DEF SetCounters, Done, graphBounds
    <2>3. step'[c] = "idle"
        BY <1>typ, <2>2, Went
    <2> QED BY <1>3, <1>typ, <1>uncounted, <2>1, <2>2, <2>3, SetCounters_Counters
<1>4. ASSUME NEW c \in Clients, ClientMoved(c), Aside(c), ~WriteCounters(c),
             \A d \in Clients \ {c} : ClientKeeps(d)
      PROVE  Good'
    <2>1. /\ step[c] \notin {"follow_graph", "unfollow_graph"}
          /\ step'[c] \notin {"follow_graph", "unfollow_graph"}
          /\ UNCHANGED <<follows, cut>> /\ stale \subseteq stale'
        BY <1>4, AsideSteps
    <2>2. UNCHANGED <<followerCount, followingCount>>
        BY <1>4, <2>1, ClientShares DEF FollowGraph, UnfollowGraph, counters
    <2>3. CountersExact'
        BY <1>4, <2>1, <2>2, CountersKept DEF ClientKeeps
    <2>4. CASE CountFollowers(c) \/ CountFollowing(c)
        BY <1>typ, <2>3, <2>4, Count_Counts
    <2>5. CASE ~(CountFollowers(c) \/ CountFollowing(c))
        <3>1. step'[c] \in {"count_following", "set_counters"} =>
                UNCHANGED <<step, subject, counted>>
            BY <1>4, <2>5, ClientLands
        <3>2. CountsAgree'
            BY <1>4, <2>1, <3>1, CountsKept DEF ClientKeeps
        <3> QED BY <2>3, <3>2
    <2> QED BY <2>4, <2>5
<1>5. ASSUME \A c \in Clients : ClientKeeps(c), follows' = follows, stale \subseteq stale'
      PROVE  CountsAgree'
    BY <1>5, CountsKept DEF ClientKeeps
<1>6. ASSUME NEW w \in Workers, WorkerMoved(w), \A c \in Clients : ClientKeeps(c)
      PROVE  Good'
    <2>1. CountersExact'
        BY <1>6, WorkerShares, CountersKept DEF ClientKeeps, counters
    <2> QED BY <1>5, <1>6, <2>1, WorkerShares
<1>7. ASSUME Evicted \/ UNCHANGED feedVars, \A c \in Clients : ClientKeeps(c)
      PROVE  Good'
    <2>1. UNCHANGED <<follows, cut, step, subject>> /\ stale \subseteq stale'
        BY <1>7, OtherShares
    <2>2. CASE UNCHANGED <<sets, counters, stale>>
        <3>1. CountersExact'
            BY <2>1, <2>2, CountersKept DEF counters
        <3> QED BY <1>5, <1>7, <2>1, <3>1
    <2>3. ASSUME NEW u \in Users, EvictGraphKey(u) PROVE Good'
        <3>1. CountersExact'
            BY <1>typ, <2>3, EvictGraphKey_Counters
        <3> QED BY <1>5, <1>7, <2>1, <3>1
    <2> QED BY <1>7, <2>2, <2>3, OtherShares
<1>8. ASSUME NEW c \in Clients, ClientMoved(c)
      PROVE  \/ \E pair \in Pairs : FollowCommit(c, pair) \/ UnfollowCommit(c, pair)
             \/ FollowGraph(c) \/ UnfollowGraph(c) \/ Abort(c) \/ Aside(c)
    BY <1>8 DEF ClientMoved, ClientStep, Aside
<1> HIDE DEF Good
<1>9. Good'
    BY <1>1, <1>2, <1>3, <1>4, <1>6, <1>7, <1>8, StepKinds
<1> QED BY <1>9 DEF Good

-----------------------------------------------------------------------------
(* Celebrities: fan-out on write and fan-out on read *)

LEMMA PairsFinite == ASSUME NEW S \in SUBSET Pairs PROVE IsFiniteSet(S) /\ Cardinality(S) \in Nat
<1>1. IsFiniteSet(Users \X Users)
    BY FS_Product, GraphAssumption
<1> QED BY <1>1, FS_Subset, FS_CardinalityType, GraphAssumption

\* Each row of the table cost a request; with none to spare nobody is leaving.
LeaveInv ==
    /\ requests >= Cardinality(follows)
    /\ NobodyLeft => \A c \in Clients : step[c] # "unfollow_graph"

\* Until someone leaves, the author of a post that was skipped stays above the
\* threshold, whatever backfills set the count to, unless the count is stale.
AboveOrStale(u) ==
    Value(followerCount[u]) > Threshold \/ <<"follower_count", u>> \in stale
SkipInv ==
    /\ \A p \in skipped : p <= Cardinality(posts)
    /\ NobodyLeft /\ aborts = 0 => \A row \in posts :
            row[1] \in skipped => AboveOrStale(row[2])

MergeInv == MissInv /\ CountsAgree /\ CountersExact /\ LeaveInv /\ SkipInv

LEMMA FeedNext_Leave ==
    ASSUME FeedTypeInv, LeaveInv, [FeedNext]_feedVars
    PROVE  LeaveInv' /\ (NobodyLeft' => NobodyLeft)
<1>typ. /\ follows \in SUBSET Pairs /\ requests \in Nat
        /\ IsFiniteSet(follows) /\ Cardinality(follows) \in Nat
        /\ \A c \in Clients : c \in Procs
    BY PairsFinite, GraphAssumption DEF FeedTypeInv, FeedTypeOK, GraphTypeOK, Procs
<1>1. ASSUME NEW c \in Clients, NEW pair \in Pairs, FollowCommit(c, pair),
             \A d \in Clients \ {c} : ClientKeeps(d)
      PROVE  LeaveInv' /\ (NobodyLeft' => NobodyLeft)
    <2>1. pair \notin follows /\ follows' = follows \union {pair} /\ requests' = requests + 1
        BY <1>1 DEF FollowCommit, StartRequest
    <2>2. Cardinality(follows') = Cardinality(follows) + 1
        BY <1>typ, <2>1, FS_AddElement
    <2>3. step'[c] = "follow_graph"
        BY <1>1, <1>typ, Went DEF FollowCommit
    <2>4. NobodyLeft' => NobodyLeft
        BY <1>typ, <2>1, <2>2 DEF NobodyLeft
    <2>5. requests' >= Cardinality(follows')
        BY <1>typ, <2>1, <2>2 DEF LeaveInv
    <2> QED BY <1>1, <2>3, <2>4, <2>5 DEF LeaveInv, ClientKeeps
<1>2. ASSUME NEW c \in Clients, NEW pair \in Pairs, UnfollowCommit(c, pair)
      PROVE  LeaveInv' /\ (NobodyLeft' => NobodyLeft)
    <2>1. pair \in follows /\ follows' = follows \ {pair} /\ requests' = requests + 1
        BY <1>2 DEF UnfollowCommit, StartRequest
    <2>2. Cardinality(follows') = Cardinality(follows) - 1
        BY <1>typ, <2>1, FS_RemoveElement
    <2>3. requests' > Cardinality(follows') /\ requests' \in Nat /\ Cardinality(follows') \in Nat
        BY <1>typ, <2>1, <2>2, PairsFinite DEF LeaveInv
    <2>4. ~NobodyLeft'
        BY <2>3 DEF NobodyLeft
    <2>5. requests' >= Cardinality(follows')
        BY <2>3
    <2> QED BY <2>4, <2>5 DEF LeaveInv
<1>3. ASSUME UNCHANGED <<follows, requests>>,
             \A c \in Clients : step'[c] = "unfollow_graph" => step[c] = "unfollow_graph"
      PROVE  LeaveInv' /\ (NobodyLeft' => NobodyLeft)
    BY <1>3 DEF LeaveInv, NobodyLeft
<1>4. ASSUME NEW c \in Clients, ClientMoved(c), \A d \in Clients \ {c} : ClientKeeps(d),
             ~ \E pair \in Pairs : FollowCommit(c, pair) \/ UnfollowCommit(c, pair)
      PROVE  LeaveInv' /\ (NobodyLeft' => NobodyLeft)
    <2>1. UNCHANGED <<follows, requests>>
        BY <1>4, ClientShares
    <2>2. step'[c] # "unfollow_graph"
        BY <1>4, ClientLands
    <2> QED BY <1>3, <1>4, <2>1, <2>2 DEF ClientKeeps
<1>5. ASSUME NEW w \in Workers, WorkerMoved(w), \A c \in Clients : ClientKeeps(c)
      PROVE  LeaveInv' /\ (NobodyLeft' => NobodyLeft)
    BY <1>3, <1>5, WorkerShares DEF ClientKeeps
<1>6. ASSUME Evicted \/ UNCHANGED feedVars, \A c \in Clients : ClientKeeps(c)
      PROVE  LeaveInv' /\ (NobodyLeft' => NobodyLeft)
    <2>1. UNCHANGED <<follows, requests>>
        BY <1>6, OtherShares
    <2> QED BY <1>3, <1>6, <2>1 DEF ClientKeeps
<1> QED BY <1>1, <1>2, <1>4, <1>5, <1>6, StepKinds

LEMMA FeedNext_Skip ==
    ASSUME FeedTypeInv, CountsAgree, CountersExact, LeaveInv, SkipInv, [FeedNext]_feedVars
    PROVE  SkipInv'
<1>typ. /\ skipped \subseteq PostIds /\ Cardinality(posts) \in Nat
        /\ followerCount \in [Users -> Counts] /\ Threshold \in Int
        /\ \A row \in posts : row[2] \in Users /\ row[1] \in PostIds
        /\ \A p \in skipped : p \in Nat
        /\ \A row \in posts : row[1] \in Nat /\ row[1] <= Cardinality(posts)
    BY PostsFinite, PostNumbers, FeedAssumption DEF FeedTypeInv, FeedTypeOK, GraphTypeOK, PostsKnown
<1>values. \A u \in Users : Value(followerCount[u]) \in Int
    BY <1>typ DEF Counts, Value
<1>left. /\ NobodyLeft' => NobodyLeft
         /\ aborts' = 0 => aborts = 0 /\ cut = {}
         /\ stale \subseteq stale'
    BY FeedNext_Leave, LostBefore, StaleGrows DEF FeedTypeInv, Uncut
\* A step that writes no post and skips none, and lowers no count.
<1>kept. ASSUME UNCHANGED <<posts, skipped>>,
                \A u \in Users : NobodyLeft /\ cut = {} /\ AboveOrStale(u) => AboveOrStale(u)'
         PROVE  SkipInv'
    BY <1>kept, <1>left, <1>typ DEF SkipInv
<1>1. ASSUME NEW c \in Clients, NEW u \in Authors, PostCommit(c, u) PROVE SkipInv'
    <2>1. posts' = posts \union {<<Cardinality(posts) + 1, u>>} /\ UNCHANGED <<skipped, followerCount>>
        BY <1>1 DEF PostCommit, counters
    <2>2. <<Cardinality(posts) + 1, u>> \notin posts
        BY <1>typ
    <2>3. Cardinality(posts') = Cardinality(posts) + 1
        BY <2>1, <2>2, PostsFinite, FS_AddElement DEF FeedTypeInv, FeedTypeOK
    <2>4. \A p \in skipped : p <= Cardinality(posts) /\ p # Cardinality(posts) + 1 /\ p <= Cardinality(posts')
        BY <1>typ, <2>3 DEF SkipInv
    <2>5. NobodyLeft' /\ aborts' = 0 => \A row \in posts' :
            row[1] \in skipped' => AboveOrStale(row[2])'
        BY <1>left, <2>1, <2>4 DEF SkipInv, AboveOrStale
    <2> QED BY <2>1, <2>4, <2>5 DEF SkipInv
<1>2. ASSUME NEW c \in Clients, PostCount(c) PROVE SkipInv'
    <2>1. UNCHANGED <<posts, followerCount>>
        BY <1>2 DEF PostCount, feeds, counters
    <2>2. /\ <<draft[c], subject[c][1]>> \in posts /\ subject[c][1] \in Users
        BY <1>2, ClientFacts DEF PostCount, PostSteps
    <2>3. CASE Value(followerCount[subject[c][1]]) <= Threshold
        <3>1. skipped' = skipped
            BY <1>2, <2>3 DEF PostCount
        <3> QED BY <1>kept, <1>left, <2>1, <3>1 DEF AboveOrStale
    <2>4. CASE ~(Value(followerCount[subject[c][1]]) <= Threshold)
        <3>1. skipped' = skipped \union {draft[c]}
            BY <1>2, <2>4 DEF PostCount
        <3>2. Value(followerCount[subject[c][1]]) > Threshold
            BY <1>typ, <1>values, <2>2, <2>4
        <3>3. \A row \in posts : row[1] = draft[c] => row[2] = subject[c][1]
            <4>1. \A row \in posts : row[1] = draft[c] => row = <<draft[c], subject[c][1]>>
                BY <2>2 DEF FeedTypeInv, PostsKnown
            <4> QED BY <4>1
        <3>4. draft[c] <= Cardinality(posts)
            BY <1>typ, <2>2
        <3> QED BY <1>left, <2>1, <3>1, <3>2, <3>3, <3>4 DEF SkipInv, AboveOrStale
    <2> QED BY <2>3, <2>4
<1>3. ASSUME NEW c \in Clients, FollowGraph(c), UNCHANGED feedOnly PROVE SkipInv'
    <2>1. UNCHANGED <<posts, skipped>>
        BY <1>3 DEF feedOnly, feeds
    <2>2. subject[c] \in Pairs /\ subject[c][2] \in Users
        BY <1>3, ClientFacts, PairFacts DEF FollowGraph, PairSteps
    <2>3. \A u \in Users : Value(followerCount'[u]) >= Value(followerCount[u])
                            /\ Value(followerCount'[u]) \in Int
        <3>1. followerCount' = [followerCount EXCEPT ![subject[c][2]] = Value(@) + 1]
            BY <1>3 DEF FollowGraph
        <3>2. \A u \in Users : followerCount'[u] \in {followerCount[u], Value(followerCount[u]) + 1}
            BY <1>typ, <3>1
        <3>3. \A n \in Int : Value(n) = n
            BY GraphAssumption DEF Value
        <3> QED BY <1>values, <3>2, <3>3
    <2> QED BY <1>kept, <1>left, <1>typ, <1>values, <2>1, <2>3 DEF AboveOrStale
<1>4. ASSUME NEW c \in Clients, UnfollowGraph(c), UNCHANGED feedOnly PROVE SkipInv'
    <2>1. UNCHANGED <<posts, skipped>> /\ ~NobodyLeft
        BY <1>4 DEF feedOnly, feeds, UnfollowGraph, LeaveInv
    <2> QED BY <1>kept, <2>1
<1>5. ASSUME UNCHANGED <<posts, skipped, followerCount>> PROVE SkipInv'
    BY <1>kept, <1>left, <1>5 DEF AboveOrStale
<1>6. ASSUME NEW c \in Clients, WriteCounters(c) PROVE SkipInv'
    <2>1. UNCHANGED <<posts, skipped>> /\ SetCounters(c)
        BY <1>6 DEF WriteCounters
    <2>2. ASSUME NEW u \in Users, cut = {}, <<"follower_count", u>> \notin stale
          PROVE  Value(followerCount'[u]) = Value(followerCount[u])
        BY <2>1, <2>2, BackfillSets, FeedSubjects DEF CountersGood
    <2> QED BY <1>kept, <1>left, <2>1, <2>2 DEF AboveOrStale
<1>7. ASSUME NEW c \in Clients, ClientMoved(c) PROVE SkipInv'
    <2>1. \/ UNCHANGED <<posts, skipped, followerCount>>
          \/ (\E u \in Authors : PostCommit(c, u)) \/ PostCount(c)
          \/ (FollowGraph(c) \/ UnfollowGraph(c)) /\ UNCHANGED feedOnly
          \/ WriteCounters(c)
        BY <1>7, ClientShares DEF counters
    <2> QED BY <1>1, <1>2, <1>3, <1>4, <1>5, <1>6, <2>1
<1>8. ASSUME NEW w \in Workers, WorkerMoved(w) PROVE SkipInv'
    BY <1>5, <1>8, WorkerShares DEF counters
<1>9. ASSUME Evicted \/ UNCHANGED feedVars PROVE SkipInv'
    <2>1. UNCHANGED <<posts, skipped>>
        BY <1>9, OtherShares
    <2>2. CASE UNCHANGED <<sets, counters, stale>>
        BY <1>5, <2>1, <2>2 DEF counters
    <2>3. ASSUME NEW v \in Users, EvictGraphKey(v) PROVE SkipInv'
        <3>1. \A u \in Users :
                <<"follower_count", u>> \in stale' \/ followerCount'[u] = followerCount[u]
            BY <1>typ, <2>3 DEF EvictGraphKey, counters
        <3> QED BY <1>kept, <1>left, <2>1, <3>1 DEF AboveOrStale
    <2> QED BY <1>9, <2>2, <2>3, OtherShares
<1> QED BY <1>7, <1>8, <1>9, StepKinds

\* What a timeline covers is on it, if newer posts do not reach its length.
LEMMA RecentOnTimeline ==
    ASSUME BackfillLimit <= FeedMax,
           NEW A \in SUBSET PostIds, NEW S \in SUBSET A, NEW p \in Newest(A, BackfillLimit),
           Covers(S, p)
    PROVE  p \in S
<1>1. Newer(S, p) \in SUBSET Newer(A, p) /\ Newer(A, p) \in SUBSET PostIds
    BY DEF Newer
<1>2. Rank(S, p) \in Nat /\ Rank(A, p) \in Nat /\ Rank(S, p) <= Rank(A, p)
    BY <1>1, PostSets DEF Rank
<1>3. Rank(A, p) < BackfillLimit
    BY DEF Newest, Rank, Newer
<1>4. ~(Rank(S, p) >= FeedMax)
    BY <1>2, <1>3, FeedAssumption
<1> QED BY <1>4 DEF Covers, Rank, Newer

\* Until the first unfollow, a recent post of a followee is in the follower's feed
\* or merged from the timeline of the celebrity when the feed is read, whatever
\* profile views set the author's count meanwhile.  Excepted are the pairs whose
\* two sets or whose author's count were evicted, or whose count a backfill took
\* across a request.  It takes a timeline to hold what a backfill copies: 50 and
\* 1000 in the code.
THEOREM NothingBetweenWriteAndRead ==
    ASSUME BackfillLimit <= FeedMax
    PROVE  FeedSpec => []MergedUntilUnfollow
<1>1. FeedInit => MergeInv
    <2> SUFFICES ASSUME FeedInit PROVE LeaveInv /\ SkipInv
        BY FeedInit_Miss, GraphInit_Counters DEF FeedInit, CountersInv, MergeInv
    <2>1. follows = {} /\ requests = 0 /\ skipped = {} /\ \A c \in Clients : step[c] = "idle"
        BY DEF FeedInit, GraphInit, Procs
    <2> QED BY <2>1, FS_EmptySet DEF LeaveInv, SkipInv
<1>2. MergeInv /\ [FeedNext]_feedVars => MergeInv'
    BY FeedNext_Miss, FeedNext_Counters, FeedNext_Leave, FeedNext_Skip DEF MergeInv, MissInv
<1>3. MergeInv => MergedUntilUnfollow
    <2> SUFFICES ASSUME MergeInv, NobodyLeft, Settled, NothingLost,
                        NEW pair \in follows \ overlapped, NEW p \in Recent(pair[2]),
                        KeysOf(pair) \intersect stale = {}
                 PROVE  InFeed(pair[1], p) \/ Merged(pair[1], pair[2], p)
        BY Zenon DEF MergedUntilUnfollow
    <2>keys. /\ <<"followers", pair[2]>> \notin stale
             /\ <<"follower_count", pair[2]>> \notin stale
             /\ <<"following", pair[1]>> \notin stale
        BY DEF KeysOf
    <2>1. CASE p \notin skipped
        BY <2>1, <2>keys, SettledReached DEF MergeInv, MissInv, Owed, Reached
    <2>2. CASE p \in skipped
        <3>1. /\ FeedTypeInv /\ <<p, pair[2]>> \in posts
              /\ pair \in Pairs /\ pair = <<pair[1], pair[2]>> /\ pair[2] \in Users
            BY PairFacts DEF MergeInv, MissInv, FeedTypeInv, FeedTypeOK, GraphTypeOK,
                             Recent, Newest, Posts
        <3>2. Value(followerCount[pair[2]]) > Threshold
            <4>1. PICK row \in posts : row = <<p, pair[2]>>
                BY <3>1
            <4> QED BY <2>2, <2>keys, <4>1 DEF MergeInv, SkipInv, AboveOrStale, NothingLost
        <3>3. <<pair[1], pair[2]>> \in following
            <4>1. cut = {}
                BY <3>1 DEF FeedTypeInv, Uncut, NothingLost
            <4>2. Pending("follow_graph", pair) = {}
                BY DEF Settled, AllIdle, Free, Pending, Procs
            <4>3. pair \in following
                BY <2>keys, <3>1, <4>1, <4>2 DEF MergeInv, MissInv, GraphInv, FollowingExact, Spoilt
            <4> QED BY <3>1, <4>3
        <3>4. p \in userPosts[pair[2]]
            <4>1. PICK row \in posts : row = <<p, pair[2]>>
                BY <3>1
            <4>2. OnTimeline(row[2], row[1])
                BY SettledReached DEF MergeInv, MissInv, TimelineInv, Timelines, TimelineRows, NothingLost
            <4>3. Covers(userPosts[pair[2]], p)
                BY <4>1, <4>2 DEF OnTimeline
            <4>4. Posts(pair[2]) \in SUBSET PostIds /\ userPosts[pair[2]] \in SUBSET Posts(pair[2])
                BY <3>1 DEF Posts, FeedTypeInv, PostsKnown
            <4> QED BY <4>3, <4>4, RecentOnTimeline DEF Recent
        <3> QED BY <3>2, <3>3, <3>4 DEF Merged
    <2> QED BY <2>1, <2>2
<1> QED BY <1>1, <1>2, <1>3, PTL DEF FeedSpec

-----------------------------------------------------------------------------
(* What SocialGraph promises holds under the feeds too *)

\* Nothing that create_post, the fan-out and backfill jobs, the rebuild of a
\* timeline or crashes of workers do disturbs the graph: the set that fan-out
\* reads, the set that the celebrity merge reads and the count that tells
\* celebrities from others agree with the table as SocialGraph says.
THEOREM FeedsKeepTheGraph ==
    FeedSpec => [](NoFollowerLost /\ FollowingExact /\ CountersExact)
<1>1. FeedInit => CountsAgree /\ CountersExact
    BY GraphInit_Counters DEF FeedInit, CountersInv
<1>2. MissInv /\ CountsAgree /\ CountersExact /\ [FeedNext]_feedVars
        => CountsAgree' /\ CountersExact'
    BY FeedNext_Counters DEF MissInv
<1>3. MissInv => NoFollowerLost /\ FollowingExact
    BY DEF MissInv, GraphInv
<1> QED BY FeedInit_Miss, FeedNext_Miss, <1>1, <1>2, <1>3, PTL DEF FeedSpec
=============================================================================
