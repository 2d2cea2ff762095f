--------------------------- MODULE PostLikesProofs ---------------------------
(***************************************************************************)
(* Proofs about likes: the lock excludes, and the counter and the set of   *)
(* likers agree with the table but for what evictions took, for any number *)
(* of users and requests and whatever crashes, lost replies and expired    *)
(* leases happen to the lock.                                              *)
(***************************************************************************)
EXTENDS PostLikes, TLAPS, FiniteSetTheorems

-----------------------------------------------------------------------------
(* The lock, waiting or not *)

\* The lease argument: a client inside that has not outlived its lease is the
\* one whose token the key holds.  Exclusion follows, since a key holds one
\* token; by itself it is not inductive, because it says nothing of the key.
HolderOwnsKey == \A c \in Clients : at[c] = "in" /\ c \notin lapsed => key = c

LockInv == LockTypeOK /\ HolderOwnsKey

LEMMA LockInit_Inv == LockInit => LockInv
BY LockAssumption DEF LockInit, LockInv, LockTypeOK, HolderOwnsKey

LEMMA LockNext_Inv ==
    ASSUME LockInv, [LockNext]_lockVars
    PROVE  LockInv'
<1> USE LockAssumption DEF LockInv, LockTypeOK, HolderOwnsKey
<1>1. ASSUME NEW c \in Clients, Request(c) PROVE LockInv'
    BY <1>1 DEF Request
<1>2. ASSUME NEW c \in Clients, Acquire(c) PROVE LockInv'
    BY <1>2 DEF Acquire, SetNX
<1>3. ASSUME NEW c \in Clients, Refused(c) PROVE LockInv'
    BY <1>3 DEF Refused
<1>4. ASSUME NEW c \in Clients, Retry(c) PROVE LockInv'
    BY <1>4 DEF Retry
<1>5. ASSUME NEW c \in Clients, Release(c) PROVE LockInv'
    <2>1. LockTypeOK'
        BY <1>5 DEF Release, CompareAndDelete
    <2>2. HolderOwnsKey'
        <3> SUFFICES ASSUME NEW d \in Clients, at'[d] = "in", d \notin lapsed'
                     PROVE  key' = d
            OBVIOUS
        <3>1. d # c /\ at[d] = "in" /\ d \notin lapsed
            BY <1>5 DEF Release
        <3> QED BY <1>5, <3>1 DEF Release, CompareAndDelete
    <2> QED BY <2>1, <2>2
<1>6. ASSUME NEW c \in Clients, Crash(c) PROVE LockInv'
    BY <1>6 DEF Crash
<1>7. ASSUME NEW c \in Clients, AcquireReplyLost(c) PROVE LockInv'
    BY <1>7 DEF AcquireReplyLost, SetNX
<1>8. CASE Expire
    BY <1>8 DEF Expire
<1>9. CASE UNCHANGED lockVars
    BY <1>9 DEF lockVars
<1> QED BY <1>1, <1>2, <1>3, <1>4, <1>5, <1>6, <1>7, <1>8, <1>9 DEF LockNext, LockStep

\* In every reachable state the lock has its type: a client that outlived its
\* lease is still inside, and forgets about it when it leaves.
THEOREM LockTypeCorrect == LockSpec => []LockTypeOK
<1>1. LockInv => LockTypeOK BY DEF LockInv
<1> QED BY LockInit_Inv, LockNext_Inv, <1>1, PTL DEF LockSpec

\* Two clients are inside together only if one has outlived its lease
\* (RedisLock.release compares tokens before it deletes).
THEOREM LockExcludes == LockSpec => []MutualExclusion
<1>1. LockInv => MutualExclusion BY DEF LockInv, HolderOwnsKey, MutualExclusion
<1> QED BY LockInit_Inv, LockNext_Inv, <1>1, PTL DEF LockSpec

-----------------------------------------------------------------------------
(* The type invariant of likes *)

Waiting == {"lock", "count", "uncount"}    \* between commit and MULTI

\* A request outside the with block has left the lock.
LockFollowsStep ==
    \A c \in Clients :
        /\ step[c] \in {"idle", "uncount"} => at[c] = "out"
        /\ step[c] = "lock" => at[c] = "trying"
        /\ step[c] = "count" => at[c] \in {"in", "out"}
        /\ step[c] = "release" => at[c] = "in"

LikesTypeInv == LikesTypeOK /\ LockInv /\ LockFollowsStep

-----------------------------------------------------------------------------
(* Every step is a step of the lock, or leaves it alone. *)

LEMMA LockStepOfLikes ==
    ASSUME [LikesNext]_likeVars
    PROVE  [LockNext]_lockVars
<1> SUFFICES ASSUME LikesNext PROVE [LockNext]_lockVars
    BY DEF likeVars
<1>1. ASSUME NEW c \in Clients, NEW u \in Users, LikeCommit(c, u) \/ UnlikeCommit(c, u)
      PROVE  [LockNext]_lockVars
    BY <1>1 DEF LikeCommit, UnlikeCommit, LockNext, LockStep
<1>2. ASSUME NEW c \in Clients, LikeLock(c) \/ LikeRelease(c)
      PROVE  [LockNext]_lockVars
    BY <1>2 DEF LikeLock, LikeRelease, LockNext, LockStep
<1>3. ASSUME NEW c \in Clients,
             LikeCount(c) \/ UnlikeCount(c)
      PROVE  [LockNext]_lockVars
    BY <1>3 DEF LikeCount, UnlikeCount
<1>4. ASSUME NEW c \in Clients, Abort(c) PROVE [LockNext]_lockVars
    BY <1>4 DEF Abort, LeaveLock, LockNext, LockStep
<1>5. CASE LockExpires \/ EvictCounter \/ EvictLikers
    BY <1>5 DEF LockExpires, EvictCounter, EvictLikers, LockNext
<1> QED BY <1>1, <1>2, <1>3, <1>4, <1>5 DEF LikesNext, LikeStep

\* Likes use the lock as its specification says (like_post and redis_lock).
THEOREM LikesUseLock == LikesSpec => LockSpec
<1>1. LikesInit => LockInit BY DEF LikesInit
<1> QED BY <1>1, LockStepOfLikes, PTL DEF LikesSpec, LockSpec

\* So two likes are inside the with block together only if one has outlived its
\* two seconds or goes on without the lock.
THEOREM LikesExclude == LikesSpec => []MutualExclusion
BY LikesUseLock, LockExcludes, PTL

-----------------------------------------------------------------------------
LEMMA LikesInit_Type == LikesInit => LikesTypeInv
<1> SUFFICES ASSUME LikesInit PROVE LikesTypeInv
    OBVIOUS
<1>1. LockInv
    BY LockInit_Inv DEF LikesInit
<1>2. \A c \in Clients : at[c] = "out" /\ step[c] = "idle"
    BY DEF LikesInit, LockInit
<1>3. LikesTypeOK
    <2>1. LockTypeOK
        BY <1>1 DEF LockInv
    <2>2. /\ liked = {} /\ likers = {} /\ overlapped = {} /\ cut = {} /\ unlisted = {}
          /\ count = 0 /\ dropped = 0 /\ forgotten = 0
          /\ likes = 0 /\ unlikes = 0 /\ aborts = 0 /\ evictions = 0
          /\ step = [c \in Clients |-> "idle"] /\ who = [c \in Clients |-> NoUser]
        BY DEF LikesInit
    <2> QED BY <1>2, <2>1, <2>2, LikesAssumption DEF LikesTypeOK
<1>4. LockFollowsStep
    BY <1>2 DEF LockFollowsStep
<1> QED BY <1>1, <1>3, <1>4 DEF LikesTypeInv

LEMMA LikesNext_Type ==
    ASSUME LikesTypeInv, [LikesNext]_likeVars
    PROVE  LikesTypeInv'
<1>0. LockInv' /\ LockTypeOK'
    BY LockStepOfLikes, LockNext_Inv DEF LikesTypeInv, LockInv
<1>t. /\ at \in [Clients -> {"out", "trying", "sleeping", "in"}]
      /\ key \in Clients \union {NoToken}
    BY DEF LikesTypeInv, LockInv, LockTypeOK
<1> DEFINE Types == LikesTypeOK /\ LockFollowsStep
<1> USE LikesAssumption, <1>0, <1>t
    DEF LikesTypeInv, LikesTypeOK, LockFollowsStep, GoTo, Done, history
<1>1. ASSUME NEW c \in Clients, NEW u \in Users, LikeCommit(c, u) PROVE Types'
    BY <1>1 DEF LikeCommit, StartRequest, Request
<1>2. ASSUME NEW c \in Clients, NEW u \in Users, UnlikeCommit(c, u) PROVE Types'
    BY <1>2 DEF UnlikeCommit, StartRequest, lockVars
<1>3. ASSUME NEW c \in Clients, LikeLock(c) PROVE Types'
    BY <1>3 DEF LikeLock, Acquire, Refused, post, likeBounds
<1>4. ASSUME NEW c \in Clients, LikeCount(c) PROVE Types'
    BY <1>4 DEF LikeCount, LeaveBlock, lockVars, likeBounds
<1>5. ASSUME NEW c \in Clients, LikeRelease(c) PROVE Types'
    BY <1>5 DEF LikeRelease, Release, post, likeBounds
<1>6. ASSUME NEW c \in Clients, UnlikeCount(c) PROVE Types'
    BY <1>6 DEF UnlikeCount, lockVars, likeBounds
<1>7. ASSUME NEW c \in Clients, Abort(c) PROVE Types'
    <2>1. at' = [at EXCEPT ![c] = "out"]
        BY <1>7 DEF Abort, LeaveLock, Release, Crash, AcquireReplyLost, lockVars
    <2> QED BY <1>7, <2>1 DEF Abort, post
<1>8. ASSUME LockExpires PROVE Types'
    BY <1>8 DEF LockExpires, Expire, post, request, likeBounds
<1>9. ASSUME EvictCounter \/ EvictLikers PROVE Types'
    BY <1>9 DEF EvictCounter, EvictLikers, lockVars, request
<1>10. ASSUME UNCHANGED likeVars PROVE Types'
    BY <1>10 DEF likeVars, lockVars, post, request, likeBounds
<1> HIDE DEF LikesTypeInv, LikesTypeOK, LockFollowsStep
<1>11. Types'
    BY <1>1, <1>2, <1>3, <1>4, <1>5, <1>6, <1>7, <1>8, <1>9, <1>10
    DEF LikesNext, LikeStep
<1> QED BY <1>11 DEF LikesTypeInv

\* In every reachable state the table, the counter, the set and the requests have
\* their types; a client is inside the lock only around its counter block.
THEOREM LikesTypeCorrect == LikesSpec => []LikesTypeOK
<1>1. LikesTypeInv => LikesTypeOK BY DEF LikesTypeInv
<1> QED BY LikesInit_Type, LikesNext_Type, <1>1, PTL DEF LikesSpec

-----------------------------------------------------------------------------
(* The set of likers *)

\* A request on its way to Redis agrees with the table, unless another request
\* of its user has committed since.
RequestsAgree ==
    \A c \in Clients :
        who[c] \notin overlapped =>
            /\ step[c] \in {"lock", "count"} => who[c] \in liked
            /\ step[c] = "uncount" => who[c] \notin liked

LikersInv == LikesTypeInv /\ RequestsAgree /\ LikersExact

LEMMA LikesInit_Likers == LikesInit => LikersInv
<1>1. LikesInit => RequestsAgree /\ LikersExact
    BY DEF LikesInit, RequestsAgree, LikersExact
<1> QED BY <1>1, LikesInit_Type DEF LikersInv

LEMMA LikesNext_Likers ==
    ASSUME LikersInv, [LikesNext]_likeVars
    PROVE  LikersInv'
<1>0. LikesTypeInv'
    BY LikesNext_Type DEF LikersInv
<1>t. /\ DOMAIN step = Clients /\ DOMAIN who = Clients /\ NoUser \notin Users
      /\ \A c \in Clients : step[c] = "idle" <=> who[c] = NoUser
      /\ \A c \in Clients : who[c] \in Users \union {NoUser}
      /\ RequestsAgree /\ LikersExact
    BY LikesAssumption DEF LikersInv, LikesTypeInv, LikesTypeOK
<1> DEFINE Agreement == RequestsAgree /\ LikersExact
<1> USE <1>t DEF RequestsAgree, LikersExact, InFlight, GoTo, Done
<1>1. ASSUME NEW c \in Clients, NEW u \in Users, LikeCommit(c, u) PROVE Agreement'
    <2>1. /\ step[c] = "idle" /\ u \notin liked /\ liked' = liked \union {u}
          /\ overlapped' = overlapped \union {v \in {u} : InFlight(v)}
          /\ step' = [step EXCEPT ![c] = "lock"] /\ who' = [who EXCEPT ![c] = u]
          /\ UNCHANGED <<likers, cut, unlisted>>
        BY <1>1 DEF LikeCommit, StartRequest
    <2> QED BY <2>1
<1>2. ASSUME NEW c \in Clients, NEW u \in Users, UnlikeCommit(c, u) PROVE Agreement'
    <2>1. /\ step[c] = "idle" /\ u \in liked /\ liked' = liked \ {u}
          /\ overlapped' = overlapped \union {v \in {u} : InFlight(v)}
          /\ step' = [step EXCEPT ![c] = "uncount"] /\ who' = [who EXCEPT ![c] = u]
          /\ UNCHANGED <<likers, cut, unlisted>>
        BY <1>2 DEF UnlikeCommit, StartRequest
    <2> QED BY <2>1
<1>3. ASSUME NEW c \in Clients, LikeCount(c) PROVE Agreement'
    <2>1. /\ step[c] = "count" /\ likers' = likers \union {who[c]}
          /\ unlisted' = unlisted \ {who[c]}
          /\ step'[c] \in {"release", "idle"}
          /\ \A d \in Clients \ {c} : step'[d] = step[d] /\ who'[d] = who[d]
          /\ UNCHANGED <<liked, overlapped, cut>>
        BY <1>3 DEF LikeCount, LeaveBlock
    <2> QED BY <2>1
<1>4. ASSUME NEW c \in Clients, UnlikeCount(c) PROVE Agreement'
    BY <1>4 DEF UnlikeCount
\* Steps that leave the table, the set and who is in flight alone.
<1>5. ASSUME UNCHANGED <<liked, likers, overlapped, cut, unlisted>>,
             \A d \in Clients :
                \/ step'[d] = step[d] /\ who'[d] = who[d]
                \/ /\ step[d] \notin Waiting /\ step'[d] \notin Waiting
                \/ step[d] = "lock" /\ step'[d] = "count" /\ who'[d] = who[d]
      PROVE  Agreement'
    BY <1>5 DEF Waiting
<1>6. ASSUME NEW c \in Clients, LikeLock(c) PROVE Agreement'
    BY <1>5, <1>6 DEF LikeLock, post, history
<1>7. ASSUME NEW c \in Clients, LikeRelease(c) PROVE Agreement'
    BY <1>5, <1>7 DEF LikeRelease, post, history, Waiting
<1>8. ASSUME NEW c \in Clients, Abort(c) PROVE Agreement'
    <2>1. /\ step' = [step EXCEPT ![c] = "idle"] /\ who' = [who EXCEPT ![c] = NoUser]
          /\ cut \subseteq cut'
          /\ step[c] \in Waiting => who[c] \in cut'
          /\ UNCHANGED <<liked, likers, overlapped, unlisted>>
        BY <1>8 DEF Abort, post, Waiting
    <2> QED BY <2>1 DEF Waiting
<1>9. ASSUME LockExpires \/ EvictCounter \/ UNCHANGED likeVars PROVE Agreement'
    <2>1. UNCHANGED <<liked, likers, overlapped, cut, unlisted, step, who>>
        BY <1>9 DEF LockExpires, EvictCounter, likeVars, post, request, history
    <2> QED BY <1>5, <2>1
\* An eviction takes those in the set off both sides.
<1>10. ASSUME EvictLikers PROVE Agreement'
    <2>1. /\ likers' = {} /\ unlisted' = unlisted \union likers
          /\ UNCHANGED <<liked, overlapped, cut, step, who>>
        BY <1>10 DEF EvictLikers, request
    <2> QED BY <2>1
<1> HIDE DEF Agreement
<1>11. Agreement'
    BY <1>1, <1>2, <1>3, <1>4, <1>6, <1>7, <1>8, <1>9, <1>10 DEF LikesNext, LikeStep
<1> QED BY <1>0, <1>11 DEF LikersInv, Agreement

\* Users who never had two requests at once nor one cut off are in the set of
\* likers exactly if they have a row, but for a request on its way and for those
\* the set held when Redis evicted it, whom nothing puts back.
THEOREM LikersAreExact == LikesSpec => []LikersExact
<1>1. LikersInv => LikersExact BY DEF LikersInv
<1> QED BY LikesInit_Likers, LikesNext_Likers, <1>1, PTL DEF LikesSpec

-----------------------------------------------------------------------------
(* The counter *)

Bit(b) == IF b THEN 1 ELSE 0

\* Clients at one of the steps S, of which c alone moves.
LEMMA OneClientMoves ==
    ASSUME LikesTypeInv, NEW c \in Clients, \A d \in Clients \ {c} : step'[d] = step[d],
           NEW S
    PROVE  LET now == {d \in Clients : step[d] \in S}
               next == {d \in Clients : step'[d] \in S}
           IN  /\ Cardinality(now) \in Int /\ Cardinality(next) \in Int
               /\ Cardinality(next)
                    = Cardinality(now) + Bit(step'[c] \in S) - Bit(step[c] \in S)
<1> DEFINE now == {d \in Clients : step[d] \in S}
           next == {d \in Clients : step'[d] \in S}
           others == {d \in Clients \ {c} : step[d] \in S}
<1>1. IsFiniteSet(now) /\ IsFiniteSet(next) /\ IsFiniteSet(others)
    <2>1. IsFiniteSet(Clients) /\ now \subseteq Clients /\ next \subseteq Clients
          /\ others \subseteq Clients
        BY LikesAssumption
    <2> HIDE DEF now, next, others
    <2> QED BY <2>1, FS_Subset
<1>2. c \notin others
    OBVIOUS
<1>3. now = IF step[c] \in S THEN others \union {c} ELSE others
    OBVIOUS
<1>4. next = IF step'[c] \in S THEN others \union {c} ELSE others
    OBVIOUS
<1> HIDE DEF now, next, others
<1>5. Cardinality(others) \in Nat /\ Cardinality(others \union {c}) = Cardinality(others) + 1
    BY <1>1, <1>2, FS_AddElement, FS_CardinalityType
<1>6. Cardinality(now) = Cardinality(others) + Bit(step[c] \in S)
    BY <1>3, <1>5 DEF Bit
<1>7. Cardinality(next) = Cardinality(others) + Bit(step'[c] \in S)
    BY <1>4, <1>5 DEF Bit
<1>8. /\ Cardinality(now) \in Int /\ Cardinality(next) \in Int
      /\ Cardinality(next) = Cardinality(now) + Bit(step'[c] \in S) - Bit(step[c] \in S)
    BY <1>5, <1>6, <1>7 DEF Bit
<1> QED BY <1>8 DEF now, next

\* Likes that have not reached the counter yet, and unlikes.
Likes == {c \in Clients : step[c] \in {"lock", "count"}}
Unlikes == {c \in Clients : step[c] \in {"uncount"}}
Owed == Cardinality(Likes) - Cardinality(Unlikes)

LEMMA OwedMoves ==
    ASSUME LikesTypeInv, NEW c \in Clients, \A d \in Clients \ {c} : step'[d] = step[d]
    PROVE  /\ Owed \in Int /\ Owed' \in Int
           /\ Owed' = Owed
                + Bit(step'[c] \in {"lock", "count"}) - Bit(step[c] \in {"lock", "count"})
                - Bit(step'[c] = "uncount") + Bit(step[c] = "uncount")
<1>1. Bit(step'[c] \in {"uncount"}) = Bit(step'[c] = "uncount")
      /\ Bit(step[c] \in {"uncount"}) = Bit(step[c] = "uncount")
    BY DEF Bit
<1>2. /\ Cardinality(Likes) \in Int /\ Cardinality(Likes') \in Int
      /\ Cardinality(Likes') = Cardinality(Likes)
            + Bit(step'[c] \in {"lock", "count"}) - Bit(step[c] \in {"lock", "count"})
    BY OneClientMoves DEF Likes
<1>3. /\ Cardinality(Unlikes) \in Int /\ Cardinality(Unlikes') \in Int
      /\ Cardinality(Unlikes') = Cardinality(Unlikes)
            + Bit(step'[c] \in {"uncount"}) - Bit(step[c] \in {"uncount"})
    BY OneClientMoves DEF Unlikes
<1> QED BY <1>1, <1>2, <1>3 DEF Owed, Bit

LEMMA OwedIsInt ==
    /\ Owed \in Int /\ Owed' \in Int
    /\ Cardinality(Likes) \in Int /\ Cardinality(Unlikes) \in Int
    /\ Cardinality(Likes)' \in Int /\ Cardinality(Unlikes)' \in Int
<1>1. /\ Likes \subseteq Clients /\ Unlikes \subseteq Clients
      /\ Likes' \subseteq Clients /\ Unlikes' \subseteq Clients
    BY DEF Likes, Unlikes
<1>2. /\ IsFiniteSet(Likes) /\ IsFiniteSet(Unlikes)
      /\ IsFiniteSet(Likes') /\ IsFiniteSet(Unlikes')
    BY <1>1, FS_Subset, LikesAssumption
<1>3. /\ Cardinality(Likes) \in Nat /\ Cardinality(Unlikes) \in Nat
      /\ Cardinality(Likes') \in Nat /\ Cardinality(Unlikes') \in Nat
    BY <1>2, FS_CardinalityType
<1> QED BY <1>3 DEF Owed

\* What the counter holds, and what it lost to evictions and cut-off requests.
Known == count + forgotten + dropped

LEMMA ExactByOwed ==
    ASSUME LikesTypeInv, LikesTypeInv'
    PROVE  /\ LikeCountExact <=> Known + Owed = Cardinality(liked)
           /\ LikeCountExact' <=> Known' + Owed' = Cardinality(liked')
<1>1. /\ Known \in Int /\ Known' \in Int
      /\ Known = count + forgotten + dropped /\ Known' = count' + forgotten' + dropped'
    BY DEF LikesTypeInv, LikesTypeOK, Known
<1>2. {c \in Clients : step[c] = "uncount"} = Unlikes
      /\ {c \in Clients : step'[c] = "uncount"} = Unlikes'
    BY DEF Unlikes
<1>3. /\ LikeCountExact <=>
            Known + Cardinality(Likes) - Cardinality(Unlikes) = Cardinality(liked)
      /\ LikeCountExact' <=>
            Known' + Cardinality(Likes') - Cardinality(Unlikes') = Cardinality(liked')
    BY <1>1, <1>2 DEF LikeCountExact, Likes
<1> QED BY <1>1, <1>3, OwedIsInt DEF Owed

CountInv == LikesTypeInv /\ LikeCountExact

LEMMA LikesInit_Count == LikesInit => CountInv
<1> SUFFICES ASSUME LikesInit PROVE CountInv
    OBVIOUS
<1>1. /\ {c \in Clients : step[c] \in {"lock", "count"}} = {}
      /\ {c \in Clients : step[c] = "uncount"} = {}
    BY DEF LikesInit
<1>2. count = 0 /\ dropped = 0 /\ forgotten = 0 /\ liked = {}
    BY DEF LikesInit
<1>3. LikeCountExact
    BY <1>1, <1>2, FS_EmptySet DEF LikeCountExact
<1> QED BY <1>3, LikesInit_Type DEF CountInv

\* A commit owes the counter what its MULTI block pays; being cut off writes the
\* debt down as dropped.
LEMMA LikesNext_Count ==
    ASSUME CountInv, [LikesNext]_likeVars
    PROVE  CountInv'
<1>0. LikesTypeInv /\ LikesTypeInv' /\ LikeCountExact
    BY LikesNext_Type DEF CountInv
<1>t. /\ Known \in Int /\ DOMAIN step = Clients
      /\ count \in Int /\ forgotten \in Int /\ dropped \in Int
      /\ liked \subseteq Users /\ IsFiniteSet(liked)
    BY <1>0, LikesAssumption, FS_Subset DEF LikesTypeInv, LikesTypeOK, Known
<1>rows. Cardinality(liked) \in Int
    BY <1>t, FS_CardinalityType
<1>exact. Known + Owed = Cardinality(liked)
    BY <1>0, ExactByOwed
<1>1. ASSUME NEW c \in Clients, NEW u \in Users, LikeCommit(c, u) PROVE LikeCountExact'
    <2>1. /\ step[c] = "idle" /\ step' = [step EXCEPT ![c] = "lock"]
          /\ u \notin liked /\ liked' = liked \union {u} /\ UNCHANGED Known
        BY <1>1 DEF LikeCommit, StartRequest, GoTo, Known
    <2>2. Owed' = Owed + 1 /\ Owed \in Int
        BY <1>0, <1>t, <2>1, OwedMoves DEF Bit
    <2>3. Cardinality(liked') = Cardinality(liked) + 1
        BY <1>t, <2>1, FS_AddElement
    <2> QED BY <1>0, <1>t, <1>rows, <1>exact, <2>1, <2>2, <2>3, ExactByOwed
<1>2. ASSUME NEW c \in Clients, NEW u \in Users, UnlikeCommit(c, u) PROVE LikeCountExact'
    <2>1. /\ step[c] = "idle" /\ step' = [step EXCEPT ![c] = "uncount"]
          /\ u \in liked /\ liked' = liked \ {u} /\ UNCHANGED Known
        BY <1>2 DEF UnlikeCommit, StartRequest, GoTo, Known
    <2>2. Owed' = Owed - 1 /\ Owed \in Int
        BY <1>0, <1>t, <2>1, OwedMoves DEF Bit
    <2>3. Cardinality(liked') = Cardinality(liked) - 1
        BY <1>t, <2>1, FS_RemoveElement
    <2> QED BY <1>0, <1>t, <1>rows, <1>exact, <2>1, <2>2, <2>3, ExactByOwed
<1>3. ASSUME NEW c \in Clients, LikeCount(c) PROVE LikeCountExact'
    <2>1. /\ step[c] = "count" /\ step'[c] \in {"release", "idle"}
          /\ \A d \in Clients \ {c} : step'[d] = step[d]
          /\ Known' = Known + 1 /\ UNCHANGED liked
        BY <1>3, <1>t DEF LikeCount, LeaveBlock, Done, GoTo, Known
    <2>2. Owed' = Owed - 1 /\ Owed \in Int
        BY <1>0, <2>1, OwedMoves DEF Bit
    <2> QED BY <1>0, <1>t, <1>rows, <1>exact, <2>1, <2>2, ExactByOwed
<1>4. ASSUME NEW c \in Clients, UnlikeCount(c) PROVE LikeCountExact'
    <2>1. /\ step[c] = "uncount" /\ step' = [step EXCEPT ![c] = "idle"]
          /\ Known' = Known - 1 /\ UNCHANGED liked
        BY <1>4, <1>t DEF UnlikeCount, Done, GoTo, Known
    <2>2. Owed' = Owed + 1 /\ Owed \in Int
        BY <1>0, <1>t, <2>1, OwedMoves DEF Bit
    <2> QED BY <1>0, <1>t, <1>rows, <1>exact, <2>1, <2>2, ExactByOwed
<1>5. ASSUME NEW c \in Clients, Abort(c) PROVE LikeCountExact'
    <2>1. /\ step' = [step EXCEPT ![c] = "idle"] /\ UNCHANGED liked
          /\ Known' = Known + Bit(step[c] \in {"lock", "count"}) - Bit(step[c] = "uncount")
        BY <1>5, <1>t DEF Abort, Done, GoTo, post, Bit, Known
    <2>2. /\ Owed' = Owed - Bit(step[c] \in {"lock", "count"}) + Bit(step[c] = "uncount")
          /\ Owed \in Int
        BY <1>0, <1>t, <2>1, OwedMoves DEF Bit
    <2> QED BY <1>0, <1>t, <1>rows, <1>exact, <2>1, <2>2, ExactByOwed DEF Bit
<1>6. ASSUME UNCHANGED <<liked, Known>>, NEW c \in Clients,
             \A d \in Clients \ {c} : step'[d] = step[d],
             \/ step[c] = "lock" /\ step'[c] = "count"
             \/ step[c] \notin Waiting /\ step'[c] \notin Waiting
      PROVE  LikeCountExact'
    <2>1. Owed' = Owed /\ Owed \in Int
        BY <1>0, <1>6, OwedMoves DEF Bit, Waiting
    <2> QED BY <1>0, <1>exact, <1>6, <2>1, ExactByOwed
<1>7. ASSUME NEW c \in Clients, LikeLock(c) PROVE LikeCountExact'
    BY <1>6, <1>7, <1>t DEF LikeLock, GoTo, post, history, Known
<1>8. ASSUME NEW c \in Clients, LikeRelease(c) PROVE LikeCountExact'
    BY <1>6, <1>8, <1>t DEF LikeRelease, Done, GoTo, post, history, Waiting, Known
\* An eviction moves what the counter held into forgotten.
<1>9. ASSUME LockExpires \/ EvictCounter \/ EvictLikers \/ UNCHANGED likeVars
      PROVE  LikeCountExact'
    <2>1. UNCHANGED <<liked, Known, step>>
        BY <1>9, <1>t
        DEF LockExpires, EvictCounter, EvictLikers, likeVars, post, request, history, Known
    <2>2. UNCHANGED Owed
        BY <2>1 DEF Owed, Likes, Unlikes
    <2> QED BY <1>0, <1>exact, <2>1, <2>2, ExactByOwed
<1>10. LikeCountExact'
    BY <1>1, <1>2, <1>3, <1>4, <1>5, <1>7, <1>8, <1>9 DEF LikesNext, LikeStep
<1> QED BY <1>0, <1>10 DEF CountInv

\* The counter equals the rows of the table but for requests on their way, those
\* cut off, and what it held whenever Redis evicted it, with or without the lock
\* (like_post, unlike_post).
THEOREM LikeCountIsExact == LikesSpec => []LikeCountExact
<1>1. CountInv => LikeCountExact BY DEF CountInv
<1> QED BY LikesInit_Count, LikesNext_Count, <1>1, PTL DEF LikesSpec
=============================================================================
