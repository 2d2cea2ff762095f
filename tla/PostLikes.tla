----------------------------- MODULE PostLikes -----------------------------
(***************************************************************************)
(* Liking and unliking one post (post_service.py).  A like is kept in      *)
(* PostgreSQL, in the Redis counter counter:post:*:likes and in the set of *)
(* likers social:post_likers:*.  Redis may evict either key at any time,   *)
(* and nothing rebuilds them: bootstrap_post_counter has no caller.        *)
(*                                                                         *)
(* What a like does after its counters, the trending score and the         *)
(* notification, changes none of these and is left out.                    *)
(***************************************************************************)
EXTENDS RedisLock, FiniteSets

CONSTANTS
    Users,
    MaxLikes,       \* bound: likes that reach PostgreSQL
    MaxUnlikes,     \* bound: unlikes that delete a row
    MaxAborts,      \* bound: requests that end between two awaits
    MaxEvictions    \* bound: evictions of the counter or of the likers set

NoUser == "none"

ASSUME LikesAssumption ==
    /\ WaitMs = 0       \* like_post takes the lock at once or not at all
    /\ IsFiniteSet(Users) /\ IsFiniteSet(Clients) /\ NoUser \notin Users
    /\ MaxLikes \in Nat /\ MaxUnlikes \in Nat /\ MaxAborts \in Nat
    /\ MaxEvictions \in Nat

VARIABLES
    liked,      \* PostgreSQL: users with a row in likes
    count,      \* counter:post:*:likes, read as 0 when there is none
    likers,     \* social:post_likers:*
    step, who,  \* what a request does next, and for which user
    overlapped, \* history: users with two requests before MULTI at once
    cut,        \* history: users with a request cut off before MULTI
    dropped,    \* history: likes less unlikes that were cut off before MULTI
    forgotten,  \* history: what the counter held whenever it was evicted
    unlisted,   \* history: users evicted with the set, and not back in it
    likes, unlikes, aborts, evictions

post == <<liked, count, likers>>
request == <<step, who>>
history == <<overlapped, cut, dropped, forgotten, unlisted>>
likeBounds == <<likes, unlikes, aborts, evictions>>
likeVars == <<lockVars, post, request, history, likeBounds>>

-----------------------------------------------------------------------------
(* Helpers *)

GoTo(c, s) == step' = [step EXCEPT ![c] = s]
Done(c) ==
    /\ GoTo(c, "idle")
    /\ who' = [who EXCEPT ![c] = NoUser]

\* Some request of u is between its commit and its MULTI block.
InFlight(u) == \E c \in Clients : who[c] = u /\ step[c] \in {"lock", "count", "uncount"}

\* A request that changes the row of u begins, perhaps next to another of u.
StartRequest(c, u) ==
    /\ step[c] = "idle"
    /\ overlapped' = overlapped \union {v \in {u} : InFlight(v)}

-----------------------------------------------------------------------------
(* post_service.like_post *)

\* INSERT and commit; a second like ends with an IntegrityError and changes
\* nothing.  The request turns to the lock, whose wait_ms is 0.
LikeCommit(c, u) ==
    /\ StartRequest(c, u)
    /\ u \notin liked
    /\ likes < MaxLikes
    /\ likes' = likes + 1
    /\ liked' = liked \union {u}
    /\ GoTo(c, "lock")
    /\ who' = [who EXCEPT ![c] = u]
    /\ Request(c)
    /\ UNCHANGED <<count, likers, cut, dropped, forgotten, unlisted,
                   unlikes, aborts, evictions>>

\* What if a like waited until the lock is granted?
LikeLockWaits(c) ==
    /\ step[c] = "lock"
    /\ Acquire(c)
    /\ GoTo(c, "count")
    /\ UNCHANGED <<post, who, history, likeBounds>>

\* With or without the lock, the request goes on to the counters.
LikeLock(c) ==
    /\ step[c] = "lock"
    /\ Acquire(c) \/ Refused(c)
    /\ GoTo(c, "count")
    /\ UNCHANGED <<post, who, history, likeBounds>>

\* The with block ends, or was never entered.
LeaveBlock(c) ==
    IF at[c] = "in" THEN GoTo(c, "release") /\ UNCHANGED who ELSE Done(c)

\* What if a request that is refused the lock skipped the counters?
LikeCountIfLocked(c) ==
    /\ step[c] = "count"
    /\ count' = count + (IF at[c] = "in" THEN 1 ELSE 0)
    /\ likers' = likers \union (IF at[c] = "in" THEN {who[c]} ELSE {})
    /\ LeaveBlock(c)
    /\ UNCHANGED <<lockVars, liked, history, likeBounds>>

\* What if the likers set were left alone?
LikeCountNoLiker(c) ==
    /\ step[c] = "count"
    /\ count' = count + 1
    /\ LeaveBlock(c)
    /\ UNCHANGED <<lockVars, liked, likers, history, likeBounds>>

\* MULTI: INCR and SADD.
LikeCount(c) ==
    /\ step[c] = "count"
    /\ count' = count + 1
    /\ likers' = likers \union {who[c]}
    /\ unlisted' = unlisted \ {who[c]}
    /\ LeaveBlock(c)
    /\ UNCHANGED <<lockVars, liked, overlapped, cut, dropped, forgotten, likeBounds>>

\* What if the with block ended without a release?
LikeReleaseNothing(c) ==
    /\ step[c] = "release"
    /\ Done(c)
    /\ UNCHANGED <<lockVars, post, history, likeBounds>>

\* The with block ends: the lock is released, before trending is touched.
LikeRelease(c) ==
    /\ step[c] = "release"
    /\ Release(c)
    /\ Done(c)
    /\ UNCHANGED <<post, history, likeBounds>>

-----------------------------------------------------------------------------
(* post_service.unlike_post *)

\* DELETE and commit.  No row deleted: the request ends here.
UnlikeCommit(c, u) ==
    /\ StartRequest(c, u)
    /\ u \in liked
    /\ unlikes < MaxUnlikes
    /\ unlikes' = unlikes + 1
    /\ liked' = liked \ {u}
    /\ GoTo(c, "uncount")
    /\ who' = [who EXCEPT ![c] = u]
    /\ UNCHANGED <<lockVars, count, likers, cut, dropped, forgotten, unlisted,
                   likes, aborts, evictions>>

\* MULTI: DECR and SREM, without the lock.
UnlikeCount(c) ==
    /\ step[c] = "uncount"
    /\ count' = count - 1
    /\ likers' = likers \ {who[c]}
    /\ unlisted' = unlisted \ {who[c]}
    /\ Done(c)
    /\ UNCHANGED <<lockVars, liked, overlapped, cut, dropped, forgotten, likeBounds>>

-----------------------------------------------------------------------------
\* The request raises, or its process dies, between two awaits.  A request that
\* raises inside the with block releases the lock; one whose SET got no reply
\* may leave the key behind.
LeaveLock(c) ==
    IF at[c] = "out" THEN UNCHANGED lockVars
                     ELSE Release(c) \/ Crash(c) \/ AcquireReplyLost(c)
Abort(c) ==
    /\ step[c] # "idle"
    /\ aborts < MaxAborts
    /\ aborts' = aborts + 1
    /\ LeaveLock(c)
    /\ cut' = cut \union {u \in {who[c]} : step[c] \in {"lock", "count", "uncount"}}
    /\ dropped' = dropped + (IF step[c] \in {"lock", "count"} THEN 1 ELSE 0)
                          - (IF step[c] = "uncount" THEN 1 ELSE 0)
    /\ Done(c)
    /\ UNCHANGED <<post, overlapped, forgotten, unlisted, likes, unlikes, evictions>>

\* The two seconds of the lock run out, or Redis evicts its key.
LockExpires ==
    /\ Expire
    /\ UNCHANGED <<post, request, history, likeBounds>>

\* maxmemory-policy allkeys-lru evicts a key of an old post.
EvictCounter ==
    /\ evictions < MaxEvictions
    /\ evictions' = evictions + 1
    /\ count' = 0
    /\ forgotten' = forgotten + count
    /\ UNCHANGED <<lockVars, liked, likers, request, overlapped, cut, dropped,
                   unlisted, likes, unlikes, aborts>>

EvictLikers ==
    /\ evictions < MaxEvictions
    /\ evictions' = evictions + 1
    /\ likers' = {}
    /\ unlisted' = unlisted \union likers
    /\ UNCHANGED <<lockVars, liked, count, request, overlapped, cut, dropped,
                   forgotten, likes, unlikes, aborts>>

-----------------------------------------------------------------------------
LikesInit ==
    /\ LockInit
    /\ liked = {} /\ count = 0 /\ likers = {}
    /\ step = [c \in Clients |-> "idle"]
    /\ who = [c \in Clients |-> NoUser]
    /\ overlapped = {} /\ cut = {} /\ unlisted = {}
    /\ dropped = 0 /\ forgotten = 0
    /\ likes = 0 /\ unlikes = 0 /\ aborts = 0 /\ evictions = 0

\* The rest of a request that has committed.
LikeStep(c) == LikeLock(c) \/ LikeCount(c) \/ LikeRelease(c) \/ UnlikeCount(c)

LikesNext ==
    \/ \E c \in Clients :
        \/ \E u \in Users : LikeCommit(c, u) \/ UnlikeCommit(c, u)
        \/ LikeStep(c) \/ Abort(c)
    \/ LockExpires \/ EvictCounter \/ EvictLikers

LikesSpec == LikesInit /\ [][LikesNext]_likeVars

\* The event loop runs every request on.  Nothing is assumed of the lease: a
\* dead holder's key may stay for as long as it likes.
FairLikesSpec == LikesSpec /\ \A c \in Clients : WF_likeVars(LikeStep(c))

-----------------------------------------------------------------------------
(* Properties *)

LikesTypeOK ==
    /\ LockTypeOK
    /\ liked \subseteq Users /\ likers \subseteq Users /\ count \in Int
    /\ step \in [Clients -> {"idle", "lock", "count", "release", "uncount"}]
    /\ who \in [Clients -> Users \union {NoUser}]
    /\ \A c \in Clients : step[c] = "idle" <=> who[c] = NoUser
    /\ \A c \in Clients : at[c] = "in" => step[c] \in {"count", "release"}
    /\ overlapped \subseteq Users /\ cut \subseteq Users /\ unlisted \subseteq Users
    /\ dropped \in Int /\ forgotten \in Int
    /\ likes \in 0..MaxLikes /\ unlikes \in 0..MaxUnlikes
    /\ aborts \in 0..MaxAborts /\ evictions \in 0..MaxEvictions

\* The counter is off the rows of PostgreSQL by the requests between commit and
\* MULTI, those cut off there, and what it held whenever it was evicted (the
\* next INCR starts at 1, and nothing ever corrects it), and by nothing else,
\* even when the lock is refused, its lease runs out, or a client inside it
\* dies: no like is counted twice, and an eviction costs no later like.
LikeCountExact ==
    count + forgotten + dropped
          + Cardinality({c \in Clients : step[c] \in {"lock", "count"}})
          - Cardinality({c \in Clients : step[c] = "uncount"})
        = Cardinality(liked)

\* The set of likers is the table, for users who never had two requests at once
\* nor one cut off, but for those it held when it was evicted: they are missing
\* for ever, or until they unlike and like again.
LikersExact ==
    \A u \in Users \ (overlapped \union cut) :
        InFlight(u) \/ (u \in likers <=> u \in liked \ unlisted)

\* Every like and unlike that has committed ends, behind a lock that others
\* hold, that a client died with or whose SET got no reply, even if its lease
\* never ran out: a like that is refused goes on without the lock.
EveryLikeEnds ==
    \A c \in Clients : step[c] # "idle" ~> step[c] = "idle"
=============================================================================
