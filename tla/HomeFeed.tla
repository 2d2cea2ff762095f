------------------------------ MODULE HomeFeed ------------------------------
(***************************************************************************)
(* The materialised home feeds: create_post, the fan-out job, the backfill *)
(* job of a new follow (feed_service.py, workers/fanout_worker.py), on top *)
(* of the follow graph of SocialGraph, with all its writers: the counter   *)
(* backfill, which here also restores feed:user (user_service.py), and the *)
(* evictions of Redis.                                                     *)
(*                                                                         *)
(* Posts are numbered in creation order, which is also the order of their  *)
(* scores.  Jobs follow the contract of JobDelivery: an outstanding job    *)
(* may be run any number of times, by several workers at once and in any   *)
(* order, until one of its runs is acknowledged.                           *)
(***************************************************************************)
EXTENDS SocialGraph

CONSTANTS
    Authors,        \* users who post
    FeedMax,        \* feed_max_size (1000 in the code)
    BackfillLimit,  \* posts copied on a follow (50 in the code)
    Threshold,      \* celebrity_follower_threshold (10000 in the code)
    MaxPosts,       \* bound: posts created
    MaxCrashes,     \* bound: handler exceptions and crashes of fan-out workers
    MaxFeedEvictions,   \* bound: feed:home and feed:user keys evicted
    MaxMishaps      \* bound: all of profile views, aborts, crashes, evictions

ASSUME FeedAssumption ==
    /\ Authors \subseteq Users /\ IsFiniteSet(Workers)
    /\ FeedMax \in Nat \ {0} /\ BackfillLimit \in Nat \ {0}
    /\ Threshold \in Nat
    /\ MaxPosts \in Nat /\ MaxCrashes \in Nat
    /\ MaxFeedEvictions \in Nat /\ MaxMishaps \in Nat

VARIABLES
    posts,      \* PostgreSQL: <<post, author>> rows
    userPosts,  \* feed:user:{u}, as the set of its posts
    home,       \* feed:home:{u}
    jobs,       \* outstanding fan-out and backfill jobs
    lastJob,    \* id of the newest job
    skipped,    \* history: posts not fanned out, their author being a celebrity
    draft,      \* draft[c]: the post client c is creating, 0 if none
    job,        \* job[w]: the job worker w is running
    copied,     \* copied[w]: the posts a backfill read
    rebuild,    \* rebuild[c]: what a profile view does about feed:user
    crashes, feedEvictions

feeds == <<posts, userPosts, home>>
queue == <<jobs, lastJob>>
running == <<draft, job, copied, rebuild>>
feedBounds == <<crashes, feedEvictions>>
feedVars == <<graphVars, feeds, queue, skipped, running, feedBounds>>

PostIds == 1..MaxPosts
NoPost == 0
NoJob == [type |-> "none"]
NoRebuild == [at |-> "exists", posts |-> {}]

JobType ==
    [type : {"fanout_post"}, id : Nat, post : PostIds, author : Users]
    \union [type : {"backfill_follower"}, id : Nat, pair : Pairs]

-----------------------------------------------------------------------------
(* Helpers *)

\* What if ZREMRANGEBYRANK cut at the other end of the ZSET?
Oldest(S, n) == {p \in S : Cardinality({q \in S : q < p}) < n}

\* What ZADD followed by ZREMRANGEBYRANK 0 -n-1 leaves, and what ZREVRANGE
\* 0 n-1 returns: the n posts of highest score.
Newest(S, n) == {p \in S : Cardinality({q \in S : q > p}) < n}

\* XADD on jobs:fanout.
Enqueue(j) ==
    /\ jobs' = jobs \union {j}
    /\ lastJob' = lastJob + 1

\* Every post a user ever made.
Posts(u) == {p \in PostIds : <<p, u>> \in posts}

-----------------------------------------------------------------------------
(* feed_service.create_post *)

\* INSERT and commit.
PostCommit(c, u) ==
    LET p == Cardinality(posts) + 1 IN
    /\ Free(c)
    /\ p <= MaxPosts
    /\ posts' = posts \union {<<p, u>>}
    /\ draft' = [draft EXCEPT ![c] = p]
    /\ GoTo(c, "post_timeline", <<u, u>>)
    /\ UNCHANGED <<follows, sets, counters, counted, ids, graphBounds,
                   userPosts, home, queue, skipped, job, copied, rebuild, feedBounds>>

\* What if the author's own timeline were not written?
PostTimelineHomeOnly(c) ==
    LET u == subject[c][1] IN
    /\ step[c] = "post_timeline"
    /\ home' = [home EXCEPT ![u] = Newest(@ \union {draft[c]}, FeedMax)]
    /\ GoTo(c, "post_count", <<u, u>>)
    /\ UNCHANGED <<follows, sets, counters, counted, ids, graphBounds, posts,
                   userPosts, queue, skipped, running, feedBounds>>

\* MULTI: the author's timeline and home feed, each trimmed.  (The global
\* recent feed, third in the block, belongs to the read path.)
PostTimeline(c) ==
    LET u == subject[c][1] IN
    /\ step[c] = "post_timeline"
    /\ userPosts' = [userPosts EXCEPT ![u] = Newest(@ \union {draft[c]}, FeedMax)]
    /\ home' = [home EXCEPT ![u] = Newest(@ \union {draft[c]}, FeedMax)]
    /\ GoTo(c, "post_count", <<u, u>>)
    /\ UNCHANGED <<follows, sets, counters, counted, ids, graphBounds, posts,
                   queue, skipped, running, feedBounds>>

\* What if the threshold itself counted as a celebrity on write only?
PostCountBelow(c) ==
    LET u == subject[c][1] IN
    /\ step[c] = "post_count"
    /\ IF Value(followerCount[u]) < Threshold
         THEN GoTo(c, "post_enqueue", <<u, u>>) /\ UNCHANGED <<skipped, draft>>
         ELSE /\ skipped' = skipped \union {draft[c]}
              /\ draft' = [draft EXCEPT ![c] = NoPost]
              /\ Done(c)
    /\ UNCHANGED <<follows, sets, counters, counted, ids, graphBounds, feeds,
                   queue, job, copied, rebuild, feedBounds>>

\* GET of the follower count decides between fan-out on write and on read.
PostCount(c) ==
    LET u == subject[c][1] IN
    /\ step[c] = "post_count"
    /\ IF Value(followerCount[u]) <= Threshold
         THEN GoTo(c, "post_enqueue", <<u, u>>) /\ UNCHANGED <<skipped, draft>>
         ELSE /\ skipped' = skipped \union {draft[c]}
              /\ draft' = [draft EXCEPT ![c] = NoPost]
              /\ Done(c)
    /\ UNCHANGED <<follows, sets, counters, counted, ids, graphBounds, feeds,
                   queue, job, copied, rebuild, feedBounds>>

PostEnqueue(c) ==
    /\ step[c] = "post_enqueue"
    /\ Enqueue([type |-> "fanout_post", id |-> lastJob + 1, post |-> draft[c],
                author |-> subject[c][1]])
    /\ draft' = [draft EXCEPT ![c] = NoPost]
    /\ Done(c)
    /\ UNCHANGED <<follows, sets, counters, counted, ids, graphBounds, feeds,
                   skipped, job, copied, rebuild, feedBounds>>

\* The last await of follow_service.follow that matters to feeds.
FollowPublish(c) ==
    /\ FollowEnqueue(c)
    /\ Enqueue([type |-> "backfill_follower", id |-> lastJob + 1,
                pair |-> subject[c]])
    /\ UNCHANGED <<feeds, skipped, running, feedBounds>>

\* A request is cut off; the post it was creating keeps what was done for it.
Abort(c) ==
    /\ AbortRequest(c)
    /\ draft' = [draft EXCEPT ![c] = NoPost]
    /\ rebuild' = [rebuild EXCEPT ![c] = NoRebuild]
    /\ UNCHANGED <<feeds, queue, skipped, job, copied, feedBounds>>

-----------------------------------------------------------------------------
(* user_service._backfill_counters, between its counts and its MULTI block *)

\* COUNT of the posts, and with rows EXISTS of the timeline.
LookTimeline(c) ==
    LET u == subject[c][1] IN
    /\ step[c] = "set_counters" /\ rebuild[c].at = "exists"
    /\ rebuild' = [rebuild EXCEPT ![c].at =
                     IF Posts(u) # {} /\ userPosts[u] = {} THEN "select" ELSE "write"]
    /\ UNCHANGED <<graphVars, feeds, queue, skipped, draft, job, copied, feedBounds>>

\* SELECT of every post of the user.
SelectPosts(c) ==
    /\ step[c] = "set_counters" /\ rebuild[c].at = "select"
    /\ rebuild' = [rebuild EXCEPT ![c] = [at |-> "write",
                                         posts |-> Posts(subject[c][1])]]
    /\ UNCHANGED <<graphVars, feeds, queue, skipped, draft, job, copied, feedBounds>>

\* MULTI: SET of the counters, and ZADD of the posts with no trim.
WriteCounters(c) ==
    LET u == subject[c][1] IN
    /\ rebuild[c].at = "write"
    /\ SetCounters(c)
    /\ userPosts' = [userPosts EXCEPT ![u] = @ \union rebuild[c].posts]
    /\ rebuild' = [rebuild EXCEPT ![c] = NoRebuild]
    /\ UNCHANGED <<posts, home, queue, skipped, draft, job, copied, feedBounds>>

-----------------------------------------------------------------------------
(* fanout_worker._handle *)

\* A worker is handed an outstanding job: fresh, or one it reclaimed.
TakeFanout(w, j) ==
    /\ Free(w)
    /\ j.type = "fanout_post"
    /\ SizeFollowers(w, j.author)
    /\ job' = [job EXCEPT ![w] = j]
    /\ UNCHANGED <<feeds, queue, skipped, draft, copied, rebuild, feedBounds>>

\* ZADD to one follower's feed: a command of the non-transactional pipeline.
PushAdd(w, f) ==
    /\ step[w] = "got_followers"
    /\ f \in ids[w]
    /\ home' = [home EXCEPT ![f] = @ \union {job[w].post}]
    /\ ids' = [ids EXCEPT ![w] = @ \ {f}]
    /\ GoTo(w, "push_trim", <<f, job[w].author>>)
    /\ UNCHANGED <<follows, sets, counters, counted, graphBounds, posts,
                   userPosts, queue, skipped, running, feedBounds>>

\* What if the pipeline had no ZREMRANGEBYRANK?
PushTrimNothing(w) ==
    /\ step[w] = "push_trim"
    /\ GoTo(w, "got_followers", <<job[w].author, job[w].author>>)
    /\ UNCHANGED <<follows, sets, counters, counted, ids, graphBounds, feeds,
                   queue, skipped, running, feedBounds>>

\* ZREMRANGEBYRANK, the next command of the pipeline.
PushTrim(w) ==
    LET f == subject[w][1] IN
    /\ step[w] = "push_trim"
    /\ home' = [home EXCEPT ![f] = Newest(@, FeedMax)]
    /\ GoTo(w, "got_followers", <<job[w].author, job[w].author>>)
    /\ UNCHANGED <<follows, sets, counters, counted, ids, graphBounds, posts,
                   userPosts, queue, skipped, running, feedBounds>>

\* backfill_follower_feed: ZREVRANGE on the followee's timeline ...
TakeBackfill(w, j) ==
    LET found == Newest(userPosts[j.pair[2]], BackfillLimit) IN
    /\ Free(w)
    /\ j.type = "backfill_follower"
    /\ job' = [job EXCEPT ![w] = j]
    /\ copied' = [copied EXCEPT ![w] = found]
    /\ GoTo(w, IF found = {} THEN "ack" ELSE "backfill_add", j.pair)
    /\ UNCHANGED <<follows, sets, counters, counted, ids, graphBounds, feeds,
                   queue, skipped, draft, rebuild, feedBounds>>

\* ... then MULTI: ZADD of what it returned, and the trim.
BackfillAdd(w) ==
    LET f == subject[w][1] IN
    /\ step[w] = "backfill_add"
    /\ home' = [home EXCEPT ![f] = Newest(@ \union copied[w], FeedMax)]
    /\ copied' = [copied EXCEPT ![w] = {}]
    /\ GoTo(w, "ack", subject[w])
    /\ UNCHANGED <<follows, sets, counters, counted, ids, graphBounds, posts,
                   userPosts, queue, skipped, draft, job, rebuild, feedBounds>>

\* What if the job were acknowledged before every follower was served?
AckJobEarly(w) ==
    /\ step[w] \in {"ack", "got_followers"}
    /\ jobs' = jobs \ {job[w]}
    /\ job' = [job EXCEPT ![w] = NoJob]
    /\ ids' = [ids EXCEPT ![w] = {}]
    /\ Done(w)
    /\ UNCHANGED <<follows, sets, counters, counted, graphBounds, feeds,
                   lastJob, skipped, draft, copied, rebuild, feedBounds>>

\* The handler returned: XACK.
AckJob(w) ==
    /\ \/ step[w] = "ack"
       \/ step[w] = "got_followers" /\ ids[w] = {}
    /\ jobs' = jobs \ {job[w]}
    /\ job' = [job EXCEPT ![w] = NoJob]
    /\ Done(w)
    /\ UNCHANGED <<follows, sets, counters, counted, ids, graphBounds, feeds,
                   lastJob, skipped, draft, copied, rebuild, feedBounds>>

\* What if a restarted worker still believed it was running the job?
CrashWorkerKeepsJob(w) ==
    /\ ~Free(w)
    /\ crashes < MaxCrashes
    /\ crashes' = crashes + 1
    /\ Done(w)
    /\ ids' = [ids EXCEPT ![w] = {}]
    /\ copied' = [copied EXCEPT ![w] = {}]
    /\ UNCHANGED <<follows, sets, counters, counted, graphBounds, feeds, queue,
                   skipped, draft, job, rebuild, feedEvictions>>

\* The handler raises or its process dies: the job stays outstanding.
CrashWorker(w) ==
    /\ ~Free(w)
    /\ crashes < MaxCrashes
    /\ crashes' = crashes + 1
    /\ Done(w)
    /\ ids' = [ids EXCEPT ![w] = {}]
    /\ job' = [job EXCEPT ![w] = NoJob]
    /\ copied' = [copied EXCEPT ![w] = {}]
    /\ UNCHANGED <<follows, sets, counters, counted, graphBounds, feeds, queue,
                   skipped, draft, rebuild, feedEvictions>>

\* maxmemory-policy allkeys-lru evicts a feed or a timeline.
EvictFeed(u) ==
    /\ feedEvictions < MaxFeedEvictions
    /\ feedEvictions' = feedEvictions + 1
    /\ \/ /\ home[u] # {}
          /\ home' = [home EXCEPT ![u] = {}]
          /\ UNCHANGED userPosts
       \/ /\ userPosts[u] # {}
          /\ userPosts' = [userPosts EXCEPT ![u] = {}]
          /\ UNCHANGED home
    /\ UNCHANGED <<graphVars, posts, queue, skipped, running, crashes>>

-----------------------------------------------------------------------------
FeedInit ==
    /\ GraphInit
    /\ posts = {}
    /\ userPosts = [u \in Users |-> {}] /\ home = [u \in Users |-> {}]
    /\ jobs = {} /\ lastJob = 0 /\ skipped = {}
    /\ draft = [c \in Clients |-> NoPost]
    /\ job = [w \in Workers |-> NoJob]
    /\ copied = [w \in Workers |-> {}]
    /\ rebuild = [c \in Clients |-> NoRebuild]
    /\ crashes = 0 /\ feedEvictions = 0

feedOnly == <<feeds, queue, skipped, running, feedBounds>>

\* The rest of a request that has started.
ClientStep(c) ==
    \/ PostTimeline(c) \/ PostCount(c) \/ PostEnqueue(c) \/ FollowPublish(c)
    \/ LookTimeline(c) \/ SelectPosts(c) \/ WriteCounters(c)
    \/ (FollowGraph(c) \/ UnfollowGraph(c) \/ CountFollowers(c) \/ CountFollowing(c))
          /\ UNCHANGED feedOnly

\* The rest of a job that has been taken.
WorkerStep(w) ==
    \/ GraphWorkerNext(w) /\ UNCHANGED feedOnly
    \/ \E f \in ids[w] : PushAdd(w, f)
    \/ PushTrim(w) \/ BackfillAdd(w) \/ AckJob(w)

\* What may come between the steps of a post, a follow and their jobs.
Mishap ==
    /\ profiles + aborts + graphEvictions + crashes + feedEvictions < MaxMishaps
    /\ \/ \E c \in Clients :
          Abort(c) \/ \E u \in Users : ViewProfile(c, u) /\ UNCHANGED feedOnly
       \/ \E w \in Workers : CrashWorker(w)
       \/ \E u \in Users : EvictFeed(u) \/ (EvictGraphKey(u) /\ UNCHANGED feedOnly)

FeedNext ==
    \/ \E c \in Clients :
        \/ \E u \in Authors : PostCommit(c, u)
        \/ \E pair \in Pairs :
            (FollowCommit(c, pair) \/ UnfollowCommit(c, pair)) /\ UNCHANGED feedOnly
        \/ ClientStep(c)
    \/ \E w \in Workers :
        \/ \E j \in jobs : TakeFanout(w, j) \/ TakeBackfill(w, j)
        \/ WorkerStep(w)
    \/ Mishap

FeedSpec == FeedInit /\ [][FeedNext]_feedVars

\* A request that started and a job that was taken go on, and StreamQueue
\* keeps handing out a job until it is acknowledged.
FeedFairness ==
    /\ \A c \in Clients : WF_feedVars(ClientStep(c))
    /\ \A w \in Workers :
        /\ WF_feedVars(WorkerStep(w))
        /\ WF_feedVars(\E j \in jobs : TakeFanout(w, j) \/ TakeBackfill(w, j))

FairFeedSpec == FeedSpec /\ FeedFairness

-----------------------------------------------------------------------------
(* Properties *)

FeedTypeOK ==
    /\ GraphTypeOK
    /\ posts \subseteq PostIds \X Authors
    /\ userPosts \in [Users -> SUBSET PostIds] /\ home \in [Users -> SUBSET PostIds]
    /\ jobs \subseteq JobType
    /\ lastJob \in Nat
    /\ skipped \subseteq PostIds
    /\ draft \in [Clients -> PostIds \union {NoPost}]
    /\ job \in [Workers -> JobType \union {NoJob}]
    /\ \A w \in Workers : Free(w) <=> job[w] = NoJob
    /\ copied \in [Workers -> SUBSET PostIds]
    /\ rebuild \in [Clients -> [at : {"exists", "select", "write"},
                               posts : SUBSET PostIds]]
    /\ crashes \in 0..MaxCrashes
    /\ feedEvictions \in 0..MaxFeedEvictions

\* p is in u's feed, or pushed out of it by FeedMax newer posts.
InFeed(u, p) ==
    p \in home[u] \/ Cardinality({q \in home[u] : q > p}) >= FeedMax

\* Posts of u that a backfill would still copy.
Recent(u) == Newest(Posts(u), BackfillLimit)

\* No request and no job is under way.
Settled == AllIdle /\ jobs = {}

\* No request was cut off, and no feed or timeline evicted.
NothingLost == aborts = 0 /\ feedEvictions = 0

\* Once everything in flight is done, each follower's feed holds the followee's
\* recent posts, in whatever order a follow, a post, their two jobs, repeated
\* runs of them and crashes of workers met: a post that fan-out misses because
\* the follower came too late is one the backfill of that follow copies.  Only
\* the eviction of the author's set of followers loses some, for good.
NoMissedPost ==
    Settled /\ NothingLost =>
        \A pair \in follows \ overlapped : \A p \in Recent(pair[2]) \ skipped :
            InFeed(pair[1], p) \/ <<"followers", pair[2]>> \in stale

\* With celebrities (get_home_feed): what fan-out on write skipped, fan-out on
\* read merges.
Merged(u, a, p) ==
    /\ <<u, a>> \in following
    /\ Value(followerCount[a]) > Threshold
    /\ p \in userPosts[a]

\* Until an unfollow (after it the count may fall to the threshold, and the posts
\* that were skipped above it are in no follower's feed) no order of a post, the
\* follows that make its author a celebrity, their backfills, profile views and
\* crashes loses a post between the two paths.  A pair does lose posts once the
\* author's count is stale (evicted, or set back by a backfill that counted
\* before a follow) or one of the two sets it is read from was evicted.
NobodyLeft == requests = Cardinality(follows)

KeysOf(pair) ==
    {<<"followers", pair[2]>>, <<"follower_count", pair[2]>>, <<"following", pair[1]>>}

MergedUntilUnfollow ==
    NobodyLeft /\ Settled /\ NothingLost =>
        \A pair \in follows \ overlapped : \A p \in Recent(pair[2]) :
            \/ InFeed(pair[1], p) \/ Merged(pair[1], pair[2], p)
            \/ KeysOf(pair) \intersect stale # {}

\* "Read-your-writes": from the moment the author's request reads the count,
\* the author's own feed has the post, whatever trims and backfills run.
ReadYourWrites ==
    NothingLost => \A row \in posts :
        \/ InFeed(row[2], row[1])
        \/ \E c \in Clients : step[c] = "post_timeline" /\ draft[c] = row[1]

\* A feed exceeds FEED_MAX_SIZE by at most one post per push under way, even
\* though the pipeline of a fan-out is no transaction; crashes leave at most
\* one such post each until the job runs again.
HomeBounded ==
    \A u \in Users :
        Cardinality(home[u]) <= FeedMax + crashes
            + Cardinality({w \in Workers : step[w] = "push_trim" /\ subject[w][1] = u})

Awaited(pair, p) == pair \in follows /\ p \in Recent(pair[2])

SeenOrMoot(pair, p) ==
    \/ InFeed(pair[1], p)
    \/ pair \notin follows \ overlapped \/ p \notin Recent(pair[2]) \/ p \in skipped
    \/ <<"followers", pair[2]>> \in stale

\* "Eventual" (ARCHITECTURE.md): a recent post of a followed author turns up in
\* the follower's feed, unless the follower leaves, newer posts push it out or
\* the author is a celebrity.  Crashes of workers and repeated jobs delay it and
\* never lose it; a request cut off, or an evicted feed or set of followers, does.
SeenUnlessLost ==
    \A pair \in Pairs : \A p \in PostIds :
        Awaited(pair, p) ~> SeenOrMoot(pair, p) \/ ~NothingLost
=============================================================================
