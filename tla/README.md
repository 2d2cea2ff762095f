# A formal model of the Redis-centric social feed

TLA+ specifications of this repository's backend, model-checked with TLC, and
theorems about them checked with TLAPS. The specifications are translated from
the Python code under `app/` (and, for paging, from the hook `useFeed.ts`); where
a document or comment of the repository disagrees with the code, the model
follows the code (see "Where code and documents differ").

## The system

FastAPI processes serve requests. PostgreSQL holds the rows; Redis holds
everything that is hot: follower sets, counters, feeds, caches, sessions, locks
and two job streams. Worker processes drain the streams. Every process is an
asyncio event loop, so *each `await` is a point where any other request, task or
process may run*. One Redis command, one `MULTI` block (`redis.pipeline()` with
its default `transaction=True`), one Lua script and one SQL statement with its
commit are atomic; nothing larger is. Redis runs with `allkeys-lru`: any key may
be evicted. `docker-compose.yml` deploys one API process, one fan-out worker and one
notification worker, and restarts none of them.

| Component | State | Operations | Talks to |
|---|---|---|---|
| Job queue (`redis_layer/queue.py`) | stream, consumer group, pending list | `publish`, `consume`, `ack`, `reclaim_idle`, `ensure_group` | services publish, workers consume |
| Fan-out worker (`workers/fanout_worker.py`) | main loop, reclaim task, stop flag | handle, ack, reclaim, shut down | job queue, follow and feed services |
| Notification worker (`workers/notification_worker.py`) | main loop, stop flag | handle, ack, shut down | job queue, PostgreSQL, leaderboard |
| Follow service | table `follows`; sets `social:*`; two counters per user | `follow`, `unfollow`, `get_followers` | job queue, notifications, cache |
| User service | `users`, profile cache, counters, `feed:user` | `create_user`, `get_cached_profile`, `_backfill_counters` | cache, follows, posts |
| Feed service | `posts`; `feed:user`, `feed:home`, `feed:global` | `create_post`, fan-out, follow backfill, `get_home_feed`, `hydrate_posts` | job queue, trending, counters |
| Post service | `likes`; like counter, likers set | `like_post`, `unlike_post`, `comment_on_post` | lock, trending, notifications |
| Trending service | trending ZSET | `record_post_created`, `record_like` | like counter |
| Lock (`redis_layer/lock.py`) | one key with a token and a lease | `acquire`, `release` | `like_post` |
| Cache (`redis_layer/cache.py`) | value key, lock key | `get_or_set`, invalidation | user service |
| Sessions (`session_service.py`, `api/auth.py`, `api/deps.py`) | session hash, index set per user | login, authenticate, logout, logout-all | every endpoint |
| Notifications (`notification_service.py`, `api/notifications.py`) | stream per user, unread counter, pub/sub channel; `notifications` | emit, list, mark read, WebSocket | job queue |
| Rate limiter (`rate_limiter.py`, `middleware.py`) | ZSET or hash per identity | two Lua scripts | every request |
| Analytics | HyperLogLogs, capped lists, leaderboard | single commands | authentication, notification worker |
| Frontend hooks | pages of the feed, socket, unread badge | load more, refresh, reconnect | the API |

What is hard here, and what makes each part correct:

* **Queue and workers** - crashes, signals and exceptions between delivery,
  handler and acknowledgement; a reclaim that races with a slow handler; trimming
  and eviction. Correct when an accepted job stays recoverable until it is done.
* **Social graph** - the table and four Redis keys are written in separate
  steps, by two kinds of writers. Correct when the derived data equal the table
  up to the requests in flight.
* **Home feeds** - a follow, a post, their two jobs and repeated runs of those
  jobs meet in any order. Correct when no recent post of a followee is missing.
* **Reading a feed** - a page merges three sets while posts move into them, one of
  them may be rebuilt meanwhile, and the next page starts at a rounded time.
  Correct when a page leaves out nothing it should hold and scrolling ends.
* **Likes and lock** - leases lapse under their holder, the lock is optional, and
  nothing rebuilds an evicted counter. Correct when the counter does not depend on
  the lock, is off by what was evicted or cut off only, and no like hangs.
* **Cache** - loaders outlive a lock that anyone may delete, keys are dropped while
  rows are loaded, and a loader may find nothing. Correct when the number of
  loaders is bounded, nobody is told "no such user" wrongly, and all are answered.
* **Sessions** - two kinds of keys expire and are evicted apart, logins and
  logout-alls overlap. Correct when a logout-all misses no session it could know.
* **Notifications** - history, live push and archive are three steps of one emit,
  any of which may be the last, and the one worker that archives may die. Correct when a connected client misses nothing
  outside the known gaps and what is archived and credited agree.
* **Rate limiter** - the window is measured by the callers' clocks, the key expires
  by that of Redis, and the check may fail. Correct when every window is bounded
  and a refusal tells the truth about when to retry.

## Modules

| Module | Models | Composes |
|---|---|---|
| `JobDelivery` | the promise of the job layer: outstanding until acknowledged, acknowledged only when completed | |
| `StreamQueue` | `queue.py`, the loops of both workers, the groups that API start-up ensures | implements `JobDelivery` |
| `SocialGraph` | `follow_service.py`, the counter backfill of `user_service.py` | |
| `HomeFeed` | the write side of `feed_service.py`, the handler of the fan-out worker, the rebuild of `feed:user` in `user_service.py` | extends `SocialGraph`; its jobs behave as `JobDelivery` promises |
| `FeedRead` | `get_home_feed`, the global backfill, the paging of `useFeed.ts` | takes the sets that `HomeFeed` fills as given |
| `RedisLock` | `lock.py` | |
| `PostLikes` | `like_post`, `unlike_post`, the eviction of their counters | extends `RedisLock` |
| `ReadThrough` | `get_or_set` of `cache.py` with its callers in `user_service.py` and `api/users.py` | |
| `AuthSessions` | the promise of the session layer: what a login, a logout and a logout-all mean | |
| `Sessions` | `session_service.py`, `api/auth.py`, `api/deps.py` | implements `AuthSessions` |
| `Notifications` | `emit_notification`, the socket of `api/notifications.py`, the notification worker with its batches, death and restart | takes jobs as `StreamQueue` hands them out in a group that never reclaims |
| `RateLimit` | the sliding window of `rate_limiter.py` and `middleware.py` | |
| `MC*` | finite sets of users, clients, workers and posts for TLC | extend the module they name |
| `*Proofs` | the theorems about the module they name; those about `RedisLock` are in `PostLikesProofs`, those about `SocialGraph` in `HomeFeedProofs` | extend it |

### How state and actions correspond to the code

**StreamQueue.** A job is its stream id, so `1..last` are the ids ever added;
`entries` what the stream retains, `cursor` the group's last-delivered id, `pel`
its pending list and `idle` the pending ids that reached `min_idle_ms`. A worker
has two tasks, `main` (the `async for` over `consume`) and `reclaim` (the
`reclaim_loop`); `Reclaimers` is the set of workers that have the second, all of
them for fan-out and none for notifications. For a task, `todo` is what a read
returned and the loop has not started, `cur` the message in hand, `pc` the await
it is at. `Begin`, `Finish`, `Ack` and `Fail` are the body of the loop,
`Read` and `Claim` the two ways to messages. `Quit` is the check of the stop flag,
which the code makes only after a message has arrived. `Start` and `StartApi`
call `ensure_group`, which creates a missing group *after* the newest entry.
`TrimmedFrom` is `MAXLEN ~`: it may remove oldest entries, also pending ones, but
leaves `MaxLen`. `ReadNoGroup` is the uncaught NOGROUP error that ends a worker.

**SocialGraph.** `followers` and `following` are the two families of sets as
relations. A request is a client with a `step` (the await it is at) and a
`subject` (the pair it is about): `FollowCommit`, `FollowGraph` and
`FollowEnqueue` are the SQL commit, the `MULTI` block and the publish of
`follow`. A commit that changes no row ends the request in the code, so it is no
action. `AbortRequest` ends a request at any await. `ViewProfile` to `SetCounters`
are the four awaits of a counter backfill that has no posts to look for; `SizeFollowers`
to `AddFollowers` those of `get_followers`, whose limit of 100 000 members lies above
the celebrity threshold and is left out. `stale` is a set of *keys*: the ones Redis
evicted, and the counters that a backfill counted before a request changed their
rows, or between such a request's commit and its `INCR`. The properties except a key
of one user, never the whole state.

**HomeFeed.** Posts are numbered in creation order, which is also their score
order, so a ZSET is a set of numbers and `Newest(S, n)` is what a trim keeps and
what a reverse range returns. `PushAdd` and `PushTrim` are single commands, because
the push pipeline is created with `transaction=False`; the blocks of `create_post`
and of the backfill are `MULTI` blocks and one action each. A worker may take any
outstanding job, also one that another worker runs: `JobDelivery` allows repeats.
Every writer of what `PostCount` and the celebrity merge read is a step of `FeedNext`:
the profile views with their `SET` of the counters, and `EvictGraphKey`. In
`HomeFeed` the backfill has all its awaits: after the counts, `LookTimeline` (the
count of posts and `EXISTS`, as one action, since no property tells a post between
the two from one before both), `SelectPosts`, and `WriteCounters`, whose `ZADD` does
not trim. `EvictFeed` takes a home feed or a timeline. `MaxMishaps` bounds all of
these together with aborts and crashes, so that an instance can allow any of them
and pay for one.

**FeedRead.** One reader, whose `step` is the await `get_home_feed` is at: the home
feed, the timelines of celebrities, `EXISTS`, the `SELECT` and `ZADD` of a rebuild,
the global feed, the answer. Posts have times that may be equal, so `Newest` is the
set of all results a range with a limit may have. `Cursor` is the arithmetic of
`oldestCursor`: whole seconds, rounded down, less one. Who is a celebrity and what
is fanned out is fixed here, since `HomeFeed` decides it; what is under way of
`create_post` is a post's `stage`. `kept` is a history: posts that were in a set
during the whole scroll, about which a page may be held to account. `FanOut` and
`TrimHome` are the two commands of a push. `LoadFails` is a failed request for
more: list and cursor stay and the page is asked for again; `Leave` ends the scroll.

**RedisLock and PostLikes.** A client is one `RedisLock` object and its token.
`LockExpires` ends a lease at any moment; `lapsed` records whom it left inside.
`PostLikes` adds the commit before the lock and the counters inside it; `LikeLock`
goes on with or without the lock, as `like_post` does. `Abort` ends a request at
any await: if it raised, the `finally` of `redis_lock` releases; if its process
died, the key stays until it expires. `EvictCounter` and `EvictLikers` are `allkeys-lru`;
`forgotten` is what the counter held at that moment and `unlisted` who was in the
set. What `like_post` does after its counters, the trending score and the
notification, changes none of this and is left out.

**ReadThrough.** The requests of one cache key. The lock's value is the constant
"1" in the code; that it names its owner in the model is a history, and `Unlock`
deletes it whoever set it, as the code does. `Register` is the insert that makes the
loader find a row, `DropKey` expiry, eviction and invalidation, which the code
does with the same effect. No code changes a user's row, so a key cannot go stale.

**Sessions.** `left` and `indexLeft` are the times to live of the two kinds of
keys, and a session is valid while its time is not up. `ReadIndex` and `DeleteAll`
are the `SMEMBERS` and the `MULTI` block of `revoke_all_sessions`; `Authenticate`
reads the session once and lets the request go on, whatever happens to it then.
An empty `SMEMBERS` ends the request at once, and `logout` passes its token on as it
came: after two spaces in the header it is none of the tokens, though
`current_user_id`, which strips it, let the request in.
`strays` records the sessions a logout-all may miss: those opened between another
one's `SMEMBERS` and its `MULTI` block, and those listed in an index that was evicted.

**Notifications.** The recipient's events are numbered; `stage` is what the request
that emits an event, or the worker that archives it, does next. `Connect` replays,
`Subscribe` subscribes, and what is published between the two reaches neither
(`owedNot`). The worker is one process: `Fetch` takes a batch when the last one is done,
`Take` to `AckJob` handle one job after the other. `CutShort` is a request, handler or
`XACK` that raises; since this group never reclaims, nothing comes back to the
event. `WorkerDies` leaves what it had fetched pending, for good; `EvictJobs` removes
the stream with its group, upon which `NoGroup` ends the worker at its next read, and
what is published before `ApiStarts` or `WorkerStarts` re-creates the group (at `$`) is
handed to nobody. All such events are in `cut`. The trimming of `jobs:notifications`
at 100 000 entries is left to `StreamQueue`.

**RateLimit.** The script is atomic, so its cases are the actions `Admit` and
`Refuse`; `now` is the caller's clock, off by `Skew` at most, while the key expires
by `time`. `FailOpen` is a check that raised before or after the script ran.
`promise` is the earliest moment a refused caller was told to come back at.

## Runs

Runs that pass:

| Run | Question and instance |
|---|---|
| `queue_fanout` | 2 workers that reclaim (a deployment scaled to two), 2 jobs, batches of 2, claims of 1, one fault of any kind (exception, crash, signal, failed acknowledgement), under fairness. Types, acknowledgements, recoverability, refinement of `JobDelivery` with no losses allowed, and every job is handled |
| `queue_evict` | the stream is trimmed to 1 entry and evicted once, with one fault. A job is forgotten only with its entry, and none runs twice without a reclaim |
| `graph` | 2 clients, 1 worker, 4 changes of 2 pairs, a hydration, a counter backfill, a request that is cut off and an eviction of any of the four keys. Sets lose no follower and show no former followee; counters are exact up to requests in flight (1.7 million states) |
| `feed` | `bob` and `cat` follow `ann`; `ann` and `bob` post, so fan-outs and backfills go into an author's own feed. 2 clients, 2 follow requests, 2 posts, 1 worker, feeds of one entry, celebrity threshold of 1 follower, and one mishap of any kind: a profile view that rewrites the counters, a request cut off, a crash, an eviction of a feed, timeline, set or counter. No recent post is missed, what was skipped on write is merged on read, authors see their posts at once (3.1 million states) |
| `feed_live` | 1 follower, 2 clients, 1 follow request, 2 posts, 2 workers that push and backfill into the same feed, and a request cut off, a crash or an evicted feed, under fairness. Feeds stay bounded, and a post is seen unless a request was cut off or a feed lost |
| `feed_read` | 4 posts at times 3, 7, 8 and 8, 2 ticks to a second, pages of 2, sets of 3, one of them evicted, one page that fails and is asked for again (1.1 million states). No page leaves out what it should hold, the end shows everything but what falls between a page and its cursor, and scrolling ends |
| `likes` | 3 requests of 2 users, 3 likes and an unlike, also of one user at once, one request cut off anywhere. Counter and set of likers match the table up to requests in flight, with or without the lock; two are inside only if one outlived its lease; every request ends, even if a dead holder's key never expires. The counter or the set is evicted once |
| `cache` | 3 views of one profile, 2 polls, one lock that lapses under its loader, requests that fail or die anywhere. Loaders are bounded, an existing user is found, every view is answered |
| `sessions` | 1 user, 3 logins, 2 requests that log out of one session or all, a lifetime of 2 ticks, evictions at will. A session is listed for as long as it lives unless it is a stray; the keys implement `AuthSessions` |
| `notifications` | 2 events, a comment and a follow, 1 socket that reconnects, 1 worker, a stream and a replay of 1, and 2 faults: a step that raises, the death of the worker, an eviction of the stream, the job stream or the leaderboard. A connected client misses no event outside the known gaps; each row is written once and karma is their sum; a job that nothing cut short is archived if a dead worker is always started again |
| `rate` | 5 calls with a limit of 2 in a window of 6 ticks (3 seconds), clocks off by 1 tick, 1 failed check or eviction, 12 ticks of time. Windows are bounded and retry promises hold |

Every property of these runs has a named variant of a code definition (`What
if ...` in the modules) under which TLC finds it violated, so none of them holds
by accident.

Some properties carry an exception where the code is known to fail. Each
exception is a history variable or a bound that the run does exercise, so the
states it excludes are reached and the rest are checked beside them:

* `overlapped` holds the pairs (users, for likes) that had two requests between
  commit and `MULTI` block at the same moment. Redis may run those blocks in the
  other order than PostgreSQL ran the commits, and the sets then stay wrong.
  Counters are not excepted: increments commute.
* `cut` holds those that had a request cut off between commit and `MULTI` block.
  Nothing repairs them, since a repeated follow or like finds its row and ends.
  `CountersExact` excepts only the two users of such a pair, and `LikeCountExact`
  nobody: `dropped` counts what was cut off, and it is in the equation.
* `forgotten` and `unlisted` are in the equations of likes in the same way: nothing
  ever puts an evicted like counter or likers set right, so what is stated is that
  they are off by exactly what the key held, and by nothing that came later.
  `forgotten` of the leaderboard is in `KarmaFromRows`.
* `stale` holds the keys of the graph that were evicted, and the counters that a
  backfill set across a request. `NoMissedPost` excepts a pair whose followee's set of
  followers is in it; `MergedUntilUnfollow` one of whose three keys (`KeysOf`) is: with
  a stale count a post may be pushed to nobody and merged by nobody.
* `NothingLost` is "no request was cut off and no feed or timeline was evicted". It
  speaks of the whole behaviour: after such a mishap no feed property holds anybody to
  account. `NobodyLeft` is "nobody has unfollowed anybody".
* `cut` of `Notifications` holds the events whose request or job raised, that a dying
  worker had fetched, or that went with the job stream.
* `strays` and `owedNot` are the gaps of a logout-all and of a socket described above.
* `excused` holds the requests that the limiter let through because its check
  failed, or forgot because its key was evicted.
* `ScrolledPast` holds the posts less than two seconds older than the last of a page,
  which is exactly how far `Cursor` may go back; the mutant that goes back one second
  more breaks `SeenToTheEnd`.

### Bounds and why they are enough

Each bound is a constant with the word *bound* beside it. Two workers suffice
for the races of the queue, which are between two tasks over one job; two jobs
with a batch of two give a batch that is partly started when a signal or crash
comes, and a claim of one gives a reclaim that leaves entries behind. Trimming to
one of two jobs cuts between a pending and an undelivered entry. With one fault,
one of two workers survives; with two, both may be down and nothing is handled.
In the graph two clients give every pairwise race of requests, and four changes
let a pair be followed, unfollowed and followed again beside a request of the
other pair, a hydration and a backfill. In the feeds, a feed of one entry lets a
newer post push an older one out, and a backfill of one entry makes "recent" and
"all" differ. One mishap is enough for each of them to meet every order of two
follows, two posts and their jobs; two of them together are left to the proofs, which
have no bound. `feed` has one worker, as is deployed; what takes two, pushes and trims
that interleave in one feed and two runs of one job, is in `feed_live`, which
describes a scaled deployment. `MaxReads` is never reached in the feed runs. Thresholds of the
code (10000 followers, 1000 entries, 100000 jobs) are scaled to 1 or 2, with the
order between them kept: a backfill is never longer than a feed.

Four posts in pages of two give a second page that may be full or not, two posts
at one time straddle a limit and a cursor, and the times 3, 7 and 8 put the oldest post
four and five ticks, two seconds and more, behind the end of a first page: a second page
owes it, whatever the first held. Three cache requests give a winner, a loser that polls and one that
wins after a lapse; one user's keys are independent of another's, so one user
with three tokens has every race of sessions: a session revoked, one opened
meanwhile and one that was there before. Two events let one be replayed and one be
pushed, or one be handled while the other waits in the same batch or the next one, and a replay of one makes the older of two unreachable. Five calls
fill a window, refuse one, and fill the next.

Symmetry is used in safety runs only. Clients and workers are interchangeable,
and so are the followers `bob` and `cat` and the two requests that log out; the
author `ann` is not permuted with them. The refinement checked with symmetry
(`AuthSpec`) treats the permuted requests alike and has no fairness.

Deadlock is checked for the cache, the notifications and the feed reader, whose
processes can always do something; the other models stop when their bounds are
used up or nobody publishes, as the system does.

### Fairness

`queue_fanout` assumes that a task that can run does run, that an idle worker
blocked in `XREADGROUP` gets what is published, that the reclaim loop comes round
(every 30 seconds, errors included), and that time passes. It assumes nothing of
publishers, and it does not assume that a worker that is down is started again:
`docker-compose.yml` has no restart policy. `feed_live` assumes the same of
requests that have begun and of jobs, whose repeated delivery `StreamQueue`
guarantees as long as one worker is up; a crash in `HomeFeed` is that of a handler, or of
a process that another takes over for. `likes` assumes that a request
that has committed goes on, and nothing of the lease: a key left by a dead holder may
stay for ever, and `EveryLikeEnds` holds because a like that is refused does not wait. `cache` assumes that a request that has begun goes on and assumes
nothing of the lock's expiry: the number of polls is what ends a wait.
`notifications` assumes that the worker gets on with its batch
and then the next one *while it runs*; that it is started again after it ended is no
fairness but the antecedent of `ArchivedUnlessFailed` (`[]<>alive`), an operator's
part, since compose does not restart it. `feed_read` assumes that a request is served
and that the user scrolls on. All of it is
weak fairness: an asyncio loop runs every task that is ready. New requests, faults,
evictions and invalidations are never forced.

## Where code and documents differ

One of these is a run in which TLC finds the documented property violated:
`queue_notif_retry`. A notification job whose worker failed stays pending for ever,
since its worker has no reclaim loop, though its log line says "will retry" and
`ARCHITECTURE.md:176` that every worker runs one.

The others were met while modelling. They have no run of their own; the
exceptions above are where the properties step around them.

Queue:
* A handler slower than 60 s is reclaimed while it still runs, and its job is
  handled twice; `queue.py:89` speaks of exactly-once processing.
  `RepeatOnlyAfterReclaim` is what does hold, and for the notification group,
  where nobody reclaims, it means at most once. That is as well: its handler inserts a
  row and adds karma, and neither is idempotent, as `ARCHITECTURE.md:177` says of jobs.
* `allkeys-lru` may evict the stream with jobs in it; `README.md` calls it durable.
  `queue_evict` shows what is lost and what is not.

Graph and feeds:
* Overlapping follow and unfollow of one pair may leave the sets wrong (`overlapped`).
* Hydration (`follow_service.py:101-106`) may restore a follower who left between
  the `SELECT` and the `SADD`; so `NoFollowerLost` has no converse. It looks only at
  an empty set (line 100): a set that was evicted and gained one follower since
  hides all others from fan-out.
* A counter backfill overwrites a concurrent increment (`stale`), although
  `user_service.py:61` calls the counters always fresh. While the counter is wrong, a
  post near the threshold may be neither pushed nor merged.
* Posts that were skipped on write are unreachable once their author's followers
  fall to the threshold (`NobodyLeft`; `feed_service.py:176`).
* A request that ends between commit and publish (`feed_service.py:88`) leaves a
  post that no follower's feed gets.
* An evicted home feed is not rebuilt (`NothingLost`), though `ARCHITECTURE.md:167`
  says that feeds are, lazily. An evicted `feed:user` is, by a profile view that
  misses a counter as well (`user_service.py:84`), and not if a new post came first.
* `get_home_feed` merges the global feed, which its docstring leaves out.
* `before_ts` is inclusive; `api/feed.py:19` says "older than this". The client
  subtracts a second and rounds down, and so skips up to two (`ScrolledPast`).
* A global feed that a new post re-created after an eviction is not rebuilt
  (`Exists`), so it shows only what came since.

Others:
* An evicted like counter restarts at 1, and an evicted likers set stays incomplete:
  `bootstrap_post_counter`, "used by the periodic reconciler" (`post_service.py:137`), has
  no caller (`forgotten`, `unlisted`).
* `logout` takes the token from the header without the `strip` of `deps.py:32`: after two
  spaces the request is authenticated, answers "logged out" and ends no session.
* The comment at `post_service.py:50` says that the lock keeps the trending score
  consistent with the counter, but `record_like` runs after the `with` block: two
  requests may score the trending ZSET in the other order than they read the count
  (`trending_service.py:65`), which then keeps the older score. Trending is not modelled.
  Nothing trims on read, as the docstring says: `prune_trending` has no caller.
* `get_or_set` lets every poller that runs out of polls load for itself, and a slow
  loader deletes the lock of the next: more than the one process per expiry of
  `ARCHITECTURE.md:170` may load. `LoadersBounded` is what holds of the lock.
* The rate limiter's docstring calls it server-timestamped; `now` is the API process's
  `time.time()`, hence the `Skew` in `WindowBound` and `RetryHonest`.
* The session tokens are no JWTs, so the limiter, which decodes one to find the
  user, counts each session of a user apart (`middleware.py:89`).
* `last_id` of `list_notifications` is ignored, and an event may be both in the
  replay of a socket and pushed to it.

## Proofs

The theorems hold for every value of the constants, that is for any number of
workers, jobs, users, posts and requests, and any batch size, stream length and
number of faults. They assume only the named assumptions of the modules: that bounds
are naturals, that reclaimers are workers, that authors are users and nobody follows
himself, that what is counted is finite, that the values for "none" are none of the
others, that likes do not wait for their lock, and that clocks differ by at most the
window. Two theorems name an assumption of their own: `NothingBetweenWriteAndRead` that a
backfill is no longer than a feed, `OnceWithoutReclaim` that the group has no reclaim loop.

`StreamQueueProofs`: `TypeCorrect` proves `TypeOK`, which is inductive. The safety
theorems share one inductive invariant, `QueueInv`, that adds to the properties
themselves why they hold: a task at its acknowledgement has handled its job
(`AckIsEarned`); while nothing was evicted the group exists; what a task holds is
at most the cursor and was never reclaimed twice over (`Fresh`, `SingleDelivery`).
Without these the properties are not inductive: they say nothing of messages
between read and acknowledgement. From the invariant follow `AcksAreEarned`,
`RetainedJobsRecoverable`, `RepeatsNeedReclaim`, the action property
`PendingJobsKept`, and `ImplementsJobDelivery`: each action maps to a step of
`JobDelivery` (publish with the jobs a trim drops, complete, acknowledge, lose) or
to a stutter. `OnceWithoutReclaim` draws the consequence for the notification group: where
`Reclaimers` is empty no job runs twice or is in two hands. `Notifications` builds on
it: one worker archives an event, and nothing comes back to one it dropped.

`HomeFeedProofs` begins with the graph: its type invariant needs to know which process can be at
which await and what it is about there (`StepShape`), and that a hydration adds
pairs of the table only (`HydratesPairs`). `NoFollowerIsLost` and `FollowingIsExact`
rest on `RequestsAgree`: a request between commit and `MULTI` agrees with the table
unless another request of its pair has committed since. This is what makes a
late `SREM` harmless, and what fails for overlapping requests. `CountersAreExact`
is an argument about cardinalities: a commit moves one unit from the requests in
flight to the table, a `MULTI` block one from the requests in flight to the
counter (`DeltaMoves`, `PairMoves`). Evictions and backfills make a counter `stale` or leave the
equation alone: a backfill sets what it counted, and `CountsAgree` says that this is
still the number of rows, with nothing in flight, unless the key became stale since.

Every step of a feed may be one of the graph, so the lemmas about the graph carry over,
one per action: `FeedsKeepTheGraph` states that the sets and counters are as exact in
`HomeFeed` as in `SocialGraph` (a request that creates a post is at awaits of its own,
which owe the graph nothing: `PostingSteps`). `FeedTypeCorrect` needs what a worker may have in hand at
each await (`FeedTypeInv`). `HomeFeedsBounded` and `AuthorsSeeTheirPosts` are inductive by
themselves over it: a push makes a feed longer by one and puts its worker at
`push_trim`; a trim or a copy can remove a post only for `FeedMax` newer ones.
`NoPostIsMissed` is the theorem the feeds exist for. Its invariant `MissInv` says where a recent post
of a followee is at any moment (`Owed`): still in the request that creates it, in a
queued job, or *reached*, which means in the follower's feed, or on the author's
timeline while the follow request or a backfill job that will copy it is
outstanding. `Served` says the same of the worker that runs a fan-out: whoever is
not among the followers it read has the post coming through a backfill. This is
the argument that a follow and a post cannot slip past each other, and it uses
`NoFollowerLost` of the graph. For `NothingBetweenWriteAndRead`, `MergeInv` adds that
while nobody has left, the counter of a skipped post's author stays above the threshold
or is stale (`AboveOrStale`). A backfill may set that counter, and sets it to the number
of rows (`CountsAgree`), which is no less than the counter was (`CountersExact`). Steps shared by requests that post, follow and rebuild are lemmas
(`AbortRequest_Sets` for all that a cut-off request leaves alone, `StaleGrows`).

`FeedReadProofs`: `ReadInv` says what the merge has covered at each await: a kept post
of a set that was read is merged already, or `Crowded` out by a page of posts that
are not older. A later set can only crowd out more, so `NoPostIsSkipped` holds when the page
is cut. `EndSeesAll` adds `Behind`: what is behind the cursor was shown or scrolled past.
A second invariant, `PageAhead`, keeps the page in the making on one side of the cursor and
the list on the other. It gives `NoPostIsShownTwice` (the filter with which `useFeed`
appends a page finds nothing to remove: `useFeed.ts:66`), and the action property `CursorMovesBack`: since a cursor lies before
the post it is taken from (`CursorIsNear`), no page is asked for twice. That is the
safety half of `ScrollEnds`, whose liveness TLC checks.

`PostLikesProofs`: first the lock, with any mode of waiting: `LockTypeCorrect`, and
`LockExcludes` from `HolderOwnsKey`: a client inside that has not outlived its lease
owns the token in the key. Then every step of a like request is a step of the lock or
leaves it alone (`LikesUseLock`), so exclusion carries over (`LikesExclude`).
`LikersAreExact` repeats the argument of `RequestsAgree` for users, and
`LikeCountIsExact` that of the counters (`OwedMoves`); neither uses the lock, which
is the point: the counter is right when the lock is refused or lapses. An eviction
moves what the key held to `forgotten` or `unlisted`, which the theorems name.

`ReadThroughProofs`: `SingleFlight` counts not the loaders but the `Intruders`, those
that do not own the lock: a lapse makes one, and a release that deletes another's
lock trades the releaser for the one it robs. `ExistingUsersAreFound` needs only that what is
stored exists (`RowSeen`).

`SessionsProofs`: `ReadComplete` says that what a logout-all has read names every
valid session of its user but for strays; with `ListedUnlessStray` it makes each step
one of `AuthSessions` (`ImplementsAuthSessions`). Two action properties say of the keys
themselves what that means: `LogoutAllLeavesStraysOnly`, when a logout-all has deleted
what it read, and `EndedSessionsStayEnded`, since no request that read a session before it
ended writes it back.

`NotificationsProofs`: `NotifInv` adds two facts to the properties. `RowsByStage` ties the
row of an event to how far its worker got; with it each step moves at most one event into
or out of `Credited`, and karma, a sum of three cardinalities, by what that event is worth
(`KarmaMatchesRows`), whatever the worker dies with and whichever key goes. `Accounted` says that `NoneMissed` holds from the replay on and not only
once the socket has subscribed: what a full replay leaves out is older than all of it
(`NewestSize` and `ReplayFull` count it), what is published before the subscription
goes to `owedNot`, and what comes later to the inbox (`NoEventIsMissed`).

`RateLimitProofs`: `RateInv` says that what was admitted is still a member or too old
for any window (`Remembered`), that members die before their key (`Outlived`), and
that while nobody came since a refusal, the key has room or its oldest member leaves
by the promise (`PromiseKept`).

Only model-checked: all liveness (`EveryJobHandled`, `SeenUnlessLost`, `ScrollEnds`,
`EveryLikeEnds`, `EveryViewAnswered`, `ArchivedUnlessFailed`), which is out of
the prover's reach; every invariant of a run and every action property and refinement
is a theorem as well.
The interface between `HomeFeed` and `JobDelivery`, and between `Notifications` and
`StreamQueue`, is taken as given by the module that uses it and proved of the other.

## Plan

All modules of the plan are written: the queue, the graph, the feeds and likes first,
then sessions, the cache, notifications, the limiter and the reader, with their proofs.
What would come next, in this order:

1. `hydrate_posts` with the cache of rows and the overlay of counters, over
   `ReadThrough` and `PostLikes`.
2. `useNotifications` beside the socket: history that replaces the list while
   live events arrive.

## Not modelled

* Comments: a row and one `INCR`. `bootstrap_post_counter`, `prune_trending`, `pending_count`,
  `length` and `TokenBucketLimiter`, which no code path calls.
* The decay of trending scores (real-valued), the trending and global endpoints, the
  caching of rows in `hydrate_posts`. The order in which two requests score a post has no
  property to state, as the code has none.
* The HyperLogLogs, searches and activity lists: single commands whose result is
  approximate or capped by definition and which no other part reads.
* Optimistic updates and `useNotifications` of the frontend; its rendering.
* The waiting mode of the lock, which has no caller, in the runs; the proofs cover it.
* The encoding of payloads, tokens and passwords; configuration, logging, key
  names and health checks; Redis replication and persistence, which the code does
  not manage.
