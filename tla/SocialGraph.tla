---------------------------- MODULE SocialGraph ----------------------------
(***************************************************************************)
(* Who follows whom, kept twice: the follows table in PostgreSQL and the   *)
(* sets and counters derived from it in Redis (follow_service.py, and the  *)
(* counter backfill of user_service.py).                                   *)
(*                                                                         *)
(* Every await is a point where other requests run, so an action is what   *)
(* happens between two of them: one SQL statement or one Redis command or  *)
(* MULTI block.  The sets social:followers:* and social:following:* are    *)
(* the relations followers and following, of pairs <<follower, followee>>. *)
(***************************************************************************)
EXTENDS Integers, FiniteSets

CONSTANTS
    Users,
    Pairs,          \* pairs of users that clients follow and unfollow
    Clients,        \* requests the API serves at a time
    Workers,        \* fan-out workers, which read follower sets
    Missing,        \* what GET returns for a counter that does not exist
    MaxRequests,    \* bound: follow and unfollow requests that change the table
    MaxProfiles,    \* bound: profile views that find a counter missing
    MaxReads,       \* bound: get_followers calls
    MaxAborts,      \* bound: API requests that end between two awaits
    MaxGraphEvictions   \* bound: evictions of a follow key by allkeys-lru

ASSUME GraphAssumption ==
    /\ IsFiniteSet(Users) /\ IsFiniteSet(Clients)
    /\ Pairs \subseteq Users \X Users
    /\ \A p \in Pairs : p[1] # p[2]    \* POST /users/{id}/follow refuses these
    /\ Clients \intersect Workers = {}
    /\ Missing \notin Int
    /\ MaxRequests \in Nat /\ MaxProfiles \in Nat /\ MaxReads \in Nat
    /\ MaxAborts \in Nat /\ MaxGraphEvictions \in Nat

VARIABLES
    \* PostgreSQL
    follows,
    \* Redis
    followers, following,           \* sets, as relations
    followerCount, followingCount,  \* counters of a user
    \* requests and workers between two awaits
    step,       \* what the process does next, "idle" if nothing
    subject,    \* the pair of users it is about
    counted,    \* what a counter backfill has counted so far
    ids,        \* the follower ids a worker read
    \* history and bounds
    overlapped, \* pairs that had two requests between commit and MULTI at once
    cut,        \* pairs that had a request cut off between commit and MULTI
    stale,      \* keys evicted, and counters backfilled across a request
    requests, profiles, reads, aborts, graphEvictions

sets == <<followers, following>>
counters == <<followerCount, followingCount>>
locals == <<step, subject, counted, ids>>
graphBounds == <<overlapped, cut, stale, requests, profiles, reads, aborts,
                 graphEvictions>>
graphVars == <<follows, sets, counters, locals, graphBounds>>

Procs == Clients \union Workers
NoSubject == <<>>
GraphSteps == {"follow_graph", "follow_enqueue", "unfollow_graph",
               "count_followers", "count_following", "set_counters",
               "select_followers", "add_followers", "random_followers",
               "got_followers"}

Counts == Int \union {Missing}
Keys == {"followers", "following", "follower_count", "following_count"} \X Users

-----------------------------------------------------------------------------
(* Helpers *)

FollowersIn(rel, u) == {p[1] : p \in {q \in rel : q[2] = u}}
FolloweesIn(rel, u) == {p[2] : p \in {q \in rel : q[1] = u}}

\* INCR and DECR start a missing counter at 0; the code reads it as 0 too.
Value(c) == IF c = Missing THEN 0 ELSE c

\* p goes on to step s about pair x, or is done.
GoTo(p, s, x) ==
    /\ step' = [step EXCEPT ![p] = s]
    /\ subject' = [subject EXCEPT ![p] = x]
Done(p) == GoTo(p, "idle", NoSubject)

Free(p) == step[p] = "idle"
\* Requests that have committed s and not yet reached Redis.
Pending(s, pair) == {c \in Clients : step[c] = s /\ subject[c] = pair}
InFlight(pair) ==
    Pending("follow_graph", pair) \union Pending("unfollow_graph", pair) # {}

\* A backfill has counted the rows behind counter k and has yet to SET it.
CountRead(k) ==
    \E c \in Clients :
        /\ subject[c] = <<k[2], k[2]>>
        /\ \/ step[c] = "set_counters"
           \/ step[c] = "count_following" /\ k[1] = "follower_count"

\* The counters that a request about pair increments or decrements.
CountersOf(pair) == {<<"follower_count", pair[2]>>, <<"following_count", pair[1]>>}

\* A request that changes the row of pair begins, perhaps next to another one
\* about the same pair, or after a backfill has counted that row.
StartRequest(c, pair) ==
    /\ Free(c)
    /\ requests < MaxRequests
    /\ requests' = requests + 1
    /\ overlapped' = overlapped \union {q \in {pair} : InFlight(q)}
    /\ stale' = stale \union {k \in CountersOf(pair) : CountRead(k)}

-----------------------------------------------------------------------------
(* follow_service.follow *)

\* INSERT and commit.  A second follow of the same user ends with an
\* IntegrityError and changes nothing.
FollowCommit(c, pair) ==
    /\ StartRequest(c, pair)
    /\ pair \notin follows
    /\ follows' = follows \union {pair}
    /\ GoTo(c, "follow_graph", pair)
    /\ UNCHANGED <<sets, counters, counted, ids, cut, profiles, reads, aborts,
                   graphEvictions>>

\* What if the counters were not part of the MULTI block?
FollowGraphNoCount(c) ==
    LET pair == subject[c] IN
    /\ step[c] = "follow_graph"
    /\ following' = following \union {pair}
    /\ followers' = followers \union {pair}
    /\ followingCount' = [followingCount EXCEPT ![pair[1]] = Value(@) + 1]
    /\ GoTo(c, "follow_enqueue", pair)
    /\ UNCHANGED <<follows, followerCount, counted, ids, graphBounds>>

\* What if only the follower's own set were updated?
FollowGraphOneSet(c) ==
    LET pair == subject[c] IN
    /\ step[c] = "follow_graph"
    /\ following' = following \union {pair}
    /\ followingCount' = [followingCount EXCEPT ![pair[1]] = Value(@) + 1]
    /\ followerCount' = [followerCount EXCEPT ![pair[2]] = Value(@) + 1]
    /\ GoTo(c, "follow_enqueue", pair)
    /\ UNCHANGED <<follows, followers, counted, ids, graphBounds>>

\* MULTI: SADD both sets, INCR both counters.
FollowGraph(c) ==
    LET pair == subject[c] IN
    /\ step[c] = "follow_graph"
    /\ following' = following \union {pair}
    /\ followers' = followers \union {pair}
    /\ followingCount' = [followingCount EXCEPT ![pair[1]] = Value(@) + 1]
    /\ followerCount' = [followerCount EXCEPT ![pair[2]] = Value(@) + 1]
    /\ GoTo(c, "follow_enqueue", pair)
    /\ UNCHANGED <<follows, counted, ids, graphBounds>>

\* The backfill job is published (HomeFeed says what that does).
FollowEnqueue(c) ==
    /\ step[c] = "follow_enqueue"
    /\ Done(c)
    /\ UNCHANGED <<follows, sets, counters, counted, ids, graphBounds>>

-----------------------------------------------------------------------------
(* follow_service.unfollow *)

\* DELETE and commit.  No row deleted: the request ends here.
UnfollowCommit(c, pair) ==
    /\ StartRequest(c, pair)
    /\ pair \in follows
    /\ follows' = follows \ {pair}
    /\ GoTo(c, "unfollow_graph", pair)
    /\ UNCHANGED <<sets, counters, counted, ids, cut, profiles, reads, aborts,
                   graphEvictions>>

\* What if SREM were left to the followee's set alone?
UnfollowGraphOneSet(c) ==
    LET pair == subject[c] IN
    /\ step[c] = "unfollow_graph"
    /\ followers' = followers \ {pair}
    /\ followingCount' = [followingCount EXCEPT ![pair[1]] = Value(@) - 1]
    /\ followerCount' = [followerCount EXCEPT ![pair[2]] = Value(@) - 1]
    /\ Done(c)
    /\ UNCHANGED <<follows, following, counted, ids, graphBounds>>

\* MULTI: SREM both sets, DECR both counters.
UnfollowGraph(c) ==
    LET pair == subject[c] IN
    /\ step[c] = "unfollow_graph"
    /\ following' = following \ {pair}
    /\ followers' = followers \ {pair}
    /\ followingCount' = [followingCount EXCEPT ![pair[1]] = Value(@) - 1]
    /\ followerCount' = [followerCount EXCEPT ![pair[2]] = Value(@) - 1]
    /\ Done(c)
    /\ UNCHANGED <<follows, counted, ids, graphBounds>>

-----------------------------------------------------------------------------
(* user_service.get_cached_profile and _backfill_counters *)

\* The profile finds a counter missing.  (One that finds both changes nothing.)
ViewProfile(c, u) ==
    /\ Free(c)
    /\ profiles < MaxProfiles
    /\ Missing \in {followerCount[u], followingCount[u]}
    /\ profiles' = profiles + 1
    /\ GoTo(c, "count_followers", <<u, u>>)
    /\ UNCHANGED <<follows, sets, counters, counted, ids, overlapped, cut, stale,
                   requests, reads, aborts, graphEvictions>>

\* The rows are counted while requests that changed them have yet to apply
\* their INCR or DECR to counter k.
CountedAcross(k) ==
    stale' = stale \union {x \in {k} : \E pair \in Pairs : x \in CountersOf(pair)
                                                           /\ InFlight(pair)}

\* SELECT COUNT over the table, once by followee and once by follower.
CountFollowers(c) ==
    LET u == subject[c][1] IN
    /\ step[c] = "count_followers"
    /\ counted' = [counted EXCEPT ![c] = <<Cardinality(FollowersIn(follows, u)), 0>>]
    /\ CountedAcross(<<"follower_count", u>>)
    /\ GoTo(c, "count_following", subject[c])
    /\ UNCHANGED <<follows, sets, counters, ids, overlapped, cut, requests,
                   profiles, reads, aborts, graphEvictions>>

CountFollowing(c) ==
    LET u == subject[c][1] IN
    /\ step[c] = "count_following"
    /\ counted' = [counted EXCEPT ![c][2] = Cardinality(FolloweesIn(follows, u))]
    /\ CountedAcross(<<"following_count", u>>)
    /\ GoTo(c, "set_counters", subject[c])
    /\ UNCHANGED <<follows, sets, counters, ids, overlapped, cut, requests,
                   profiles, reads, aborts, graphEvictions>>

\* MULTI: SET both counters, whatever they hold by now.
SetCounters(c) ==
    LET u == subject[c][1] IN
    /\ step[c] = "set_counters"
    /\ followerCount' = [followerCount EXCEPT ![u] = counted[c][1]]
    /\ followingCount' = [followingCount EXCEPT ![u] = counted[c][2]]
    /\ counted' = [counted EXCEPT ![c] = <<0, 0>>]
    /\ Done(c)
    /\ UNCHANGED <<follows, sets, ids, graphBounds>>

-----------------------------------------------------------------------------
(* follow_service.get_followers, called by the fan-out worker *)

\* SCARD tells a miss from a hit.
SizeFollowers(w, u) ==
    /\ reads < MaxReads
    /\ reads' = reads + 1
    /\ GoTo(w, IF FollowersIn(followers, u) = {} THEN "select_followers"
               ELSE "random_followers", <<u, u>>)
    /\ UNCHANGED <<follows, sets, counters, counted, ids, overlapped, cut, stale,
                   requests, profiles, aborts, graphEvictions>>

\* On a hit, SRANDMEMBER with a limit above any follower count it is used for.
RandomFollowers(w) ==
    /\ step[w] = "random_followers"
    /\ ids' = [ids EXCEPT ![w] = FollowersIn(followers, subject[w][1])]
    /\ GoTo(w, "got_followers", subject[w])
    /\ UNCHANGED <<follows, sets, counters, counted, graphBounds>>

\* On a miss, SELECT; with rows, SADD them.
SelectFollowers(w) ==
    LET found == FollowersIn(follows, subject[w][1]) IN
    /\ step[w] = "select_followers"
    /\ ids' = [ids EXCEPT ![w] = found]
    /\ GoTo(w, IF found = {} THEN "got_followers" ELSE "add_followers", subject[w])
    /\ UNCHANGED <<follows, sets, counters, counted, graphBounds>>

\* What if SADD mixed up the key and its members?
AddFollowersSwapped(w) ==
    /\ step[w] = "add_followers"
    /\ followers' = followers \union ({subject[w][1]} \X ids[w])
    /\ GoTo(w, "got_followers", subject[w])
    /\ UNCHANGED <<follows, following, counters, counted, ids, graphBounds>>

AddFollowers(w) ==
    /\ step[w] = "add_followers"
    /\ followers' = followers \union (ids[w] \X {subject[w][1]})
    /\ GoTo(w, "got_followers", subject[w])
    /\ UNCHANGED <<follows, following, counters, counted, ids, graphBounds>>

\* The caller is done with what get_followers returned.
DropFollowers(w) ==
    /\ step[w] = "got_followers"
    /\ ids' = [ids EXCEPT ![w] = {}]
    /\ Done(w)
    /\ UNCHANGED <<follows, sets, counters, counted, graphBounds>>

-----------------------------------------------------------------------------
(* Environment *)

\* The request raises, or its API process dies, between two awaits.  Nothing
\* resumes it: a repeated follow finds the row and ends there.
AbortRequest(c) ==
    /\ ~Free(c)
    /\ aborts < MaxAborts
    /\ aborts' = aborts + 1
    /\ cut' = cut \union {q \in {subject[c]} : c \in Pending("follow_graph", q)
                                              \/ c \in Pending("unfollow_graph", q)}
    /\ counted' = [counted EXCEPT ![c] = <<0, 0>>]
    /\ Done(c)
    /\ UNCHANGED <<follows, sets, counters, ids, overlapped, stale, requests,
                   profiles, reads, graphEvictions>>

\* maxmemory-policy allkeys-lru evicts one key of one user.
EvictGraphKey(u) ==
    /\ graphEvictions < MaxGraphEvictions
    /\ graphEvictions' = graphEvictions + 1
    /\ \/ /\ FollowersIn(followers, u) # {}
          /\ followers' = {p \in followers : p[2] # u}
          /\ stale' = stale \union {<<"followers", u>>}
          /\ UNCHANGED <<following, counters>>
       \/ /\ FolloweesIn(following, u) # {}
          /\ following' = {p \in following : p[1] # u}
          /\ stale' = stale \union {<<"following", u>>}
          /\ UNCHANGED <<followers, counters>>
       \/ /\ followerCount[u] # Missing
          /\ followerCount' = [followerCount EXCEPT ![u] = Missing]
          /\ stale' = stale \union {<<"follower_count", u>>}
          /\ UNCHANGED <<sets, followingCount>>
       \/ /\ followingCount[u] # Missing
          /\ followingCount' = [followingCount EXCEPT ![u] = Missing]
          /\ stale' = stale \union {<<"following_count", u>>}
          /\ UNCHANGED <<sets, followerCount>>
    /\ UNCHANGED <<follows, locals, overlapped, cut, requests, profiles, reads, aborts>>

-----------------------------------------------------------------------------
GraphInit ==
    /\ follows = {} /\ followers = {} /\ following = {}
    /\ followerCount = [u \in Users |-> Missing]
    /\ followingCount = [u \in Users |-> Missing]
    /\ step = [p \in Procs |-> "idle"]
    /\ subject = [p \in Procs |-> NoSubject]
    /\ counted = [c \in Clients |-> <<0, 0>>]
    /\ ids = [w \in Workers |-> {}]
    /\ overlapped = {} /\ cut = {} /\ stale = {}
    /\ requests = 0 /\ profiles = 0 /\ reads = 0 /\ aborts = 0 /\ graphEvictions = 0

\* One request or one get_followers call, up to what its caller does next.
GraphClientNext(c) ==
    \/ \E pair \in Pairs : FollowCommit(c, pair) \/ UnfollowCommit(c, pair)
    \/ FollowGraph(c) \/ UnfollowGraph(c)
    \/ \E u \in Users : ViewProfile(c, u)
    \/ CountFollowers(c) \/ CountFollowing(c) \/ SetCounters(c)

GraphWorkerNext(w) == RandomFollowers(w) \/ SelectFollowers(w) \/ AddFollowers(w)

Next ==
    \/ \E c \in Clients : GraphClientNext(c) \/ FollowEnqueue(c) \/ AbortRequest(c)
    \/ \E w \in Workers :
        \/ Free(w) /\ \E u \in Users : SizeFollowers(w, u)
        \/ GraphWorkerNext(w) \/ DropFollowers(w)
    \/ \E u \in Users : EvictGraphKey(u)

GraphSpec == GraphInit /\ [][Next]_graphVars

-----------------------------------------------------------------------------
(* Properties *)

GraphTypeOK ==
    /\ follows \subseteq Pairs /\ followers \subseteq Pairs /\ following \subseteq Pairs
    /\ followerCount \in [Users -> Counts] /\ followingCount \in [Users -> Counts]
    /\ DOMAIN step = Procs
    /\ subject \in [Procs -> Pairs \union {<<u, u>> : u \in Users} \union {NoSubject}]
    /\ \A p \in Procs : step[p] = "idle" <=> subject[p] = NoSubject
    /\ counted \in [Clients -> Nat \X Nat]
    /\ ids \in [Workers -> SUBSET Users]
    /\ overlapped \subseteq Pairs /\ cut \subseteq Pairs /\ stale \subseteq Keys
    /\ requests \in 0..MaxRequests /\ profiles \in 0..MaxProfiles
    /\ reads \in 0..MaxReads /\ aborts \in 0..MaxAborts
    /\ graphEvictions \in 0..MaxGraphEvictions

\* Whoever follows in PostgreSQL is in the Redis set that fan-out reads, or a
\* request is about to put it there: hydration of the set and unfollows of
\* others never make it lose a follower.  Excepted are the sets that were
\* evicted, and the pairs with two requests at once, whose blocks Redis may run
\* in the other order, or with a request that was cut off: the damage stays
\* with those sets and pairs.
Spoilt == overlapped \union cut
NoFollowerLost ==
    \A pair \in follows \ Spoilt :
        \/ pair \in followers \/ Pending("follow_graph", pair) # {}
        \/ <<"followers", pair[2]>> \in stale

\* social:following:* has no second writer: but for a request between commit
\* and MULTI it never shows a followee that was left, whatever is evicted, and
\* misses a present one only after its own eviction.  The celebrity merge of a
\* home feed reads it.
FollowingExact ==
    \A pair \in Pairs \ Spoilt :
        /\ pair \in following =>
              pair \in follows \/ Pending("unfollow_graph", pair) # {}
        /\ pair \in follows =>
              \/ pair \in following \/ Pending("follow_graph", pair) # {}
              \/ <<"following", pair[1]>> \in stale

\* A counter differs from the table by the requests that have still to apply
\* their INCR or DECR, however follows, unfollows and backfills interleave.
\* Excepted is a counter that was evicted (INCR restarts it at 1), that a backfill
\* counted or set while such a request was under way, or whose request was cut
\* off: nothing puts those right.
PendingDelta(P) ==
    Cardinality({c \in Clients : step[c] = "follow_graph" /\ subject[c] \in P})
    - Cardinality({c \in Clients : step[c] = "unfollow_graph" /\ subject[c] \in P})
CountersExact ==
    \A u \in Users :
        /\ <<"follower_count", u>> \notin stale /\ (\A p \in cut : p[2] # u) =>
            Value(followerCount[u]) + PendingDelta({p \in Pairs : p[2] = u})
              = Cardinality(FollowersIn(follows, u))
        /\ <<"following_count", u>> \notin stale /\ (\A p \in cut : p[1] # u) =>
            Value(followingCount[u]) + PendingDelta({p \in Pairs : p[1] = u})
              = Cardinality(FolloweesIn(follows, u))

\* No request and no worker is under way (HomeFeed).
AllIdle == \A p \in Procs : Free(p)
=============================================================================
