----------------------------- MODULE ReadThrough -----------------------------
(***************************************************************************)
(* get_or_set of redis_layer/cache.py on one key, with the callers it has: *)
(* the profile views of user_service.py read through it, the row appears   *)
(* when the user registers, and a follow or unfollow deletes the key.      *)
(*                                                                         *)
(* No code changes a user's row, so the key holds that row or nothing; the *)
(* live counters next to it are those of SocialGraph.  The lock holds no   *)
(* token in the code ("1"): that it names its owner here is a history.     *)
(***************************************************************************)
EXTENDS Integers, FiniteSets

CONSTANTS
    Requests,
    NoOwner,    \* the lock key does not exist
    MaxRetries, \* max_retries: polls before the fallback (40 in the code)
    MaxLapses   \* bound: loaders that outlive the lock's five seconds

ASSUME CacheAssumption ==
    /\ IsFiniteSet(Requests) /\ NoOwner \notin Requests
    /\ MaxRetries \in Nat /\ MaxLapses \in Nat

VARIABLES
    row,        \* PostgreSQL: does the user exist?
    cached,     \* does the key hold the row?
    lock,       \* {key}:lock
    step,       \* what a request does next
    polls,      \* how often it has polled
    answer,     \* its last answer: "row", "none" or, while it runs, "open"
    existed,    \* history: did the user exist when the request began?
    lapses      \* history: locks that expired under a running loader

cacheVars == <<row, cached, lock, step, polls, answer, existed, lapses>>

\* Requests that were granted the lock and have not released it.
Inside == {p \in Requests : step[p] \in {"load", "store", "unlock"}}

Goto(p, s) == step' = [step EXCEPT ![p] = s]
Return(p, a) ==
    /\ Goto(p, "idle")
    /\ polls' = [polls EXCEPT ![p] = 0]
    /\ answer' = [answer EXCEPT ![p] = a]

-----------------------------------------------------------------------------
(* get_or_set *)

\* GET; a hit is answered at once.
Get(p) ==
    /\ step[p] = "idle"
    /\ existed' = [existed EXCEPT ![p] = row]
    /\ IF cached THEN Return(p, "row")
                 ELSE /\ Goto(p, "lock")
                      /\ answer' = [answer EXCEPT ![p] = "open"]
                      /\ UNCHANGED polls
    /\ UNCHANGED <<row, cached, lock, lapses>>

\* What if the lock were set without NX?
SetAlways(p) ==
    /\ step[p] = "lock"
    /\ lock' = p /\ Goto(p, "load")
    /\ UNCHANGED <<row, cached, polls, answer, existed, lapses>>

\* SET NX EX 5: one request wins, the others poll.
SetLock(p) ==
    /\ step[p] = "lock"
    /\ IF lock = NoOwner THEN lock' = p /\ Goto(p, "load")
                         ELSE UNCHANGED lock /\ Goto(p, "poll")
    /\ UNCHANGED <<row, cached, polls, answer, existed, lapses>>

\* What if "no such user" were cached like a row?
LoadCachesNone(p) ==
    /\ step[p] = "load"
    /\ Goto(p, "store")
    /\ answer' = [answer EXCEPT ![p] = IF row THEN "row" ELSE "none"]
    /\ UNCHANGED <<row, cached, lock, polls, existed, lapses>>

\* The winner's loader: SELECT.  "No such user" is not cached.
Load(p) ==
    /\ step[p] = "load"
    /\ Goto(p, IF row THEN "store" ELSE "unlock")
    /\ answer' = [answer EXCEPT ![p] = IF row THEN "row" ELSE "none"]
    /\ UNCHANGED <<row, cached, lock, polls, existed, lapses>>

Store(p) ==
    /\ step[p] = "store"
    /\ cached' = TRUE
    /\ Goto(p, "unlock")
    /\ UNCHANGED <<row, lock, polls, answer, existed, lapses>>

\* The loader or SET raises; finally still runs.
LoadFails(p) ==
    /\ step[p] \in {"load", "store"}
    /\ Goto(p, "unlock")
    /\ answer' = [answer EXCEPT ![p] = "error"]
    /\ UNCHANGED <<row, cached, lock, polls, existed, lapses>>

\* finally: DELETE of the lock, whoever set it by now.
Unlock(p) ==
    /\ step[p] = "unlock"
    /\ lock' = NoOwner
    /\ Return(p, answer[p])
    /\ UNCHANGED <<row, cached, existed, lapses>>

\* What if a loser polled until the key is there?
PollForEver(p) ==
    /\ step[p] = "poll"
    /\ IF cached THEN Return(p, "row") ELSE UNCHANGED <<step, polls, answer>>
    /\ UNCHANGED <<row, cached, lock, existed, lapses>>

\* A loser polls until the key is there, MaxRetries times at most.
Poll(p) ==
    /\ step[p] = "poll"
    /\ IF polls[p] = MaxRetries
         THEN Goto(p, "fallback") /\ UNCHANGED <<polls, answer>>
         ELSE IF cached
                THEN Return(p, "row")
                ELSE /\ polls' = [polls EXCEPT ![p] = @ + 1]
                     /\ UNCHANGED <<step, answer>>
    /\ UNCHANGED <<row, cached, lock, existed, lapses>>

\* What if a loser gave up after its polls?
FallbackGivesUp(p) ==
    /\ step[p] = "fallback"
    /\ Return(p, "none")
    /\ UNCHANGED <<row, cached, lock, existed, lapses>>

\* The fallback: the loser loads and stores the row itself, without the lock.
Fallback(p) ==
    /\ step[p] = "fallback"
    /\ IF row THEN Goto(p, "fallback_store") /\ UNCHANGED <<polls, answer>>
              ELSE Return(p, "none")
    /\ UNCHANGED <<row, cached, lock, existed, lapses>>

FallbackStore(p) ==
    /\ step[p] = "fallback_store"
    /\ cached' = TRUE
    /\ Return(p, "row")
    /\ UNCHANGED <<row, lock, existed, lapses>>

-----------------------------------------------------------------------------
(* Environment *)

\* create_user.
Register ==
    /\ ~row /\ row' = TRUE
    /\ UNCHANGED <<cached, lock, step, polls, answer, existed, lapses>>

\* invalidate_user_cache, expiry of the key, eviction.
DropKey ==
    /\ cached /\ cached' = FALSE
    /\ UNCHANGED <<row, lock, step, polls, answer, existed, lapses>>

\* Five seconds are over.  A loader that still runs does not notice.
LockExpires ==
    /\ lock # NoOwner
    /\ lock' = NoOwner
    /\ IF lock \in Inside THEN lapses < MaxLapses /\ lapses' = lapses + 1
                          ELSE UNCHANGED lapses
    /\ UNCHANGED <<row, cached, step, polls, answer, existed>>

\* The request ends anywhere without its finally clause: its process died.
Crash(p) ==
    /\ step[p] # "idle"
    /\ Return(p, "error")
    /\ UNCHANGED <<row, cached, lock, existed, lapses>>

-----------------------------------------------------------------------------
CacheInit ==
    /\ row = FALSE /\ cached = FALSE
    /\ lock = NoOwner
    /\ step = [p \in Requests |-> "idle"]
    /\ polls = [p \in Requests |-> 0]
    /\ answer = [p \in Requests |-> "open"]
    /\ existed = [p \in Requests |-> FALSE]
    /\ lapses = 0

\* What a request that missed does by itself.
RequestStep(p) ==
    \/ SetLock(p) \/ Load(p) \/ Store(p) \/ LoadFails(p) \/ Unlock(p)
    \/ Poll(p) \/ Fallback(p) \/ FallbackStore(p)

CacheNext ==
    \/ \E p \in Requests : Get(p) \/ RequestStep(p) \/ Crash(p)
    \/ Register \/ DropKey \/ LockExpires

CacheSpec == CacheInit /\ [][CacheNext]_cacheVars

\* A request that has begun goes on; nothing is assumed of the lock's expiry.
FairCacheSpec == CacheSpec /\ \A p \in Requests : WF_cacheVars(RequestStep(p))

-----------------------------------------------------------------------------
(* Properties *)

CacheTypeOK ==
    /\ row \in BOOLEAN /\ cached \in BOOLEAN /\ (cached => row)
    /\ lock \in Requests \union {NoOwner}
    /\ step \in [Requests -> {"idle", "lock", "load", "store", "unlock", "poll",
                              "fallback", "fallback_store"}]
    /\ polls \in [Requests -> 0..MaxRetries]
    /\ answer \in [Requests -> {"open", "row", "none", "error"}]
    /\ existed \in [Requests -> BOOLEAN]
    /\ lapses \in 0..MaxLapses

\* "Single-flight": one request loads at a time, and one more for each loader
\* that outlived the lock.  Such a loader deletes a lock that is another's, but
\* by then it loads no more, so the number does not grow.
LoadersBounded == Cardinality(Inside) <= 1 + lapses

\* A profile view never answers 404 for a user who existed when it began,
\* whether it hit, won, polled or fell back.
ExistingIsFound == \A p \in Requests : answer[p] = "none" => ~existed[p]

\* "So we never block indefinitely": every view is answered, though the winner
\* may die, the user not exist and the key be deleted again and again.
EveryViewAnswered == \A p \in Requests : step[p] = "lock" ~> step[p] = "idle"
=============================================================================
