----------------------------- MODULE RedisLock -----------------------------
(***************************************************************************)
(* The lock of redis_layer/lock.py on one key: SET NX PX with a token of   *)
(* the lock object, and a script that deletes the key only if it still     *)
(* holds that token.  A client stands for one RedisLock object, so a       *)
(* client is its own token.                                                *)
(*                                                                         *)
(* The lease (PX) may run out at any time: the code never extends it, and  *)
(* a holder does not notice.                                               *)
(***************************************************************************)
EXTENDS Integers

CONSTANTS
    Clients,
    NoToken,    \* the key does not exist
    WaitMs      \* wait_ms: 0 in every call of the repository, larger allowed

ASSUME LockAssumption == NoToken \notin Clients /\ WaitMs \in Nat

VARIABLES
    key,        \* the token the Redis key holds
    at,         \* where a client is: "out", "trying", "sleeping", "in"
    lapsed      \* history: clients whose lease ran out while they were in

lockVars == <<key, at, lapsed>>

LockTypeOK ==
    /\ key \in Clients \union {NoToken}
    /\ at \in [Clients -> {"out", "trying", "sleeping", "in"}]
    /\ lapsed \subseteq {c \in Clients : at[c] = "in"}

LockInit ==
    /\ key = NoToken
    /\ at = [c \in Clients |-> "out"]
    /\ lapsed = {}

-----------------------------------------------------------------------------
(* Redis commands *)

\* SET key token NX PX: granted only if there is no key.
SetNX(c) == key = NoToken /\ key' = c

\* What if release deleted the key without looking at the token?
DeleteAnyway(c) == key' = NoToken

\* The release script: GET, compare, DEL, in one step.
CompareAndDelete(c) == key' = IF key = c THEN NoToken ELSE key

-----------------------------------------------------------------------------
(* RedisLock.acquire and release *)

Request(c) ==
    /\ at[c] = "out"
    /\ at' = [at EXCEPT ![c] = "trying"]
    /\ UNCHANGED <<key, lapsed>>

Acquire(c) ==
    /\ at[c] = "trying"
    /\ SetNX(c)
    /\ at' = [at EXCEPT ![c] = "in"]
    /\ UNCHANGED lapsed

\* The key is taken.  Without a wait, or past the deadline, acquire returns
\* False; otherwise it sleeps and tries again.
Refused(c) ==
    /\ at[c] = "trying"
    /\ key # NoToken
    /\ \/ at' = [at EXCEPT ![c] = "out"]
       \/ WaitMs > 0 /\ at' = [at EXCEPT ![c] = "sleeping"]
    /\ UNCHANGED <<key, lapsed>>

Retry(c) ==
    /\ at[c] = "sleeping"
    /\ at' = [at EXCEPT ![c] = "trying"]
    /\ UNCHANGED <<key, lapsed>>

Release(c) ==
    /\ at[c] = "in"
    /\ CompareAndDelete(c)
    /\ at' = [at EXCEPT ![c] = "out"]
    /\ lapsed' = lapsed \ {c}

-----------------------------------------------------------------------------
(* Environment *)

\* The lease runs out: Redis removes the key, its holder goes on.
Expire ==
    /\ key # NoToken
    /\ key' = NoToken
    /\ lapsed' = lapsed \union {c \in Clients : c = key /\ at[c] = "in"}
    /\ UNCHANGED at

\* The client is gone before it released.
Crash(c) ==
    /\ at[c] # "out"
    /\ at' = [at EXCEPT ![c] = "out"]
    /\ lapsed' = lapsed \ {c}
    /\ UNCHANGED key

\* SET is applied, but its reply is lost: acquire raises, the key stays.
AcquireReplyLost(c) ==
    /\ at[c] = "trying"
    /\ SetNX(c)
    /\ at' = [at EXCEPT ![c] = "out"]
    /\ UNCHANGED lapsed

LockStep(c) == Request(c) \/ Acquire(c) \/ Refused(c) \/ Retry(c) \/ Release(c)

LockNext ==
    \/ \E c \in Clients : LockStep(c) \/ Crash(c) \/ AcquireReplyLost(c)
    \/ Expire

LockSpec == LockInit /\ [][LockNext]_lockVars

-----------------------------------------------------------------------------
(* Properties *)

\* Of the clients inside, all but one have outlived their lease: a client that
\* releases late never opens the door that another one has closed behind it.
MutualExclusion ==
    \A c, d \in Clients :
        at[c] = "in" /\ at[d] = "in" /\ c # d => c \in lapsed \/ d \in lapsed
=============================================================================
