------------------------------ MODULE Sessions ------------------------------
(***************************************************************************)
(* Server-side sessions: session_service.py, its callers in api/auth.py    *)
(* and the token check of api/deps.py.  A session is the hash              *)
(* session:{token}; the set session:user:{u} lists the tokens of a user.   *)
(* Both expire, and Redis may evict either.                                *)
(*                                                                         *)
(* No code of the repository issues a JWT, so the fall-back of the token   *)
(* check to decode_token accepts none of these tokens.                     *)
(***************************************************************************)
EXTENDS Integers

CONSTANTS
    Users,
    MaxLogins,  \* bound: logins per user
    Requests,   \* API requests that log out
    Ttl,        \* access_token_ttl_seconds, in ticks
    MayForget   \* TRUE if Redis evicts keys

\* The nth token of user u; token_urlsafe never returns one twice.
Tokens == Users \X (1..MaxLogins)
Of(u) == {t \in Tokens : t[1] = u}
NoUser == "none"
NoToken == <<NoUser, 0>>

ASSUME SessionAssumption ==
    /\ NoUser \notin Users
    /\ MaxLogins \in Nat
    /\ Ttl \in Nat \ {0}
    /\ MayForget \in BOOLEAN

VARIABLES
    accounts,   \* PostgreSQL: users
    issued,     \* history: tokens returned by a login
    left,       \* left[t]: ticks session:{t} has to live, 0 if it does not exist
    index,      \* session:user:{u}
    indexLeft,  \* ticks that set has to live
    step,       \* step[p]: what request p does next
    who,        \* who[p]: the user request p was authenticated as
    token,      \* token[p]: the token it carries, as a logout looks it up
    read,       \* read[p]: what its SMEMBERS returned
    strays      \* history: sessions that a logout-all may miss

request == <<step, who, token, read>>
keys == <<left, index, indexLeft>>
sessionVars == <<accounts, issued, keys, request, strays>>

Valid == {t \in Tokens : left[t] > 0}

Finish(p) ==
    /\ step' = [step EXCEPT ![p] = "idle"]
    /\ who' = [who EXCEPT ![p] = NoUser]
    /\ token' = [token EXCEPT ![p] = NoToken]
    /\ read' = [read EXCEPT ![p] = {}]

Goto(p, s) == step' = [step EXCEPT ![p] = s]

-----------------------------------------------------------------------------
\* user_service.create_user: the names of users are unique.
Register(u) ==
    /\ u \notin accounts
    /\ accounts' = accounts \union {u}
    /\ UNCHANGED <<issued, keys, request, strays>>

\* What if the set of tokens got its expiry only when it was created?
CreateSessionOldIndex(t) ==
    LET u == t[1] IN
    /\ u \in accounts /\ t \notin issued
    /\ issued' = issued \union {t}
    /\ left' = [left EXCEPT ![t] = Ttl]
    /\ index' = [index EXCEPT ![u] = @ \union {t}]
    /\ indexLeft' = [indexLeft EXCEPT ![u] = IF index[u] = {} THEN Ttl ELSE @]
    /\ strays' = strays \union {s \in {t} : \E p \in Requests :
                                    step[p] = "delete_all" /\ who[p] = u}
    /\ UNCHANGED <<accounts, request>>

\* login, once the password is verified.  MULTI: HSET and EXPIRE of the session,
\* SADD and EXPIRE of the set of tokens.
CreateSession(t) ==
    LET u == t[1] IN
    /\ u \in accounts /\ t \notin issued
    /\ issued' = issued \union {t}
    /\ left' = [left EXCEPT ![t] = Ttl]
    /\ index' = [index EXCEPT ![u] = @ \union {t}]
    /\ indexLeft' = [indexLeft EXCEPT ![u] = Ttl]
    /\ strays' = strays \union {s \in {t} : \E p \in Requests :
                                    step[p] = "delete_all" /\ who[p] = u}
    /\ UNCHANGED <<accounts, request>>

\* current_user_id: HGETALL of the session lets the request in.  It is not
\* looked at again, so the handler may run after the session has ended.  The
\* check strips the token and logout does not: after two spaces in the header it
\* looks for a token that no session has.
Authenticate(p, t, handler) ==
    /\ step[p] = "idle"
    /\ t \in Valid
    /\ Goto(p, handler)
    /\ who' = [who EXCEPT ![p] = t[1]]
    /\ \E looked \in {t, NoToken} : token' = [token EXCEPT ![p] = looked]
    /\ UNCHANGED <<accounts, issued, keys, read, strays>>

\* revoke_session: HGETALL, once more.
ReadSession(p) ==
    /\ step[p] = "logout"
    /\ IF token[p] \in Valid
         THEN Goto(p, "delete") /\ UNCHANGED <<who, token, read>>
         ELSE Finish(p)
    /\ UNCHANGED <<accounts, issued, keys, strays>>

\* MULTI: DEL of the session and SREM from the set of tokens, which disappears
\* with its last member.
DeleteSession(p) ==
    LET u == who[p]
        rest == index[u] \ {token[p]} IN
    /\ step[p] = "delete"
    /\ left' = [left EXCEPT ![token[p]] = 0]
    /\ index' = [index EXCEPT ![u] = rest]
    /\ indexLeft' = [indexLeft EXCEPT ![u] = IF rest = {} THEN 0 ELSE @]
    /\ Finish(p)
    /\ UNCHANGED <<accounts, issued, strays>>

\* revoke_all_sessions: SMEMBERS; an empty answer ends the request.
ReadIndex(p) ==
    /\ step[p] = "logout_all"
    /\ IF index[who[p]] = {}
         THEN Finish(p)
         ELSE /\ read' = [read EXCEPT ![p] = index[who[p]]]
              /\ Goto(p, "delete_all")
              /\ UNCHANGED <<who, token>>
    /\ UNCHANGED <<accounts, issued, keys, strays>>

\* What if only the set of tokens were deleted?
DeleteIndexOnly(p) ==
    LET u == who[p] IN
    /\ step[p] = "delete_all"
    /\ index' = [index EXCEPT ![u] = {}]
    /\ indexLeft' = [indexLeft EXCEPT ![u] = 0]
    /\ Finish(p)
    /\ UNCHANGED <<accounts, issued, left, strays>>

\* MULTI: DEL of each session read, and of the set as it is by now.
DeleteAll(p) ==
    LET u == who[p] IN
    /\ step[p] = "delete_all"
    /\ left' = [t \in Tokens |-> IF t \in read[p] THEN 0 ELSE left[t]]
    /\ index' = [index EXCEPT ![u] = {}]
    /\ indexLeft' = [indexLeft EXCEPT ![u] = 0]
    /\ Finish(p)
    /\ UNCHANGED <<accounts, issued, strays>>

\* The request raises or its process dies between two awaits.
Abort(p) ==
    /\ step[p] # "idle"
    /\ Finish(p)
    /\ UNCHANGED <<accounts, issued, keys, strays>>

-----------------------------------------------------------------------------
(* Redis *)

\* What if the set of tokens outlived its expiry?
TickSessionsOnly ==
    /\ left' = [t \in Tokens |-> IF left[t] > 0 THEN left[t] - 1 ELSE 0]
    /\ indexLeft' = [u \in Users |-> IF indexLeft[u] > 0 THEN indexLeft[u] - 1 ELSE 0]
    /\ UNCHANGED <<accounts, issued, index, request, strays>>

\* Time passes, and keys reach the end of their life.
Tick ==
    /\ left' = [t \in Tokens |-> IF left[t] > 0 THEN left[t] - 1 ELSE 0]
    /\ indexLeft' = [u \in Users |-> IF indexLeft[u] > 0 THEN indexLeft[u] - 1 ELSE 0]
    /\ index' = [u \in Users |-> IF indexLeft[u] > 1 THEN index[u] ELSE {}]
    /\ UNCHANGED <<accounts, issued, request, strays>>

EvictSession(t) ==
    /\ MayForget
    /\ left' = [left EXCEPT ![t] = 0]
    /\ UNCHANGED <<accounts, issued, index, indexLeft, request, strays>>

\* The sessions whose list is lost stay valid.
EvictIndex(u) ==
    /\ MayForget
    /\ index' = [index EXCEPT ![u] = {}]
    /\ indexLeft' = [indexLeft EXCEPT ![u] = 0]
    /\ strays' = strays \union (Valid \intersect Of(u))
    /\ UNCHANGED <<accounts, issued, left, request>>

-----------------------------------------------------------------------------
SessionInit ==
    /\ accounts = {} /\ issued = {} /\ strays = {}
    /\ left = [t \in Tokens |-> 0]
    /\ index = [u \in Users |-> {}]
    /\ indexLeft = [u \in Users |-> 0]
    /\ step = [p \in Requests |-> "idle"]
    /\ who = [p \in Requests |-> NoUser]
    /\ token = [p \in Requests |-> NoToken]
    /\ read = [p \in Requests |-> {}]

RequestStep(p) ==
    \/ ReadSession(p) \/ DeleteSession(p) \/ ReadIndex(p) \/ DeleteAll(p) \/ Abort(p)

SessionNext ==
    \/ \E u \in Users : Register(u) \/ EvictIndex(u)
    \/ \E t \in Tokens :
        \/ CreateSession(t) \/ EvictSession(t)
        \/ \E p \in Requests, handler \in {"logout", "logout_all"} :
              Authenticate(p, t, handler)
    \/ \E p \in Requests : RequestStep(p)
    \/ Tick

SessionSpec == SessionInit /\ [][SessionNext]_sessionVars

-----------------------------------------------------------------------------
(* Properties *)

SessionTypeOK ==
    /\ accounts \subseteq Users
    /\ issued \subseteq Tokens /\ strays \subseteq Tokens
    /\ left \in [Tokens -> 0..Ttl] /\ indexLeft \in [Users -> 0..Ttl]
    /\ index \in [Users -> SUBSET Tokens]
    /\ \A u \in Users : index[u] \subseteq Of(u)
    /\ \A u \in Users : index[u] = {} <=> indexLeft[u] = 0
    /\ step \in [Requests -> {"idle", "logout", "delete", "logout_all", "delete_all"}]
    /\ who \in [Requests -> Users \union {NoUser}]
    /\ token \in [Requests -> Tokens \union {NoToken}]
    /\ read \in [Requests -> SUBSET Tokens]
    /\ \A p \in Requests :
        /\ IF step[p] = "idle"
             THEN who[p] = NoUser /\ token[p] = NoToken
             ELSE who[p] \in Users /\ token[p] \in Of(who[p]) \union {NoToken}
        /\ read[p] \subseteq Of(who[p])
        /\ step[p] = "delete_all" <=> read[p] # {}
    /\ Valid \subseteq issued

\* "We record per-user session sets so logout from all devices" can find them:
\* the set names every session of its user and outlives it, in whatever order
\* logins, logouts, ticks and running logout-alls come.  The strays are exactly
\* what a login between the SMEMBERS and the DEL of a logout-all, or an
\* eviction, can leave behind.
ListedUnlessStray ==
    \A t \in Valid \ strays : t \in index[t[1]] /\ left[t] <= indexLeft[t[1]]

\* The sessions implement AuthSessions; a logout-all runs from its SMEMBERS to
\* its MULTI block, and one that finds the set empty has nothing to end.
Revoking == [p \in Requests |->
    IF step[p] = "delete_all" THEN [user |-> who[p], ends |-> read[p]]
                              ELSE [user |-> NoUser, ends |-> {}]]
Contract == INSTANCE AuthSessions WITH valid <- Valid, revoking <- Revoking
AuthSpec == Contract!Spec
=============================================================================
