---------------------------- MODULE AuthSessions ----------------------------
(***************************************************************************)
(* What session_service promises to the rest of the API: a token is valid  *)
(* from its login until it ends, and then never again; a logout from all   *)
(* devices ends every session of the user that was valid when it began.    *)
(* Strays are excepted: sessions opened while another logout-all of that   *)
(* user was under way, or forgotten by Redis if MayForget.                 *)
(***************************************************************************)
EXTENDS Integers

CONSTANTS
    Users,
    MaxLogins,  \* logins per user
    Requests,
    MayForget   \* TRUE if Redis may evict the list of a user's sessions

VARIABLES
    accounts,   \* users who have registered
    issued,     \* sessions ever opened
    valid,      \* sessions that authenticate a request
    strays,     \* sessions a logout-all may miss
    revoking    \* the sessions each running logout-all will end

vars == <<accounts, issued, valid, strays, revoking>>

\* The nth session of user u.
Tokens == Users \X (1..MaxLogins)
Of(u) == {t \in Tokens : t[1] = u}

NotRevoking == [user |-> "none", ends |-> {}]

Init ==
    /\ accounts = {} /\ issued = {} /\ valid = {} /\ strays = {}
    /\ revoking = [p \in Requests |-> NotRevoking]

Register(u) ==
    /\ u \notin accounts
    /\ accounts' = accounts \union {u}
    /\ UNCHANGED <<issued, valid, strays, revoking>>

Login(t) ==
    /\ t[1] \in accounts /\ t \notin issued
    /\ issued' = issued \union {t}
    /\ valid' = valid \union {t}
    /\ strays' = strays \union {s \in {t} : \E p \in Requests : revoking[p].user = t[1]}
    /\ UNCHANGED <<accounts, revoking>>

\* Sessions end by logout, by age or by eviction.
End ==
    /\ \E D \in SUBSET valid : valid' = valid \ D
    /\ UNCHANGED <<accounts, issued, strays, revoking>>

BeginLogoutAll(p, u) ==
    /\ revoking[p] = NotRevoking
    /\ \E D \in SUBSET Of(u) :
        /\ valid \intersect Of(u) \subseteq D \union strays
        /\ revoking' = [revoking EXCEPT ![p] = [user |-> u, ends |-> D]]
    /\ UNCHANGED <<accounts, issued, valid, strays>>

FinishLogoutAll(p) ==
    /\ valid' = valid \ revoking[p].ends
    /\ revoking' = [revoking EXCEPT ![p] = NotRevoking]
    /\ UNCHANGED <<accounts, issued, strays>>

\* A request that is cut off has promised nothing.
Abandon(p) ==
    /\ revoking' = [revoking EXCEPT ![p] = NotRevoking]
    /\ UNCHANGED <<accounts, issued, valid, strays>>

Forget(u) ==
    /\ MayForget
    /\ strays' = strays \union (valid \intersect Of(u))
    /\ UNCHANGED <<accounts, issued, valid, revoking>>

Next ==
    \/ \E u \in Users : Register(u) \/ Forget(u)
    \/ \E t \in Tokens : Login(t)
    \/ End
    \/ \E p \in Requests :
        (\E u \in Users : BeginLogoutAll(p, u)) \/ FinishLogoutAll(p) \/ Abandon(p)

Spec == Init /\ [][Next]_vars
=============================================================================
