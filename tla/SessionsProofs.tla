--------------------------- MODULE SessionsProofs ---------------------------
(***************************************************************************)
(* Proofs about Sessions, for any users, tokens, requests and lifetimes.   *)
(***************************************************************************)
EXTENDS Sessions, TLAPS

USE SessionAssumption

\* What a logout-all has read is complete but for strays: a session that is
\* opened after its SMEMBERS is a stray.
ReadComplete ==
    \A p \in Requests : step[p] = "delete_all" =>
        \A t \in Valid \ strays : t[1] = who[p] => t \in read[p]

SessionInv == SessionTypeOK /\ ListedUnlessStray /\ ReadComplete

\* A token belongs to the user it names.
LEMMA TokenOwner == \A t \in Tokens : t[1] \in Users /\ t \in Of(t[1]) /\ t # NoToken
BY DEF Tokens, Of, NoToken, NoUser

\* The token of a header that logout does not recognise names no session.
LEMMA NoSession == NoToken \notin Tokens
BY DEF Tokens, NoToken

LEMMA TokensOfUser == \A u : \A t \in Of(u) : t \in Tokens /\ t[1] = u
BY DEF Of

-----------------------------------------------------------------------------
LEMMA TypeInit == SessionInit => SessionTypeOK
BY TokenOwner DEF SessionInit, SessionTypeOK, Valid, Of

LEMMA TypeStep == SessionTypeOK /\ [SessionNext]_sessionVars => SessionTypeOK'
<1> SUFFICES ASSUME SessionTypeOK, [SessionNext]_sessionVars
             PROVE  SessionTypeOK'
    OBVIOUS
<1> USE TokenOwner, TokensOfUser DEF SessionTypeOK, Valid
<1>1. ASSUME NEW u \in Users, Register(u) PROVE SessionTypeOK'
    BY <1>1 DEF Register, keys, request
<1>2. ASSUME NEW u \in Users, EvictIndex(u) PROVE SessionTypeOK'
    <2>1. Valid \intersect Of(u) \subseteq Tokens
        OBVIOUS
    <2>2. strays' \subseteq Tokens
        BY <1>2, <2>1 DEF EvictIndex
    <2>3. index' \in [Users -> SUBSET Tokens] /\ indexLeft' \in [Users -> 0..Ttl]
        BY <1>2 DEF EvictIndex
    <2>4. \A v \in Users : index'[v] \subseteq Of(v) /\ (index'[v] = {} <=> indexLeft'[v] = 0)
        BY <1>2 DEF EvictIndex
    <2>5. QED
        BY <1>2, <2>2, <2>3, <2>4 DEF EvictIndex, request
<1>3. ASSUME NEW t \in Tokens, CreateSession(t) PROVE SessionTypeOK'
    <2>1. issued' \subseteq Tokens /\ strays' \subseteq Tokens
        BY <1>3 DEF CreateSession
    <2>2. left' \in [Tokens -> 0..Ttl] /\ index' \in [Users -> SUBSET Tokens]
            /\ indexLeft' \in [Users -> 0..Ttl]
        BY <1>3 DEF CreateSession
    <2>3. \A v \in Users : index'[v] \subseteq Of(v) /\ (index'[v] = {} <=> indexLeft'[v] = 0)
        <3> SUFFICES ASSUME NEW v \in Users
                     PROVE  index'[v] \subseteq Of(v) /\ (index'[v] = {} <=> indexLeft'[v] = 0)
            OBVIOUS
        <3>1. CASE v = t[1]
            <4>1. index'[v] = index[v] \union {t} /\ indexLeft'[v] = Ttl
                BY <1>3, <3>1 DEF CreateSession
            <4>2. t \in Of(v) /\ index[v] \subseteq Of(v)
                BY <3>1
            <4>3. QED
                BY <4>1, <4>2
        <3>2. CASE v # t[1]
            BY <1>3, <3>2 DEF CreateSession
        <3>3. QED
            BY <3>1, <3>2
    <2>4. Valid' \subseteq issued'
        BY <1>3 DEF CreateSession
    <2>5. QED
        BY <1>3, <2>1, <2>2, <2>3, <2>4 DEF CreateSession, request
<1>4. ASSUME NEW t \in Tokens, EvictSession(t) PROVE SessionTypeOK'
    BY <1>4 DEF EvictSession, request
<1>5. ASSUME NEW t \in Tokens, NEW p \in Requests,
             NEW handler \in {"logout", "logout_all"}, Authenticate(p, t, handler)
      PROVE  SessionTypeOK'
    BY <1>5 DEF Authenticate, Goto, keys
<1>6. ASSUME NEW p \in Requests, ReadSession(p) PROVE SessionTypeOK'
    BY <1>6 DEF ReadSession, Goto, Finish, keys
<1>7. ASSUME NEW p \in Requests, DeleteSession(p) PROVE SessionTypeOK'
    <2>1. left' \in [Tokens -> 0..Ttl] /\ Valid' \subseteq Valid
        <3>1. left' = [left EXCEPT ![token[p]] = 0] /\ 0 \in 0..Ttl
            BY <1>7 DEF DeleteSession
        <3>2. left' \in [Tokens -> 0..Ttl]
            BY <3>1
        <3>3. \A t \in Tokens : left'[t] > 0 => left[t] > 0
            BY <3>1
        <3>4. QED
            BY <3>2, <3>3
    <2>2. /\ index' \in [Users -> SUBSET Tokens] /\ indexLeft' \in [Users -> 0..Ttl]
          /\ \A u \in Users : index'[u] \subseteq Of(u) /\ (index'[u] = {} <=> indexLeft'[u] = 0)
        BY <1>7 DEF DeleteSession
    <2>3. QED
        BY <1>7, <2>1, <2>2 DEF DeleteSession, Finish
<1>8. ASSUME NEW p \in Requests, ReadIndex(p) PROVE SessionTypeOK'
    BY <1>8 DEF ReadIndex, Goto, Finish, keys
<1>9. ASSUME NEW p \in Requests, DeleteAll(p) PROVE SessionTypeOK'
    BY <1>9 DEF DeleteAll, Finish, keys
<1>10. ASSUME NEW p \in Requests, Abort(p) PROVE SessionTypeOK'
    BY <1>10 DEF Abort, Finish, keys
<1>11. CASE Tick
    BY <1>11 DEF Tick, request
<1>12. CASE UNCHANGED sessionVars
    BY <1>12 DEF sessionVars, keys, request
<1>13. QED
    BY <1>1, <1>2, <1>3, <1>4, <1>5, <1>6, <1>7, <1>8, <1>9, <1>10, <1>11, <1>12
    DEF SessionNext, RequestStep

-----------------------------------------------------------------------------
LEMMA InvInit == SessionInit => SessionInv
BY TypeInit DEF SessionInit, SessionInv, ListedUnlessStray, ReadComplete, Valid

LEMMA InvStep == SessionInv /\ [SessionNext]_sessionVars => SessionInv'
<1> SUFFICES ASSUME SessionInv, [SessionNext]_sessionVars
             PROVE  ListedUnlessStray' /\ ReadComplete'
    BY TypeStep DEF SessionInv
<1> USE TokenOwner, TokensOfUser
        DEF SessionInv, SessionTypeOK, ListedUnlessStray, ReadComplete, Valid
<1> DEFINE Good == ListedUnlessStray /\ ReadComplete
<1>1. ASSUME NEW u \in Users, Register(u) PROVE Good'
    BY <1>1 DEF Register, keys, request
<1>2. ASSUME NEW u \in Users, EvictIndex(u) PROVE Good'
    BY <1>2 DEF EvictIndex, request, Of
<1>3. ASSUME NEW t \in Tokens, CreateSession(t) PROVE Good'
    BY <1>3 DEF CreateSession, request
<1>4. ASSUME NEW t \in Tokens, EvictSession(t) PROVE Good'
    BY <1>4 DEF EvictSession, request
<1>5. ASSUME NEW t \in Tokens, NEW p \in Requests,
             NEW handler \in {"logout", "logout_all"}, Authenticate(p, t, handler)
      PROVE  Good'
    BY <1>5 DEF Authenticate, Goto, keys
<1>6. ASSUME NEW p \in Requests, ReadSession(p) PROVE Good'
    BY <1>6 DEF ReadSession, Goto, Finish, keys
<1>7. ASSUME NEW p \in Requests, DeleteSession(p) PROVE Good'
    BY <1>7 DEF DeleteSession, Finish
<1>8. ASSUME NEW p \in Requests, ReadIndex(p) PROVE Good'
    BY <1>8 DEF ReadIndex, Goto, Finish, keys
<1>9. ASSUME NEW p \in Requests, DeleteAll(p) PROVE Good'
    BY <1>9 DEF DeleteAll, Finish, keys
<1>10. ASSUME NEW p \in Requests, Abort(p) PROVE Good'
    BY <1>10 DEF Abort, Finish, keys
<1>11. ASSUME Tick PROVE Good'
    BY <1>11 DEF Tick, request
<1>12. ASSUME UNCHANGED sessionVars PROVE Good'
    BY <1>12 DEF sessionVars, keys, request
<1>13. QED
    BY <1>1, <1>2, <1>3, <1>4, <1>5, <1>6, <1>7, <1>8, <1>9, <1>10, <1>11, <1>12
    DEF SessionNext, RequestStep

\* The variables of the sessions and of the requests keep their types.
THEOREM SessionTypeCorrect == SessionSpec => []SessionTypeOK
BY TypeInit, TypeStep, PTL DEF SessionSpec

THEOREM SessionInvariant == SessionSpec => []SessionInv
BY InvInit, InvStep, PTL DEF SessionSpec

\* The set of a user's tokens names every session of that user, and outlives
\* it, unless the session is a stray.
THEOREM SessionsAreListed == SessionSpec => []ListedUnlessStray
<1>1. SessionInv => ListedUnlessStray
    BY DEF SessionInv
<1>2. QED
    BY <1>1, SessionInvariant, PTL

-----------------------------------------------------------------------------
(* What a user who logs out may rely on *)

\* When a logout-all answers, be it at once because the set was empty, no session
\* of its user is open but for strays: one opened before its SMEMBERS, by whatever
\* device, is closed.
LogoutAllEndsAll ==
    \A p \in Requests :
        DeleteAll(p) \/ (ReadIndex(p) /\ step'[p] = "idle")
            => Valid' \intersect Of(who[p]) \subseteq strays'

\* A session that has ended, in whatever way, is not opened again: no request
\* that read it while it was open puts it back.
EndedForGood == Valid' \intersect issued \subseteq Valid

\* What ReadIndex read was all there was, and DeleteAll deletes it; nothing that happens in between, not
\* even a second logout-all or the expiry of the set, makes that incomplete.
THEOREM LogoutAllLeavesStraysOnly == SessionSpec => [][LogoutAllEndsAll]_sessionVars
<1>1. SessionInv /\ [SessionNext]_sessionVars => [LogoutAllEndsAll]_sessionVars
    <2> SUFFICES ASSUME SessionInv, NEW p \in Requests,
                        DeleteAll(p) \/ (ReadIndex(p) /\ step'[p] = "idle")
                 PROVE  Valid' \intersect Of(who[p]) \subseteq strays'
        BY DEF LogoutAllEndsAll
    <2>1. CASE DeleteAll(p)
        <3>1. Valid' \subseteq Valid \ read[p] /\ strays' = strays
            BY <2>1 DEF DeleteAll, SessionInv, SessionTypeOK, Valid
        <3>2. \A t \in Valid \ strays : t[1] = who[p] => t \in read[p]
            BY <2>1 DEF SessionInv, ReadComplete, DeleteAll
        <3>3. QED
            BY <3>1, <3>2, TokensOfUser
    <2>2. CASE ReadIndex(p) /\ step'[p] = "idle"
        <3>1. index[who[p]] = {} /\ Valid' = Valid /\ strays' = strays
            BY <2>2 DEF ReadIndex, Goto, keys, Valid, SessionInv, SessionTypeOK
        <3>2. \A t \in Valid \ strays : t \in index[t[1]]
            BY DEF SessionInv, ListedUnlessStray
        <3>3. QED
            BY <3>1, <3>2, TokensOfUser
    <2>3. QED
        BY <2>1, <2>2
<1>2. QED
    BY <1>1, SessionInvariant, PTL DEF SessionSpec

\* Tokens are never issued twice, and no step but a login writes a session.
THEOREM EndedSessionsStayEnded == SessionSpec => [][EndedForGood]_sessionVars
<1>1. SessionInv /\ [SessionNext]_sessionVars => [EndedForGood]_sessionVars
    <2> SUFFICES ASSUME SessionTypeOK, SessionNext PROVE EndedForGood
        BY DEF SessionInv
    <2>1. ASSUME NEW t \in Tokens, CreateSession(t) PROVE EndedForGood
        BY <2>1 DEF CreateSession, SessionTypeOK, Valid, EndedForGood
    <2>2. ASSUME NEW p \in Requests, RequestStep(p) PROVE EndedForGood
        BY <2>2 DEF RequestStep, ReadSession, DeleteSession, ReadIndex, DeleteAll, Abort,
                    keys, SessionTypeOK, Valid, EndedForGood
    <2>3. ASSUME Tick PROVE EndedForGood
        BY <2>3 DEF Tick, SessionTypeOK, Valid, EndedForGood
    <2>4. ASSUME NEW t \in Tokens, EvictSession(t) PROVE EndedForGood
        BY <2>4 DEF EvictSession, SessionTypeOK, Valid, EndedForGood
    <2>5. ASSUME \/ \E u \in Users : Register(u) \/ EvictIndex(u)
                 \/ \E t \in Tokens, p \in Requests, handler \in {"logout", "logout_all"} :
                        Authenticate(p, t, handler)
          PROVE  EndedForGood
        BY <2>5 DEF Register, EvictIndex, Authenticate, keys, Valid, EndedForGood
    <2>6. QED
        BY <2>1, <2>2, <2>3, <2>4, <2>5 DEF SessionNext
<1>2. QED
    BY <1>1, SessionInvariant, PTL DEF SessionSpec

-----------------------------------------------------------------------------
(* The refinement. *)

LEMMA SameTokens == Tokens = Contract!Tokens /\ \A u : Of(u) = Contract!Of(u)
BY DEF Tokens, Contract!Tokens, Of, Contract!Of

LEMMA RevokingStarts ==
    ASSUME SessionTypeOK, NEW p \in Requests, NEW u \in Users, NEW D,
           step' = [step EXCEPT ![p] = "delete_all"], who[p] = u, who' = who,
           read' = [read EXCEPT ![p] = D]
    PROVE  Revoking' = [Revoking EXCEPT ![p] = [user |-> u, ends |-> D]]
BY DEF SessionTypeOK, Revoking

\* A request that is not between the two awaits of a logout-all ends none.
LEMMA RevokingEnds ==
    ASSUME SessionTypeOK, NEW p \in Requests, Finish(p)
    PROVE  /\ Revoking' = [Revoking EXCEPT ![p] = Contract!NotRevoking]
           /\ step[p] # "delete_all" => Revoking' = Revoking
BY DEF SessionTypeOK, Revoking, Finish, Contract!NotRevoking, NoUser

LEMMA RevokingGoesOn ==
    ASSUME SessionTypeOK, NEW p \in Requests, NEW s, s # "delete_all",
           step[p] # "delete_all", step' = [step EXCEPT ![p] = s], read' = read,
           \A q \in Requests \ {p} : who'[q] = who[q]
    PROVE  Revoking' = Revoking
BY DEF SessionTypeOK, Revoking

LEMMA RevokingUser ==
    ASSUME SessionTypeOK, NEW p \in Requests, NEW u \in Users
    PROVE  (step[p] = "delete_all" /\ who[p] = u) <=> Revoking[p].user = u
BY DEF SessionTypeOK, Revoking

LEMMA ContractInit == SessionInit => Contract!Init
BY TokenOwner DEF SessionInit, Contract!Init, Contract!NotRevoking, Valid, Revoking, NoUser

LEMMA ContractStep ==
    ASSUME SessionInv, [SessionNext]_sessionVars
    PROVE  [Contract!Next]_Contract!vars
<1>0. SessionTypeOK
    BY DEF SessionInv
<1>1. ASSUME NEW u \in Users, Register(u) PROVE Contract!Register(u)
    BY <1>1 DEF Register, keys, request, Contract!Register, Valid, Revoking
<1>2. ASSUME NEW u \in Users, EvictIndex(u) PROVE Contract!Forget(u)
    BY <1>2, SameTokens DEF EvictIndex, request, Contract!Forget, Valid, Revoking
<1>3. ASSUME NEW t \in Tokens, CreateSession(t) PROVE Contract!Login(t)
    <2>1. Valid' = Valid \union {t}
        BY <1>0, <1>3 DEF CreateSession, SessionTypeOK, Valid
    <2>2. Revoking' = Revoking
        BY <1>3 DEF CreateSession, request, Revoking
    <2>3. strays' = strays \union
            {s \in {t} : \E p \in Requests : Revoking[p].user = t[1]}
        BY <1>0, <1>3, RevokingUser, TokenOwner DEF CreateSession
    <2>4. QED
        BY <1>3, <2>1, <2>2, <2>3 DEF CreateSession, Contract!Login
<1>4. ASSUME NEW t \in Tokens, EvictSession(t) PROVE Contract!End
    <2>1. Valid' = Valid \ (Valid \intersect {t})
        BY <1>0, <1>4 DEF EvictSession, SessionTypeOK, Valid
    <2>2. Revoking' = Revoking
        BY <1>4 DEF EvictSession, request, Revoking
    <2>3. QED
        BY <1>4, <2>1, <2>2 DEF EvictSession, Contract!End
<1>5. ASSUME NEW t \in Tokens, NEW p \in Requests,
             NEW handler \in {"logout", "logout_all"}, Authenticate(p, t, handler)
      PROVE  UNCHANGED Contract!vars
    <2>1. Revoking' = Revoking
        BY <1>0, <1>5, RevokingGoesOn DEF Authenticate, Goto, SessionTypeOK
    <2>2. QED
        BY <1>5, <2>1 DEF Authenticate, keys, Valid, Contract!vars
<1>6. ASSUME NEW p \in Requests, ReadSession(p) PROVE UNCHANGED Contract!vars
    <2>1. Revoking' = Revoking
        BY <1>0, <1>6, RevokingGoesOn, RevokingEnds DEF ReadSession, Goto
    <2>2. QED
        BY <1>6, <2>1 DEF ReadSession, keys, Valid, Contract!vars
<1>7. ASSUME NEW p \in Requests, DeleteSession(p) PROVE Contract!End
    <2>1. Valid' = Valid \ (Valid \intersect {token[p]})
        BY <1>0, <1>7, NoSession DEF DeleteSession, SessionTypeOK, Valid
    <2>2. Revoking' = Revoking
        BY <1>0, <1>7, RevokingEnds DEF DeleteSession
    <2>3. QED
        BY <1>7, <2>1, <2>2 DEF DeleteSession, Contract!End
<1>8. ASSUME NEW p \in Requests, ReadIndex(p)
      PROVE  UNCHANGED Contract!vars \/ \E u \in Users : Contract!BeginLogoutAll(p, u)
    <2>1. who[p] \in Users /\ index[who[p]] \subseteq Of(who[p])
        BY <1>0, <1>8 DEF ReadIndex, SessionTypeOK
    <2>2. CASE index[who[p]] = {}
        <3>1. Revoking' = Revoking
            BY <1>0, <1>8, <2>2, RevokingEnds DEF ReadIndex
        <3>2. QED
            BY <1>8, <3>1 DEF ReadIndex, keys, Valid, Contract!vars
    <2>3. CASE index[who[p]] # {}
        <3>1. Valid \intersect Of(who[p]) \subseteq index[who[p]] \union strays
            BY <2>1, TokensOfUser DEF SessionInv, ListedUnlessStray
        <3>2. Revoking' = [Revoking EXCEPT ![p] = [user |-> who[p], ends |-> index[who[p]]]]
            BY <1>0, <1>8, <2>1, <2>3, RevokingStarts DEF ReadIndex, Goto
        <3>3. Revoking[p] = Contract!NotRevoking
            BY <1>8 DEF ReadIndex, Revoking, Contract!NotRevoking, NoUser
        <3>4. QED
            BY <1>8, <2>1, <3>1, <3>2, <3>3, SameTokens
            DEF ReadIndex, keys, Valid, Contract!BeginLogoutAll
    <2>4. QED
        BY <2>2, <2>3
<1>9. ASSUME NEW p \in Requests, DeleteAll(p) PROVE Contract!FinishLogoutAll(p)
    <2>1. Valid' = Valid \ read[p]
        BY <1>0, <1>9 DEF DeleteAll, keys, SessionTypeOK, Valid
    <2>2. Revoking[p].ends = read[p]
        BY <1>9 DEF DeleteAll, Revoking
    <2>3. QED
        BY <1>0, <1>9, <2>1, <2>2, RevokingEnds DEF DeleteAll, Contract!FinishLogoutAll
<1>10. ASSUME NEW p \in Requests, Abort(p) PROVE Contract!Abandon(p)
    BY <1>0, <1>10, RevokingEnds DEF Abort, keys, Valid, Contract!Abandon
<1>11. ASSUME Tick PROVE Contract!End
    <2>1. Valid' = Valid \ {t \in Valid : left[t] = 1}
        BY <1>0, <1>11 DEF Tick, SessionTypeOK, Valid
    <2>2. Revoking' = Revoking
        BY <1>11 DEF Tick, request, Revoking
    <2>3. QED
        BY <1>11, <2>1, <2>2 DEF Tick, Contract!End
<1>12. ASSUME UNCHANGED sessionVars PROVE UNCHANGED Contract!vars
    BY <1>12 DEF sessionVars, keys, request, Valid, Revoking, Contract!vars
<1>13. QED
    BY <1>1, <1>2, <1>3, <1>4, <1>5, <1>6, <1>7, <1>8, <1>9, <1>10, <1>11, <1>12,
       SameTokens
    DEF SessionNext, RequestStep, Contract!Next

\* The two keys and the requests between their awaits implement the contract:
\* a logout from all devices ends every session that was open when it read the
\* set of tokens, strays excepted, and no session ever comes back.
THEOREM ImplementsAuthSessions == SessionSpec => AuthSpec
<1>1. SessionInit => Contract!Init
    BY ContractInit
<1>2. SessionInv /\ [SessionNext]_sessionVars => [Contract!Next]_Contract!vars
    BY ContractStep
<1>3. QED
    BY <1>1, <1>2, SessionInvariant, PTL DEF SessionSpec, AuthSpec, Contract!Spec
=============================================================================
