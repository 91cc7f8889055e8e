------------------------ MODULE RefreshTokens_proofs ------------------------
(***************************************************************************)
(* Rotation of refresh tokens for any number of sessions, tokens and       *)
(* concurrent requests: a login's tokens form a single chain.              *)
(*                                                                         *)
(* Two facts carry the argument.  A rotation that was let through has its  *)
(* token FOR UPDATE, so the token stays unused until that rotation marks   *)
(* it.  And a session is inserted by the request that inserts its first    *)
(* token, so no other request can start a second chain.                    *)
(***************************************************************************)
EXTENDS RefreshTokens, FiniteSetTheorems, TLAPS

USE DEF Start, Goto, store, clock, notes

\* Tokens refer to what was inserted before them.
Links ==
    /\ \A t \in Token : parent[t] # None => Exists(t) /\ Exists(parent[t])
    /\ \A t \in used \cup late : Exists(t)
    /\ \A t \in Token : Exists(t) => session[family[t]] # "absent"
    /\ \A t \in late : session[family[t]] = "revoked"

\* What a request knows of its session and its token.
Claims ==
    \A r \in Request :
        /\ pc[r] # "idle" => session[req[r].session] # "absent"
        /\ pc[r] \in {"lock", "read", "rotate"} =>
              /\ req[r].op = "refresh"
              /\ family[req[r].token] = req[r].session
        /\ pc[r] \in {"read", "rotate"} => holder[req[r].token] = r
        /\ pc[r] = "rotate" => req[r].token \notin used \cup late

\* A login that has not inserted its first token yet is alone with its session.
FirstTokens ==
    \A r \in Request : pc[r] = "first" =>
        /\ TokensOf(req[r].session) = {}
        /\ \A q \in Request \ {r} :
              pc[q] = "first" => req[q].session # req[r].session

\* The successors of a token, and the shape the chain of a login has.
Children(t) == {u \in Token : parent[u] = t}

Lineage ==
    \A t \in Token :
        IF t \in used
           THEN \E u \in Token : Children(t) = {u} /\ family[u] = family[t]
           ELSE Children(t) = {}

IInv ==
    /\ TypeOK /\ Links /\ Claims /\ FirstTokens
    /\ NoFork /\ Lineage /\ LateTokensAreBarren

\* The initial states satisfy the invariant.
LEMMA InitInv == Init => IInv
  BY NoneAssumption
  DEF Init, IInv, TypeOK, Steps, NoParams, Links, Claims, FirstTokens, NoFork, Exists,
      Lineage, Children, LateTokensAreBarren

\* Every step keeps every variable in its domain.
LEMMA TypeStep == IInv /\ [Next]_vars => TypeOK'
<1> SUFFICES ASSUME TypeOK, Claims, [Next]_vars PROVE TypeOK'
  BY DEF IInv
<1> USE DEF TypeOK, Steps
<1>1. ASSUME NEW r \in Request, InsertSession(r) PROVE TypeOK'
  BY <1>1 DEF InsertSession, Params, NoParams
<1>2. ASSUME NEW r \in Request, InsertFirstToken(r) PROVE TypeOK'
  BY <1>2 DEF InsertFirstToken, Params, NoParams, Finish
<1>3. ASSUME NEW r \in Request, Refresh(r) PROVE TypeOK'
  BY <1>3 DEF Refresh, Params, NoParams, Exists
<1>4. ASSUME NEW r \in Request, LockToken(r) PROVE TypeOK'
  BY <1>4 DEF LockToken
<1>5. ASSUME NEW r \in Request, ReadSession(r) \/ DetectReuse(r) PROVE TypeOK'
  BY <1>5 DEF ReadSession, DetectReuse, Unlock
<1>6. ASSUME NEW r \in Request, RefuseExpired(r) PROVE TypeOK'
  BY <1>6 DEF RefuseExpired, Unlock, Finish
<1>7. ASSUME NEW r \in Request, Rotate(r) PROVE TypeOK'
  BY <1>7 DEF Rotate, Unlock, Finish, Params, Claims
<1>8. ASSUME NEW r \in Request, Logout(r) \/ RevokeSession(r) PROVE TypeOK'
  <2>1. CASE Logout(r)
    BY <2>1 DEF Logout, Params, NoParams, Exists
  <2>2. CASE RevokeSession(r)
    BY <2>2 DEF RevokeSession, Params, NoParams
  <2> QED
    BY <1>8, <2>1, <2>2
<1>9. ASSUME NEW r \in Request, RevokeSessionRow(r) PROVE TypeOK'
  BY <1>9 DEF RevokeSessionRow, Params, Finish
<1>10. ASSUME NEW r \in Request, SelectTokens(r) PROVE TypeOK'
  BY <1>10 DEF SelectTokens, TokensOf
<1>11. ASSUME NEW r \in Request, UpdateTokens(r) PROVE TypeOK'
  BY <1>11 DEF UpdateTokens, Finish
<1>12. ASSUME NEW r \in Request, Fail(r) PROVE TypeOK'
  BY <1>12 DEF Fail, Unlock, Finish
<1>13. CASE (\E s \in Session : ExpireSession(s)) \/ (\E t \in Token : ExpireToken(t))
  BY <1>13 DEF ExpireSession, ExpireToken
<1>14. CASE UNCHANGED vars
  BY <1>14 DEF vars
<1> QED
  BY <1>1, <1>2, <1>3, <1>4, <1>5, <1>6, <1>7, <1>8, <1>9, <1>10, <1>11, <1>12,
     <1>13, <1>14 DEF Next

\* What a request's parameters are while it runs.
LEMMA ReqTypes ==
  ASSUME TypeOK, NEW r \in Request, pc[r] # "idle"
  PROVE  /\ req[r].session \in Session
         /\ req[r].op = "refresh" => req[r].token \in Token
  BY DEF TypeOK, Params

\* Every step keeps the tokens linked to what was inserted before them.
LEMMA LinksStep == IInv /\ [Next]_vars => Links'
<1> SUFFICES ASSUME IInv, [Next]_vars PROVE Links'
  OBVIOUS
<1>0. TypeOK /\ Links /\ Claims
  BY DEF IInv
<1> USE DEF Links, Exists
<1>1. ASSUME NEW r \in Request, InsertSession(r) PROVE Links'
  BY <1>0, <1>1 DEF InsertSession, TypeOK
<1>2. ASSUME NEW r \in Request, InsertFirstToken(r) PROVE Links'
  <2>1. req[r].session \in Session /\ session[req[r].session] # "absent"
    BY <1>0, <1>2, ReqTypes DEF InsertFirstToken, Claims
  <2> QED
    BY <1>0, <1>2, <2>1, NoneAssumption DEF InsertFirstToken, TypeOK
<1>3. ASSUME NEW r \in Request, Rotate(r) PROVE Links'
  <2>1. /\ req[r].session \in Session /\ session[req[r].session] # "absent"
        /\ req[r].token \in Token /\ family[req[r].token] = req[r].session
    BY <1>0, <1>3, ReqTypes DEF Rotate, Claims
  <2> QED
    BY <1>0, <1>3, <2>1, NoneAssumption DEF Rotate, TypeOK
<1>4. ASSUME NEW r \in Request, RevokeSessionRow(r) PROVE Links'
  <2>1. session' = [session EXCEPT ![req[r].session] = "revoked"]
        /\ UNCHANGED <<family, parent, used, late>>
    BY <1>4 DEF RevokeSessionRow
  <2> QED
    BY <1>0, <2>1 DEF TypeOK
<1>5. ASSUME UNCHANGED <<session, family, parent, used, late>> PROVE Links'
  BY <1>0, <1>5
<1> QED
  BY <1>1, <1>2, <1>3, <1>4, <1>5
  DEF Next, Refresh, LockToken, ReadSession, DetectReuse, RefuseExpired, Logout,
      RevokeSession, SelectTokens, UpdateTokens, Fail, ExpireSession, ExpireToken, vars

\* A step of one request that takes no row lock away from the others, uses no
\* token they hold and moves no token leaves what they know true.
LEMMA OthersKeepClaims ==
  ASSUME TypeOK, Links, Claims, NEW r \in Request, NEW q \in Request \ {r},
         pc'[q] = pc[q], req'[q] = req[q],
         \A s \in Session : session[s] # "absent" => session'[s] # "absent",
         \A t \in Token : Exists(t) => family'[t] = family[t],
         \A t \in Token : holder[t] = q => holder'[t] = q,
         \A t \in Token : Exists(t) /\ holder[t] = q /\ t \in (used \cup late)'
                               => t \in used \cup late
  PROVE  /\ pc'[q] # "idle" => session'[req'[q].session] # "absent"
         /\ pc'[q] \in {"lock", "read", "rotate"} =>
               /\ req'[q].op = "refresh"
               /\ family'[req'[q].token] = req'[q].session
         /\ pc'[q] \in {"read", "rotate"} => holder'[req'[q].token] = q
         /\ pc'[q] = "rotate" => req'[q].token \notin (used \cup late)'
<1>1. CASE pc[q] = "idle"
  BY <1>1
<1>2. CASE pc[q] # "idle"
  <2>1. /\ req[q].session \in Session
        /\ req[q].op = "refresh" => req[q].token \in Token
    BY <1>2, ReqTypes
  <2>2. pc[q] \in {"lock", "read", "rotate"} =>
          req[q].token \in Token /\ Exists(req[q].token)
    BY <1>2, <2>1, NoneAssumption DEF Claims, Exists
  <2> QED
    BY <1>2, <2>1, <2>2 DEF Claims
<1> QED
  BY <1>1, <1>2

\* Every step leaves what each request knows true.
LEMMA ClaimsStep == IInv /\ [Next]_vars => Claims'
<1> SUFFICES ASSUME IInv, [Next]_vars PROVE Claims'
  OBVIOUS
<1>0. TypeOK /\ Links /\ Claims
  BY DEF IInv
<1> DEFINE Claim(q) ==
             /\ pc'[q] # "idle" => session'[req'[q].session] # "absent"
             /\ pc'[q] \in {"lock", "read", "rotate"} =>
                   /\ req'[q].op = "refresh"
                   /\ family'[req'[q].token] = req'[q].session
             /\ pc'[q] \in {"read", "rotate"} => holder'[req'[q].token] = q
             /\ pc'[q] = "rotate" => req'[q].token \notin (used \cup late)'
<1> SUFFICES \A q \in Request : Claim(q)
  BY DEF Claims
<1>1. ASSUME NEW r \in Request, InsertSession(r) PROVE \A q \in Request : Claim(q)
  <2>1. Claim(r)
    BY <1>0, <1>1 DEF InsertSession, TypeOK
  <2>2. ASSUME NEW q \in Request \ {r} PROVE Claim(q)
    BY <1>0, <1>1, <2>2, OthersKeepClaims DEF InsertSession, TypeOK
  <2> QED
    BY <2>1, <2>2
<1>2. ASSUME NEW r \in Request, InsertFirstToken(r) PROVE \A q \in Request : Claim(q)
  <2>1. Claim(r)
    BY <1>0, <1>2 DEF InsertFirstToken, Finish, TypeOK
  <2>2. ASSUME NEW q \in Request \ {r} PROVE Claim(q)
    BY <1>0, <1>2, <2>2, OthersKeepClaims DEF InsertFirstToken, Finish, TypeOK, Exists
  <2> QED
    BY <2>1, <2>2
<1>3. ASSUME NEW r \in Request, Refresh(r) PROVE \A q \in Request : Claim(q)
  <2>1. Claim(r)
    BY <1>0, <1>3 DEF Refresh, TypeOK, Links, Exists
  <2>2. ASSUME NEW q \in Request \ {r} PROVE Claim(q)
    BY <1>0, <1>3, <2>2, OthersKeepClaims DEF Refresh, TypeOK
  <2> QED
    BY <2>1, <2>2
<1>4. ASSUME NEW r \in Request, LockToken(r) PROVE \A q \in Request : Claim(q)
  <2>1. req[r].token \in Token /\ holder[req[r].token] = None
    BY <1>0, <1>4, ReqTypes DEF LockToken, Claims
  <2>2. Claim(r)
    BY <1>0, <1>4, <2>1 DEF LockToken, TypeOK, Claims
  <2>3. ASSUME NEW q \in Request \ {r} PROVE Claim(q)
    BY <1>0, <1>4, <2>1, <2>3, OthersKeepClaims, NoneAssumption DEF LockToken, TypeOK
  <2> QED
    BY <2>2, <2>3
<1>5. ASSUME NEW r \in Request, ReadSession(r) PROVE \A q \in Request : Claim(q)
  <2>1. /\ req[r].token \in Token /\ family[req[r].token] = req[r].session
        /\ req[r].session \in Session /\ session[req[r].session] = "live"
        /\ req[r].token \notin used
    BY <1>0, <1>5, ReqTypes DEF ReadSession, Claims, IsReuse, SessionInvalid, Consumed
  <2>2. req[r].token \notin late
    BY <1>0, <2>1 DEF Links
  <2>3. Claim(r)
    BY <1>0, <1>5, <2>1, <2>2 DEF ReadSession, TypeOK, Claims
  <2>4. ASSUME NEW q \in Request \ {r} PROVE Claim(q)
    BY <1>0, <1>5, <2>4, OthersKeepClaims DEF ReadSession, TypeOK
  <2> QED
    BY <2>3, <2>4
<1>6. ASSUME NEW r \in Request, DetectReuse(r) \/ RefuseExpired(r)
      PROVE  \A q \in Request : Claim(q)
  <2>1. /\ UNCHANGED <<session, family, used, late>>
        /\ \A t \in Token : holder'[t] = IF holder[t] = r THEN None ELSE holder[t]
        /\ \A q \in Request \ {r} : pc'[q] = pc[q] /\ req'[q] = req[q]
        /\ \/ pc[r] = "read" /\ pc'[r] = "family" /\ req'[r] = req[r]
           \/ pc'[r] = "idle"
    BY <1>0, <1>6 DEF DetectReuse, RefuseExpired, Unlock, Finish, TypeOK
  <2>2. Claim(r)
    BY <1>0, <2>1 DEF Claims
  <2>3. ASSUME NEW q \in Request \ {r} PROVE Claim(q)
    BY <1>0, <2>1, <2>3, OthersKeepClaims
  <2> QED
    BY <2>2, <2>3
<1>7. ASSUME NEW r \in Request, Rotate(r) PROVE \A q \in Request : Claim(q)
  <2>1. req[r].token \in Token /\ holder[req[r].token] = r
    BY <1>0, <1>7, ReqTypes DEF Rotate, Claims
  <2>2. Claim(r)
    BY <1>0, <1>7 DEF Rotate, Finish, TypeOK
  <2>3. ASSUME NEW q \in Request \ {r} PROVE Claim(q)
    <3>1. /\ pc'[q] = pc[q] /\ req'[q] = req[q] /\ session' = session
          /\ \A t \in Token : Exists(t) => family'[t] = family[t]
          /\ \A t \in Token : holder[t] = q => holder'[t] = q
          /\ used' = used \cup {req[r].token}
      BY <1>0, <1>7, <2>3 DEF Rotate, Unlock, Finish, TypeOK, Exists
    <3>2. \A t \in Token : Exists(t) /\ t \in late' => t \in late
      BY <1>0, <1>7 DEF Rotate
    <3> QED
      BY <1>0, <2>1, <2>3, <3>1, <3>2, OthersKeepClaims
  <2> QED
    BY <2>2, <2>3
<1>8. ASSUME NEW r \in Request, Logout(r) \/ RevokeSession(r)
      PROVE  \A q \in Request : Claim(q)
  <2>1. Claim(r)
    BY <1>0, <1>8 DEF Logout, RevokeSession, TypeOK, Links, Exists
  <2>2. ASSUME NEW q \in Request \ {r} PROVE Claim(q)
    BY <1>0, <1>8, <2>2, OthersKeepClaims DEF Logout, RevokeSession, TypeOK
  <2> QED
    BY <2>1, <2>2
<1>9. ASSUME NEW r \in Request, RevokeSessionRow(r) PROVE \A q \in Request : Claim(q)
  <2>1. /\ UNCHANGED <<family, used, late, holder>>
        /\ session' = [session EXCEPT ![req[r].session] = "revoked"]
        /\ \A q \in Request \ {r} : pc'[q] = pc[q] /\ req'[q] = req[q]
        /\ \/ pc'[r] = "family" /\ req'[r] = req[r]
           \/ pc'[r] = "idle"
    BY <1>0, <1>9 DEF RevokeSessionRow, Finish, TypeOK
  <2>2. req[r].session \in Session
    BY <1>0, <1>9, ReqTypes DEF RevokeSessionRow
  <2>3. Claim(r)
    BY <1>0, <2>1, <2>2 DEF TypeOK
  <2>4. ASSUME NEW q \in Request \ {r} PROVE Claim(q)
    BY <1>0, <2>1, <2>4, OthersKeepClaims DEF TypeOK
  <2> QED
    BY <2>3, <2>4
<1>10. ASSUME NEW r \in Request, SelectTokens(r) \/ UpdateTokens(r)
       PROVE  \A q \in Request : Claim(q)
  <2>1. /\ UNCHANGED <<session, family, used, late, holder>>
        /\ \A q \in Request \ {r} : pc'[q] = pc[q] /\ req'[q] = req[q]
        /\ pc[r] # "idle"
        /\ \/ pc'[r] \in {"update", "session"} /\ req'[r] = req[r]
           \/ pc'[r] = "idle"
    BY <1>0, <1>10 DEF SelectTokens, UpdateTokens, Finish, TypeOK
  <2>2. Claim(r)
    BY <1>0, <2>1 DEF Claims
  <2>3. ASSUME NEW q \in Request \ {r} PROVE Claim(q)
    BY <1>0, <2>1, <2>3, OthersKeepClaims
  <2> QED
    BY <2>2, <2>3
<1>11. ASSUME NEW r \in Request, Fail(r) PROVE \A q \in Request : Claim(q)
  <2>1. /\ UNCHANGED <<session, family, used, late>>
        /\ \A t \in Token : holder'[t] = IF holder[t] = r THEN None ELSE holder[t]
        /\ \A q \in Request \ {r} : pc'[q] = pc[q] /\ req'[q] = req[q]
        /\ pc'[r] = "idle"
    BY <1>0, <1>11 DEF Fail, Unlock, Finish, TypeOK
  <2>2. ASSUME NEW q \in Request \ {r} PROVE Claim(q)
    BY <1>0, <2>1, <2>2, OthersKeepClaims
  <2> QED
    BY <2>1, <2>2
<1>12. ASSUME UNCHANGED <<session, family, used, late, holder, pc, req>>
       PROVE  \A q \in Request : Claim(q)
  BY <1>0, <1>12 DEF Claims
<1> QED
  BY <1>1, <1>2, <1>3, <1>4, <1>5, <1>6, <1>7, <1>8, <1>9, <1>10, <1>11, <1>12
  DEF Next, ExpireSession, ExpireToken, vars

\* A step that inserts no token and starts no login keeps the lonely logins.
LEMMA FirstTokensKept ==
  ASSUME FirstTokens, family' = family,
         \A q \in Request : pc'[q] = "first" => pc[q] = "first" /\ req'[q] = req[q]
  PROVE  FirstTokens'
  BY DEF FirstTokens, TokensOf

\* Every step leaves a login without tokens alone with its session.
LEMMA FirstTokensStep == IInv /\ [Next]_vars => FirstTokens'
<1> SUFFICES ASSUME IInv, [Next]_vars PROVE FirstTokens'
  OBVIOUS
<1>0. TypeOK /\ Links /\ Claims /\ FirstTokens
  BY DEF IInv
<1>1. ASSUME NEW r \in Request, InsertSession(r) PROVE FirstTokens'
  <2>1. PICK s \in Session :
          /\ session[s] = "absent" /\ family' = family
          /\ pc' = [pc EXCEPT ![r] = "first"]
          /\ req'[r].session = s
          /\ \A q \in Request \ {r} : req'[q] = req[q]
    BY <1>0, <1>1 DEF InsertSession, TypeOK
  <2>2. TokensOf(s) = {}
    BY <1>0, <2>1, NoneAssumption DEF Links, TokensOf, Exists
  <2>3. \A q \in Request : pc[q] = "first" => req[q].session # s
    BY <1>0, <2>1 DEF Claims
  <2> QED
    BY <1>0, <2>1, <2>2, <2>3 DEF FirstTokens, TokensOf, TypeOK
<1>2. ASSUME NEW r \in Request, InsertFirstToken(r) PROVE FirstTokens'
  <2>1. /\ pc[r] = "first" /\ pc'[r] = "idle"
        /\ \A q \in Request \ {r} : pc'[q] = pc[q] /\ req'[q] = req[q]
        /\ \E t \in Token : family' = [family EXCEPT ![t] = req[r].session]
    BY <1>0, <1>2 DEF InsertFirstToken, Finish, TypeOK
  <2> QED
    BY <1>0, <2>1 DEF FirstTokens, TokensOf, TypeOK
<1>3. ASSUME NEW r \in Request, Rotate(r) PROVE FirstTokens'
  <2>1. /\ pc[r] = "rotate" /\ pc'[r] = "idle"
        /\ \A q \in Request \ {r} : pc'[q] = pc[q] /\ req'[q] = req[q]
        /\ \E u \in Token : family' = [family EXCEPT ![u] = req[r].session]
    BY <1>0, <1>3 DEF Rotate, Finish, TypeOK
  <2>2. req[r].token \in TokensOf(req[r].session)
    BY <1>0, <2>1, ReqTypes DEF Claims, TokensOf
  <2>3. \A q \in Request : pc[q] = "first" => req[q].session # req[r].session
    BY <1>0, <2>2 DEF FirstTokens
  <2> QED
    BY <1>0, <2>1, <2>3 DEF FirstTokens, TokensOf, TypeOK
<1>4. ASSUME family' = family,
             \A q \in Request : pc'[q] = "first" => pc[q] = "first" /\ req'[q] = req[q]
      PROVE  FirstTokens'
  BY <1>0, <1>4, FirstTokensKept
<1>5. ASSUME NEW r \in Request,
             \/ Refresh(r) \/ LockToken(r) \/ ReadSession(r) \/ DetectReuse(r)
             \/ RefuseExpired(r) \/ Logout(r) \/ RevokeSession(r)
             \/ RevokeSessionRow(r) \/ SelectTokens(r) \/ UpdateTokens(r) \/ Fail(r)
      PROVE  FirstTokens'
  <2>1. family' = family
    BY <1>5
    DEF Refresh, LockToken, ReadSession, DetectReuse, RefuseExpired, Logout,
        RevokeSession, RevokeSessionRow, SelectTokens, UpdateTokens, Fail
  <2>2. pc'[r] # "first" /\ \A q \in Request \ {r} : pc'[q] = pc[q] /\ req'[q] = req[q]
    BY <1>0, <1>5
    DEF Refresh, LockToken, ReadSession, DetectReuse, RefuseExpired, Logout, Finish,
        RevokeSession, RevokeSessionRow, SelectTokens, UpdateTokens, Fail, TypeOK
  <2> QED
    BY <1>4, <2>1, <2>2
<1> QED
  BY <1>1, <1>2, <1>3, <1>4, <1>5 DEF Next, ExpireSession, ExpireToken, vars

\* Every step leaves a login with at most one token that was not rotated.
LEMMA NoForkStep == IInv /\ [Next]_vars => NoFork'
<1> SUFFICES ASSUME IInv, [Next]_vars PROVE NoFork'
  OBVIOUS
<1>0. TypeOK /\ Links /\ Claims /\ FirstTokens /\ NoFork
  BY DEF IInv
<1>1. ASSUME NEW r \in Request, InsertFirstToken(r) PROVE NoFork'
  <2>1. TokensOf(req[r].session) = {}
    BY <1>0, <1>1 DEF FirstTokens, InsertFirstToken
  <2>2. used' = used /\ \E t \in Token : family' = [family EXCEPT ![t] = req[r].session]
    BY <1>1 DEF InsertFirstToken
  <2> QED
    BY <1>0, <2>1, <2>2 DEF NoFork, TokensOf, Exists, TypeOK
<1>2. ASSUME NEW r \in Request, Rotate(r) PROVE NoFork'
  <2>1. /\ req[r].token \in Token /\ req[r].token \notin used
        /\ family[req[r].token] = req[r].session /\ req[r].session \in Session
    BY <1>0, <1>2, ReqTypes DEF Claims, Rotate
  <2>2. /\ used' = used \cup {req[r].token}
        /\ \E u \in Token : ~Exists(u) /\ family' = [family EXCEPT ![u] = req[r].session]
    BY <1>2 DEF Rotate
  <2> QED
    BY <1>0, <2>1, <2>2, NoneAssumption DEF NoFork, Exists, TypeOK
<1>3. ASSUME UNCHANGED <<family, used>> PROVE NoFork'
  BY <1>0, <1>3 DEF NoFork, Exists
<1> QED
  BY <1>1, <1>2, <1>3
  DEF Next, InsertSession, Refresh, LockToken, ReadSession, DetectReuse, RefuseExpired,
      Logout, RevokeSession, RevokeSessionRow, SelectTokens, UpdateTokens, Fail,
      ExpireSession, ExpireToken, vars

\* Every step gives a token its only successor when it marks the token used.
LEMMA LineageStep == IInv /\ [Next]_vars => Lineage'
<1> SUFFICES ASSUME IInv, [Next]_vars PROVE Lineage'
  OBVIOUS
<1>0. TypeOK /\ Links /\ Claims /\ Lineage
  BY DEF IInv
<1>1. ASSUME NEW r \in Request, InsertFirstToken(r) PROVE Lineage'
  <2>1. /\ UNCHANGED <<parent, used>>
        /\ \E t \in Token : ~Exists(t) /\ family' = [family EXCEPT ![t] = req[r].session]
    BY <1>1 DEF InsertFirstToken
  <2>2. \A t \in Token : Exists(t) => family'[t] = family[t]
    BY <1>0, <2>1 DEF TypeOK
  <2>3. \A t, u \in Token : parent[u] = t => Exists(t) /\ Exists(u)
    BY <1>0, NoneAssumption DEF Links
  <2> QED
    BY <1>0, <2>1, <2>2, <2>3 DEF Lineage, Children
<1>2. ASSUME NEW r \in Request, Rotate(r) PROVE Lineage'
  <2>1. /\ req[r].token \in Token /\ req[r].token \notin used
        /\ family[req[r].token] = req[r].session /\ req[r].session \in Session
        /\ Exists(req[r].token)
    BY <1>0, <1>2, ReqTypes, NoneAssumption DEF Claims, Rotate, Exists
  <2>2. PICK u \in Token :
          /\ ~Exists(u)
          /\ family' = [family EXCEPT ![u] = req[r].session]
          /\ parent' = [parent EXCEPT ![u] = req[r].token]
    BY <1>2 DEF Rotate
  <2>3. used' = used \cup {req[r].token}
    BY <1>2 DEF Rotate
  <2>4. \A t, v \in Token : parent[v] = t => Exists(t) /\ Exists(v)
    BY <1>0, NoneAssumption DEF Links
  <2>5. {v \in Token : parent'[v] = req[r].token} = {u}
    <3>1. Children(req[r].token) = {}
      BY <1>0, <2>1 DEF Lineage
    <3>2. \A v \in Token : parent'[v] = req[r].token <=> v = u
      BY <1>0, <2>1, <2>2, <3>1 DEF TypeOK, Children
    <3> QED
      BY <2>2, <3>2
  <2>6. family'[u] = req[r].session /\ family'[req[r].token] = req[r].session
    BY <1>0, <2>1, <2>2 DEF TypeOK
  <2> QED
    BY <1>0, <2>1, <2>2, <2>3, <2>4, <2>5, <2>6 DEF Lineage, Children, TypeOK
<1>3. ASSUME UNCHANGED <<family, parent, used>> PROVE Lineage'
  BY <1>0, <1>3 DEF Lineage, Children
<1> QED
  BY <1>1, <1>2, <1>3
  DEF Next, InsertSession, Refresh, LockToken, ReadSession, DetectReuse, RefuseExpired,
      Logout, RevokeSession, RevokeSessionRow, SelectTokens, UpdateTokens, Fail,
      ExpireSession, ExpireToken, vars

\* Every step leaves a token minted after the revocation without successor.
LEMMA BarrenStep == IInv /\ [Next]_vars => LateTokensAreBarren'
<1> SUFFICES ASSUME IInv, [Next]_vars PROVE LateTokensAreBarren'
  OBVIOUS
<1>0. TypeOK /\ Links /\ Claims /\ LateTokensAreBarren
  BY DEF IInv
<1>1. ASSUME NEW r \in Request, Rotate(r) PROVE LateTokensAreBarren'
  <2>1. req[r].token \in Token /\ req[r].token \notin late /\ Exists(req[r].token)
    BY <1>0, <1>1, ReqTypes, NoneAssumption DEF Claims, Rotate, Exists
  <2>2. PICK u \in Token :
          /\ ~Exists(u)
          /\ parent' = [parent EXCEPT ![u] = req[r].token]
          /\ late' \subseteq late \cup {u}
    BY <1>1 DEF Rotate
  <2>3. \A t \in Token : parent[t] # u
    BY <1>0, <2>2, NoneAssumption DEF Links
  <2> QED
    BY <1>0, <2>1, <2>2, <2>3 DEF LateTokensAreBarren, TypeOK
<1>2. ASSUME UNCHANGED <<parent, late>> PROVE LateTokensAreBarren'
  BY <1>0, <1>2 DEF LateTokensAreBarren
<1> QED
  BY <1>1, <1>2
  DEF Next, InsertSession, InsertFirstToken, Refresh, LockToken, ReadSession, DetectReuse,
      RefuseExpired, Logout, RevokeSession, RevokeSessionRow, SelectTokens, UpdateTokens,
      Fail, ExpireSession, ExpireToken, vars

\* The inductive invariant holds in every reachable state.
THEOREM Invariant == Spec => []IInv
<1>1. IInv /\ [Next]_vars => IInv'
  BY TypeStep, LinksStep, ClaimsStep, FirstTokensStep, NoForkStep, LineageStep, BarrenStep
  DEF IInv
<1> QED
  BY InitInv, <1>1, PTL DEF Spec

\* Type correctness of the sessions and tokens.
THEOREM TypeCorrect == Spec => []TypeOK
<1>1. IInv => TypeOK
  BY DEF IInv
<1> QED
  BY Invariant, <1>1, PTL

\* Concurrent refreshes cannot fork a token family: a login never has two
\* tokens that were not rotated yet (auth.repo.ts, rotateRefreshToken).
THEOREM NoForkKept == Spec => []NoFork
<1>1. IInv => NoFork
  BY DEF IInv
<1> QED
  BY Invariant, <1>1, PTL

\* A token is marked used in the very step that inserts its only successor, in
\* the same family: at most one successor is ever minted per presented token.
THEOREM OneSuccessorKept == Spec => []OneSuccessor
<1>1. IInv => OneSuccessor
  <2> SUFFICES ASSUME Lineage, NEW t \in Token
               PROVE  /\ Cardinality(Children(t)) = IF t \in used THEN 1 ELSE 0
                      /\ \A u \in Children(t) : family[u] = family[t]
    BY DEF IInv, OneSuccessor, Children
  <2>1. CASE t \in used
    <3>1. PICK u \in Token : Children(t) = {u} /\ family[u] = family[t]
      BY <2>1 DEF Lineage
    <3> QED
      BY <2>1, <3>1, FS_Singleton
  <2>2. CASE t \notin used
    <3>1. Children(t) = {}
      BY <2>2 DEF Lineage
    <3> QED
      BY <2>2, <3>1, FS_EmptySet
  <2> QED
    BY <2>1, <2>2
<1> QED
  BY Invariant, <1>1, PTL

\* The successor a rotation mints after its session was revoked has no
\* successor itself, however late it is presented.
THEOREM LateTokensKept == Spec => []LateTokensAreBarren
<1>1. IInv => LateTokensAreBarren
  BY DEF IInv
<1> QED
  BY Invariant, <1>1, PTL
=============================================================================
