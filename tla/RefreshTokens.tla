--------------------------- MODULE RefreshTokens ---------------------------
(***************************************************************************)
(* Sessions and their rotating refresh tokens: login, refresh with its     *)
(* reuse response, logout and session revocation, statement by statement.  *)
(*                                                                         *)
(* A statement outside a transaction commits by itself, so a handler that  *)
(* runs two of them can be interrupted in between.  Rotation is one        *)
(* transaction: its reads are actions of their own, its writes become      *)
(* visible together at the commit.  UPDATE ... WHERE takes its rows from   *)
(* the snapshot at its start, waits for those another transaction has      *)
(* locked and tests WHERE again on each; rows inserted meanwhile escape it.*)
(*                                                                         *)
(* Every session is one login and has one token family, so revoking a      *)
(* family and revoking the tokens of a session write the same rows.  All   *)
(* sessions are of one user.                                               *)
(***************************************************************************)
EXTENDS Naturals, FiniteSets

CONSTANTS
    Session,    \* session ids
    Token,      \* refresh token rows
    Request,    \* slots of concurrent requests
    None,       \* no session, token or request
    MayFail     \* whether a request may die half way

ASSUME NoneAssumption    == None \notin Session \cup Token \cup Request
ASSUME MayFailAssumption == MayFail \in BOOLEAN

VARIABLES
    session,    \* sessions: "absent", "live" or "revoked"
    ended,      \* sessions past expires_at
    family,     \* refresh_tokens.session_id, None for a row not inserted
    parent,     \* refresh_tokens.parent_token_id
    used,       \* tokens with used_at and replacement_token_id
    revoked,    \* tokens with revoked_at
    stale,      \* tokens past expires_at
    holder,     \* the rotation that has the token row FOR UPDATE
    pc, req,    \* each request and its parameters
    todo,       \* the rows an UPDATE of refresh_tokens has to write
    late,       \* tokens minted although their session was already revoked
    answered    \* sessions of which a reuse was detected and answered in full

store == <<session, family, parent, used, revoked>>
clock == <<ended, stale>>
notes == <<late, answered>>
vars  == <<session, ended, family, parent, used, revoked, stale,
           holder, pc, req, todo, late, answered>>

\* now is read when the request starts: expiry is judged as of then.
Params ==
    [op : {"login", "refresh", "logout", "revoke"},
     session : Session, token : Token \cup {None},
     ended : BOOLEAN, stale : BOOLEAN]
NoParams == [op |-> "none"]

Steps == {"idle", "first", "lock", "read", "rotate", "family", "update", "session"}

TypeOK ==
    /\ session \in [Session -> {"absent", "live", "revoked"}]
    /\ ended \subseteq Session
    /\ family \in [Token -> Session \cup {None}]
    /\ parent \in [Token -> Token \cup {None}]
    /\ used \subseteq Token
    /\ revoked \subseteq Token
    /\ stale \subseteq Token
    /\ holder \in [Token -> Request \cup {None}]
    /\ pc \in [Request -> Steps]
    /\ req \in [Request -> Params \cup {NoParams}]
    /\ todo \in [Request -> SUBSET Token]
    /\ late \subseteq Token
    /\ answered \subseteq Session
    /\ \A r \in Request : pc[r] # "idle" =>
          /\ req[r] \in Params
          /\ req[r].op = "refresh" => req[r].token \in Token

-----------------------------------------------------------------------------
Exists(t)   == family[t] # None
TokensOf(s) == {t \in Token : family[t] = s}

\* Mutant: used_at and replacement_token_id are not looked at.
Consumed_OnlyRevoked(t) == t \in revoked

Consumed(t) == t \in used \cup revoked

Start(r, step, p) ==
    /\ pc[r] = "idle"
    /\ pc'  = [pc EXCEPT ![r] = step]
    /\ req' = [req EXCEPT ![r] = p]

Goto(r, step) == pc' = [pc EXCEPT ![r] = step] /\ UNCHANGED req

Finish(r) ==
    /\ pc'  = [pc EXCEPT ![r] = "idle"]
    /\ req' = [req EXCEPT ![r] = NoParams]

\* Bound: a token row is left for every request that may insert one.
RoomForToken ==
    Cardinality({r \in Request : pc[r] \in {"first", "lock", "read", "rotate"}})
       < Cardinality({t \in Token : ~Exists(t)})

Unlock(r) == holder' = [t \in Token |-> IF holder[t] = r THEN None ELSE holder[t]]

Init ==
    /\ session = [s \in Session |-> "absent"]
    /\ family  = [t \in Token |-> None]
    /\ parent  = [t \in Token |-> None]
    /\ holder  = [t \in Token |-> None]
    /\ pc      = [r \in Request |-> "idle"]
    /\ req     = [r \in Request |-> NoParams]
    /\ todo    = [r \in Request |-> {}]
    /\ ended = {} /\ used = {} /\ revoked = {} /\ stale = {}
    /\ late = {} /\ answered = {}

-----------------------------------------------------------------------------
(* login: issueSession inserts the session, then its first token. *)

InsertSession(r) ==
    /\ RoomForToken
    /\ \E s \in Session :
          /\ session[s] = "absent"
          /\ session' = [session EXCEPT ![s] = "live"]
          /\ Start(r, "first", [op |-> "login", session |-> s, token |-> None,
                                ended |-> FALSE, stale |-> FALSE])
    /\ UNCHANGED <<family, parent, used, revoked, clock, holder, todo, notes>>

InsertFirstToken(r) ==
    /\ pc[r] = "first"
    /\ \E t \in Token :
          /\ ~Exists(t)
          /\ family' = [family EXCEPT ![t] = req[r].session]
    /\ Finish(r)
    /\ UNCHANGED <<session, parent, used, revoked, clock, holder, todo, notes>>

-----------------------------------------------------------------------------
(* refresh: one rotation transaction, then the answer. *)

Refresh(r) ==
    /\ \E t \in Token :
          /\ Exists(t)
          /\ Consumed(t) \/ RoomForToken
          /\ Start(r, "lock", [op |-> "refresh", session |-> family[t], token |-> t,
                               ended |-> family[t] \in ended, stale |-> t \in stale])
    /\ UNCHANGED <<store, clock, holder, todo, notes>>

\* SELECT ... WHERE token_hash = presented FOR UPDATE.
LockToken(r) ==
    /\ pc[r] = "lock"
    /\ holder[req[r].token] = None
    /\ holder' = [holder EXCEPT ![req[r].token] = r]
    /\ Goto(r, "read")
    /\ UNCHANGED <<store, clock, todo, notes>>

\* Mutant: revoked_at of the session is not looked at.
SessionInvalid_OnlyEnded(r) == req[r].ended

SessionInvalid(r) == session[req[r].session] # "live" \/ req[r].ended

\* What the locked token and an unlocked read of its session say.
IsReuse(r)   == Consumed(req[r].token) \/ SessionInvalid(r)
IsExpired(r) == ~IsReuse(r) /\ req[r].stale

ReadSession(r) ==
    /\ pc[r] = "read"
    /\ ~IsReuse(r) /\ ~IsExpired(r)
    /\ Goto(r, "rotate")
    /\ UNCHANGED <<store, clock, holder, todo, notes>>

\* Reuse: the transaction ends without a write; the response follows.
DetectReuse(r) ==
    /\ pc[r] = "read"
    /\ IsReuse(r)
    /\ Unlock(r)
    /\ Goto(r, "family")
    /\ UNCHANGED <<store, clock, todo, notes>>

RefuseExpired(r) ==
    /\ pc[r] = "read"
    /\ IsExpired(r)
    /\ Unlock(r)
    /\ Finish(r)
    /\ UNCHANGED <<store, clock, todo, notes>>

\* Successor inserted, presented token marked used: one commit.
Rotate(r) ==
    /\ pc[r] = "rotate"
    /\ \E u \in Token :
          /\ ~Exists(u)
          /\ family' = [family EXCEPT ![u] = req[r].session]
          /\ parent' = [parent EXCEPT ![u] = req[r].token]
          /\ late'   = late \cup {v \in {u} : session[req[r].session] = "revoked"}
    /\ used' = used \cup {req[r].token}
    /\ Unlock(r)
    /\ Finish(r)
    /\ UNCHANGED <<session, revoked, clock, todo, answered>>

-----------------------------------------------------------------------------
(* logout and revokeSession: both end a session, then its tokens. *)

Logout(r) ==
    /\ \E t \in Token :
          /\ Exists(t)
          /\ Start(r, "session", [op |-> "logout", session |-> family[t], token |-> t,
                                  ended |-> FALSE, stale |-> FALSE])
    /\ UNCHANGED <<store, clock, holder, todo, notes>>

\* The caller's own session is live; the target was not revoked when read.
RevokeSession(r) ==
    /\ \E caller \in Session : session[caller] = "live" /\ caller \notin ended
    /\ \E s \in Session :
          /\ session[s] = "live"
          /\ Start(r, "session", [op |-> "revoke", session |-> s, token |-> None,
                                  ended |-> FALSE, stale |-> FALSE])
    /\ UNCHANGED <<store, clock, holder, todo, notes>>

-----------------------------------------------------------------------------
(* The revocation statements.  The reuse response revokes the family and   *)
(* then the session; logout and revokeSession do it the other way round.   *)

RevokeSessionRow(r) ==
    /\ pc[r] = "session"
    /\ session' = [session EXCEPT ![req[r].session] = "revoked"]
    /\ IF req[r].op = "refresh"
          THEN Finish(r) /\ answered' = answered \cup {req[r].session}
          ELSE Goto(r, "family") /\ UNCHANGED answered
    /\ UNCHANGED <<family, parent, used, revoked, clock, holder, todo, late>>

\* The snapshot of UPDATE refresh_tokens ... WHERE ... revoked_at IS NULL.
SelectTokens(r) ==
    /\ pc[r] = "family"
    /\ todo' = [todo EXCEPT ![r] = TokensOf(req[r].session) \ revoked]
    /\ Goto(r, "update")
    /\ UNCHANGED <<store, clock, holder, notes>>

\* Mutant: the reuse response stops at the family.
UpdateTokens_FamilyOnly(r) ==
    /\ pc[r] = "update"
    /\ \A t \in todo[r] : holder[t] = None
    /\ revoked' = revoked \cup todo[r]
    /\ todo'    = [todo EXCEPT ![r] = {}]
    /\ Finish(r)
    /\ UNCHANGED <<session, family, parent, used, clock, holder, notes>>

\* The statement ends once no row it has to write is locked by a rotation.
UpdateTokens(r) ==
    /\ pc[r] = "update"
    /\ \A t \in todo[r] : holder[t] = None
    /\ revoked' = revoked \cup todo[r]
    /\ todo'    = [todo EXCEPT ![r] = {}]
    /\ IF req[r].op = "refresh" THEN Goto(r, "session") ELSE Finish(r)
    /\ UNCHANGED <<session, family, parent, used, clock, holder, notes>>

-----------------------------------------------------------------------------
(* The environment *)

\* A lost connection, an error or a crash: an open transaction rolls back,
\* what was committed before stays.
Fail(r) ==
    /\ MayFail
    /\ pc[r] # "idle"
    /\ Unlock(r)
    /\ todo' = [todo EXCEPT ![r] = {}]
    /\ Finish(r)
    /\ UNCHANGED <<store, clock, notes>>

ExpireSession(s) ==
    /\ session[s] # "absent"
    /\ ended' = ended \cup {s}
    /\ UNCHANGED <<store, stale, holder, pc, req, todo, notes>>

ExpireToken(t) ==
    /\ Exists(t)
    /\ stale' = stale \cup {t}
    /\ UNCHANGED <<store, ended, holder, pc, req, todo, notes>>

Next ==
    \/ \E r \in Request :
          \/ InsertSession(r) \/ InsertFirstToken(r)
          \/ Refresh(r) \/ LockToken(r) \/ ReadSession(r)
          \/ DetectReuse(r) \/ RefuseExpired(r) \/ Rotate(r)
          \/ Logout(r) \/ RevokeSession(r)
          \/ RevokeSessionRow(r) \/ SelectTokens(r) \/ UpdateTokens(r)
          \/ Fail(r)
    \/ \E s \in Session : ExpireSession(s)
    \/ \E t \in Token : ExpireToken(t)

Spec == Init /\ [][Next]_vars

\* Steps that wait for a lock, and steps that never wait.
Acquire(r) == LockToken(r) \/ UpdateTokens(r)
Proceed(r) ==
    \/ ReadSession(r) \/ DetectReuse(r) \/ RefuseExpired(r) \/ Rotate(r)
    \/ InsertFirstToken(r) \/ RevokeSessionRow(r) \/ SelectTokens(r)

\* A started handler is run to its end; row lock queues are first come first
\* served.  Clients, clocks and failures are under no obligation.
FairSpec == Spec /\ \A r \in Request : SF_vars(Acquire(r)) /\ WF_vars(Proceed(r))

-----------------------------------------------------------------------------
(* Properties *)

\* "Exactly one successor can ever be minted per presented token"
\* (auth.repo.ts): a token is marked used in the very step that inserts its
\* only successor, in the same family.
OneSuccessor ==
    \A t \in Token :
        LET children == {u \in Token : parent[u] = t}
        IN  /\ Cardinality(children) = IF t \in used THEN 1 ELSE 0
            /\ \A u \in children : family[u] = family[t]

\* "Concurrent refreshes cannot fork a family" (docs/session-lifecycle.md): a
\* login never has two tokens that were not rotated yet.
NoFork ==
    \A t, u \in Token :
        Exists(t) /\ family[t] = family[u] /\ t \notin used /\ u \notin used => t = u

\* A rotation that was past its session check when the session was revoked may
\* mint one more token; that token mints none.
LateTokensAreBarren == \A t \in Token : parent[t] \notin late

\* Reuse, once detected, ends the login, however often its tokens are presented
\* meanwhile, provided the request that detected it is not cut off.
ReuseDetected(s) ==
    \E r \in Request : pc[r] = "family" /\ req[r].op = "refresh" /\ req[r].session = s
Ended(s) == session[s] = "revoked"
ReuseEndsLogin == \A s \in Session : ReuseDetected(s) ~> Ended(s)

\* "On reuse, every token in the family and the session are revoked"
\* (docs/session-lifecycle.md).  Refuted: a rotation in flight inserts a token
\* that the UPDATE of the family does not see.
ReuseRevokesFamily ==
    \A s \in answered : session[s] = "revoked" /\ TokensOf(s) \subseteq revoked
=============================================================================
