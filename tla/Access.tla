------------------------------- MODULE Access --------------------------------
(***************************************************************************)
(* Signing in, the boundary every bearer of an access token crosses, and   *)
(* what a signed-in user does to sessions: login, authenticate,            *)
(* listSessions, revokeSession and logout of auth.service.ts, one          *)
(* statement at a time.  The token is verified, the user read and the      *)
(* session read in steps apart, while accounts are disabled and enabled,   *)
(* sessions are revoked and run out.  Which key signed a token is in       *)
(* KeyRotation, how refresh tokens rotate in RefreshTokens.                *)
(***************************************************************************)
EXTENDS Naturals

CONSTANTS
    Request, User, Session, None,
    AccessTtl,    \* lifetime of an access token
    SessionTtl,   \* lifetime of a session
    FailureMode,  \* what an unanswered consume means: "open" or "closed"
    MaxTime       \* bound on the clock

VARIABLES
    now,
    status,    \* users.status and deleted_at
    session,   \* the sessions table
    rotating,  \* sessions whose refresh token is inserted and not revoked
    tokens,    \* access tokens given out
    job,       \* each request
    seen,      \* history: requests during which the bearer was in order once
    events     \* security events of the requests answered with success

vars == <<now, status, session, rotating, tokens, job, seen, events>>
data == <<now, status, session, rotating, tokens>>

Time     == 0 .. (MaxTime + SessionTtl + AccessTtl)
NoRow    == [owner |-> None, live |-> FALSE, until |-> 0]
Token    == [session : Session, until : Time]
NoToken  == [session |-> None, until |-> 0]
Idle     == [op |-> "none", step |-> "idle", user |-> None, token |-> NoToken,
             target |-> None, event |-> "none", answer |-> "none"]
Signed   == {"me", "list", "revoke"}
Job      == [op : Signed \cup {"login", "logout", "none"},
             step : {"idle", "limit", "credentials", "issue", "token", "verify", "user", "session",
                     "list", "target", "end", "end tokens", "record", "answered"},
             user : User \cup {None}, token : Token \cup {NoToken}, target : Session \cup {None},
             event : {"none", "rate_limit_exceeded", "login_failed", "login_succeeded",
                      "access_token_rejected", "logout_succeeded", "session_revoked"},
             answer : {"none", "ok"}]

TypeOK ==
    /\ now \in 0 .. MaxTime /\ status \in [User -> {"active", "inactive"}]
    /\ session \in [Session -> [owner : User \cup {None}, live : BOOLEAN, until : Time]]
    /\ rotating \subseteq Session /\ tokens \subseteq Token /\ seen \subseteq Request
    /\ job \in [Request -> Job]

Init ==
    /\ now = 0 /\ status = [u \in User |-> "active"]
    /\ session = [s \in Session |-> NoRow]
    /\ rotating = {} /\ tokens = {} /\ seen = {} /\ events = {}
    /\ job = [r \in Request |-> Idle]

-----------------------------------------------------------------------------
At(r, step)   == job[r].step = step
Goto(r, step) == job' = [job EXCEPT ![r].step = step]
\* The answer is sent.  Of one that refuses or fails nothing is left to look at.
Succeed(r) == job' = [job EXCEPT ![r].step = "answered", ![r].answer = "ok"]
Fail(r)    == job' = [job EXCEPT ![r] = Idle]
\* The handler is about to write an event, and then to answer.
Conclude(r, event) ==
    job' = [job EXCEPT ![r].step = "record", ![r].event = event, ![r].answer = "ok"]
Refuse(r, event) ==
    job' = [job EXCEPT ![r] = [Idle EXCEPT !.step = "record", !.event = event]]

Live(s) == session[s].live /\ now < session[s].until

\* The bearer of the token of r is in order at this moment.
InOrder(r) ==
    LET s == job[r].token.session
    IN  s # None /\ Live(s) /\ status[session[s].owner] = "active"

\* Whatever is in order after a step was so during the requests under way.
Witness == seen' = {r \in Request : job'[r].step # "idle" /\ (r \in seen \/ InOrder(r)')}

Quiet == UNCHANGED <<data, events>> /\ Witness

-----------------------------------------------------------------------------
(* login *)

Login(r) ==
    /\ At(r, "idle")
    /\ \E u \in User : job' = [job EXCEPT ![r].op = "login", ![r].step = "limit", ![r].user = u]
    /\ Quiet

\* The buckets of the address and of the email, before any lookup.
LimitLogin(r) ==
    /\ At(r, "limit")
    /\ \/ Goto(r, "credentials")
       \/ Refuse(r, "rate_limit_exceeded")
       \/ FailureMode = "closed" /\ Fail(r)
    /\ Quiet

\* The user is read and the password verified; an address nobody has, an
\* account that is not active and a wrong password get one answer.
CheckCredentials(r) ==
    /\ At(r, "credentials")
    /\ \/ status[job[r].user] = "active" /\ Goto(r, "issue")
       \/ Refuse(r, "login_failed")
    /\ Quiet

\* issueSession: the session, then its first token, each in a statement.
InsertSession(r) ==
    /\ At(r, "issue")
    /\ \E s \in Session :
          /\ session[s] = NoRow
          /\ session' = [session EXCEPT ![s] =
                            [owner |-> job[r].user, live |-> TRUE, until |-> now + SessionTtl]]
          /\ job' = [job EXCEPT ![r].step = "token", ![r].target = s]
    /\ UNCHANGED <<now, status, rotating, tokens, events>>
    /\ Witness

\* Mutant: the answer does not wait for the first refresh token.
InsertFirstToken_Detached(r) ==
    /\ At(r, "token")
    /\ \/ rotating' = rotating \cup {job[r].target}
       \/ UNCHANGED rotating
    /\ tokens' = tokens \cup {[session |-> job[r].target, until |-> now + AccessTtl]}
    /\ Conclude(r, "login_succeeded")
    /\ UNCHANGED <<now, status, session, events>>
    /\ Witness

\* buildSessionIssueResult signs the access token; the caller has it once the
\* answer is sent.
InsertFirstToken(r) ==
    /\ At(r, "token")
    /\ rotating' = rotating \cup {job[r].target}
    /\ tokens' = tokens \cup {[session |-> job[r].target, until |-> now + AccessTtl]}
    /\ Conclude(r, "login_succeeded")
    /\ UNCHANGED <<now, status, session, events>>
    /\ Witness

-----------------------------------------------------------------------------
(* requireAuthenticatedSession *)

Present(r) ==
    /\ At(r, "idle")
    /\ \E t \in tokens, op \in Signed, target \in Session :
          /\ op = "revoke" \/ target = t.session
          /\ job' = [job EXCEPT ![r].op = op, ![r].step = "verify", ![r].token = t,
                                ![r].target = target]
    /\ Quiet

Reject(r) == Refuse(r, "access_token_rejected")

Verify(r) ==
    /\ At(r, "verify")
    /\ IF now < job[r].token.until THEN Goto(r, "user") ELSE Reject(r)
    /\ Quiet

ReadUser(r) ==
    /\ At(r, "user")
    /\ LET u == session[job[r].token.session].owner
       IN  IF status[u] = "active"
              THEN job' = [job EXCEPT ![r].step = "session", ![r].user = u]
              ELSE Reject(r)
    /\ Quiet

\* Mutant: a session is trusted until somebody revokes it.
Trusted_UntilRevoked(r) ==
    session[job[r].token.session].owner = job[r].user /\ session[job[r].token.session].live

\* The session is the user's, not revoked and not past its end.
Trusted(r) ==
    session[job[r].token.session].owner = job[r].user /\ Live(job[r].token.session)

ReadSession(r) ==
    /\ At(r, "session")
    /\ IF ~Trusted(r) THEN Reject(r)
       ELSE CASE job[r].op = "me"     -> Succeed(r)
              [] job[r].op = "list"   -> Goto(r, "list")
              [] job[r].op = "revoke" -> Goto(r, "target")
    /\ Quiet

-----------------------------------------------------------------------------
(* listSessions, revokeSession and logout *)

\* One statement lists the live sessions of the user; a bad cursor is refused.
ListSessions(r) ==
    /\ At(r, "list")
    /\ Succeed(r) \/ Fail(r)
    /\ Quiet

\* Another user's session is not found; one already revoked is left alone.
ReadTarget(r) ==
    /\ At(r, "target")
    /\ LET row == session[job[r].target] IN
       CASE row.owner # job[r].user -> Fail(r)
         [] row.owner = job[r].user /\ ~row.live -> Succeed(r)
         [] row.owner = job[r].user /\ row.live -> Goto(r, "end")
    /\ Quiet

\* A cookie names its token and session; without one there is nothing to do.
Logout(r) ==
    /\ At(r, "idle")
    /\ \E s \in rotating :
          job' = [job EXCEPT ![r].op = "logout", ![r].step = "end", ![r].target = s]
    /\ Quiet

EndSession(r) ==
    /\ At(r, "end")
    /\ session' = [session EXCEPT ![job[r].target].live = FALSE]
    /\ Goto(r, "end tokens")
    /\ UNCHANGED <<now, status, rotating, tokens, events>>
    /\ Witness

EndTokens(r) ==
    /\ At(r, "end tokens")
    /\ rotating' = rotating \ {job[r].target}
    /\ Conclude(r, IF job[r].op = "logout" THEN "logout_succeeded" ELSE "session_revoked")
    /\ UNCHANGED <<now, status, session, tokens, events>>
    /\ Witness

-----------------------------------------------------------------------------
\* writeSecurityEvent: when it throws, so does the handler.  The event of a
\* refusal is not kept: nothing reads it.
Record(r) ==
    /\ At(r, "record")
    /\ \/ /\ job[r].answer = "ok" /\ Goto(r, "answered")
          /\ events' = events \cup {[by |-> r, event |-> job[r].event]}
       \/ Fail(r) /\ UNCHANGED events
    /\ UNCHANGED data
    /\ Witness

\* A statement fails or the limiter throws.
Throw(r) ==
    /\ job[r].step \notin {"idle", "answered", "record"}
    /\ Fail(r)
    /\ Quiet

\* The answer is out and the slot takes another request.
Leave(r) ==
    /\ At(r, "answered")
    /\ job' = [job EXCEPT ![r] = Idle]
    /\ events' = {e \in events : e.by # r}
    /\ UNCHANGED data
    /\ Witness

Tick ==
    /\ now < MaxTime /\ now' = now + 1
    /\ UNCHANGED <<status, session, rotating, tokens, job, events>>
    /\ Witness

Administer ==
    /\ \E u \in User : status' = [status EXCEPT ![u] = IF @ = "active" THEN "inactive" ELSE "active"]
    /\ UNCHANGED <<now, session, rotating, tokens, job, events>>
    /\ Witness

Next ==
    \/ \E r \in Request :
          \/ Login(r) \/ LimitLogin(r) \/ CheckCredentials(r) \/ InsertSession(r)
          \/ InsertFirstToken(r) \/ Present(r) \/ Verify(r) \/ ReadUser(r) \/ ReadSession(r)
          \/ ListSessions(r) \/ ReadTarget(r) \/ Logout(r) \/ EndSession(r) \/ EndTokens(r)
          \/ Record(r) \/ Throw(r) \/ Leave(r)
    \/ Tick \/ Administer

Spec == Init /\ [][Next]_vars

-----------------------------------------------------------------------------
\* Past the boundary, at one moment since the request arrived its session was
\* live and its user active, although the two are read apart and both change
\* meanwhile: what ended before a request began never lets it in.
AccessIsTimely ==
    \A r \in Request :
        (job[r].op \in Signed /\ (job[r].step \in {"list", "target", "end", "end tokens"}
                                  \/ job[r].answer = "ok")) => r \in seen

\* An answered request did what it answers, however its statements were
\* interleaved with others: a login left a session that can be refreshed unless
\* it was ended since, a revocation left its target dead, and both are on record.
AnswersAreTrue ==
    \A r \in Request : At(r, "answered") /\ job[r].answer = "ok" =>
        CASE job[r].op = "login" ->
                /\ session[job[r].target].live => job[r].target \in rotating
                /\ [by |-> r, event |-> "login_succeeded"] \in events
          [] job[r].op \in {"revoke", "logout"} -> ~session[job[r].target].live
          [] OTHER -> TRUE
=============================================================================
