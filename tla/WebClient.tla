------------------------------ MODULE WebClient ------------------------------
(***************************************************************************)
(* The session handling of the web client: the access token in the memory  *)
(* of a tab, the refresh cookie shared by the tabs of a browser, the       *)
(* restore at boot, the silent refresh after a 401 with its retry, login   *)
(* and logout.  A refresh is sent, handled and delivered in three steps;   *)
(* answers arrive in any order, and may be lost.                           *)
(*                                                                         *)
(* The server is what RefreshTokens.tla promises, seen from outside: the   *)
(* newest token of a live session rotates, any other one ends the session. *)
(* A token is named [s, n], the n-th of session s; the access token minted *)
(* with it has the same name.  A session stands for its user as well.      *)
(***************************************************************************)
EXTENDS Naturals

CONSTANTS
    Tab, Session, None,
    MaxRotation   \* bound on the refresh tokens of a session

VARIABLES
    newest,   \* the newest token of each session, 0 before its login
    live,     \* sessions.revoked_at IS NULL
    stale,    \* access tokens that have expired
    cookie,   \* the refresh cookie of the browser
    status,   \* AuthProvider: "restoring", "anonymous" or "authenticated"
    user,     \* AuthProvider: the user that is shown
    token,    \* client.ts: accessToken
    flight,   \* the refresh of the boot and the shared silent refresh
    call,     \* authenticated requests: "me", and one of a page
    auth,     \* the login or logout under way
    tripped,  \* history: a refresh of this browser ended a live session
    lossy     \* history: an answer to a refresh was lost

server  == <<newest, live, stale>>
provider == <<status, user>>
history == <<tripped, lossy>>
vars    == <<server, cookie, provider, token, flight, call, auth, history>>

Token  == [s : Session, n : 1 .. MaxRotation]
Kind   == {"boot", "silent"}
NoFlight == [step |-> "none", tk |-> None]
Flight == [step : {"none", "sent", "rotated", "refused"}, tk : Token \cup {None}]
Call   == {"me", "page"}
NoCall == [step |-> "none", with |-> None, boot |-> FALSE]
Calls  == [step : {"none", "sent", "waiting", "retried"}, with : Token \cup {None}, boot : BOOLEAN]
NoAuth == [step |-> "none", with |-> None]
Auths  == [step : {"none", "login", "logout", "leaving"}, with : Token \cup {None}]

TypeOK ==
    /\ newest \in [Session -> 0 .. MaxRotation] /\ live \in [Session -> BOOLEAN]
    /\ stale \subseteq Token /\ cookie \in Token \cup {None}
    /\ status \in [Tab -> {"closed", "restoring", "anonymous", "authenticated"}]
    /\ user \in [Tab -> Session \cup {None}] /\ token \in [Tab -> Token \cup {None}]
    /\ flight \in [Tab -> [Kind -> Flight]]
    /\ call \in [Tab -> [Call -> Calls]]
    /\ auth \in [Tab -> Auths]
    /\ tripped \in BOOLEAN /\ lossy \in BOOLEAN

Init ==
    /\ newest = [s \in Session |-> 0] /\ live = [s \in Session |-> FALSE]
    /\ stale = {} /\ cookie = None
    /\ status = [t \in Tab |-> "closed"] /\ user = [t \in Tab |-> None]
    /\ token = [t \in Tab |-> None]
    /\ flight = [t \in Tab |-> [k \in Kind |-> NoFlight]]
    /\ call = [t \in Tab |-> [c \in Call |-> NoCall]]
    /\ auth = [t \in Tab |-> NoAuth]
    /\ tripped = FALSE /\ lossy = FALSE

-----------------------------------------------------------------------------
Send(t, k) == flight' = [flight EXCEPT ![t][k] = [step |-> "sent", tk |-> cookie]]

SendCall(t, c, boot, tk) ==
    call' = [call EXCEPT ![t][c] = [step |-> "sent", with |-> tk, boot |-> boot]]

\* A page load: the memory of the tab is gone, the restore starts.
Load(t) ==
    /\ flight[t] = [k \in Kind |-> NoFlight] /\ auth[t] = NoAuth
    /\ status' = [status EXCEPT ![t] = "restoring"]
    /\ user' = [user EXCEPT ![t] = None] /\ token' = [token EXCEPT ![t] = None]
    /\ call' = [call EXCEPT ![t] = [c \in Call |-> NoCall]]
    /\ Send(t, "boot")
    /\ UNCHANGED <<server, cookie, auth, history>>

Answer(t, k, step, tk) == flight' = [flight EXCEPT ![t][k] = [step |-> step, tk |-> tk]]

\* The refresh endpoint, with the cookie that was sent.
Handle(t, k) ==
    /\ flight[t][k].step = "sent"
    /\ LET ck == flight[t][k].tk IN
       IF ck = None
       THEN Answer(t, k, "refused", None) /\ UNCHANGED <<newest, live, tripped>>
       ELSE IF live[ck.s] /\ newest[ck.s] = ck.n
       THEN /\ ck.n < MaxRotation
            /\ newest' = [newest EXCEPT ![ck.s] = @ + 1]
            /\ Answer(t, k, "rotated", [ck EXCEPT !.n = @ + 1])
            /\ UNCHANGED <<live, tripped>>
       ELSE /\ live' = [live EXCEPT ![ck.s] = FALSE]
            /\ tripped' = (tripped \/ live[ck.s])
            /\ Answer(t, k, "refused", None)
            /\ UNCHANGED newest
    /\ UNCHANGED <<stale, cookie, provider, token, call, auth, lossy>>

Rotated(t, k)  == flight[t][k].step = "rotated"
Answered(t, k) == Rotated(t, k) \/ flight[t][k].step = "refused"

\* refreshAccessToken resolves: cookie and access token are those of the answer.
Resolve(t, k) ==
    /\ Answered(t, k)
    /\ cookie' = flight[t][k].tk
    /\ token' = [token EXCEPT ![t] = flight[t][k].tk]
    /\ Answer(t, k, "none", None)

\* The restore goes on with GET /v1/auth/me, or gives up.
RestoreAnswered(t) ==
    /\ Resolve(t, "boot")
    /\ IF Rotated(t, "boot")
       THEN SendCall(t, "me", TRUE, flight[t]["boot"].tk) /\ UNCHANGED status
       ELSE status' = [status EXCEPT ![t] = "anonymous"] /\ UNCHANGED call
    /\ UNCHANGED <<server, user, auth, history>>

\* notifySessionExpired
Expired(t) ==
    /\ status' = [status EXCEPT ![t] = "anonymous"] /\ user' = [user EXCEPT ![t] = None]

\* Every request that waited for the shared refresh is sent once more, or fails.
SilentAnswered(t) ==
    /\ Resolve(t, "silent")
    /\ call' = [call EXCEPT ![t] = [c \in Call |->
          IF call[t][c].step # "waiting" THEN call[t][c]
          ELSE IF Rotated(t, "silent")
          THEN [call[t][c] EXCEPT !.step = "retried", !.with = flight[t]["silent"].tk]
          ELSE NoCall]]
    /\ IF Rotated(t, "silent") THEN UNCHANGED provider ELSE Expired(t)
    /\ UNCHANGED <<server, auth, history>>

\* The answer is lost: the promise resolves to false, the cookie stays.
LoseAnswer(t, k) ==
    /\ Answered(t, k)
    /\ lossy' = TRUE
    /\ token' = [token EXCEPT ![t] = None]
    /\ Answer(t, k, "none", None)
    /\ call' = [call EXCEPT ![t] = [c \in Call |->
          IF k = "silent" /\ call[t][c].step = "waiting" THEN NoCall ELSE call[t][c]]]
    /\ IF k = "silent" THEN Expired(t)
       ELSE status' = [status EXCEPT ![t] = "anonymous"] /\ UNCHANGED user
    /\ UNCHANGED <<server, cookie, auth, tripped>>

-----------------------------------------------------------------------------
\* A query of a page, or refreshUser.
Request(t, c) ==
    /\ status[t] = "authenticated" /\ call[t][c] = NoCall
    /\ c = "me" => token[t] # None
    /\ SendCall(t, c, FALSE, token[t])
    /\ UNCHANGED <<server, cookie, provider, token, flight, auth, history>>

Accepted(tk) == tk # None /\ tk \notin stale /\ live[tk.s]

CallSucceeds(t, c) ==
    /\ call[t][c].step \in {"sent", "retried"} /\ Accepted(call[t][c].with)
    /\ call' = [call EXCEPT ![t][c] = NoCall]
    /\ user' = IF c = "me" THEN [user EXCEPT ![t] = call[t][c].with.s] ELSE user
    /\ status' = IF call[t][c].boot THEN [status EXCEPT ![t] = "authenticated"] ELSE status
    /\ UNCHANGED <<server, cookie, token, flight, auth, history>>

\* Mutant: every 401 starts a refresh of its own.
CallDenied_NoCoalescing(t, c) ==
    /\ call[t][c].step = "sent" /\ ~Accepted(call[t][c].with)
    /\ call' = [call EXCEPT ![t][c].step = "waiting"]
    /\ \E k \in Kind : flight[t][k] = NoFlight /\ Send(t, k)
    /\ UNCHANGED <<server, cookie, provider, token, auth, history>>

\* The first 401 of a request: it waits for the silent refresh that is under
\* way, or starts one.
CallDenied(t, c) ==
    /\ call[t][c].step = "sent" /\ ~Accepted(call[t][c].with)
    /\ call' = [call EXCEPT ![t][c].step = "waiting"]
    /\ IF flight[t]["silent"] = NoFlight THEN Send(t, "silent") ELSE UNCHANGED flight
    /\ UNCHANGED <<server, cookie, provider, token, auth, history>>

\* The second one ends the session of the tab.
RetryDenied(t, c) ==
    /\ call[t][c].step = "retried" /\ ~Accepted(call[t][c].with)
    /\ call' = [call EXCEPT ![t][c] = NoCall]
    /\ token' = [token EXCEPT ![t] = None] /\ Expired(t)
    /\ UNCHANGED <<server, cookie, flight, auth, history>>

-----------------------------------------------------------------------------
\* The login page is there while the restore is still running.
Login(t) ==
    /\ status[t] \in {"restoring", "anonymous"} /\ auth[t] = NoAuth
    /\ auth' = [auth EXCEPT ![t].step = "login"]
    /\ UNCHANGED <<server, cookie, provider, token, flight, call, history>>

\* adoptSession, or completeRegistration; nobody else knows the session before.
LoggedIn(t, s) ==
    /\ auth[t].step = "login" /\ newest[s] = 0
    /\ newest' = [newest EXCEPT ![s] = 1] /\ live' = [live EXCEPT ![s] = TRUE]
    /\ cookie' = [s |-> s, n |-> 1] /\ token' = [token EXCEPT ![t] = [s |-> s, n |-> 1]]
    /\ status' = [status EXCEPT ![t] = "authenticated"] /\ user' = [user EXCEPT ![t] = s]
    /\ auth' = [auth EXCEPT ![t] = NoAuth]
    /\ UNCHANGED <<stale, flight, call, history>>

Logout(t) ==
    /\ status[t] = "authenticated" /\ auth[t] = NoAuth
    /\ auth' = [auth EXCEPT ![t] = [step |-> "logout", with |-> cookie]]
    /\ UNCHANGED <<server, cookie, provider, token, flight, call, history>>

\* The endpoint ends the session of the cookie, whichever of its tokens it is.
HandleLogout(t) ==
    /\ auth[t].step = "logout"
    /\ live' = [s \in Session |-> live[s] /\ (auth[t].with # None => s # auth[t].with.s)]
    /\ auth' = [auth EXCEPT ![t].step = "leaving"]
    /\ UNCHANGED <<newest, stale, cookie, provider, token, flight, call, history>>

LoggedOut(t) ==
    /\ auth[t].step = "leaving"
    /\ auth' = [auth EXCEPT ![t] = NoAuth]
    /\ cookie' = None /\ token' = [token EXCEPT ![t] = None] /\ Expired(t)
    /\ UNCHANGED <<server, flight, call, history>>

ExpireAccess(tk) ==
    /\ tk \notin stale /\ newest[tk.s] >= tk.n
    /\ stale' = stale \cup {tk}
    /\ UNCHANGED <<newest, live, cookie, provider, token, flight, call, auth, history>>

Next ==
    \/ \E tk \in Token : ExpireAccess(tk)
    \/ \E t \in Tab :
          \/ Load(t) \/ RestoreAnswered(t) \/ SilentAnswered(t)
          \/ Login(t) \/ Logout(t) \/ HandleLogout(t) \/ LoggedOut(t)
          \/ \E s \in Session : LoggedIn(t, s)
          \/ \E k \in Kind : Handle(t, k) \/ LoseAnswer(t, k)
          \/ \E c \in Call : Request(t, c) \/ CallSucceeds(t, c) \/ CallDenied(t, c)
                               \/ RetryDenied(t, c)

Spec == Init /\ [][Next]_vars

-----------------------------------------------------------------------------
\* The browser never ends its own session: unless an answer was lost, no refresh
\* it sends presents a token that was rotated already, so that an expired access
\* token or a page load never sends the user to the login page.  It depends on
\* one refresh at a time (client.ts trySilentRefresh, AuthProvider.tsx restore).
NeverBounced == tripped => lossy
=============================================================================
