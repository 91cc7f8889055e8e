---------------------------- MODULE EmailedLinks ----------------------------
(***************************************************************************)
(* The pages of the web client an emailed link opens: completing a         *)
(* registration, verifying an address, resetting a password and accepting  *)
(* an invitation.  Each captures the token once, takes it out of the       *)
(* address bar and submits it, while the restore of the session and the    *)
(* organization list of the provider run beside it in the same tab.        *)
(*                                                                         *)
(* An effect that runs again cancels the request it made before: the       *)
(* answer still arrives, and the page no longer looks at it.               *)
(***************************************************************************)
EXTENDS Naturals

CONSTANTS
  Kind,           \* the pages explored
  Token,          \* emailed tokens
  MaxTries,       \* bound: submissions of the password form
  None

VARIABLES
  kind,           \* the page that was opened
  link,           \* the token in the address bar
  held,           \* the token the page keeps
  page,           \* what the page shows
  submitted,      \* the effect's ref
  post,           \* the request with the token
  status, user,   \* AuthProvider: the user the cookie names is "old"
  shown,          \* the emailVerified of the user that is shown
  me,             \* GET /v1/auth/me under way, of the restore or of refreshUser
  refreshed,      \* the ref of the verification page
  alive,          \* the session of the cookie is live
  list,           \* the organization list of the provider
  verified,       \* the address of "old" is verified, on the server
  consumed,       \* the tokens used up on the server
  posts,          \* history: how often each token was submitted
  judged,         \* history: the tokens the server gave a final answer about
  adopted, expired, dropped   \* history: a session was adopted; a session of the tab
                              \* expired; a refresh of the user failed

place   == <<kind, link, held>>
auth    == <<status, user, shown>>
server  == <<alive, verified, consumed>>
history == <<posts, judged, adopted, expired, dropped>>
vars    == <<place, page, submitted, post, auth, me, refreshed, list, server, history>>

Waiting == [complete |-> "completing", verify |-> "verifying", invitation |-> "inspecting",
            reset |-> "form"]
Verdict == {"success", "expired", "used", "invalid"}
Post == [step : {"none", "sent", "answered"}, token : Token \cup {None},
         what : Verdict \cup {"none", "failed"}, cancelled : BOOLEAN]
Me   == [step : {"none", "refresh", "boot", "boot answered", "again", "again answered"},
         seen : BOOLEAN]
NoPost == [step |-> "none", token |-> None, what |-> "none", cancelled |-> FALSE]

TypeOK ==
  /\ kind \in Kind /\ link \in Token \cup {None} /\ held \in Token \cup {None}
  /\ page \in Verdict \cup {Waiting[k] : k \in Kind}
             \cup {"missing_token", "submitting", "ready", "accepting", "failed"}
  /\ submitted \in BOOLEAN /\ refreshed \in BOOLEAN
  /\ post \in Post /\ me \in Me
  /\ status \in {"restoring", "anonymous", "authenticated"} /\ user \in {"old", "new", None}
  /\ shown \in BOOLEAN /\ alive \in BOOLEAN /\ verified \in BOOLEAN
  /\ list \in {"none", "sent", "refused"} /\ consumed \subseteq Token /\ judged \subseteq Token
  /\ posts \in [Token -> Nat] /\ adopted \in BOOLEAN /\ expired \in BOOLEAN /\ dropped \in BOOLEAN

\* The link is opened in a tab of its own; the browser may hold the cookie of a
\* session, which may have ended.
Init ==
  /\ kind \in Kind /\ link \in Token \cup {None} /\ held = link
  /\ page = IF link = None THEN "missing_token" ELSE Waiting[kind]
  /\ submitted = FALSE /\ post = NoPost /\ refreshed = FALSE
  /\ status = "restoring" /\ user = None /\ shown = FALSE
  /\ me = [step |-> "refresh", seen |-> FALSE] /\ list = "none"
  /\ alive \in BOOLEAN /\ verified = FALSE /\ consumed \in SUBSET Token
  /\ posts = [t \in Token |-> 0] /\ judged = {}
  /\ adopted = FALSE /\ expired = FALSE /\ dropped = FALSE

-----------------------------------------------------------------------------
(* The address bar                                                         *)

\* navigate(pathname, { replace: true })
Scrub ==
  /\ link # None /\ link' = None
  /\ UNCHANGED <<kind, held, page, submitted, post, auth, me, refreshed, list, server, history>>

\* Another link of the kind is pasted into the same tab: only the fragment changes,
\* the page stays and keeps the token it captured first.
PasteLink(t) ==
  /\ kind # "invitation" /\ link = None /\ link' = t
  /\ UNCHANGED <<kind, held, page, submitted, post, auth, me, refreshed, list, server, history>>

-----------------------------------------------------------------------------
(* AuthProvider and OrganizationProvider                                   *)

\* The refresh of the restore: without a live session the visitor is anonymous.
RestoreRefreshed ==
  /\ me.step = "refresh"
  /\ IF alive THEN me' = [me EXCEPT !.step = "boot"] /\ UNCHANGED status
              ELSE me' = [me EXCEPT !.step = "none"] /\ status' = "anonymous"
  /\ UNCHANGED <<place, page, submitted, post, user, shown, refreshed, list, server, history>>

MeHandled ==
  /\ me.step \in {"boot", "again"}
  /\ me' = [step |-> IF me.step = "boot" THEN "boot answered" ELSE "again answered",
            seen |-> verified]
  /\ UNCHANGED <<place, page, submitted, post, auth, refreshed, list, server, history>>

\* The restore ends; its request may fail.
Restored(ok) ==
  /\ me.step = "boot answered"
  /\ me' = [step |-> "none", seen |-> FALSE]
  /\ IF ok THEN user' = "old" /\ status' = "authenticated" /\ shown' = me.seen
           ELSE status' = "anonymous" /\ UNCHANGED <<user, shown>>
  /\ UNCHANGED <<place, page, submitted, post, refreshed, list, server, history>>

\* refreshUser: a failure is swallowed.
UserRefreshed(ok) ==
  /\ me.step = "again answered"
  /\ me' = [step |-> "none", seen |-> FALSE]
  /\ shown' = IF ok /\ user = "old" THEN me.seen ELSE shown
  /\ dropped' = (dropped \/ ~ok)
  /\ UNCHANGED <<place, page, submitted, post, status, user, refreshed, list, server,
                 posts, judged, adopted, expired>>

\* The session of the cookie is revoked elsewhere.
Revoke ==
  /\ alive /\ alive' = FALSE
  /\ UNCHANGED <<place, page, submitted, post, auth, me, refreshed, list, verified, consumed,
                 history>>

\* The organization list, enabled once a user is there; the answer is of no interest
\* here unless the session has ended: then the silent refresh is refused as well.
ListRequested ==
  /\ status = "authenticated" /\ user = "old" /\ list = "none" /\ list' = "sent"
  /\ UNCHANGED <<place, page, submitted, post, auth, me, refreshed, server, history>>

ListHandled ==
  /\ list = "sent" /\ list' = IF alive THEN "none" ELSE "refused"
  /\ UNCHANGED <<place, page, submitted, post, auth, me, refreshed, server, history>>

\* The effect of the completion page depends on the status, those of the others do
\* not: it runs again, and its request is cancelled.
Rerun(status2) ==
  post' = IF kind = "complete" /\ post.step # "none" /\ status2 # status
          THEN [post EXCEPT !.cancelled = TRUE] ELSE post

\* notifySessionExpired
SessionExpired ==
  /\ list = "refused" /\ list' = "none"
  /\ status' = "anonymous" /\ user' = None /\ shown' = FALSE /\ expired' = TRUE
  /\ Rerun("anonymous")
  /\ UNCHANGED <<place, page, submitted, me, refreshed, server, posts, judged, adopted, dropped>>

-----------------------------------------------------------------------------
(* The pages                                                               *)

Submit(shows) ==
  /\ post' = [step |-> "sent", token |-> held, what |-> "none", cancelled |-> FALSE]
  /\ posts' = [posts EXCEPT ![held] = @ + 1]
  /\ page' = shows
  /\ UNCHANGED <<place, auth, me, refreshed, list, server, judged, adopted, expired, dropped>>

\* A bug: the completion does not wait for the restore.
SubmitOnce_AtOnce ==
  /\ kind # "reset" /\ page = Waiting[kind] /\ held # None /\ ~submitted
  /\ submitted' = TRUE /\ Submit(page)

\* A bug: nothing remembers that the token was submitted.
SubmitOnce_Unguarded ==
  /\ kind # "reset" /\ page = Waiting[kind] /\ held # None
  /\ kind = "complete" => status # "restoring"
  /\ post.step = "none" \/ post.cancelled
  /\ submitted' = TRUE /\ Submit(page)

\* The effect of the three pages that submit without asking; the completion waits
\* for the restore, since it adopts a session.
SubmitOnce ==
  /\ kind # "reset" /\ page = Waiting[kind] /\ held # None /\ ~submitted
  /\ kind = "complete" => status # "restoring"
  /\ submitted' = TRUE /\ Submit(page)

\* The password form, submitted by the user, again after a failure.
SubmitForm ==
  /\ kind = "reset" /\ page = "form" /\ held # None
  /\ posts[held] < MaxTries
  /\ Submit("submitting") /\ UNCHANGED submitted

\* The button of the invitation page, for a user who is signed in.
Accept ==
  /\ kind = "invitation" /\ page = "ready" /\ held # None /\ status = "authenticated"
  /\ posts[held] <= MaxTries
  /\ Submit("accepting") /\ UNCHANGED submitted

\* A user without an account leaves with the token for the registration page.
Register ==
  /\ kind = "invitation" /\ page = "ready" /\ held # None /\ status # "authenticated"
  /\ held' = None
  /\ UNCHANGED <<kind, link, page, submitted, post, auth, me, refreshed, list, server, history>>

\* The server: an open token is used up, unless the request only looks at it; any
\* answer may be lost.
PostHandled(what) ==
  /\ post.step = "sent"
  /\ what = "success" => post.token \notin consumed
  /\ what = "used" => post.token \in consumed
  /\ post' = [post EXCEPT !.step = "answered", !.what = what]
  /\ IF what = "success" /\ page # "inspecting"
     THEN /\ consumed' = consumed \cup {post.token}
          /\ verified' = (verified \/ kind = "verify")
     ELSE UNCHANGED <<consumed, verified>>
  /\ UNCHANGED <<place, page, submitted, auth, me, refreshed, list, alive, history>>

\* The request was handled and its answer is lost: the page sees a failure.
AnswerLost ==
  /\ post.step = "answered" /\ post.what # "failed"
  /\ post' = [post EXCEPT !.what = "failed"]
  /\ UNCHANGED <<place, page, submitted, auth, me, refreshed, list, server, history>>

\* What the page shows for an answer: a failure returns to the form or the button.
After(what) ==
  CASE page = "inspecting" /\ what = "success" -> "ready"
    [] page = "accepting" /\ what # "success"  -> "ready"
    [] page = "submitting" /\ what = "failed"  -> "form"
    [] OTHER -> what

\* The answer arrives.  A completion adopts its session even when the page that
\* asked for it looks away.
Answered ==
  /\ post.step = "answered"
  /\ post' = NoPost
  /\ IF kind = "complete" /\ post.what = "success"
     THEN status' = "authenticated" /\ user' = "new" /\ adopted' = TRUE /\ shown' = TRUE
     ELSE UNCHANGED <<auth, adopted>>
  /\ page' = IF post.cancelled THEN page ELSE After(post.what)
  /\ held' = IF \/ kind = "reset" /\ post.what \in Verdict
                \/ page = "accepting" /\ post.what = "success"
             THEN None ELSE held
  /\ judged' = IF post.what \in Verdict /\ page # "inspecting" THEN judged \cup {post.token} ELSE judged
  /\ UNCHANGED <<kind, link, submitted, me, refreshed, list, server, posts, expired, dropped>>

\* A bug: the page does not wait until the restore has settled.
RefreshUser_AtOnce ==
  /\ kind = "verify" /\ page = "success" /\ ~refreshed
  /\ refreshed' = TRUE
  /\ me' = IF me.step = "none" /\ user # None THEN [me EXCEPT !.step = "again"] ELSE me
  /\ UNCHANGED <<place, page, submitted, post, auth, list, server, history>>

\* After a verification the signed-in user is asked for again, once.
RefreshUser ==
  /\ kind = "verify" /\ page = "success" /\ status = "authenticated" /\ ~refreshed
  /\ refreshed' = TRUE /\ me' = [me EXCEPT !.step = "again"]
  /\ UNCHANGED <<place, page, submitted, post, auth, list, server, history>>

Next ==
  \/ Scrub \/ \E t \in Token : PasteLink(t)
  \/ RestoreRefreshed \/ MeHandled \/ \E ok \in BOOLEAN : Restored(ok) \/ UserRefreshed(ok)
  \/ Revoke \/ ListRequested \/ ListHandled \/ SessionExpired
  \/ SubmitOnce \/ SubmitForm \/ Accept \/ Register
  \/ \E what \in Verdict \cup {"failed"} : PostHandled(what)
  \/ AnswerLost \/ Answered \/ RefreshUser

Spec == Init /\ [][Next]_vars

-----------------------------------------------------------------------------
(* Properties                                                              *)

\* The session a completion created stays: nothing but the expiry of the session
\* the tab had before signs the new user out.
AdoptionSticks == adopted /\ ~expired => status = "authenticated" /\ user = "new"

\* A token is submitted once by a page that does not ask, and by the password form
\* never again after the server has judged it.  (The invitation page goes back to
\* its button after any refusal, and keeps the token.)
NoSecondTry ==
  /\ kind \in {"complete", "verify"} => \A t \in Token : posts[t] <= 1
  /\ kind = "reset" /\ post.step = "sent" => post.token \notin judged

\* An answer about a token ends the wait of its page, unless the session of the tab
\* expired meanwhile.
AnswerIsShown == submitted /\ post.step = "none" /\ ~expired => page # Waiting[kind]

\* Who has verified an address and is signed in is shown as verified once the user
\* was asked for again.
VerifiedIsShown ==
  /\ kind = "verify" /\ page = "success" /\ user = "old"
  /\ refreshed /\ me.step = "none" /\ ~dropped
  => shown
=============================================================================
