--------------------------- MODULE AccountRequests ---------------------------
(***************************************************************************)
(* The public account endpoints as a caller and the audit log see them:    *)
(* registration.service.ts, password-recovery.service.ts and               *)
(* email-verification.service.ts around their transactions, with every     *)
(* external call (limiter store, lookups, persistence, mail, event log)    *)
(* free to fail.  One email address, its account and one token of each     *)
(* kind.  What the transactions do to tokens, sessions and generations is  *)
(* in Registration, Credentials and EmailVerification.                     *)
(***************************************************************************)
EXTENDS Naturals

CONSTANTS
    Request,
    Kinds,          \* the endpoints called, of Endpoint
    FailureMode,    \* ORGISTRY_RATE_LIMIT_FAILURE_MODE, "open" or "closed"
    MaxHits,        \* the limit of every public bucket in a window
    MaxNotices,     \* existingAccountNoticePerEmailMax
    MaxWindow       \* windows explored

Asking     == {"register", "recover"}
Completing == {"complete registration", "complete reset", "complete verification"}
Endpoint   == Asking \cup Completing \cup {"verify"}
Account    == {"none", "unverified", "verified", "inactive"}

VARIABLES
    window, storeUp,
    hits,      \* the counters of the current window, per endpoint and bucket
    account,
    token,     \* the state of the token a completion presents
    job,       \* each request
    notices,   \* guidance emails delivered on the budget of each window
    events     \* security events written: by whom, and whether they name the account

vars == <<window, storeUp, hits, account, token, job, notices, events>>

Bucket == (Endpoint \X {"ip", "subject"}) \cup {<<"register", "notice">>}
Idle   == [kind |-> "none", step |-> "idle", answer |-> "none", outcome |-> "none", read |-> FALSE,
           slot |-> 0]
Result == {"done", "used", "expired", "invalid"}   \* of a completion
Noted  == {"invitation_rejected", "invitation_lookup_failed", "lookup_failed", "unknown_email",
           "ineligible_account", "inactive_account", "existing_account_notice_throttled",
           "existing_account_notice_sent", "existing_account_notice_failed", "persist_failed",
           "send_failed", "sent"}
Job    == [kind : Endpoint \cup {"none"}, read : BOOLEAN, slot : 0 .. MaxWindow,
           answer : {"none", "unavailable", "limited", "error", "accepted", "not sent", "sent"}
                      \cup Result,
           outcome : {"none"} \cup Noted \cup Result,
           step : {"idle", "ip", "subject", "limited", "prepare", "lookup", "notice", "guide",
                   "persist", "mail", "record", "commit", "audit", "answered"}]

TypeOK ==
    /\ window \in 0 .. MaxWindow /\ storeUp \in BOOLEAN
    /\ hits \in [Bucket -> Nat] /\ account \in Account
    /\ token \in [Completing -> {"live", "used", "expired", "unknown"}]
    /\ notices \in [0 .. MaxWindow -> Nat] /\ events \subseteq [by : Request, names : BOOLEAN]
    /\ job \in [Request -> Job]

Init ==
    /\ window = 0 /\ storeUp = TRUE
    /\ hits = [b \in Bucket |-> 0]
    /\ account \in Account
    /\ token \in {t \in [Completing -> {"live", "expired", "unknown"}] :
                    \A kind \in Completing \ Kinds : t[kind] = "unknown"}
    /\ job = [r \in Request |-> Idle]
    /\ notices = [w \in 0 .. MaxWindow |-> 0] /\ events = {}

-----------------------------------------------------------------------------
At(r, step) == job[r].step = step
Goto(r, step) == job' = [job EXCEPT ![r].step = step]
Answer(r, answer) == job' = [job EXCEPT ![r].step = "answered", ![r].answer = answer]

\* recordRequestOutcome is about to note this outcome.
Note(r, outcome) == job' = [job EXCEPT ![r].step = "record", ![r].outcome = outcome]

Receive(r) ==
    /\ At(r, "idle")
    /\ \E kind \in Kinds :
          job' = [job EXCEPT ![r].kind = kind,
                             ![r].step = IF kind = "verify" THEN "subject" ELSE "ip"]
    /\ UNCHANGED <<window, storeUp, hits, account, token, notices, events>>

\* rateLimiter.consume: what the store says of one more hit.  Above the limit
\* the count makes no difference.
Consume(bucket, limit, allowed, limited, unavailable) ==
    IF ~storeUp THEN unavailable /\ UNCHANGED hits
    ELSE IF hits[bucket] >= limit THEN limited /\ UNCHANGED hits
    ELSE allowed /\ hits' = [hits EXCEPT ![bucket] = @ + 1]

\* enforceRateLimit
Limit(r, bucket, next) ==
    Consume(bucket, MaxHits, Goto(r, next), Goto(r, "limited"),
            IF FailureMode = "open" THEN Goto(r, next) ELSE Answer(r, "unavailable"))

LimitIp(r) ==
    /\ At(r, "ip")
    /\ LET next == CASE job[r].kind = "complete verification" -> "commit"
                      [] job[r].kind = "verify" -> "lookup"
                      [] OTHER -> "subject" IN
       \/ Limit(r, <<job[r].kind, "ip">>, next)
       \/ Goto(r, next) /\ UNCHANGED hits          \* the address is not known
    /\ UNCHANGED <<window, storeUp, account, token, notices, events>>

\* The email address, the token or the user; for a verification request it comes
\* before the address.
LimitSubject(r) ==
    /\ At(r, "subject")
    /\ Limit(r, <<job[r].kind, "subject">>,
             CASE job[r].kind \in {"register", "complete registration"} -> "prepare"
               [] job[r].kind = "complete reset" -> "commit"
               [] job[r].kind = "recover" -> "lookup"
               [] job[r].kind = "verify" -> "ip")
    /\ UNCHANGED <<window, storeUp, account, token, notices, events>>

\* writeSecurityEvent, which may throw.
Write(r, names, written, thrown) ==
    \/ events' = events \cup {[by |-> r, names |-> names]} /\ written
    \/ UNCHANGED events /\ thrown

RefuseLimited(r) ==
    /\ At(r, "limited")
    /\ Write(r, FALSE, Answer(r, "limited"), Answer(r, "error"))
    /\ UNCHANGED <<window, storeUp, hits, account, token, notices>>

-----------------------------------------------------------------------------
\* Registration: the invitation, if the request names one, whatever is wrong
\* with it or with its lookup.
PrepareInvitation(r) ==
    /\ At(r, "prepare") /\ job[r].kind = "register"
    /\ \/ Goto(r, "lookup")
       \/ Note(r, "invitation_rejected")
       \/ Note(r, "invitation_lookup_failed")
    /\ UNCHANGED <<window, storeUp, hits, account, token, notices, events>>

Looked(r, step) == job' = [job EXCEPT ![r].step = step, ![r].read = TRUE]
LookedAndNote(r, outcome) ==
    job' = [job EXCEPT ![r].step = "record", ![r].outcome = outcome, ![r].read = TRUE]

Active == {"unverified", "verified"}

\* findUserByNormalizedEmail, findUserById
Lookup(r) ==
    /\ At(r, "lookup")
    /\ CASE job[r].kind = "register" ->
              \/ LookedAndNote(r, "lookup_failed")
              \/ account = "none" /\ Looked(r, "persist")
              \/ account \in Active /\ Looked(r, "notice")
              \/ account = "inactive" /\ LookedAndNote(r, "ineligible_account")
         [] job[r].kind = "recover" ->
              \/ LookedAndNote(r, "lookup_failed")
              \/ account = "none" /\ LookedAndNote(r, "unknown_email")
              \/ account = "inactive" /\ LookedAndNote(r, "inactive_account")
              \/ account \in Active /\ Looked(r, "persist")
         [] job[r].kind = "verify" ->
              \/ Answer(r, "error")
              \/ account \notin {"unverified"} /\ Answer(r, "not sent")
              \/ account = "unverified" /\ Looked(r, "mail")
    /\ UNCHANGED <<window, storeUp, hits, account, token, notices, events>>

TakeSlot(r) == job' = [job EXCEPT ![r].step = "guide", ![r].slot = window]

\* Mutant: the notice bucket follows the public failure mode.
SkipNotice_PublicMode(r) ==
    IF FailureMode = "open" THEN TakeSlot(r)
    ELSE Note(r, "existing_account_notice_throttled")

\* The notice bucket skips the email when the store cannot answer.
SkipNotice(r) == Note(r, "existing_account_notice_throttled")

LimitNotice(r) ==
    /\ At(r, "notice")
    /\ Consume(<<"register", "notice">>, MaxNotices, TakeSlot(r),
               Note(r, "existing_account_notice_throttled"), SkipNotice(r))
    /\ UNCHANGED <<window, storeUp, account, token, notices, events>>

Guide(r) ==
    /\ At(r, "guide")
    /\ \/ /\ notices' = [notices EXCEPT ![job[r].slot] = @ + 1]
          /\ Note(r, "existing_account_notice_sent")
       \/ UNCHANGED notices /\ Note(r, "existing_account_notice_failed")
    /\ UNCHANGED <<window, storeUp, hits, account, token, events>>

\* Mutant: what the store throws leaves the handler.
PersistFailed_Throws(r) == Answer(r, "error")

\* A registration or a reset that cannot be staged is still accepted; a
\* verification fails.
PersistFailed(r) ==
    IF job[r].kind = "verify" THEN Answer(r, "error") ELSE Note(r, "persist_failed")

\* issuePendingRegistration and issueResetToken come before the mail,
\* issueVerificationToken after it.
Persist(r) ==
    /\ At(r, "persist")
    /\ \/ Goto(r, IF job[r].kind = "verify" THEN "audit" ELSE "mail")
       \/ PersistFailed(r)
    /\ UNCHANGED <<window, storeUp, hits, account, token, notices, events>>

Mail(r) ==
    /\ At(r, "mail")
    /\ IF job[r].kind = "verify" THEN Goto(r, "persist") \/ Answer(r, "error")
       ELSE Note(r, "sent") \/ Note(r, "send_failed")
    /\ UNCHANGED <<window, storeUp, hits, account, token, notices, events>>

\* Mutant: the outcome is noted against the account it was about.
Names_Existing(r) == job[r].kind # "recover" \/ job[r].outcome = "sent"

\* Nobody is authenticated at a request: its event names no account.
Names(r) == job[r].kind = "verify"

\* recordRequestOutcome: a failing event log is ignored.
Record(r) ==
    /\ At(r, "record")
    /\ Write(r, Names(r), Answer(r, "accepted"), Answer(r, "accepted"))
    /\ UNCHANGED <<window, storeUp, hits, account, token, notices>>

-----------------------------------------------------------------------------
\* completeRegistration reads the pending row and resolves its invitation; an
\* invitation that is refused is left out.
ResolveInvitation(r) ==
    /\ At(r, "prepare") /\ job[r].kind = "complete registration"
    /\ Goto(r, "commit") \/ Answer(r, "error")
    /\ UNCHANGED <<window, storeUp, hits, account, token, notices, events>>

\* Whether the account lets the token do its work.
Admits(kind) ==
    CASE kind = "complete registration" -> account = "none"
      [] kind = "complete reset"        -> account \in Active
      [] kind = "complete verification" -> account \in Active

\* The transaction, whose result the event and the answer report.
Commit(r) ==
    /\ At(r, "commit")
    /\ LET kind == job[r].kind IN
       \/ Answer(r, "error") /\ UNCHANGED <<account, token>>
       \/ /\ token[kind] = "live" /\ Admits(kind)
          /\ token' = [token EXCEPT ![kind] = "used"]
          /\ account' = IF kind = "complete reset" THEN account ELSE "verified"
          /\ job' = [job EXCEPT ![r].step = "audit", ![r].outcome = "done"]
       \/ /\ token[kind] # "live" \/ ~Admits(kind)
          /\ job' = [job EXCEPT ![r].step = "audit",
                ![r].outcome = IF token[kind] \in {"used", "expired"} THEN token[kind] ELSE "invalid"]
          /\ UNCHANGED <<account, token>>
    /\ UNCHANGED <<window, storeUp, hits, notices, events>>

\* Mutant: the event is best effort here too.
AuditThrows_Swallowed(r) == Answer(r, job[r].outcome)

\* The event of a completion and of a verification request is not best effort:
\* when it throws, the caller is told of an error.
AuditThrows(r) == Answer(r, "error")

Audit(r) ==
    /\ At(r, "audit")
    /\ IF job[r].kind = "verify" THEN Write(r, TRUE, Answer(r, "sent"), AuditThrows(r))
       ELSE Write(r, job[r].outcome = "done", Answer(r, job[r].outcome), AuditThrows(r))
    /\ UNCHANGED <<window, storeUp, hits, account, token, notices>>

-----------------------------------------------------------------------------
\* The store fails or comes back, the window ends, an account is disabled or enabled.
Flip == storeUp' = ~storeUp /\ UNCHANGED <<window, hits, account, token, job, notices, events>>

NextWindow ==
    /\ window < MaxWindow
    /\ window' = window + 1 /\ hits' = [b \in Bucket |-> 0]
    /\ UNCHANGED <<storeUp, account, token, job, notices, events>>

Administer ==
    /\ account' \in CASE account = "inactive" -> Active [] account \in Active -> {"inactive"}
                      [] OTHER -> {}
    /\ UNCHANGED <<window, storeUp, hits, token, job, notices, events>>

Next ==
    \/ \E r \in Request :
          \/ Receive(r) \/ LimitIp(r) \/ LimitSubject(r) \/ RefuseLimited(r)
          \/ PrepareInvitation(r) \/ Lookup(r) \/ LimitNotice(r) \/ Guide(r)
          \/ Persist(r) \/ Mail(r) \/ Record(r)
          \/ ResolveInvitation(r) \/ Commit(r) \/ Audit(r)
    \/ Flip \/ NextWindow \/ Administer

Spec == Init /\ [][Next]_vars

-----------------------------------------------------------------------------
\* The answer to a registration or a recovery request tells nothing of the
\* account: once the account was looked up it is the same whatever was found and
\* whatever failed, and a request refused or failed earlier never looked
\* (registration.service.ts:64-69).
UniformAnswer ==
    \A r \in Request : job[r].kind \in Asking /\ At(r, "answered") =>
        (job[r].answer = "accepted" \/ ~job[r].read)

\* One mailbox gets no more guidance emails on a window than its limit, though
\* the store fails and comes back meanwhile and the public buckets fail open.
NoticesAreBounded == \A w \in 0 .. MaxWindow : notices[w] <= MaxNotices

\* An event names the account only when its request was authenticated or proved
\* a token; a completion reported as done is in the log.
AuditIsProven ==
    /\ \A e \in events : e.names =>
          job[e.by].kind = "verify" \/ (job[e.by].kind \in Completing /\ job[e.by].outcome = "done")
    /\ \A r \in Request : job[r].answer \in {"done", "sent"} =>
          [by |-> r, names |-> TRUE] \in events
=============================================================================
