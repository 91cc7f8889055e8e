----------------------------- MODULE ApiKeyAuth ------------------------------
(***************************************************************************)
(* The external authentication of one API key.  A request reads the key,   *)
(* the organization and the plan in separate statements, then consumes the *)
(* limits of the key and of the organization; a refusal of the 401 family  *)
(* consumes the allowance for durable events of its source.  The key is    *)
(* revoked, expires, and its plan and organization change meanwhile.  A    *)
(* consume answers anything here: RateLimiter.tla is about its answers.    *)
(***************************************************************************)
EXTENDS Naturals

CONSTANTS
    Request,
    FailureMode, \* what an unanswered consume means: "open" or "closed"
    ExpiresAt,   \* expires_at of the key
    Throttle,    \* seconds between two writes of last_used_at
    MaxTime      \* bound on the clock

VARIABLES
    revoked,    \* revoked_at IS NOT NULL
    orgActive,  \* organizations.status
    access,     \* the plan grants api_keys_access
    lastUsed,   \* last_used_at, Never before the first use
    now,        \* the clock
    pc,
    found,      \* the row and the clock of the request
    seen        \* history: what was in order at some moment of the request

vars == <<revoked, orgActive, access, lastUsed, now, pc, found, seen>>
row  == <<revoked, orgActive, access, lastUsed, now>>

Time  == 0 .. MaxTime
Never == MaxTime + 1

Conditions == {"key", "org", "plan"}
InOrder ==
    {c \in Conditions : \/ c = "key" /\ ~revoked /\ now < ExpiresAt
                        \/ c = "org" /\ orgActive
                        \/ c = "plan" /\ access}

TypeOK ==
    /\ {revoked, orgActive, access} \subseteq BOOLEAN
    /\ lastUsed \in Time \cup {Never} /\ now \in Time
    /\ pc \in [Request -> {"idle", "lookup", "org", "plan", "failing", "record",
                           "perKey", "perOrg", "touch", "granted"}]
    /\ found \in [Request -> [lastUsed : Time \cup {Never}, at : Time]]
    /\ seen \in [Request -> SUBSET Conditions]

Init ==
    /\ revoked = FALSE /\ orgActive = TRUE /\ access = TRUE
    /\ lastUsed = Never /\ now = 0
    /\ pc = [r \in Request |-> "idle"]
    /\ found = [r \in Request |-> [lastUsed |-> Never, at |-> 0]]
    /\ seen = [r \in Request |-> {}]

-----------------------------------------------------------------------------
Goto(r, step) == pc' = [pc EXCEPT ![r] = step]

\* The request ends; its variables go back to what they were at the start.
Finish(r) ==
    /\ Goto(r, "idle")
    /\ found' = [found EXCEPT ![r] = [lastUsed |-> Never, at |-> 0]]
    /\ seen' = [seen EXCEPT ![r] = {}]

\* A well-formed key goes to the lookup; anything else is a failure at once.
Present(r) ==
    /\ pc[r] = "idle"
    /\ \E step \in {"lookup", "failing"} : Goto(r, step)
    /\ seen' = [seen EXCEPT ![r] = InOrder]
    /\ UNCHANGED <<row, found>>

\* Mutant: the expiry is left to the retention job.
Lookup_NoExpiry(r) ==
    /\ pc[r] = "lookup"
    /\ \/ Goto(r, "failing") /\ UNCHANGED found
       \/ /\ Goto(r, IF revoked THEN "failing" ELSE "org")
          /\ found' = [found EXCEPT ![r] = [lastUsed |-> lastUsed, at |-> now]]
    /\ UNCHANGED <<row, seen>>

\* findBySecretHash, which may know no such secret, then the clock.
Lookup(r) ==
    /\ pc[r] = "lookup"
    /\ \/ Goto(r, "failing") /\ UNCHANGED found
       \/ /\ Goto(r, IF revoked \/ ExpiresAt <= now THEN "failing" ELSE "org")
          /\ found' = [found EXCEPT ![r] = [lastUsed |-> lastUsed, at |-> now]]
    /\ UNCHANGED <<row, seen>>

CheckOrganization(r) ==
    /\ pc[r] = "org"
    /\ Goto(r, IF orgActive THEN "plan" ELSE "failing")
    /\ UNCHANGED <<row, found, seen>>

\* The scopes are those of the row: the key has the required one or not.
CheckEntitlement(r) ==
    /\ pc[r] = "plan"
    /\ \E scoped \in BOOLEAN :
          Goto(r, IF access /\ scoped THEN "perKey" ELSE "record")
    /\ UNCHANGED <<row, found, seen>>

\* recordFailedAuthEventBounded: the event is written only if the allowance
\* says so; without an answer it is skipped.
BoundEvent(r) ==
    /\ pc[r] = "failing"
    /\ \/ Goto(r, "record") /\ UNCHANGED <<found, seen>>
       \/ Finish(r)
    /\ UNCHANGED row

\* The security event is inserted and the request refused.
RecordEvent(r) ==
    /\ pc[r] = "record"
    /\ Finish(r)
    /\ UNCHANGED row

\* The limit of the key, then that of the organization: a key over its limit
\* takes nothing from the organization's.  Over a limit, the refusal is recorded.
LimitRequest(r, step, next) ==
    /\ pc[r] = step
    /\ \/ Goto(r, next) /\ UNCHANGED <<found, seen>>
       \/ Goto(r, "record") /\ UNCHANGED <<found, seen>>
       \/ FailureMode = "closed" /\ Finish(r)
    /\ UNCHANGED row

LimitKey(r)          == LimitRequest(r, "perKey", "perOrg")
LimitOrganization(r) == LimitRequest(r, "perOrg", "touch")

\* last_used_at is written when the row the request read says it is old, with
\* the clock the request read.  A write that fails ends the request instead.
Touch(r) ==
    /\ pc[r] = "touch"
    /\ LET due == \/ found[r].lastUsed = Never
                  \/ found[r].at >= found[r].lastUsed + Throttle
       IN  \/ /\ Goto(r, "granted")
              /\ lastUsed' = IF due THEN found[r].at ELSE lastUsed
              /\ UNCHANGED <<found, seen>>
           \/ due /\ Finish(r) /\ UNCHANGED lastUsed
    /\ UNCHANGED <<revoked, orgActive, access, now>>

Respond(r) ==
    /\ pc[r] = "granted"
    /\ Finish(r)
    /\ UNCHANGED row

\* The process dies, or a statement fails.
Fail(r) ==
    /\ pc[r] \notin {"idle", "granted"}
    /\ Finish(r)
    /\ UNCHANGED row

-----------------------------------------------------------------------------
\* What the rest of the system does to the key; whatever is in order after it
\* was in order during the requests that are under way.
Witness ==
    seen' = [r \in Request |-> IF pc[r] = "idle" THEN {} ELSE seen[r] \cup InOrder']

Revoke ==
    /\ ~revoked /\ revoked' = TRUE
    /\ UNCHANGED <<orgActive, access, lastUsed, now, pc, found>>
    /\ Witness

ChangePlan ==
    /\ access' = ~access
    /\ UNCHANGED <<revoked, orgActive, lastUsed, now, pc, found>>
    /\ Witness

ChangeOrganization ==
    /\ orgActive' = ~orgActive
    /\ UNCHANGED <<revoked, access, lastUsed, now, pc, found>>
    /\ Witness

Tick ==
    /\ now < MaxTime /\ now' = now + 1
    /\ UNCHANGED <<revoked, orgActive, access, lastUsed, pc, found>>
    /\ Witness

Next ==
    \/ Revoke \/ ChangePlan \/ ChangeOrganization \/ Tick
    \/ \E r \in Request :
          \/ Present(r) \/ Lookup(r) \/ CheckOrganization(r) \/ CheckEntitlement(r)
          \/ BoundEvent(r) \/ RecordEvent(r) \/ LimitKey(r) \/ LimitOrganization(r)
          \/ Touch(r) \/ Respond(r) \/ Fail(r)

Spec == Init /\ [][Next]_vars

-----------------------------------------------------------------------------
\* A request is granted only if the key was neither revoked nor expired when it
\* began, and its organization was active and its plan granted API keys at some
\* moment of it: what ended before a request began never lets it in, although
\* the checks are statements apart (authenticate in api-key.authenticator.ts).
GrantIsTimely == \A r \in Request : pc[r] = "granted" => seen[r] = Conditions
=============================================================================
