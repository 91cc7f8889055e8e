---------------------------- MODULE Provisioning ----------------------------
(***************************************************************************)
(* How an organization gets its name and its first rows: a team created on *)
(* request (createTeamOrganization), with a slug the caller chose or one   *)
(* derived from the name, and the personal workspace a completed           *)
(* registration provisions.  Statement by statement, under READ COMMITTED: *)
(* a slug is looked up, and inserted later; the unique index decides, and  *)
(* makes the second of two inserts wait for the first transaction to end.  *)
(***************************************************************************)
EXTENDS Naturals, Sequences, FiniteSets

CONSTANTS
  Request,        \* requests, one creation each
  Base,           \* what names become (slugify)
  Token,          \* what shortSlugToken returns
  Last,           \* MAX_SLUG_SUFFIX_ATTEMPTS
  Explicit,       \* the slugs callers ask for
  None

\* A slug is a sequence of segments: a base is one too, and may end in a number.
Candidate(base, suffix) == IF suffix = 1 THEN base ELSE Append(base, suffix)
Slug == Explicit \cup {Append(b, t) : b \in Base, t \in Token}
        \cup {Candidate(b, n) : b \in Base \cup {Append(b, t) : b \in Base, t \in Token}, n \in 1..Last}
        \cup {Append(Append(b, t), u) : b \in Base, t \in Token, u \in Token}

Table == {"organizations", "memberships", "organization_plans"}

VARIABLES
  slugOf,         \* slugOf[r]: the slug of the organization of request r, once chosen
  committed,      \* committed[t]: the requests with a committed row in table t
  written,        \* written[r]: the tables the open transaction of r has a row in
  pc,
  ask,            \* ask[r]: [kind, slug, base] of what r is to create
  suffix,         \* where the search of r stands
  answer          \* what r was answered

vars == <<slugOf, committed, written, pc, ask, suffix, answer>>

Ask == [kind : {"explicit", "derived", "personal"}, base : Slug]

TypeOK ==
  /\ slugOf \in [Request -> Slug \cup {None}]
  /\ committed \in [Table -> SUBSET Request] /\ written \in [Request -> SUBSET Table]
  /\ pc \in [Request -> {"idle", "check", "walk", "insert", "member", "plan", "commit",
                         "answer", "end"}]
  /\ ask \in [Request -> Ask \cup {None}] /\ suffix \in [Request -> 1..Last]
  /\ answer \in [Request -> {None, "created", "taken", "throttled", "failed", "lost"}]

Init ==
  /\ slugOf = [r \in Request |-> None] /\ ask = [r \in Request |-> None]
  /\ committed = [t \in Table |-> {}] /\ written = [r \in Request |-> {}]
  /\ pc = [r \in Request |-> "idle"] /\ suffix = [r \in Request |-> 1]
  /\ answer = [r \in Request |-> None]

-----------------------------------------------------------------------------
Goto(r, place) == pc' = [pc EXCEPT ![r] = place]

\* The transaction ends without its writes and the caller is answered.
Abort(r, what) ==
  /\ written' = [written EXCEPT ![r] = {}]
  /\ answer' = [answer EXCEPT ![r] = what]
  /\ Goto(r, "end")
  /\ UNCHANGED <<committed, ask, suffix>>

Holders(slug) == {q \in Request : slugOf[q] = slug}

(* A bug: the lookup sees rows that are not committed.                     *)
IsSlugTaken_Dirty(slug) ==
  \E q \in Holders(slug) : q \in committed["organizations"] \/ "organizations" \in written[q]

(* isSlugTaken, under READ COMMITTED.                                      *)
IsSlugTaken(slug) == Holders(slug) \cap committed["organizations"] # {}

(* createOrganization: throttled per user, or on to the transaction; a     *)
(* registration completion comes with a base that ends in a random token   *)
(* (personalWorkspaceSlugBase) and has its own throttle.                   *)
Begin(r) ==
  /\ pc[r] = "idle"
  /\ \/ \E s \in Explicit : /\ ask' = [ask EXCEPT ![r] = [kind |-> "explicit", base |-> s]]
                            /\ Goto(r, "check")
     \/ \E b \in Base : /\ ask' = [ask EXCEPT ![r] = [kind |-> "derived", base |-> b]]
                        /\ Goto(r, "walk")
     \/ \E b \in Base, t \in Token :
          /\ ask' = [ask EXCEPT ![r] = [kind |-> "personal", base |-> Append(b, t)]]
          /\ Goto(r, "walk")
  /\ UNCHANGED <<slugOf, committed, written, suffix, answer>>

Throttled(r) == /\ pc[r] = "idle" /\ UNCHANGED slugOf /\ Abort(r, "throttled")

(* An explicit slug is honored or rejected.                                *)
CheckExplicit(r) ==
  /\ pc[r] = "check"
  /\ IF IsSlugTaken(ask[r].base)
     THEN Abort(r, "taken") /\ UNCHANGED slugOf
     ELSE /\ slugOf' = [slugOf EXCEPT ![r] = ask[r].base] /\ Goto(r, "insert")
          /\ UNCHANGED <<committed, written, ask, suffix, answer>>

(* A bug: the search gives up one candidate early.                         *)
Walk_OneShort(r) ==
  /\ pc[r] = "walk"
  /\ LET candidate == Candidate(ask[r].base, suffix[r])
     IN IF ~IsSlugTaken(candidate)
        THEN slugOf' = [slugOf EXCEPT ![r] = candidate] /\ Goto(r, "insert") /\ UNCHANGED suffix
        ELSE IF suffix[r] >= Last - 1
        THEN /\ \E t \in Token : slugOf' = [slugOf EXCEPT ![r] = Append(ask[r].base, t)]
             /\ Goto(r, "insert") /\ UNCHANGED suffix
        ELSE suffix' = [suffix EXCEPT ![r] = @ + 1] /\ UNCHANGED <<slugOf, pc>>
  /\ UNCHANGED <<committed, written, ask, answer>>

(* One turn of resolveUniqueSlug.  When every number is taken the slug ends *)
(* in a random token, and nothing is looked up any more.                    *)
Walk(r) ==
  /\ pc[r] = "walk"
  /\ LET candidate == Candidate(ask[r].base, suffix[r])
     IN IF ~IsSlugTaken(candidate)
        THEN slugOf' = [slugOf EXCEPT ![r] = candidate] /\ Goto(r, "insert") /\ UNCHANGED suffix
        ELSE IF suffix[r] = Last
        THEN /\ \E t \in Token : slugOf' = [slugOf EXCEPT ![r] = Append(ask[r].base, t)]
             /\ Goto(r, "insert") /\ UNCHANGED suffix
        ELSE suffix' = [suffix EXCEPT ![r] = @ + 1] /\ UNCHANGED <<slugOf, pc>>
  /\ UNCHANGED <<committed, written, ask, answer>>

\* A unique violation in createTeamOrganization reads as a taken slug; in a
\* completion it is an error like any other (only users.email is expected there).
OnViolation(r) == IF ask[r].kind = "personal" THEN "failed" ELSE "taken"

(* A bug: an insert that meets another one fails at once.                  *)
InsertOrganization_NoWait(r) ==
  /\ pc[r] = "insert"
  /\ IF \E q \in Holders(slugOf[r]) \ {r} :
          q \in committed["organizations"] \/ "organizations" \in written[q]
     THEN Abort(r, OnViolation(r))
     ELSE /\ written' = [written EXCEPT ![r] = {"organizations"}] /\ Goto(r, "member")
          /\ UNCHANGED <<committed, ask, suffix, answer>>
  /\ UNCHANGED slugOf

(* INSERT INTO organizations: uq_organizations_slug waits for a            *)
(* transaction that has inserted the slug, and is violated once it commits. *)
InsertOrganization(r) ==
  /\ pc[r] = "insert"
  /\ \A q \in Holders(slugOf[r]) \ {r} : "organizations" \notin written[q]
  /\ IF IsSlugTaken(slugOf[r])
     THEN Abort(r, OnViolation(r))
     ELSE /\ written' = [written EXCEPT ![r] = {"organizations"}] /\ Goto(r, "member")
          /\ UNCHANGED <<committed, ask, suffix, answer>>
  /\ UNCHANGED slugOf

InsertMembership(r) ==
  /\ pc[r] = "member"
  /\ written' = [written EXCEPT ![r] = @ \cup {"memberships"}] /\ Goto(r, "plan")
  /\ UNCHANGED <<slugOf, committed, ask, suffix, answer>>

(* A bug: the plan is written on a connection of its own, after the commit. *)
InsertPlan_Outside(r) ==
  /\ pc[r] = "plan"
  /\ committed' = [t \in Table |-> IF t \in written[r] THEN committed[t] \cup {r} ELSE committed[t]]
  /\ written' = [written EXCEPT ![r] = {"organization_plans"}] /\ Goto(r, "commit")
  /\ UNCHANGED <<slugOf, ask, suffix, answer>>

InsertPlan(r) ==
  /\ pc[r] = "plan"
  /\ written' = [written EXCEPT ![r] = @ \cup {"organization_plans"}] /\ Goto(r, "commit")
  /\ UNCHANGED <<slugOf, committed, ask, suffix, answer>>

\* What else the transaction does is done: the owner role was read, a completion
\* has written its account and its session.
Commit(r) ==
  /\ pc[r] = "commit"
  /\ committed' = [t \in Table |-> IF t \in written[r] THEN committed[t] \cup {r} ELSE committed[t]]
  /\ written' = [written EXCEPT ![r] = {}] /\ Goto(r, "answer")
  /\ UNCHANGED <<slugOf, ask, suffix, answer>>

Answer(r) ==
  /\ pc[r] = "answer"
  /\ answer' = [answer EXCEPT ![r] = "created"] /\ Goto(r, "end")
  /\ UNCHANGED <<slugOf, committed, written, ask, suffix>>

\* A statement fails, the process or the connection is lost: PostgreSQL rolls the
\* open transaction back.
Fail(r) ==
  /\ pc[r] \in {"check", "walk", "insert", "member", "plan", "commit"}
  /\ UNCHANGED slugOf /\ Abort(r, "failed")

\* The process stops between the commit and the answer.
Lose(r) ==
  /\ pc[r] = "answer"
  /\ answer' = [answer EXCEPT ![r] = "lost"] /\ Goto(r, "end")
  /\ UNCHANGED <<slugOf, committed, written, ask, suffix>>

Next ==
  \E r \in Request :
    \/ Begin(r) \/ Throttled(r) \/ CheckExplicit(r) \/ Walk(r)
    \/ InsertOrganization(r) \/ InsertMembership(r) \/ InsertPlan(r) \/ Commit(r)
    \/ Answer(r) \/ Fail(r) \/ Lose(r)

Spec == Init /\ [][Next]_vars

-----------------------------------------------------------------------------
(* Properties                                                              *)

Exists(r) == r \in committed["organizations"]

\* A caller's slug is honored or rejected, never changed; a derived one is the
\* first free one: every earlier candidate belongs to an organization, and so
\* does every numbered one when the slug ends in a random token.
SlugsAreFirstFree ==
  \A r \in Request : Exists(r) =>
    /\ ask[r].kind = "explicit" => slugOf[r] = ask[r].base
    /\ ask[r].kind # "explicit" =>
         \/ \E n \in 1..Last : /\ slugOf[r] = Candidate(ask[r].base, n)
                               /\ \A m \in 1..n - 1 : IsSlugTaken(Candidate(ask[r].base, m))
         \/ \A m \in 1..Last : IsSlugTaken(Candidate(ask[r].base, m))

\* No two organizations share a slug, and none lacks its owner or its plan.
OrganizationsAreWhole ==
  \A r \in Request : Exists(r) =>
    /\ \A t \in Table : r \in committed[t]
    /\ \A q \in Request \ {r} : Exists(q) => slugOf[q] # slugOf[r]

\* What a caller is told is true: the organization is there, or there is none
\* and, where its slug was the reason, another organization holds that slug.
AnswersHold ==
  \A r \in Request :
    /\ answer[r] = "created" => Exists(r)
    /\ answer[r] \in {"taken", "throttled", "failed"} => ~Exists(r)
    /\ answer[r] = "taken" =>
         IsSlugTaken(IF ask[r].kind = "explicit" THEN ask[r].base ELSE slugOf[r])
=============================================================================
