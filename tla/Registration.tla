---------------------------- MODULE Registration ----------------------------
(***************************************************************************)
(* Verification-first registration: a public request stages a pending      *)
(* registration and mails its link; the link, presented later, creates the *)
(* account and settles the invitation the request came with.  The steps    *)
(* are the statements of the two transactions and the awaits around them.  *)
(*                                                                         *)
(* A generation is a row of pending_registrations and the token mailed for *)
(* it.  An account is named after the generation that created it; Founder  *)
(* has one from before.  Accounts change their address meanwhile, the      *)
(* invitation is revoked, and its organization fills up.                   *)
(***************************************************************************)
EXTENDS Naturals, FiniteSets, Sequences, Functions

CONSTANTS
    Email,        \* normalized addresses
    Generation,   \* pending_registrations rows
    Request,      \* slots of concurrent requests
    Founder,      \* an account from before
    FounderEmail, \* its first address
    InvitedEmail, \* the address the invitation was sent to
    None

ASSUME EmailAssumption == {FounderEmail, InvitedEmail} \subseteq Email
ASSUME NoneAssumption ==
    /\ None \notin Generation \cup Request \cup Email \cup {Founder}
    /\ Founder \notin Generation

VARIABLES
    status,      \* used_at and invalidated_at of a generation
    address,     \* normalized_email
    invited,     \* the generations that carry invitation_id
    expired,     \* the generations whose expires_at has passed
    staged,      \* generations in the order of their commits
    mailed,      \* tokens that left in an email
    holder,      \* users: the account of an address
    invitation,  \* the invitation row
    full,        \* whether its organization has no seat left
    joined,      \* the accounts that joined through it
    issuing,     \* pg_advisory_xact_lock per address
    rowLock,     \* row locks on generations
    claim,       \* index entries of users.normalized_email not committed yet
    invLock,     \* row lock on the invitation
    pc, req

vars == <<status, address, invited, expired, staged, mailed, holder, invitation,
          full, joined, issuing, rowLock, claim, invLock, pc, req>>
pending == <<status, address, invited, staged>>
locks   == <<issuing, rowLock, claim, invLock>>
outside == <<expired, full>>
people  == <<holder, invitation, joined>>

Account == Generation \cup {Founder}
Locker  == Request \cup {None}

\* late: the row had expired when the request read the clock, before any lock;
\* accepts: the savepoint of the invitation was released and not rolled back.
Params ==
    [op : {"register"}, email : Email, invited : BOOLEAN, gen : Generation]
      \cup [op : {"complete"}, gen : Generation, late : BOOLEAN, accepts : BOOLEAN]
      \cup [op : {"move"}, from : Email, to : Email]
NoParams == [op |-> "none"]

TypeOK ==
    /\ status \in [Generation -> {"absent", "open", "used", "superseded"}]
    /\ address \in [Generation -> Email \cup {None}]
    /\ \A S \in {invited, expired, mailed} : S \subseteq Generation
    /\ Range(staged) \subseteq Generation
    /\ holder \in [Email -> Account \cup {None}]
    /\ invitation \in {"pending", "accepted", "revoked"}
    /\ full \in BOOLEAN /\ joined \subseteq Account
    /\ issuing \in [Email -> Locker] /\ claim \in [Email -> Locker]
    /\ rowLock \in [Generation -> Locker] /\ invLock \in Locker
    /\ pc \in [Request -> {"idle", "invitation", "lookup", "issue", "retire", "stage",
                        "deliver", "preread", "pending", "user", "settle", "commit"}]
    /\ req \in [Request -> Params \cup {NoParams}]

Init ==
    /\ status  = [g \in Generation |-> "absent"]
    /\ address = [g \in Generation |-> None]
    /\ invited = {} /\ expired = {} /\ mailed = {} /\ joined = {}
    /\ staged = <<>>
    /\ holder = [e \in Email |-> IF e = FounderEmail THEN Founder ELSE None]
    /\ invitation = "pending" /\ full = FALSE
    /\ issuing = [e \in Email |-> None] /\ claim = [e \in Email |-> None]
    /\ rowLock = [g \in Generation |-> None] /\ invLock = None
    /\ pc  = [r \in Request |-> "idle"]
    /\ req = [r \in Request |-> NoParams]

-----------------------------------------------------------------------------
Start(r, step, p) ==
    /\ pc[r] = "idle"
    /\ pc'  = [pc EXCEPT ![r] = step]
    /\ req' = [req EXCEPT ![r] = p]

Goto(r, step) == pc' = [pc EXCEPT ![r] = step] /\ UNCHANGED req

Release(lock, r) == [x \in DOMAIN lock |-> IF lock[x] = r THEN None ELSE lock[x]]

\* Mutant: the advisory lock belongs to the connection, not the transaction.
Unlock_SessionLock(r) ==
    /\ rowLock' = Release(rowLock, r) /\ claim' = Release(claim, r)
    /\ invLock' = IF invLock = r THEN None ELSE invLock
    /\ UNCHANGED issuing

\* Commit or rollback: every lock of r is released.
Unlock(r) ==
    /\ issuing' = Release(issuing, r) /\ rowLock' = Release(rowLock, r)
    /\ claim' = Release(claim, r)
    /\ invLock' = IF invLock = r THEN None ELSE invLock

Finish(r) ==
    /\ pc'  = [pc EXCEPT ![r] = "idle"]
    /\ req' = [req EXCEPT ![r] = NoParams]
    /\ Unlock(r)

OpenFor(e) == {g \in Generation : status[g] = "open" /\ address[g] = e}

\* The invitation may still be accepted by the owner of e.
Honorable(e) == invitation = "pending" /\ e = InvitedEmail /\ ~full

Promised == {req[r].gen : r \in {q \in Request : req[q].op = "register"}}

-----------------------------------------------------------------------------
(* The public request.  Whatever happens after the rate limits, the answer *)
(* is the same acceptance.                                                 *)

Register(r) ==
    /\ \E e \in Email, withToken \in BOOLEAN, g \in Generation \ Promised :
          /\ status[g] = "absent"
          /\ Start(r, IF withToken THEN "invitation" ELSE "lookup",
                   [op |-> "register", email |-> e, invited |-> withToken, gen |-> g])
    /\ UNCHANGED <<pending, mailed, outside, people, locks>>

\* A token of an invitation that is closed, sent to another address or to a
\* full organization ends the request: nothing is staged, nothing is mailed.
ResolveRequestInvitation(r) ==
    /\ pc[r] = "invitation"
    /\ IF Honorable(req[r].email)
          THEN Goto(r, "lookup") /\ UNCHANGED locks
          ELSE Finish(r)
    /\ UNCHANGED <<pending, mailed, outside, people>>

\* An address with an account gets guidance at most.
LookupUser(r) ==
    /\ pc[r] = "lookup"
    /\ IF holder[req[r].email] = None
          THEN Goto(r, "issue") /\ UNCHANGED locks
          ELSE Finish(r)
    /\ UNCHANGED <<pending, mailed, outside, people>>

\* Mutant: the link leaves before its row is written.
LockIssuance_MailsFirst(r) ==
    /\ pc[r] = "issue"
    /\ issuing[req[r].email] = None
    /\ issuing' = [issuing EXCEPT ![req[r].email] = r]
    /\ mailed' = mailed \cup {req[r].gen}
    /\ Goto(r, "retire")
    /\ UNCHANGED <<pending, outside, people, rowLock, claim, invLock>>

LockIssuance(r) ==
    /\ pc[r] = "issue"
    /\ issuing[req[r].email] = None
    /\ issuing' = [issuing EXCEPT ![req[r].email] = r]
    /\ Goto(r, "retire")
    /\ UNCHANGED <<pending, mailed, outside, people, rowLock, claim, invLock>>

\* UPDATE ... WHERE used_at IS NULL AND invalidated_at IS NULL: waits for the
\* rows a completion has locked and looks at them again afterwards.
RetireOpen(r) ==
    /\ pc[r] = "retire"
    /\ \A g \in OpenFor(req[r].email) : rowLock[g] = None
    /\ rowLock' = [g \in Generation |-> IF g \in OpenFor(req[r].email) THEN r ELSE rowLock[g]]
    /\ Goto(r, "stage")
    /\ UNCHANGED <<pending, mailed, outside, people, issuing, claim, invLock>>

\* The rows r retires and the one it inserts.
StagedStatus(r) ==
    [g \in Generation |-> IF rowLock[g] = r THEN "superseded"
                          ELSE IF g = req[r].gen THEN "open" ELSE status[g]]

\* The partial unique index admits one open row per address.
StagePending(r) ==
    /\ pc[r] = "stage"
    /\ IF \E g \in OpenFor(req[r].email) : rowLock[g] # r
          THEN Finish(r) /\ UNCHANGED pending
          ELSE LET g == req[r].gen IN
                 /\ status' = StagedStatus(r)
                 /\ address' = [address EXCEPT ![g] = req[r].email]
                 /\ invited' = IF req[r].invited THEN invited \cup {g} ELSE invited
                 /\ staged' = Append(staged, g)
                 /\ Goto(r, "deliver") /\ Unlock(r)
    /\ UNCHANGED <<mailed, outside, people>>

Deliver(r) ==
    /\ pc[r] = "deliver"
    /\ mailed' = mailed \cup {req[r].gen}
    /\ Finish(r)
    /\ UNCHANGED <<pending, outside, people>>

-----------------------------------------------------------------------------
(* Completion *)

Complete(r) ==
    /\ \E g \in mailed :
          Start(r, "preread", [op |-> "complete", gen |-> g, late |-> FALSE, accepts |-> FALSE])
    /\ UNCHANGED <<pending, mailed, outside, people, locks>>

\* The row is read without a lock to see whether it carries an invitation, and
\* the clock is read: only then does the transaction begin.
PreRead(r) ==
    /\ pc[r] = "preread"
    /\ pc'  = [pc EXCEPT ![r] = "pending"]
    /\ req' = [req EXCEPT ![r].late = req[r].gen \in expired]
    /\ UNCHANGED <<pending, mailed, outside, people, locks>>

\* Mutant: whether the row is still open is not looked at again.
LockPending_TrustsPreRead(r) ==
    /\ pc[r] = "pending"
    /\ rowLock[req[r].gen] = None
    /\ IF status[req[r].gen] # "used" /\ ~req[r].late
          THEN /\ rowLock' = [rowLock EXCEPT ![req[r].gen] = r]
               /\ Goto(r, "user")
               /\ UNCHANGED <<issuing, claim, invLock>>
          ELSE Finish(r)
    /\ UNCHANGED <<pending, mailed, outside, people>>

LockPending(r) ==
    /\ pc[r] = "pending"
    /\ rowLock[req[r].gen] = None
    /\ IF status[req[r].gen] = "open" /\ ~req[r].late
          THEN /\ rowLock' = [rowLock EXCEPT ![req[r].gen] = r]
               /\ Goto(r, "user")
               /\ UNCHANGED <<issuing, claim, invLock>>
          ELSE Finish(r)
    /\ UNCHANGED <<pending, mailed, outside, people>>

\* Mutant: the address was checked when the registration was requested.
InsertUser_Unchecked(r) ==
    /\ pc[r] = "user"
    /\ Goto(r, "settle")
    /\ UNCHANGED <<pending, mailed, outside, people, locks>>

\* The unique index makes the insert wait for a transaction that is writing
\* the same address, and fail when that one commits.
InsertUser(r) ==
    /\ pc[r] = "user"
    /\ LET e == address[req[r].gen] IN
          /\ claim[e] = None
          /\ IF holder[e] = None
                THEN /\ claim' = [claim EXCEPT ![e] = r]
                     /\ Goto(r, "settle")
                     /\ UNCHANGED <<issuing, rowLock, invLock>>
                ELSE Finish(r)
    /\ UNCHANGED <<pending, mailed, outside, people>>

\* Mutant: the invitation is judged on an unlocked row.
SettleInvitation_NoRowLock(r) ==
    /\ pc[r] = "settle"
    /\ req' = [req EXCEPT ![r].accepts =
                  req[r].gen \in invited /\ Honorable(address[req[r].gen])]
    /\ pc' = [pc EXCEPT ![r] = "commit"]
    /\ UNCHANGED <<pending, mailed, outside, people, locks>>

\* A refused acceptance rolls back its savepoint, and the locks taken in it,
\* but never the account.  The quota and plan locks of an acceptance are those
\* of Invitations and are not modelled here.
SettleInvitation(r) ==
    /\ pc[r] = "settle"
    /\ IF req[r].gen \in invited
          THEN /\ invLock = None
               /\ LET accepts == Honorable(address[req[r].gen])
                  IN  /\ invLock' = IF accepts THEN r ELSE None
                      /\ req' = [req EXCEPT ![r].accepts = accepts]
          ELSE UNCHANGED <<invLock, req>>
    /\ pc' = [pc EXCEPT ![r] = "commit"]
    /\ UNCHANGED <<pending, mailed, outside, people, issuing, rowLock, claim>>

\* Account, workspace, session, membership and the consumed row in one commit.
CommitCompletion(r) ==
    /\ pc[r] = "commit" /\ req[r].op = "complete"
    /\ LET g == req[r].gen
           siblings == OpenFor(address[g]) \ {g}
       IN  /\ \A s \in siblings : rowLock[s] = None
           /\ status' = [x \in Generation |-> IF x = g THEN "used"
                                              ELSE IF x \in siblings THEN "superseded"
                                              ELSE status[x]]
           /\ holder' = [holder EXCEPT ![address[g]] = g]
           /\ IF req[r].accepts
                 THEN invitation' = "accepted" /\ joined' = joined \cup {g}
                 ELSE UNCHANGED <<invitation, joined>>
    /\ Finish(r)
    /\ UNCHANGED <<address, invited, staged, mailed, outside>>

-----------------------------------------------------------------------------
(* Other flows that meet these rows, and failures *)

\* changeEmail writes both index entries: it waits for a writer of either, and
\* fails on an address that is taken.
MoveAccount(r) ==
    /\ \E e, f \in Email :
          /\ holder[e] # None /\ holder[f] = None
          /\ claim[e] = None /\ claim[f] = None
          /\ claim' = [claim EXCEPT ![e] = r, ![f] = r]
          /\ Start(r, "commit", [op |-> "move", from |-> e, to |-> f])
    /\ UNCHANGED <<pending, mailed, outside, people, issuing, rowLock, invLock>>

CommitMove(r) ==
    /\ pc[r] = "commit" /\ req[r].op = "move"
    /\ holder' = [holder EXCEPT ![req[r].from] = None, ![req[r].to] = holder[req[r].from]]
    /\ Finish(r)
    /\ UNCHANGED <<pending, mailed, outside, invitation, joined>>

RevokeInvitation ==
    /\ invitation = "pending" /\ invLock = None
    /\ invitation' = "revoked"
    /\ UNCHANGED <<pending, mailed, outside, holder, joined, locks, pc, req>>

\* Members come, leave, and the plan changes.
SeatsChange ==
    /\ full' = ~full
    /\ UNCHANGED <<pending, mailed, expired, people, locks, pc, req>>

Expire(g) ==
    /\ status[g] # "absent"
    /\ expired' = expired \cup {g}
    /\ UNCHANGED <<pending, mailed, full, people, locks, pc, req>>

\* A lost connection, an error, a mail server that refuses, or a crash.
Fail(r) ==
    /\ pc[r] # "idle"
    /\ Finish(r)
    /\ UNCHANGED <<pending, mailed, outside, people>>

Next ==
    \/ \E r \in Request :
          \/ Register(r) \/ ResolveRequestInvitation(r) \/ LookupUser(r) \/ LockIssuance(r)
          \/ RetireOpen(r) \/ StagePending(r) \/ Deliver(r)
          \/ Complete(r) \/ PreRead(r) \/ LockPending(r) \/ InsertUser(r)
          \/ SettleInvitation(r) \/ CommitCompletion(r)
          \/ MoveAccount(r) \/ CommitMove(r) \/ Fail(r)
    \/ RevokeInvitation \/ SeatsChange
    \/ \E g \in Generation : Expire(g)

Spec == Init /\ [][Next]_vars

Acquire(r) == LockIssuance(r) \/ RetireOpen(r) \/ LockPending(r) \/ InsertUser(r)
                \/ SettleInvitation(r) \/ CommitCompletion(r)
Proceed(r) == ResolveRequestInvitation(r) \/ LookupUser(r) \/ StagePending(r) \/ Deliver(r)
                \/ PreRead(r) \/ CommitMove(r)

\* Handlers that can go on do, and lock queues are first come first served.
FairSpec == Spec /\ \A r \in Request : SF_vars(Acquire(r)) /\ WF_vars(Proceed(r))

-----------------------------------------------------------------------------
(* Properties *)

\* "older emailed links fail safely as superseded" (registration.repo.ts): the
\* link that creates an account is the one staged last for its address.
NewestLinkWins ==
    [][\A g \in Generation :
          status[g] # "used" /\ status'[g] = "used" =>
             \E i \in DOMAIN staged :
                /\ staged[i] = g
                /\ \A j \in DOMAIN staged : i < j => address[staged[j]] # address[g]]_vars

\* "every emailed completion token was durably staged first"
\* (registration.service.ts), whatever fails on the way.
MailedWasStaged == mailed \subseteq Range(staged)

\* An account joins through an invitation that is still pending when it
\* commits and was sent to its address; a revocation in between is not lost,
\* and the invitation is taken by one account.
JoinIsHonored ==
    [][joined' # joined =>
          /\ invitation = "pending" /\ joined = {}
          /\ \A g \in joined' : holder'[InvitedEmail] = g /\ holder[InvitedEmail] = None]_vars

\* One account per address, each opened once and by a link of its own: an
\* account is opened in the very step that uses up its generation.
Accounts == INSTANCE Accounts WITH
    opened <- {Founder} \cup {g \in Generation : status[g] = "used"}
ImplementsAccounts == Accounts!Spec

\* Every transaction ends: the advisory lock, the locks on generations, users
\* and the invitation are taken in an order that admits no cycle.
TransactionsEnd ==
    \A r \in Request : pc[r] # "idle" ~> pc[r] = "idle"
=============================================================================
