---------------------------- MODULE Invitations ----------------------------
(***************************************************************************)
(* Invitations to one organization and the member seats of its plan:       *)
(* create, accept, revoke, with plan changes and removals of members in    *)
(* between.                                                                *)
(*                                                                         *)
(* Creation and acceptance take, in this order, the organization's         *)
(* advisory lock for members, the plan row FOR SHARE and, to accept, the   *)
(* invitation row FOR UPDATE; only then do they count and write.  They     *)
(* read the clock when their transaction begins, before they wait for any  *)
(* of these, and judge every expiry by that reading.                       *)
(*                                                                         *)
(* A user is named by its normalized email.  MaxTime bounds the clock, the *)
(* number of invitation rows bounds how many are ever created.             *)
(***************************************************************************)
EXTENDS Naturals, FiniteSets

CONSTANTS
    Email,        \* normalized emails
    Founder,      \* the email of the organization's first owner
    Invitation,   \* invitation rows
    Request,      \* slots of concurrent requests
    None,         \* no request, email or invitation
    InvitedRole,  \* the roles invitations are created with
    Plan,         \* plan keys
    MaxMembers,   \* max_members of each plan
    Ttl,          \* lifetime of an invitation
    MaxTime       \* last reading of the clock

Role == {"owner", "admin", "member"}
\* Roles that hold invitations.create and invitations.revoke.
Manages == {"owner", "admin"}

ASSUME FounderAssumption    == Founder \in Email
ASSUME FiniteAssumption     == IsFiniteSet(Email) /\ IsFiniteSet(Invitation)
ASSUME NoneAssumption       == None \notin Email \cup Invitation \cup Request
ASSUME RoleAssumption       == InvitedRole \subseteq Role
ASSUME MaxMembersAssumption == MaxMembers \in [Plan -> Nat]
ASSUME TimeAssumption       == Ttl \in Nat \ {0} /\ MaxTime \in Nat

VARIABLES
    member,     \* the role of an active membership, "none" without one
    status,     \* invitations.status, "absent" for a row not inserted
    email,      \* invitations.invited_email_normalized
    role,       \* invitations.role_id
    grantor,    \* the role its creator had when it was authorized
    expiresAt,  \* invitations.expires_at
    plan,       \* organization_plans.plan_key
    seatLock,   \* holder of the advisory lock quota:members
    planShare,  \* the transactions that have the plan row FOR SHARE
    rowLock,    \* the transaction that has an invitation row FOR UPDATE
    clock,      \* the time
    pc, req,    \* each request and what it is for
    now,        \* the clock when its transaction began
    limit,      \* max_members of the plan it locked
    fits        \* whether one more seat did fit when it counted them

invitations == <<status, email, role, grantor, expiresAt>>
rows  == <<member, invitations, plan>>
locks == <<seatLock, planShare, rowLock>>
reads == <<now, limit, fits>>
vars  == <<rows, locks, clock, pc, req, reads>>

Params ==
    [op : {"create"}, email : Email, role : Role, grantor : Role,
     expiresAt : 0..(MaxTime + Ttl), inv : {None}]
      \cup
    [op : {"accept", "revoke"}, email : Email \cup {None}, inv : Invitation]
NoParams == [op |-> "none"]

\* Every variable is in its domain, and no lock outlives its transaction.
TypeOK ==
    /\ member \in [Email -> Role \cup {"none"}]
    /\ status \in [Invitation -> {"absent", "pending", "accepted", "revoked", "expired"}]
    /\ email \in [Invitation -> Email \cup {None}]
    /\ role \in [Invitation -> Role] /\ grantor \in [Invitation -> Role]
    /\ expiresAt \in [Invitation -> 0..(MaxTime + Ttl)]
    /\ plan \in Plan /\ clock \in 0..MaxTime
    /\ pc \in [Request -> {"idle", "begin", "seats", "plan", "row", "count", "write"}]
    /\ req \in [Request -> Params \cup {NoParams}]
    /\ \A r \in Request : pc[r] = "idle" <=> req[r] = NoParams
    /\ now \in [Request -> 0..MaxTime]
    /\ limit \in [Request -> Nat]
    /\ fits \in [Request -> BOOLEAN]
    /\ seatLock \in Request \cup {None}
    /\ planShare \subseteq Request
    /\ rowLock \in [Invitation -> Request \cup {None}]
    /\ \A r \in Request :
          /\ seatLock = r => pc[r] \in {"plan", "row", "count", "write"}
          /\ r \in planShare => seatLock = r
          /\ \A i \in Invitation : rowLock[i] = r => pc[r] \in {"count", "write"}

Init ==
    /\ member = [e \in Email |-> IF e = Founder THEN "owner" ELSE "none"]
    /\ status = [i \in Invitation |-> "absent"]
    /\ email = [i \in Invitation |-> None]
    /\ role = [i \in Invitation |-> "member"]
    /\ grantor = [i \in Invitation |-> "member"]
    /\ expiresAt = [i \in Invitation |-> 0]
    /\ plan \in Plan
    /\ seatLock = None /\ planShare = {}
    /\ rowLock = [i \in Invitation |-> None]
    /\ clock = 0
    /\ pc = [r \in Request |-> "idle"]
    /\ req = [r \in Request |-> NoParams]
    /\ now = [r \in Request |-> 0]
    /\ limit = [r \in Request |-> 0]
    /\ fits = [r \in Request |-> FALSE]

-----------------------------------------------------------------------------
Members == {e \in Email : member[e] # "none"}
Pending == {i \in Invitation : status[i] = "pending"}

\* countPendingInvitations: the reservations, as of a time.
Reserved(time) == {i \in Pending : expiresAt[i] > time}

\* evaluateCountQuota: at the ceiling, one more does not fit.
Fits(current, ceiling) == current < ceiling

\* Mutant: an invitation may be accepted again.
Acceptable_AlsoAccepted(i, time) == status[i] # "revoked" /\ expiresAt[i] > time

\* assertAcceptable: neither accepted, nor revoked, nor past its deadline.
Acceptable(i, time) ==
    /\ status[i] \notin {"accepted", "revoked"}
    /\ expiresAt[i] > time

Start(r, p) ==
    /\ pc[r] = "idle"
    /\ pc'  = [pc EXCEPT ![r] = "begin"]
    /\ req' = [req EXCEPT ![r] = p]
    /\ UNCHANGED reads

Goto(r, step) == pc' = [pc EXCEPT ![r] = step] /\ UNCHANGED req

\* Mutant: the advisory lock is session-scoped and survives the transaction.
Finish_SessionScopedLock(r) ==
    /\ pc'  = [pc EXCEPT ![r] = "idle"]
    /\ req' = [req EXCEPT ![r] = NoParams]
    /\ now' = [now EXCEPT ![r] = 0]
    /\ limit' = [limit EXCEPT ![r] = 0]
    /\ fits' = [fits EXCEPT ![r] = FALSE]
    /\ seatLock'  = seatLock
    /\ planShare' = planShare \ {r}
    /\ rowLock'   = [i \in Invitation |-> IF rowLock[i] = r THEN None ELSE rowLock[i]]

\* Commit or rollback.
Finish(r) ==
    /\ pc'  = [pc EXCEPT ![r] = "idle"]
    /\ req' = [req EXCEPT ![r] = NoParams]
    /\ now' = [now EXCEPT ![r] = 0]
    /\ limit' = [limit EXCEPT ![r] = 0]
    /\ fits' = [fits EXCEPT ![r] = FALSE]
    /\ seatLock'  = IF seatLock = r THEN None ELSE seatLock
    /\ planShare' = planShare \ {r}
    /\ rowLock'   = [i \in Invitation |-> IF rowLock[i] = r THEN None ELSE rowLock[i]]

-----------------------------------------------------------------------------
(* The requests before their transactions. *)

\* Bound: there is a row left for every creation under way.
RowsLeft ==
    Cardinality({r \in Request : req[r].op = "create"})
        < Cardinality({i \in Invitation : status[i] = "absent"})

\* Permission, the duplicate checks and the quota pre-check, without locks;
\* then the email is sent.  The contract admits any of the fixed roles.
AuthorizeCreate(r) ==
    /\ RowsLeft
    /\ \E actor \in Members, e \in Email \ Members, newRole \in InvitedRole :
          /\ member[actor] \in Manages
          /\ \A i \in Reserved(clock) : email[i] # e
          /\ Fits(Cardinality(Members) + Cardinality(Reserved(clock)), MaxMembers[plan])
          /\ Start(r, [op |-> "create", email |-> e, role |-> newRole,
                       grantor |-> member[actor], expiresAt |-> clock + Ttl,
                       inv |-> None])
    /\ UNCHANGED <<rows, locks, clock>>

\* The invited user presents the token of an invitation that is acceptable.
PresentInvitation(r) ==
    /\ \E i \in Invitation :
          /\ status[i] # "absent" /\ Acceptable(i, clock)
          /\ Start(r, [op |-> "accept", email |-> email[i], inv |-> i])
    /\ UNCHANGED <<rows, locks, clock>>

AuthorizeRevoke(r) ==
    /\ \E actor \in Members, i \in Invitation :
          /\ member[actor] \in Manages
          /\ status[i] # "absent"
          /\ Start(r, [op |-> "revoke", email |-> None, inv |-> i])
    /\ UNCHANGED <<rows, locks, clock>>

\* The transaction begins and reads the clock; only then does it lock.
Begin(r) ==
    /\ pc[r] = "begin"
    /\ now' = [now EXCEPT ![r] = clock]
    /\ Goto(r, IF req[r].op = "revoke" THEN "row" ELSE "seats")
    /\ UNCHANGED <<rows, locks, clock, limit, fits>>

-----------------------------------------------------------------------------
(* Locks and reads *)

\* pg_advisory_xact_lock on quota:members.
LockSeats(r) ==
    /\ pc[r] = "seats"
    /\ seatLock = None
    /\ seatLock' = r
    /\ Goto(r, "plan")
    /\ UNCHANGED <<rows, planShare, rowLock, clock, reads>>

\* Mutant: the plan row is read without FOR SHARE.
LockPlan_PlainRead(r) ==
    /\ pc[r] = "plan"
    /\ limit' = [limit EXCEPT ![r] = MaxMembers[plan]]
    /\ Goto(r, IF req[r].op = "create" THEN "count" ELSE "row")
    /\ UNCHANGED <<rows, locks, clock, now, fits>>

\* lockOrganizationEntitlements: the plan cannot change until r is over.
LockPlan(r) ==
    /\ pc[r] = "plan"
    /\ planShare' = planShare \cup {r}
    /\ limit' = [limit EXCEPT ![r] = MaxMembers[plan]]
    /\ Goto(r, IF req[r].op = "create" THEN "count" ELSE "row")
    /\ UNCHANGED <<rows, seatLock, rowLock, clock, now, fits>>

\* The invitation FOR UPDATE, to accept or to revoke it.  An acceptance it
\* finds unacceptable is refused below.
LockInvitation(r) ==
    /\ pc[r] = "row"
    /\ rowLock[req[r].inv] = None
    /\ rowLock' = [rowLock EXCEPT ![req[r].inv] = r]
    /\ Goto(r, IF req[r].op = "accept" THEN "count" ELSE "write")
    /\ UNCHANGED <<rows, seatLock, planShare, clock, reads>>

\* Mutant: reservations are not counted.
CountSeats_MembersOnly(r) ==
    /\ pc[r] = "count"
    /\ fits' = [fits EXCEPT ![r] = Fits(Cardinality(Members), limit[r])]
    /\ Goto(r, "write")
    /\ UNCHANGED <<rows, locks, clock, now, limit>>

\* The members and, to create, the reservations too.
SeatsTaken(r) ==
    Cardinality(Members)
        + IF req[r].op = "create" THEN Cardinality(Reserved(now[r])) ELSE 0

CountSeats(r) ==
    /\ pc[r] = "count"
    /\ fits' = [fits EXCEPT ![r] = Fits(SeatsTaken(r), limit[r])]
    /\ Goto(r, "write")
    /\ UNCHANGED <<rows, locks, clock, now, limit>>

-----------------------------------------------------------------------------
(* Writes *)

\* Stale pending invitations of the email, whose slot in the partial unique
\* index is freed; one that expires exactly now keeps it.
Lapsed(r) == {i \in Pending : email[i] = req[r].email /\ expiresAt[i] < now[r]}

\* The seats fit and the partial unique index has room.
MayCreate(r) ==
    /\ fits[r]
    /\ \A i \in Pending \ Lapsed(r) : email[i] # req[r].email

CommitCreate(r) ==
    /\ pc[r] = "write" /\ req[r].op = "create"
    /\ MayCreate(r)
    /\ \A i \in Lapsed(r) : rowLock[i] = None
    /\ \E i \in Invitation :
          /\ status[i] = "absent"
          /\ status'    = [j \in Invitation |-> IF j \in Lapsed(r) THEN "expired"
                                                ELSE IF j = i THEN "pending"
                                                ELSE status[j]]
          /\ email'     = [email EXCEPT ![i] = req[r].email]
          /\ role'      = [role EXCEPT ![i] = req[r].role]
          /\ grantor'   = [grantor EXCEPT ![i] = req[r].grantor]
          /\ expiresAt' = [expiresAt EXCEPT ![i] = req[r].expiresAt]
    /\ Finish(r)
    /\ UNCHANGED <<member, plan, clock>>

MayAccept(r) ==
    /\ Acceptable(req[r].inv, now[r])
    /\ email[req[r].inv] = req[r].email
    /\ req[r].email \notin Members
    /\ fits[r]

CommitAccept(r) ==
    /\ pc[r] = "write" /\ req[r].op = "accept"
    /\ MayAccept(r)
    /\ member' = [member EXCEPT ![req[r].email] = role[req[r].inv]]
    /\ status' = [status EXCEPT ![req[r].inv] = "accepted"]
    /\ Finish(r)
    /\ UNCHANGED <<email, role, grantor, expiresAt, plan, clock>>

CommitRevoke(r) ==
    /\ pc[r] = "write" /\ req[r].op = "revoke"
    /\ Acceptable(req[r].inv, now[r])
    /\ status' = [status EXCEPT ![req[r].inv] = "revoked"]
    /\ Finish(r)
    /\ UNCHANGED <<member, email, role, grantor, expiresAt, plan, clock>>

\* Any refusal rolls back.
Refuse(r) ==
    /\ pc[r] = "write"
    /\ \/ req[r].op = "create" /\ ~MayCreate(r)
       \/ req[r].op = "accept" /\ ~MayAccept(r)
       \/ req[r].op = "revoke" /\ ~Acceptable(req[r].inv, now[r])
    /\ Finish(r)
    /\ UNCHANGED <<rows, clock>>

-----------------------------------------------------------------------------
(* The rest of the organization *)

\* changeOrganizationPlan: the plan row FOR UPDATE, nothing else.
ChangePlan ==
    /\ planShare = {}
    /\ plan' \in Plan \ {plan}
    /\ UNCHANGED <<member, invitations, locks, clock, pc, req, reads>>

\* Member administration removes someone, never the last owner.
RemoveMember(e) ==
    /\ e \in Members
    /\ \E other \in Members \ {e} : member[other] = "owner"
    /\ member' = [member EXCEPT ![e] = "none"]
    /\ UNCHANGED <<invitations, plan, locks, clock, pc, req, reads>>

Tick ==
    /\ clock < MaxTime
    /\ clock' = clock + 1
    /\ UNCHANGED <<rows, locks, pc, req, reads>>

\* A failure before the commit.
Abort(r) ==
    /\ pc[r] # "idle"
    /\ Finish(r)
    /\ UNCHANGED <<rows, clock>>

Next ==
    \/ \E r \in Request :
          \/ AuthorizeCreate(r) \/ PresentInvitation(r) \/ AuthorizeRevoke(r)
          \/ Begin(r) \/ LockSeats(r) \/ LockPlan(r) \/ LockInvitation(r)
          \/ CountSeats(r)
          \/ CommitCreate(r) \/ CommitAccept(r) \/ CommitRevoke(r)
          \/ Refuse(r) \/ Abort(r)
    \/ ChangePlan
    \/ \E e \in Email : RemoveMember(e)
    \/ Tick

Spec == Init /\ [][Next]_vars

-----------------------------------------------------------------------------
(* Properties *)

\* What a transaction has read of the seats stays true until it commits: it
\* holds the advisory lock and the plan row, the ceiling it read is the plan's,
\* and if one more seat did fit when it counted, one more still does.
HasSeats(r) == pc[r] \in {"plan", "row", "count", "write"} /\ req[r].op # "revoke"
HasPlan(r)  == HasSeats(r) /\ pc[r] # "plan"
SeatsAreCurrent ==
    \A r \in Request :
        /\ HasSeats(r) => seatLock = r
        /\ HasPlan(r)  => r \in planShare /\ limit[r] = MaxMembers[plan]
        /\ HasPlan(r) /\ pc[r] = "write" /\ fits[r] =>
              SeatsTaken(r) < limit[r]

\* Whoever joins fits under the ceiling of the plan in force at that commit,
\* though the plan, the members and other acceptances move meanwhile.
SeatsWithinPlan ==
    [][Members' \ Members # {} => Cardinality(Members') <= MaxMembers[plan']]_vars

\* Whoever is invited has a seat reserved under the plan in force: members and
\* unexpired invitations fit together, by the clock of the creating request.
ReservationWithinPlan ==
    [][\A i \in Invitation, r \in Request :
          status[i] = "absent" /\ status'[i] = "pending" /\ pc'[r] # pc[r] =>
          LET reserved == {j \in Invitation : /\ status'[j] = "pending"
                                             /\ expiresAt'[j] > now[r]}
          IN  Cardinality(Members') + Cardinality(reserved) <= MaxMembers[plan']]_vars

\* At most one pending invitation per email.
OnePendingPerEmail == \A i, j \in Pending : email[i] = email[j] => i = j

\* An accepted or a revoked invitation stays so: no acceptance races another,
\* or a revocation, into a second effect.
TerminalIsFinal ==
    [][\A i \in Invitation : status[i] \in {"accepted", "revoked"} =>
          status'[i] = status[i]]_vars

\* Joining and consuming the invitation are one step: whoever joins was invited
\* by an invitation accepted in that step, with that role and that email.
JoinConsumesInvitation ==
    [][\A e \in Members' \ Members : \E i \in Invitation :
          /\ status[i] # "accepted" /\ status'[i] = "accepted"
          /\ email[i] = e /\ member'[e] = role[i]]_vars

\* r cannot go on until q commits or rolls back.
WaitsOn(r, q) ==
    \/ pc[r] = "seats" /\ seatLock = q
    \/ pc[r] = "row" /\ rowLock[req[r].inv] = q
    \/ /\ pc[r] = "write" /\ req[r].op = "create" /\ MayCreate(r)
       /\ \E i \in Lapsed(r) : rowLock[i] = q

\* "No cycle is possible in either direction" (sprint-20-quota-race-audit.md):
\* among any requests, one waits on none of the others.
NoWaitCycle ==
    \A S \in (SUBSET Request) \ {{}} : \E r \in S : \A q \in S : ~WaitsOn(r, q)

\* "Only an active Owner can grant Owner" (docs/rbac-permissions.md).  Refuted:
\* an Admin may create an invitation with the role owner.
OwnerGrantedByOwner ==
    \A i \in Invitation : status[i] = "accepted" /\ role[i] = "owner" =>
        grantor[i] = "owner"
=============================================================================
