---------------------------- MODULE MemberAdmin ----------------------------
(***************************************************************************)
(* Member administration: PATCH and DELETE of a membership, at the level   *)
(* of the PostgreSQL row locks the repository takes.                       *)
(*                                                                         *)
(* A request is authorized against the committed rows BEFORE it opens its  *)
(* transaction (member.service.ts), so the actor may lose its role while   *)
(* the request waits.  Inside the transaction (organization.repo.ts) it    *)
(* locks the active owners of the organization in id order, then the       *)
(* target row, then decides and writes.  Transactions run at READ          *)
(* COMMITTED: SELECT ... FOR UPDATE picks its rows from the snapshot taken *)
(* when the statement starts, and tests its WHERE again on the latest      *)
(* committed version of a row once it has that row's lock.                 *)
(*                                                                         *)
(* The roles member and viewer differ in nothing this module looks at and  *)
(* are both "member".                                                      *)
(***************************************************************************)
EXTENDS Naturals, FiniteSets

CONSTANTS
    Member,     \* membership ids; naturals, because ids are ordered
    Org,        \* organization ids
    OrgOf,      \* the organization a membership id belongs to
    Request,    \* slots of concurrent requests
    NoRequest   \* holder of an unlocked row

ASSUME MemberAssumption  == Member \subseteq Nat /\ IsFiniteSet(Member)
ASSUME OrgOfAssumption   == OrgOf \in [Member -> Org]
ASSUME RequestAssumption == NoRequest \notin Request

VARIABLES
    status,     \* memberships.status, "absent" for an id not inserted yet
    role,       \* memberships.role_id
    holder,     \* which transaction has the row FOR UPDATE
    pc,         \* where each request is
    req,        \* its parameters
    todo,       \* owners its snapshot saw and it has not locked yet
    owners      \* activeOwnerIds: owners it locked and found still owners

rows == <<status, role>>
vars == <<status, role, holder, pc, req, todo, owners>>

Role   == {"owner", "admin", "member"}
Status == {"absent", "active", "removed"}

\* Roles that hold members.change_role and members.remove.
Administers == {"owner", "admin"}

Params == [op : {"change"}, actor : Member, target : Member, newRole : Role]
            \cup
          [op : {"remove"}, actor : Member, target : Member, newRole : {"member"}]
NoParams == [op |-> "none"]

TypeOK ==
    /\ status \in [Member -> Status]
    /\ role   \in [Member -> Role]
    /\ holder \in [Member -> Request \cup {NoRequest}]
    /\ pc     \in [Request -> {"idle", "authorized", "owners", "decide"}]
    /\ req    \in [Request -> Params \cup {NoParams}]
    /\ todo   \in [Request -> SUBSET Member]
    /\ owners \in [Request -> SUBSET Member]
    /\ \A r \in Request : pc[r] # "idle" => req[r] \in Params

-----------------------------------------------------------------------------
(* Queries *)

IsActiveOwner(m) == status[m] = "active" /\ role[m] = "owner"
ActiveOwners(o)  == {m \in Member : OrgOf[m] = o /\ IsActiveOwner(m)}
OrgExists(o)     == \E m \in Member : OrgOf[m] = o /\ status[m] # "absent"

\* The organization a request administers: its actor's.
OrgOfReq(r) == OrgOf[req[r].actor]
Target(r)   == req[r].target

-----------------------------------------------------------------------------
(* Initial state: an empty database and no request. *)

Init ==
    /\ status = [m \in Member |-> "absent"]
    /\ role   = [m \in Member |-> "member"]
    /\ holder = [m \in Member |-> NoRequest]
    /\ pc     = [r \in Request |-> "idle"]
    /\ req    = [r \in Request |-> NoParams]
    /\ todo   = [r \in Request |-> {}]
    /\ owners = [r \in Request |-> {}]

-----------------------------------------------------------------------------
(* Insertions.  They lock no existing membership row. *)

\* The organization and its owner's membership are inserted together.
CreateOrganization(m) ==
    /\ ~OrgExists(OrgOf[m])
    /\ status' = [status EXCEPT ![m] = "active"]
    /\ role'   = [role EXCEPT ![m] = "owner"]
    /\ UNCHANGED <<holder, pc, req, todo, owners>>

\* An accepted invitation inserts a membership with the invited role, which
\* the contract lets be any of the fixed roles.
Join(m) ==
    /\ OrgExists(OrgOf[m])
    /\ status[m] = "absent"
    /\ status' = [status EXCEPT ![m] = "active"]
    /\ \E newRole \in Role : role' = [role EXCEPT ![m] = newRole]
    /\ UNCHANGED <<holder, pc, req, todo, owners>>

-----------------------------------------------------------------------------
(* A request before its transaction. *)

\* requireMembership and requirePermission, on committed rows, no lock.
Authorize(r) ==
    /\ pc[r] = "idle"
    /\ \E p \in Params :
          /\ status[p.actor] = "active"
          /\ role[p.actor] \in Administers
          /\ req' = [req EXCEPT ![r] = p]
    /\ pc' = [pc EXCEPT ![r] = "authorized"]
    /\ UNCHANGED <<rows, holder, todo, owners>>

\* The member-admin rate limit refuses the request.
Throttle(r) ==
    /\ pc[r] = "authorized"
    /\ pc'  = [pc EXCEPT ![r] = "idle"]
    /\ req' = [req EXCEPT ![r] = NoParams]
    /\ UNCHANGED <<rows, holder, todo, owners>>

-----------------------------------------------------------------------------
(* lockActiveOwners: the snapshot, then one row lock at a time in id order. *)

SelectOwners(r) ==
    /\ pc[r] = "authorized"
    /\ pc'   = [pc EXCEPT ![r] = "owners"]
    /\ todo' = [todo EXCEPT ![r] = ActiveOwners(OrgOfReq(r))]
    /\ UNCHANGED <<rows, holder, req, owners>>

\* A row can be locked when it is free or already this transaction's.
CanLock(r, m) == holder[m] \in {NoRequest, r}

NextOwner(r, m) == m \in todo[r] /\ \A n \in todo[r] : m <= n

\* With the lock, WHERE is evaluated again: an owner demoted or removed while
\* the request waited is dropped from the result, though its row stays locked.
LockOwner(r) ==
    /\ pc[r] = "owners"
    /\ \E m \in Member :
          /\ NextOwner(r, m)
          /\ CanLock(r, m)
          /\ holder' = [holder EXCEPT ![m] = r]
          /\ todo'   = [todo EXCEPT ![r] = @ \ {m}]
          /\ owners' = [owners EXCEPT ![r] = @ \cup {n \in {m} : IsActiveOwner(n)}]
    /\ UNCHANGED <<rows, pc, req>>

\* Mutant: the target is read without FOR UPDATE.
LockTarget_PlainSelect(r) ==
    /\ pc[r] = "owners"
    /\ todo[r] = {}
    /\ status[Target(r)] # "absent"
    /\ pc' = [pc EXCEPT ![r] = "decide"]
    /\ UNCHANGED <<rows, holder, req, todo, owners>>

\* Mutant: the target is locked through the pool instead of the transaction,
\* on a connection of its own that waits for the locks of this very request.
LockTarget_OtherConnection(r) ==
    /\ pc[r] = "owners"
    /\ todo[r] = {}
    /\ status[Target(r)] # "absent"
    /\ holder[Target(r)] = NoRequest
    /\ holder' = [holder EXCEPT ![Target(r)] = r]
    /\ pc'     = [pc EXCEPT ![r] = "decide"]
    /\ UNCHANGED <<rows, req, todo, owners>>

\* SELECT ... WHERE id = membershipId FOR UPDATE of a row that exists.
LockTarget(r) ==
    /\ pc[r] = "owners"
    /\ todo[r] = {}
    /\ status[Target(r)] # "absent"
    /\ CanLock(r, Target(r))
    /\ holder' = [holder EXCEPT ![Target(r)] = r]
    /\ pc'     = [pc EXCEPT ![r] = "decide"]
    /\ UNCHANGED <<rows, req, todo, owners>>

-----------------------------------------------------------------------------
(* The decision.  Ending a transaction releases every lock it has. *)

EndTransaction(r) ==
    /\ holder' = [m \in Member |-> IF holder[m] = r THEN NoRequest ELSE holder[m]]
    /\ pc'     = [pc EXCEPT ![r] = "idle"]
    /\ req'    = [req EXCEPT ![r] = NoParams]
    /\ todo'   = [todo EXCEPT ![r] = {}]
    /\ owners' = [owners EXCEPT ![r] = {}]

\* Mutant: the target's organization is not looked at.
Addressable_AnyOrg(r) == status[Target(r)] = "active"

\* Only an active member of this organization is addressable; a removal of
\* one already removed is answered without a write.
Addressable(r) ==
    /\ OrgOf[Target(r)] = OrgOfReq(r)
    /\ status[Target(r)] = "active"

\* roleChangeTouchesOwner: a removal gives no new role.
TouchesOwner(r) ==
    \/ role[Target(r)] = "owner"
    \/ req[r].op = "change" /\ req[r].newRole = "owner"

StripsOwner(r) ==
    /\ role[Target(r)] = "owner"
    /\ req[r].op = "change" => req[r].newRole # "owner"

\* Mutant: the permission check before the transaction is enough.
HasOwnerAuthority_Authorized(r) == req[r].actor \in Member

\* assertOwnerChangeAuthority: the actor is in the locked owner set.
HasOwnerAuthority(r) == TouchesOwner(r) => req[r].actor \in owners[r]

\* Mutant: the comparison with one is off by one.
LeavesAnOwner_OffByOne(r) == StripsOwner(r) => Cardinality(owners[r]) >= 1

\* LAST_OWNER_REQUIRED is thrown when activeOwnerIds.length <= 1.
LeavesAnOwner(r) == StripsOwner(r) => Cardinality(owners[r]) > 1

Permitted(r) == Addressable(r) /\ HasOwnerAuthority(r) /\ LeavesAnOwner(r)

ChangeRole(r) ==
    /\ pc[r] = "decide"
    /\ req[r].op = "change"
    /\ Permitted(r)
    /\ role' = [role EXCEPT ![Target(r)] = req[r].newRole]
    /\ UNCHANGED status
    /\ EndTransaction(r)

Remove(r) ==
    /\ pc[r] = "decide"
    /\ req[r].op = "remove"
    /\ Permitted(r)
    /\ status' = [status EXCEPT ![Target(r)] = "removed"]
    /\ UNCHANGED role
    /\ EndTransaction(r)

\* 404, 403 or LAST_OWNER_REQUIRED, or the removal of a removed member.
Refuse(r) ==
    /\ pc[r] = "decide"
    /\ ~Permitted(r)
    /\ UNCHANGED rows
    /\ EndTransaction(r)

\* The target id names no row: there is nothing to lock, the answer is 404.
TargetUnknown(r) ==
    /\ pc[r] = "owners"
    /\ todo[r] = {}
    /\ status[Target(r)] = "absent"
    /\ UNCHANGED rows
    /\ EndTransaction(r)

-----------------------------------------------------------------------------
(* Failures *)

\* A lost connection, a failed statement or a crash rolls back.
Abort(r) ==
    /\ pc[r] \in {"owners", "decide"}
    /\ UNCHANGED rows
    /\ EndTransaction(r)

\* The row a transaction asks for next, and the transaction it waits on.
Wants(r, m) ==
    /\ pc[r] = "owners"
    /\ IF todo[r] = {} THEN m = Target(r) ELSE NextOwner(r, m)
WaitsOn(r, s) == \E m \in Member : Wants(r, m) /\ holder[m] = s /\ s # r

\* r is on a cycle of waiting transactions.
Deadlocked(r) ==
    \E S \in SUBSET Request :
        /\ r \in S
        /\ \A s \in S : /\ \E t \in S : WaitsOn(s, t)
                        /\ \E t \in S : WaitsOn(t, s)

\* PostgreSQL aborts a transaction it finds on such a cycle.
DeadlockVictim(r) ==
    /\ Deadlocked(r)
    /\ Abort(r)

-----------------------------------------------------------------------------
Next ==
    \/ \E m \in Member : CreateOrganization(m) \/ Join(m)
    \/ \E r \in Request :
          \/ Authorize(r)    \/ Throttle(r)
          \/ SelectOwners(r) \/ LockOwner(r) \/ LockTarget(r)
          \/ ChangeRole(r)   \/ Remove(r)    \/ Refuse(r)
          \/ TargetUnknown(r)
          \/ Abort(r)

Spec == Init /\ [][Next]_vars

\* Steps that wait for a lock; steps that do not, among them the end of a wait
\* that the deadlock detector breaks.
Acquire(r) == LockOwner(r) \/ LockTarget(r)
Proceed(r) ==
    \/ SelectOwners(r) \/ ChangeRole(r) \/ Remove(r) \/ Refuse(r) \/ TargetUnknown(r)
    \/ DeadlockVictim(r)

\* A handler that can go on does (the event loop and the pool run it), row
\* lock queues are first come first served (hence strong fairness), and the
\* deadlock detector runs.  No fairness is assumed of Abort or of clients.
Fairness ==
    \A r \in Request : SF_vars(Acquire(r)) /\ WF_vars(Proceed(r))

FairSpec == Spec /\ Fairness

-----------------------------------------------------------------------------
(* Properties *)

\* Every organization keeps an active owner, however role changes, removals
\* and joins interleave.
LastOwner == \A o \in Org : OrgExists(o) => ActiveOwners(o) # {}

\* What a transaction believes of its owner set stays true until it ends: each
\* id in it is locked by it and is, now, an active owner of its organization.
\* The Last Owner and authority checks read this set after several waits.
OwnersAreCurrent ==
    \A r \in Request : \A m \in owners[r] :
        holder[m] = r /\ IsActiveOwner(m) /\ OrgOf[m] = OrgOfReq(r)

\* A row a request decides on cannot change between its read and the end of
\* the transaction, except by its own write.
DecisionIsNotStale ==
    [][\A r \in Request :
          pc[r] = "decide" /\ pc'[r] = "decide" =>
             /\ role'[Target(r)] = role[Target(r)]
             /\ status'[Target(r)] = status[Target(r)]]_vars

\* Owner is given to, or taken from, a member only by a request whose actor is
\* an active owner of that organization at the very commit, even if the actor
\* was authorized long before.
OwnerAuthority ==
    [][\A m \in Member :
          status[m] = "active" /\ IsActiveOwner(m) # IsActiveOwner(m)' =>
             \E r \in Request :
                /\ pc[r] = "decide" /\ pc'[r] = "idle"
                /\ Target(r) = m
                /\ IsActiveOwner(req[r].actor)
                /\ OrgOfReq(r) = OrgOf[m]]_vars

\* A removed membership is never written again: a role change waiting for its
\* row neither revives it nor touches its role.
RemovalIsFinal ==
    [][\A m \in Member :
          status[m] = "removed" => status'[m] = "removed" /\ role'[m] = role[m]]_vars

\* Every transaction that starts ends, the deadlocks between the owner locks
\* and the target lock included.
TransactionsEnd == \A r \in Request : pc[r] = "owners" ~> pc[r] = "idle"

-----------------------------------------------------------------------------
(* Refinement *)

Policy == INSTANCE OwnershipPolicy

\* The locking protocol implements the ownership policy: each decision, taken
\* on an owner set and a target row read some waits earlier, is one the policy
\* allows at the instant of the commit.
ImplementsPolicy == Policy!Spec
=============================================================================
