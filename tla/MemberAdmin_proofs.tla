------------------------- MODULE MemberAdmin_proofs -------------------------
(***************************************************************************)
(* Member administration for any number of memberships, organizations and  *)
(* concurrent requests: the locking protocol keeps an active owner in      *)
(* every organization and implements OwnershipPolicy.                      *)
(*                                                                         *)
(* The argument rests on OwnersAreCurrent: the owner set a transaction     *)
(* decides on may miss owners (it came from a snapshot) but never contains *)
(* one that is no longer an owner, because only the transaction that holds *)
(* a row may change it.                                                    *)
(***************************************************************************)
EXTENDS MemberAdmin, FiniteSetTheorems, TLAPS

\* A transaction past the target read holds the target's row, which exists.
TargetIsLocked ==
    \A r \in Request :
        pc[r] = "decide" => holder[Target(r)] = r /\ status[Target(r)] # "absent"

\* Nothing is collected outside a transaction.
IdleHoldsNothing ==
    \A r \in Request :
        pc[r] \in {"idle", "authorized"} => owners[r] = {} /\ todo[r] = {}

\* An actor is a membership that was inserted, and insertion is for good.
ActorsExist == \A r \in Request : pc[r] # "idle" => status[req[r].actor] # "absent"

\* The snapshot of owners was taken in the organization of the request.
SnapshotIsOfOrg ==
    \A r \in Request : \A m \in todo[r] : OrgOf[m] = OrgOfReq(r)

IInv ==
    /\ TypeOK
    /\ SnapshotIsOfOrg
    /\ OwnersAreCurrent
    /\ TargetIsLocked
    /\ IdleHoldsNothing
    /\ ActorsExist
    /\ LastOwner

-----------------------------------------------------------------------------
(* The counting argument behind LAST_OWNER_REQUIRED. *)

\* A finite set with more than one element has one besides any given t.
LEMMA AnotherElement ==
    ASSUME NEW S, IsFiniteSet(S), Cardinality(S) > 1, NEW t
    PROVE  \E x \in S : x # t
<1>1. SUFFICES ASSUME \A x \in S : x = t PROVE FALSE
    OBVIOUS
<1>2. S \subseteq {t}
    BY <1>1
<1>3. IsFiniteSet({t}) /\ Cardinality({t}) = 1
    BY FS_Singleton
<1>4. Cardinality(S) <= Cardinality({t})
    BY <1>2, <1>3, FS_Subset
<1>5. Cardinality(S) \in Nat
    BY FS_CardinalityType
<1> QED
    BY <1>3, <1>4, <1>5

\* What a permitted decision on an owner row knows: the actor owns the target's
\* organization, and so does someone else when the target stops being an owner.
LEMMA PermittedIsSafe ==
    ASSUME IInv, NEW r \in Request, pc[r] = "decide", Permitted(r)
    PROVE  /\ Target(r) \in Member /\ req[r].actor \in Member
           /\ status[Target(r)] = "active"
           /\ OrgOf[req[r].actor] = OrgOf[Target(r)]
           /\ TouchesOwner(r) => IsActiveOwner(req[r].actor)
           /\ StripsOwner(r) => \E x \in Member \ {Target(r)} :
                 /\ IsActiveOwner(x) /\ OrgOf[x] = OrgOf[Target(r)]
                 /\ holder[x] = r
<1>1. req[r] \in Params
    BY DEF IInv, TypeOK
<1>2. Target(r) \in Member /\ req[r].actor \in Member
    BY <1>1 DEF Params, Target
<1>3. status[Target(r)] = "active" /\ OrgOf[req[r].actor] = OrgOf[Target(r)]
    BY DEF Permitted, Addressable, OrgOfReq
<1>4. TouchesOwner(r) => IsActiveOwner(req[r].actor)
    BY DEF Permitted, HasOwnerAuthority, IInv, OwnersAreCurrent
<1>5. ASSUME StripsOwner(r)
      PROVE  \E x \in Member \ {Target(r)} :
                 /\ IsActiveOwner(x) /\ OrgOf[x] = OrgOf[Target(r)]
                 /\ holder[x] = r
    <2>1. owners[r] \subseteq Member
        BY DEF IInv, TypeOK
    <2>2. IsFiniteSet(owners[r])
        BY <2>1, MemberAssumption, FS_Subset
    <2>3. Cardinality(owners[r]) > 1
        BY <1>5 DEF Permitted, LeavesAnOwner
    <2>4. PICK x \in owners[r] : x # Target(r)
        BY <2>2, <2>3, AnotherElement
    <2>5. holder[x] = r /\ IsActiveOwner(x) /\ OrgOf[x] = OrgOfReq(r)
        BY <2>4 DEF IInv, OwnersAreCurrent
    <2> QED
        BY <1>3, <2>1, <2>4, <2>5 DEF OrgOfReq
<1> QED
    BY <1>2, <1>3, <1>4, <1>5

-----------------------------------------------------------------------------
(* Each action keeps the invariant. *)

\* The empty database satisfies the invariant.
LEMMA InitInv == Init => IInv
<1>1. ASSUME Init PROVE TypeOK
    BY <1>1 DEF Init, TypeOK, Status, Role
<1>2. ASSUME Init
      PROVE  /\ SnapshotIsOfOrg /\ OwnersAreCurrent /\ TargetIsLocked
             /\ IdleHoldsNothing /\ ActorsExist
    BY <1>2 DEF Init, SnapshotIsOfOrg, OwnersAreCurrent, TargetIsLocked, IdleHoldsNothing, ActorsExist
<1>3. ASSUME Init PROVE LastOwner
    BY <1>3 DEF Init, LastOwner, OrgExists
<1> QED
    BY <1>1, <1>2, <1>3 DEF IInv

\* Rows that stay as they are keep the organizations' owners.
LEMMA SameRowsKeepLastOwner ==
    ASSUME LastOwner, UNCHANGED rows
    PROVE  LastOwner'
BY DEF LastOwner, rows, OrgExists, ActiveOwners, IsActiveOwner

\* A new membership disturbs no owner set: its id was absent, so no transaction
\* had it among its owners.
LEMMA InsertKeepsInv ==
    ASSUME IInv, NEW m \in Member, NEW newRole \in Role,
           status[m] = "absent",
           OrgExists(OrgOf[m]) \/ newRole = "owner",
           status' = [status EXCEPT ![m] = "active"],
           role' = [role EXCEPT ![m] = newRole],
           UNCHANGED <<holder, pc, req, todo, owners>>
    PROVE  IInv'
<1>1. TypeOK'
    BY DEF IInv, TypeOK, Status
<1>2. \A n \in Member : n # m => status'[n] = status[n] /\ role'[n] = role[n]
    BY DEF IInv, TypeOK
<1>3. status'[m] = "active" /\ role'[m] = newRole
    BY DEF IInv, TypeOK
<1>4. OwnersAreCurrent'
    BY <1>2 DEF IInv, TypeOK, OwnersAreCurrent, IsActiveOwner, OrgOfReq
<1>5. TargetIsLocked'
    BY <1>2, <1>3 DEF IInv, TypeOK, TargetIsLocked, Target
<1>6. IdleHoldsNothing' /\ SnapshotIsOfOrg'
    BY DEF IInv, IdleHoldsNothing, SnapshotIsOfOrg, OrgOfReq
<1>7. ActorsExist'
    <2> SUFFICES ASSUME NEW r \in Request, pc[r] # "idle"
                 PROVE  status'[req[r].actor] # "absent"
        BY DEF ActorsExist
    <2>1. req[r].actor \in Member /\ status[req[r].actor] # "absent"
        BY DEF IInv, TypeOK, ActorsExist, Params
    <2> QED
        BY <1>2, <1>3, <2>1
<1>8. LastOwner'
    <2> SUFFICES ASSUME NEW o \in Org, OrgExists(o)'
                 PROVE  ActiveOwners(o)' # {}
        BY DEF LastOwner
    <2>1. CASE OrgExists(o)
        <3>1. PICK x \in Member : OrgOf[x] = o /\ IsActiveOwner(x)
            BY <2>1 DEF IInv, LastOwner, ActiveOwners
        <3>2. x # m
            BY <3>1 DEF IsActiveOwner
        <3> QED
            BY <1>2, <3>1, <3>2 DEF ActiveOwners, IsActiveOwner
    <2>2. CASE ~OrgExists(o)
        <3>1. OrgOf[m] = o
            BY <1>2, <2>2 DEF OrgExists
        <3>2. newRole = "owner"
            BY <2>2, <3>1
        <3> QED
            BY <1>3, <3>1, <3>2 DEF ActiveOwners, IsActiveOwner
    <2> QED
        BY <2>1, <2>2
<1> QED
    BY <1>1, <1>4, <1>5, <1>6, <1>7, <1>8 DEF IInv

\* The end of a transaction keeps the invariant if it wrote only rows it held
\* and left every organization an owner: the owner sets of the others hold
\* rows it does not hold.
LEMMA EndKeepsInv ==
    ASSUME IInv, NEW r \in Request, EndTransaction(r),
           status' \in [Member -> Status], role' \in [Member -> Role],
           \A m \in Member : holder[m] # r =>
                status'[m] = status[m] /\ role'[m] = role[m],
           \A m \in Member : status[m] # "absent" => status'[m] # "absent",
           LastOwner'
    PROVE  IInv'
<1>1. TypeOK'
    BY DEF IInv, TypeOK, EndTransaction
<1>2. \A s \in Request \ {r} :
          pc'[s] = pc[s] /\ req'[s] = req[s] /\ todo'[s] = todo[s] /\ owners'[s] = owners[s]
    BY DEF IInv, TypeOK, EndTransaction
<1>3. pc'[r] = "idle" /\ owners'[r] = {} /\ todo'[r] = {}
    BY DEF IInv, TypeOK, EndTransaction
<1>4. \A m \in Member, s \in Request \ {r} : holder[m] = s => holder'[m] = s
    BY DEF EndTransaction
<1>5. OwnersAreCurrent'
    <2> SUFFICES ASSUME NEW s \in Request \ {r}, NEW m \in owners[s]
                 PROVE  holder'[m] = s /\ IsActiveOwner(m)' /\ OrgOf[m] = OrgOfReq(s)'
        BY <1>2, <1>3 DEF OwnersAreCurrent
    <2>1. m \in Member
        BY DEF IInv, TypeOK
    <2>2. holder[m] = s /\ IsActiveOwner(m) /\ OrgOf[m] = OrgOfReq(s)
        BY DEF IInv, OwnersAreCurrent
    <2> QED
        BY <1>2, <1>4, <2>1, <2>2 DEF IsActiveOwner, OrgOfReq
<1>6. TargetIsLocked'
    <2> SUFFICES ASSUME NEW s \in Request \ {r}, pc[s] = "decide"
                 PROVE  holder'[Target(s)'] = s /\ status'[Target(s)'] # "absent"
        BY <1>2, <1>3 DEF TargetIsLocked
    <2>1. Target(s)' = Target(s) /\ Target(s) \in Member
        BY <1>2 DEF IInv, TypeOK, Params, Target
    <2> QED
        BY <1>4, <2>1 DEF IInv, TargetIsLocked
<1>7. IdleHoldsNothing' /\ SnapshotIsOfOrg'
    BY <1>2, <1>3 DEF IInv, IdleHoldsNothing, SnapshotIsOfOrg, OrgOfReq
<1>8. ActorsExist'
    <2> SUFFICES ASSUME NEW s \in Request \ {r}, pc[s] # "idle"
                 PROVE  status'[req[s].actor] # "absent"
        BY <1>2, <1>3 DEF ActorsExist
    <2>1. req[s].actor \in Member
        BY DEF IInv, TypeOK, Params
    <2> QED
        BY <2>1 DEF IInv, ActorsExist
<1> QED
    BY <1>1, <1>5, <1>6, <1>7, <1>8 DEF IInv

\* Authorization writes no row and takes no lock.
LEMMA AuthorizeKeepsInv ==
    ASSUME IInv, NEW r \in Request, Authorize(r)
    PROVE  IInv'
<1>1. PICK p \in Params :
          /\ status[p.actor] = "active"
          /\ req' = [req EXCEPT ![r] = p]
    BY DEF Authorize
<1>2. /\ pc[r] = "idle" /\ pc' = [pc EXCEPT ![r] = "authorized"]
      /\ UNCHANGED <<status, role, holder, todo, owners>>
    BY DEF Authorize, rows
<1>3. TypeOK'
    BY <1>1, <1>2 DEF IInv, TypeOK
<1>4. \A s \in Request \ {r} : pc'[s] = pc[s] /\ req'[s] = req[s]
    BY <1>1, <1>2 DEF IInv, TypeOK
<1>5. pc'[r] = "authorized" /\ req'[r] = p
    BY <1>1, <1>2 DEF IInv, TypeOK
<1>6. owners[r] = {} /\ todo[r] = {}
    BY <1>2 DEF IInv, IdleHoldsNothing
<1>7. OwnersAreCurrent' /\ SnapshotIsOfOrg'
    BY <1>2, <1>4, <1>6
    DEF IInv, OwnersAreCurrent, SnapshotIsOfOrg, IsActiveOwner, OrgOfReq
<1>8. TargetIsLocked'
    BY <1>2, <1>4, <1>5 DEF IInv, TargetIsLocked, Target
<1>9. IdleHoldsNothing' /\ ActorsExist'
    BY <1>1, <1>2, <1>4, <1>5, <1>6 DEF IInv, IdleHoldsNothing, ActorsExist
<1>10. LastOwner'
    BY <1>2, SameRowsKeepLastOwner DEF IInv, rows
<1> QED
    BY <1>3, <1>7, <1>8, <1>9, <1>10 DEF IInv

\* A throttled request had no owner set and no lock.
LEMMA ThrottleKeepsInv ==
    ASSUME IInv, NEW r \in Request, Throttle(r)
    PROVE  IInv'
<1>1. TypeOK'
    BY DEF IInv, TypeOK, Throttle, rows
<1>2. /\ \A s \in Request \ {r} : pc'[s] = pc[s] /\ req'[s] = req[s]
      /\ pc'[r] = "idle" /\ owners[r] = {} /\ todo[r] = {}
    BY DEF IInv, TypeOK, IdleHoldsNothing, Throttle
<1>3. OwnersAreCurrent' /\ SnapshotIsOfOrg'
    BY <1>2
    DEF IInv, OwnersAreCurrent, SnapshotIsOfOrg, IsActiveOwner, OrgOfReq, Throttle, rows
<1>4. TargetIsLocked'
    BY <1>2 DEF IInv, TargetIsLocked, Target, Throttle, rows
<1>5. IdleHoldsNothing' /\ ActorsExist'
    BY <1>2 DEF IInv, IdleHoldsNothing, ActorsExist, Throttle, rows
<1>6. LastOwner'
    BY SameRowsKeepLastOwner DEF IInv, Throttle
<1> QED
    BY <1>1, <1>3, <1>4, <1>5, <1>6 DEF IInv

\* The snapshot fills todo only: the owner set is still empty.
LEMMA SelectOwnersKeepsInv ==
    ASSUME IInv, NEW r \in Request, SelectOwners(r)
    PROVE  IInv'
<1>1. TypeOK'
    BY DEF IInv, TypeOK, SelectOwners, rows, ActiveOwners
<1>2. /\ \A s \in Request \ {r} : pc'[s] = pc[s] /\ todo'[s] = todo[s]
      /\ pc[r] = "authorized" /\ pc'[r] = "owners"
    BY DEF IInv, TypeOK, SelectOwners
<1>3. OwnersAreCurrent'
    BY DEF IInv, OwnersAreCurrent, IsActiveOwner, OrgOfReq, SelectOwners, rows
<1>7. SnapshotIsOfOrg'
    BY DEF IInv, TypeOK, SnapshotIsOfOrg, ActiveOwners, OrgOfReq, SelectOwners
<1>4. TargetIsLocked'
    BY <1>2 DEF IInv, TargetIsLocked, Target, SelectOwners, rows
<1>5. IdleHoldsNothing' /\ ActorsExist'
    BY <1>2 DEF IInv, IdleHoldsNothing, ActorsExist, SelectOwners, rows
<1>6. LastOwner'
    BY SameRowsKeepLastOwner DEF IInv, SelectOwners
<1> QED
    BY <1>1, <1>3, <1>4, <1>5, <1>6, <1>7 DEF IInv

\* A row is locked only when nobody else has it, so no other transaction's
\* owner set loses one; the new element of this one's was tested just now.
LEMMA LockOwnerKeepsInv ==
    ASSUME IInv, NEW r \in Request, LockOwner(r)
    PROVE  IInv'
<1>1. PICK m \in Member :
          /\ m \in todo[r]
          /\ CanLock(r, m)
          /\ holder' = [holder EXCEPT ![m] = r]
          /\ todo'   = [todo EXCEPT ![r] = @ \ {m}]
          /\ owners' = [owners EXCEPT ![r] = @ \cup {n \in {m} : IsActiveOwner(n)}]
    BY DEF LockOwner, NextOwner
<1>2. pc[r] = "owners" /\ UNCHANGED <<status, role, pc, req>>
    BY DEF LockOwner, rows
<1>3. TypeOK'
    BY <1>1, <1>2 DEF IInv, TypeOK
<1>4. \A n \in Member, s \in Request : holder[n] = s => holder'[n] = s
    BY <1>1, RequestAssumption DEF IInv, TypeOK, CanLock
<1>5. OwnersAreCurrent'
    <2> SUFFICES ASSUME NEW s \in Request, NEW n \in owners'[s]
                 PROVE  holder'[n] = s /\ IsActiveOwner(n) /\ OrgOf[n] = OrgOfReq(s)
        BY <1>2 DEF OwnersAreCurrent, IsActiveOwner, OrgOfReq
    <2>1. CASE n \in owners[s]
        BY <2>1, <1>4 DEF IInv, TypeOK, OwnersAreCurrent
    <2>2. CASE n \notin owners[s]
        <3>1. s = r /\ n = m /\ IsActiveOwner(m)
            BY <1>1, <2>2 DEF IInv, TypeOK
        <3> QED
            BY <1>1, <3>1 DEF IInv, TypeOK, SnapshotIsOfOrg
    <2> QED
        BY <2>1, <2>2
<1>6. TargetIsLocked'
    <2> SUFFICES ASSUME NEW s \in Request, pc[s] = "decide"
                 PROVE  holder'[Target(s)] = s /\ status[Target(s)] # "absent"
        BY <1>2 DEF TargetIsLocked, Target
    <2>1. Target(s) \in Member
        BY DEF IInv, TypeOK, Params, Target
    <2> QED
        BY <1>4, <2>1 DEF IInv, TargetIsLocked
<1>7. IdleHoldsNothing' /\ SnapshotIsOfOrg' /\ ActorsExist'
    BY <1>1, <1>2
    DEF IInv, TypeOK, IdleHoldsNothing, SnapshotIsOfOrg, OrgOfReq, ActorsExist
<1>8. LastOwner'
    BY <1>2, SameRowsKeepLastOwner DEF IInv, rows
<1> QED
    BY <1>3, <1>5, <1>6, <1>7, <1>8 DEF IInv

\* Locking the target row adds a lock and leaves the owner set as it is.
LEMMA LockTargetKeepsInv ==
    ASSUME IInv, NEW r \in Request, LockTarget(r)
    PROVE  IInv'
<1>1. Target(r) \in Member /\ status[Target(r)] # "absent"
    BY DEF IInv, TypeOK, Params, Target, LockTarget
<1>2. TypeOK'
    BY <1>1 DEF IInv, TypeOK, LockTarget, rows
<1>3. \A n \in Member, s \in Request : holder[n] = s => holder'[n] = s
    BY <1>1, RequestAssumption DEF IInv, TypeOK, CanLock, LockTarget
<1>4. OwnersAreCurrent'
    BY <1>3 DEF IInv, TypeOK, OwnersAreCurrent, IsActiveOwner, OrgOfReq, LockTarget, rows
<1>5. TargetIsLocked'
    <2> SUFFICES ASSUME NEW s \in Request, pc'[s] = "decide"
                 PROVE  holder'[Target(s)] = s /\ status[Target(s)] # "absent"
        BY DEF TargetIsLocked, Target, LockTarget, rows
    <2>1. Target(s) \in Member
        BY DEF IInv, TypeOK, Params, Target, LockTarget
    <2>2. CASE s = r
        BY <1>1, <2>2 DEF IInv, TypeOK, LockTarget
    <2>3. CASE s # r
        BY <1>3, <2>1, <2>3 DEF IInv, TypeOK, TargetIsLocked, LockTarget
    <2> QED
        BY <2>2, <2>3
<1>6. IdleHoldsNothing' /\ SnapshotIsOfOrg' /\ ActorsExist'
    BY DEF IInv, TypeOK, IdleHoldsNothing, SnapshotIsOfOrg, OrgOfReq, ActorsExist,
           LockTarget, rows
<1>7. LastOwner'
    BY SameRowsKeepLastOwner DEF IInv, LockTarget
<1> QED
    BY <1>2, <1>4, <1>5, <1>6, <1>7 DEF IInv

\* A role change or a removal that takes a target's ownership away leaves the
\* other owner PermittedIsSafe names; any other one takes no owner away.
LEMMA DecisionKeepsLastOwner ==
    ASSUME IInv, NEW r \in Request, pc[r] = "decide", Permitted(r),
           NEW newStatus \in Status, NEW newRole \in Role,
           status' = [status EXCEPT ![Target(r)] = newStatus],
           role' = [role EXCEPT ![Target(r)] = newRole],
           StripsOwner(r) \/ ~IsActiveOwner(Target(r))
              \/ (newStatus = "active" /\ newRole = "owner")
    PROVE  LastOwner'
<1>1. Target(r) \in Member /\ status[Target(r)] = "active"
    BY PermittedIsSafe
<1>2. /\ \A n \in Member : n # Target(r) => status'[n] = status[n] /\ role'[n] = role[n]
      /\ status'[Target(r)] = newStatus /\ role'[Target(r)] = newRole
    BY <1>1 DEF IInv, TypeOK
<1> SUFFICES ASSUME NEW o \in Org, OrgExists(o)'
             PROVE  ActiveOwners(o)' # {}
    BY DEF LastOwner
<1>3. OrgExists(o)
    BY <1>1, <1>2 DEF OrgExists
<1>4. PICK x \in Member : OrgOf[x] = o /\ IsActiveOwner(x)
    BY <1>3 DEF IInv, LastOwner, ActiveOwners
<1>5. CASE x # Target(r)
    BY <1>2, <1>4, <1>5 DEF ActiveOwners, IsActiveOwner
<1>6. CASE x = Target(r) /\ StripsOwner(r)
    <2>1. PICK y \in Member \ {Target(r)} :
              IsActiveOwner(y) /\ OrgOf[y] = OrgOf[Target(r)]
        BY <1>6, PermittedIsSafe
    <2> QED
        BY <1>2, <1>4, <1>6, <2>1 DEF ActiveOwners, IsActiveOwner
<1>7. CASE x = Target(r) /\ newStatus = "active" /\ newRole = "owner"
    BY <1>1, <1>2, <1>4, <1>7 DEF ActiveOwners, IsActiveOwner
<1> QED
    BY <1>4, <1>5, <1>6, <1>7

\* A role change: the decision keeps an owner, its end drops the owner set.
LEMMA ChangeRoleKeepsInv ==
    ASSUME IInv, NEW r \in Request, ChangeRole(r)
    PROVE  IInv'
<1>1. /\ pc[r] = "decide" /\ Permitted(r) /\ req[r].op = "change"
      /\ role' = [role EXCEPT ![Target(r)] = req[r].newRole]
      /\ status' = status /\ EndTransaction(r)
    BY DEF ChangeRole
<1>2. Target(r) \in Member /\ status[Target(r)] = "active"
    BY <1>1, PermittedIsSafe
<1>3. req[r].newRole \in Role
    BY <1>1 DEF IInv, TypeOK, Params
<1>4. status' \in [Member -> Status] /\ role' \in [Member -> Role]
    BY <1>1, <1>3 DEF IInv, TypeOK
<1>5. \A m \in Member : holder[m] # r => role'[m] = role[m]
    BY <1>1 DEF IInv, TypeOK, TargetIsLocked
<1>6. LastOwner'
    <2>1. status' = [status EXCEPT ![Target(r)] = "active"]
        BY <1>1, <1>2 DEF IInv, TypeOK
    <2>2. StripsOwner(r) \/ ~IsActiveOwner(Target(r)) \/ req[r].newRole = "owner"
        BY <1>2 DEF StripsOwner, IsActiveOwner
    <2> QED
        BY <1>1, <1>3, <2>1, <2>2, DecisionKeepsLastOwner DEF Status
<1> QED
    BY <1>1, <1>4, <1>5, <1>6, EndKeepsInv

\* A removal: likewise, with the status written instead of the role.
LEMMA RemoveKeepsInv ==
    ASSUME IInv, NEW r \in Request, Remove(r)
    PROVE  IInv'
<1>1. /\ pc[r] = "decide" /\ Permitted(r) /\ req[r].op = "remove"
      /\ status' = [status EXCEPT ![Target(r)] = "removed"]
      /\ role' = role /\ EndTransaction(r)
    BY DEF Remove
<1>2. Target(r) \in Member /\ status[Target(r)] = "active"
    BY <1>1, PermittedIsSafe
<1>3. status' \in [Member -> Status] /\ role' \in [Member -> Role]
    BY <1>1 DEF IInv, TypeOK, Status
<1>4. \A m \in Member : holder[m] # r => status'[m] = status[m]
    BY <1>1 DEF IInv, TypeOK, TargetIsLocked
<1>5. \A m \in Member : status[m] # "absent" => status'[m] # "absent"
    BY <1>1 DEF IInv, TypeOK
<1>6. LastOwner'
    <2>1. role[Target(r)] \in Role /\ role' = [role EXCEPT ![Target(r)] = role[Target(r)]]
        BY <1>1, <1>2 DEF IInv, TypeOK
    <2>2. StripsOwner(r) \/ ~IsActiveOwner(Target(r))
        BY <1>1 DEF StripsOwner, IsActiveOwner
    <2> QED
        BY <1>1, <2>1, <2>2, DecisionKeepsLastOwner DEF Status
<1> QED
    BY <1>1, <1>3, <1>4, <1>5, <1>6, EndKeepsInv

\* Refusals and rollbacks write nothing.
LEMMA RollbackKeepsInv ==
    ASSUME IInv, NEW r \in Request, UNCHANGED rows, EndTransaction(r)
    PROVE  IInv'
<1>1. LastOwner'
    BY SameRowsKeepLastOwner DEF IInv
<1>2. status' = status /\ role' = role
    BY DEF rows
<1>3. status \in [Member -> Status] /\ role \in [Member -> Role]
    BY DEF IInv, TypeOK
<1> QED
    BY <1>1, <1>2, <1>3, EndKeepsInv

\* IInv is inductive.
THEOREM StepInv == IInv /\ [Next]_vars => IInv'
<1> SUFFICES ASSUME IInv, [Next]_vars PROVE IInv'
    OBVIOUS
<1>1. ASSUME NEW m \in Member, CreateOrganization(m) PROVE IInv'
    <2>1. status[m] = "absent"
        BY <1>1 DEF CreateOrganization, OrgExists
    <2> QED
        BY <1>1, <2>1, InsertKeepsInv DEF CreateOrganization, Role
<1>2. ASSUME NEW m \in Member, Join(m) PROVE IInv'
    BY <1>2, InsertKeepsInv DEF Join
<1>3. ASSUME NEW r \in Request, Authorize(r) PROVE IInv'
    BY <1>3, AuthorizeKeepsInv
<1>4. ASSUME NEW r \in Request, Throttle(r) PROVE IInv'
    BY <1>4, ThrottleKeepsInv
<1>5. ASSUME NEW r \in Request, SelectOwners(r) PROVE IInv'
    BY <1>5, SelectOwnersKeepsInv
<1>6. ASSUME NEW r \in Request, LockOwner(r) PROVE IInv'
    BY <1>6, LockOwnerKeepsInv
<1>7. ASSUME NEW r \in Request, LockTarget(r) PROVE IInv'
    BY <1>7, LockTargetKeepsInv
<1>8. ASSUME NEW r \in Request, ChangeRole(r) PROVE IInv'
    BY <1>8, ChangeRoleKeepsInv
<1>9. ASSUME NEW r \in Request, Remove(r) PROVE IInv'
    BY <1>9, RemoveKeepsInv
<1>10. ASSUME NEW r \in Request, Refuse(r) \/ TargetUnknown(r) \/ Abort(r) PROVE IInv'
    BY <1>10, RollbackKeepsInv DEF Refuse, TargetUnknown, Abort
<1>11. CASE UNCHANGED vars
    BY <1>11 DEF vars, IInv, TypeOK, SnapshotIsOfOrg, OwnersAreCurrent, TargetIsLocked,
                 IdleHoldsNothing, ActorsExist, LastOwner, OrgExists, ActiveOwners,
                 IsActiveOwner, OrgOfReq, Target
<1> QED
    BY <1>1, <1>2, <1>3, <1>4, <1>5, <1>6, <1>7, <1>8, <1>9, <1>10, <1>11 DEF Next

\* The inductive invariant holds in every reachable state.
THEOREM Invariant == Spec => []IInv
BY InitInv, StepInv, PTL DEF Spec

-----------------------------------------------------------------------------
(* What a reader should know. *)

\* Every variable keeps its type, for any set of memberships and requests.
THEOREM TypeCorrect == Spec => []TypeOK
BY Invariant, PTL DEF IInv

\* Every organization keeps an active owner under any number of concurrent
\* role changes and removals.
THEOREM LastOwnerKept == Spec => []LastOwner
BY Invariant, PTL DEF IInv

\* The locked owner set never holds a member who has ceased to be an owner.
THEOREM OwnerSetsAreCurrent == Spec => []OwnersAreCurrent
BY Invariant, PTL DEF IInv

\* The only steps that write rows.
LEMMA RowWrites ==
    [Next]_vars =>
       \/ UNCHANGED rows
       \/ \E m \in Member : CreateOrganization(m) \/ Join(m)
       \/ \E r \in Request : ChangeRole(r) \/ Remove(r)
BY DEF Next, vars, rows, Authorize, Throttle, SelectOwners, LockOwner, LockTarget,
       Refuse, TargetUnknown, Abort

\* What the two writes do, and to whom.
LEMMA DecisionWrites ==
    ASSUME IInv, NEW r \in Request, ChangeRole(r) \/ Remove(r)
    PROVE  /\ pc[r] = "decide" /\ Permitted(r) /\ pc'[r] = "idle"
           /\ Target(r) \in Member /\ status[Target(r)] = "active"
           /\ \A m \in Member : m # Target(r) =>
                  status'[m] = status[m] /\ role'[m] = role[m]
BY PermittedIsSafe DEF IInv, TypeOK, ChangeRole, Remove, EndTransaction

\* No step writes a removed row: a decision only writes an active target.
LEMMA RemovalIsFinalStep ==
    ASSUME IInv, [Next]_vars, NEW m \in Member, status[m] = "removed"
    PROVE  status'[m] = "removed" /\ role'[m] = role[m]
<1>1. CASE UNCHANGED rows
    BY <1>1 DEF rows
<1>2. ASSUME NEW n \in Member, CreateOrganization(n) \/ Join(n)
      PROVE  status'[m] = "removed" /\ role'[m] = role[m]
    <2>1. n # m
        BY <1>2 DEF CreateOrganization, Join, OrgExists
    <2> QED
        BY <1>2, <2>1 DEF IInv, TypeOK, CreateOrganization, Join
<1>3. ASSUME NEW r \in Request, ChangeRole(r) \/ Remove(r)
      PROVE  status'[m] = "removed" /\ role'[m] = role[m]
    BY <1>3, DecisionWrites
<1> QED
    BY <1>1, <1>2, <1>3, RowWrites

\* No interleaving writes a membership that was removed.
THEOREM RemovalFinal == Spec => RemovalIsFinal
<1>1. IInv /\ [Next]_vars =>
        [\A m \in Member :
           status[m] = "removed" => status'[m] = "removed" /\ role'[m] = role[m]]_vars
    BY RemovalIsFinalStep
<1> QED
    BY <1>1, Invariant, PTL DEF Spec, RemovalIsFinal

\* A step that makes or unmakes an owner is a permitted decision of an owner.
LEMMA OwnerAuthorityStep ==
    ASSUME IInv, [Next]_vars, NEW m \in Member, status[m] = "active",
           IsActiveOwner(m) # IsActiveOwner(m)'
    PROVE  \E r \in Request :
              /\ pc[r] = "decide" /\ pc'[r] = "idle"
              /\ Target(r) = m
              /\ IsActiveOwner(req[r].actor)
              /\ OrgOfReq(r) = OrgOf[m]
<1>1. ~ UNCHANGED rows
    BY DEF rows, IsActiveOwner
<1>2. ASSUME NEW n \in Member, CreateOrganization(n) \/ Join(n)
      PROVE  FALSE
    <2>1. n # m
        BY <1>2 DEF CreateOrganization, Join, OrgExists
    <2> QED
        BY <1>2, <2>1 DEF IInv, TypeOK, CreateOrganization, Join, IsActiveOwner
<1>3. PICK r \in Request : ChangeRole(r) \/ Remove(r)
    BY <1>1, <1>2, RowWrites
<1>4. Target(r) = m
    BY <1>3, DecisionWrites DEF IsActiveOwner
<1>5. TouchesOwner(r)
    <2>1. CASE ChangeRole(r)
        BY <2>1, <1>4 DEF IInv, TypeOK, ChangeRole, TouchesOwner, IsActiveOwner
    <2>2. CASE Remove(r)
        BY <2>2, <1>4 DEF IInv, TypeOK, Remove, TouchesOwner, IsActiveOwner
    <2> QED
        BY <1>3, <2>1, <2>2
<1>6. IsActiveOwner(req[r].actor) /\ OrgOfReq(r) = OrgOf[m]
    BY <1>3, <1>4, <1>5, DecisionWrites, PermittedIsSafe DEF OrgOfReq
<1> QED
    BY <1>3, <1>4, <1>6, DecisionWrites

\* The Owner role of an existing member changes hands only on the authority of
\* one who is an active owner at that instant.
THEOREM OwnerAuthorityKept == Spec => OwnerAuthority
<1>1. IInv /\ [Next]_vars =>
        [\A m \in Member :
            status[m] = "active" /\ IsActiveOwner(m) # IsActiveOwner(m)' =>
               \E r \in Request :
                  /\ pc[r] = "decide" /\ pc'[r] = "idle"
                  /\ Target(r) = m
                  /\ IsActiveOwner(req[r].actor)
                  /\ OrgOfReq(r) = OrgOf[m]]_vars
    BY OwnerAuthorityStep
<1> QED
    BY <1>1, Invariant, PTL DEF Spec, OwnerAuthority

\* While a request decides, its target row is locked by it: nobody else writes it.
LEMMA DecisionIsNotStaleStep ==
    ASSUME IInv, [Next]_vars, NEW r \in Request, pc[r] = "decide", pc'[r] = "decide"
    PROVE  role'[Target(r)] = role[Target(r)] /\ status'[Target(r)] = status[Target(r)]
<1>1. Target(r) \in Member /\ holder[Target(r)] = r /\ status[Target(r)] # "absent"
    BY DEF IInv, TypeOK, TargetIsLocked, Params, Target
<1>2. CASE UNCHANGED rows
    BY <1>2 DEF rows
<1>3. ASSUME NEW n \in Member, CreateOrganization(n) \/ Join(n)
      PROVE  role'[Target(r)] = role[Target(r)] /\ status'[Target(r)] = status[Target(r)]
    <2>1. n # Target(r)
        BY <1>1, <1>3 DEF CreateOrganization, Join, OrgExists
    <2> QED
        BY <1>1, <1>3, <2>1 DEF IInv, TypeOK, CreateOrganization, Join
<1>4. ASSUME NEW s \in Request, ChangeRole(s) \/ Remove(s)
      PROVE  role'[Target(r)] = role[Target(r)] /\ status'[Target(r)] = status[Target(r)]
    <2>1. s # r
        BY <1>4, DecisionWrites
    <2>2. holder[Target(s)] = s
        BY <1>4, DecisionWrites DEF IInv, TargetIsLocked
    <2> QED
        BY <1>1, <1>4, <2>1, <2>2, DecisionWrites
<1> QED
    BY <1>2, <1>3, <1>4, RowWrites

\* The row a transaction decides on cannot change under it.
THEOREM DecisionsAreNotStale == Spec => DecisionIsNotStale
<1>1. IInv /\ [Next]_vars =>
        [\A r \in Request :
            pc[r] = "decide" /\ pc'[r] = "decide" =>
               /\ role'[Target(r)] = role[Target(r)]
               /\ status'[Target(r)] = status[Target(r)]]_vars
    BY DecisionIsNotStaleStep
<1> QED
    BY <1>1, Invariant, PTL DEF Spec, DecisionIsNotStale

-----------------------------------------------------------------------------
(* Refinement: a write is a step of the policy, all else is a stutter. *)

\* The initial rows are the initial rows of the policy.
LEMMA InitRefines == Init => Policy!Init
BY DEF Init, Policy!Init

\* An insertion is an insertion of the policy.
LEMMA InsertRefines ==
    ASSUME NEW m \in Member, CreateOrganization(m) \/ Join(m)
    PROVE  Policy!Next
<1>1. CASE CreateOrganization(m)
    <2>1. Policy!Found(m)
        BY <1>1 DEF CreateOrganization, OrgExists, Policy!Found, Policy!OrgExists
    <2> QED
        BY <2>1 DEF Policy!Next
<1>2. CASE Join(m)
    <2>1. \E newRole \in Policy!Role : Policy!Join(m, newRole)
        BY <1>2 DEF Join, OrgExists, Role, Policy!Role, Policy!Join, Policy!OrgExists
    <2> QED
        BY <2>1 DEF Policy!Next
<1> QED
    BY <1>1, <1>2

\* A committed role change is one the policy allows at that instant.
LEMMA ChangeRoleRefines ==
    ASSUME IInv, NEW r \in Request, ChangeRole(r)
    PROVE  Policy!Next
<1> DEFINE actor   == req[r].actor
           target  == Target(r)
           newRole == req[r].newRole
<1>1. pc[r] = "decide" /\ Permitted(r) /\ req[r].op = "change"
    BY DEF ChangeRole
<1>2. newRole \in Policy!Role /\ newRole \in Role
    BY <1>1 DEF IInv, TypeOK, Params, Role, Policy!Role
<1>3. /\ actor \in Member /\ target \in Member
      /\ status[target] = "active" /\ OrgOf[actor] = OrgOf[target]
    BY <1>1, PermittedIsSafe
<1>4. "owner" \in {role[target], newRole} => Policy!OwnerActs(actor, target)
    BY <1>1, <1>3, PermittedIsSafe
    DEF TouchesOwner, IsActiveOwner, Policy!OwnerActs, Policy!IsActiveOwner
<1>5. role[target] = "owner" /\ newRole # "owner" => Policy!AnotherOwner(target)
    BY <1>1, PermittedIsSafe
    DEF StripsOwner, IsActiveOwner, Policy!AnotherOwner, Policy!IsActiveOwner
<1>6. Policy!Assign(actor, target, newRole)
    BY <1>3, <1>4, <1>5 DEF ChangeRole, Policy!Assign
<1> QED
    BY <1>2, <1>3, <1>6 DEF Policy!Next

\* A committed removal is one the policy allows at that instant.
LEMMA RemoveRefines ==
    ASSUME IInv, NEW r \in Request, Remove(r)
    PROVE  Policy!Next
<1> DEFINE actor  == req[r].actor
           target == Target(r)
<1>1. pc[r] = "decide" /\ Permitted(r) /\ req[r].op = "remove"
    BY DEF Remove
<1>2. /\ actor \in Member /\ target \in Member
      /\ status[target] = "active" /\ OrgOf[actor] = OrgOf[target]
    BY <1>1, PermittedIsSafe
<1>3. role[target] = "owner" =>
         Policy!OwnerActs(actor, target) /\ Policy!AnotherOwner(target)
    BY <1>1, <1>2, PermittedIsSafe
    DEF TouchesOwner, StripsOwner, IsActiveOwner,
        Policy!OwnerActs, Policy!AnotherOwner, Policy!IsActiveOwner
<1>4. Policy!Expel(actor, target)
    BY <1>2, <1>3 DEF Remove, Policy!Expel
<1> QED
    BY <1>2, <1>4 DEF Policy!Next

\* The locking protocol implements the atomic ownership policy.
THEOREM Refinement == Spec => ImplementsPolicy
<1>1. IInv /\ [Next]_vars => [Policy!Next]_(Policy!vars)
    <2> SUFFICES ASSUME IInv, [Next]_vars PROVE [Policy!Next]_(Policy!vars)
        OBVIOUS
    <2>1. CASE UNCHANGED rows
        BY <2>1 DEF rows, Policy!vars
    <2>2. CASE \E m \in Member : CreateOrganization(m) \/ Join(m)
        BY <2>2, InsertRefines
    <2>3. CASE \E r \in Request : ChangeRole(r) \/ Remove(r)
        BY <2>3, ChangeRoleRefines, RemoveRefines
    <2> QED
        BY <2>1, <2>2, <2>3, RowWrites
<1> QED
    BY <1>1, InitRefines, Invariant, PTL DEF Spec, ImplementsPolicy, Policy!Spec

=============================================================================
