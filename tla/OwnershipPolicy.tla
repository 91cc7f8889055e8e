-------------------------- MODULE OwnershipPolicy --------------------------
(***************************************************************************)
(* What member administration promises, without transactions or locks:     *)
(* every role change and removal is one step, judged on the organization   *)
(* as it is at that step.                                                  *)
(***************************************************************************)
CONSTANTS Member, Org, OrgOf

VARIABLES status, role

vars == <<status, role>>

Role == {"owner", "admin", "member"}

IsActiveOwner(m) == status[m] = "active" /\ role[m] = "owner"
OrgExists(o)     == \E m \in Member : OrgOf[m] = o /\ status[m] # "absent"

Init ==
    /\ status = [m \in Member |-> "absent"]
    /\ role   = [m \in Member |-> "member"]

Found(m) ==
    /\ ~OrgExists(OrgOf[m])
    /\ status' = [status EXCEPT ![m] = "active"]
    /\ role'   = [role EXCEPT ![m] = "owner"]

Join(m, newRole) ==
    /\ OrgExists(OrgOf[m])
    /\ status[m] = "absent"
    /\ status' = [status EXCEPT ![m] = "active"]
    /\ role'   = [role EXCEPT ![m] = newRole]

\* The actor owns the target's organization now.
OwnerActs(actor, target) ==
    IsActiveOwner(actor) /\ OrgOf[actor] = OrgOf[target]

\* Someone other than the target owns its organization now.
AnotherOwner(target) ==
    \E other \in Member \ {target} :
        IsActiveOwner(other) /\ OrgOf[other] = OrgOf[target]

Assign(actor, target, newRole) ==
    /\ status[target] = "active"
    /\ OrgOf[actor] = OrgOf[target]
    /\ "owner" \in {role[target], newRole} => OwnerActs(actor, target)
    /\ role[target] = "owner" /\ newRole # "owner" => AnotherOwner(target)
    /\ role' = [role EXCEPT ![target] = newRole]
    /\ UNCHANGED status

Expel(actor, target) ==
    /\ status[target] = "active"
    /\ OrgOf[actor] = OrgOf[target]
    /\ role[target] = "owner" => OwnerActs(actor, target) /\ AnotherOwner(target)
    /\ status' = [status EXCEPT ![target] = "removed"]
    /\ UNCHANGED role

Next ==
    \E m \in Member :
        \/ Found(m)
        \/ \E newRole \in Role : Join(m, newRole)
        \/ \E actor \in Member :
              \/ \E newRole \in Role : Assign(actor, m, newRole)
              \/ Expel(actor, m)

Spec == Init /\ [][Next]_vars
=============================================================================
