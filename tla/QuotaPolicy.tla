----------------------------- MODULE QuotaPolicy -----------------------------
(***************************************************************************)
(* What the plan of an organization promises about its projects and API    *)
(* keys: one more is created only under a plan that grants the kind and    *)
(* has room for it at that instant, and stays until it is given up.  A     *)
(* change of plan takes nothing away.  Resources.tla implements this.      *)
(***************************************************************************)
EXTENDS Naturals, FiniteSets

CONSTANTS
    Kind,     \* kinds of counted resources
    Id,       \* their rows
    Plan,     \* the plans of the catalog
    Ceiling   \* [Plan -> [Kind -> Nat]], 0 where the plan does not grant it

VARIABLES
    active,   \* the resources of each kind that count
    plan      \* the plan in force

vars == <<active, plan>>

Init ==
    /\ active = [k \in Kind |-> {}]
    /\ plan \in Plan

Create(k, x) ==
    /\ \A j \in Kind : x \notin active[j]
    /\ Cardinality(active[k]) < Ceiling[plan][k]
    /\ active' = [active EXCEPT ![k] = @ \cup {x}]
    /\ UNCHANGED plan

\* Any number at once: the clock retires keys by itself.
GiveUp ==
    /\ active' \in [Kind -> SUBSET Id]
    /\ \A k \in Kind : active'[k] \subseteq active[k]
    /\ UNCHANGED plan

SetPlan(p) == plan' = p /\ UNCHANGED active

Next ==
    \/ \E k \in Kind, x \in Id : Create(k, x)
    \/ GiveUp
    \/ \E p \in Plan : SetPlan(p)

Spec == Init /\ [][Next]_vars
=============================================================================
