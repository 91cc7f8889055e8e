--------------------------- MODULE MC_MemberAdmin ---------------------------
(* Small instances of MemberAdmin. *)
EXTENDS MemberAdmin, TLC

CONSTANTS OrgA, OrgB, r1, r2

\* Three memberships of one organization.
MCOneOrg   == [m \in 1..3 |-> OrgA]
\* Two organizations, the ids of one on both sides of the other's.
MCTwoOrgs  == (1 :> OrgA) @@ (2 :> OrgB) @@ (3 :> OrgA)
MCRequests == Permutations({r1, r2})
=============================================================================
