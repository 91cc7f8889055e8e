--------------------------- MODULE MC_Invitations ---------------------------
(* Small instances of Invitations. *)
EXTENDS Invitations, TLC

CONSTANTS founder, e1, e2, i1, i2, i3, r1, r2

\* A small plan and a larger one.
MCMaxMembers == [p \in Plan |-> IF p = "free" THEN 2 ELSE 3]
MCSymmetry   == Permutations({e1, e2}) \cup Permutations({i1, i2, i3}) \cup Permutations({r1, r2})
=============================================================================
