-------------------------- MODULE MC_RefreshTokens --------------------------
(* Small instances of RefreshTokens. *)
EXTENDS RefreshTokens, TLC

MCSymmetry == Permutations(Session) \cup Permutations(Token) \cup Permutations(Request)
=============================================================================
