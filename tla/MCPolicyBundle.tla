--------------------------- MODULE MCPolicyBundle ---------------------------
(* PolicyBundle on small instances; the cfg files choose which of the      *)
(* tables are populated.                                                   *)
EXTENDS PolicyBundle, TLC

\* Callers are interchangeable (safety only).
Symmetry == Permutations(Caller)
=============================================================================
