----------------------------- MODULE MCActivity -----------------------------
(* Activity on small instances; the cfg files give the constants.          *)
EXTENDS Activity, TLC

Symmetry == Permutations(Invocations) \cup Permutations(Callers) \cup Permutations(Replicas)
=============================================================================
