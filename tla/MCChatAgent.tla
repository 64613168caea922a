---------------------------- MODULE MCChatAgent -----------------------------
(* ChatAgent on small instances; the cfg files give the constants.         *)
EXTENDS ChatAgent, TLC

Symmetry == Permutations(Posts) \cup Permutations(Sessions)
=============================================================================
