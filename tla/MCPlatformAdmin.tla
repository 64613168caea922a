-------------------------- MODULE MCPlatformAdmin --------------------------
EXTENDS PlatformAdmin, TLC

Symmetry == Permutations(Calls) \cup Permutations(Users \ Seeds)
=============================================================================
