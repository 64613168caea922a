--------------------------- MODULE MCInvitations ---------------------------
EXTENDS Invitations, TLC

Symmetry == Permutations(Users) \cup Permutations(Orgs) \cup Permutations(Invites)
                \cup Permutations(Requests)
=============================================================================
