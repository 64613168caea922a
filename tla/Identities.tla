----------------------------- MODULE Identities -----------------------------
(* What the modules about organisations and about the platform admins have *)
(* in common: the users, and what stands for a null.                       *)
CONSTANTS Users,        \* users
          None

ASSUME NoneIsNoUser == None \notin Users
=============================================================================
