---------------------------- MODULE MCEnrollment ----------------------------
(* Enrollment on small instances.  The slots and the processes are         *)
(* interchangeable.                                                        *)
EXTENDS Enrollment, TLC

\* A claim after a process's first follows a fault: there are always enough.
ASSUME EnoughCreds == Cardinality(Cred) >= Cardinality(Process) + MaxFaults

Symmetry == Permutations(ClaimSlot) \cup Permutations(BearerSlot)
            \cup Permutations(Process)
=============================================================================
