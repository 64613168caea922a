------------------------- MODULE MCSweepScheduling -------------------------
(* SweepScheduling on small instances.                                     *)
EXTENDS SweepScheduling
=============================================================================
