--------------------------- MODULE MCConnections ---------------------------
(* Connections on small instances; the cfg files give the constants.       *)
EXTENDS Connections
=============================================================================
