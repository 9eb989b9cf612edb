--------------------------- MODULE MCConnections ---------------------------
(* Connections for TLC; the system stops when every client has left.        *)
EXTENDS Connections
=============================================================================
