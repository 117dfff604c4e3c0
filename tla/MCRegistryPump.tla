--------------------------- MODULE MCRegistryPump ---------------------------
(* A few pushes of two distinguishable updates. *)
EXTENDS RegistryPump
=============================================================================
