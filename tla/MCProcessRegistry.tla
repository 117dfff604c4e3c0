------------------------- MODULE MCProcessRegistry -------------------------
(* Two workers, two keys, overlapping capability sets. *)
EXTENDS ProcessRegistry

CONSTANTS k1, k2

MCCapabilitySets ==
  LET reg(k, allow) == [key |-> k, allow |-> allow]
  IN  {<<>>, <<reg(k1, {"cancel"})>>, <<reg(k2, {}), reg(k1, {"cancel"})>>}
=============================================================================
