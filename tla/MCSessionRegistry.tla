------------------------- MODULE MCSessionRegistry -------------------------
(* Bounded instances of SessionRegistry for TLC. *)
EXTENDS SessionRegistry
=============================================================================
