-------------------------- MODULE MCSessionWriter --------------------------
(* Bounded instances of SessionWriter for TLC. *)
EXTENDS SessionWriter, TLC

CONSTANTS append, note

\* One command appends two events, one appends none.
MCPrints == {append, note}
MCDrafts == (append :> 2) @@ (note :> 0)
=============================================================================
