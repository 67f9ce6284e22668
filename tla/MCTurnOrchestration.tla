------------------------- MODULE MCTurnOrchestration -------------------------
(* Bounded instances of TurnOrchestration for TLC. *)
EXTENDS TurnOrchestration

\* A change of the session meets any of the other disturbances; of those there
\* is one at most.
OneOther ==
  (MaxResends - left.resends) + (MaxCrashes - left.crashes) + (MaxStops - left.stops) <= 1
=============================================================================
