--------------------------- MODULE MCRendererStream ---------------------------
(* Bounded instances of RendererStream for TLC. *)
EXTENDS RendererStream, TLC

Symmetry == Permutations(Connections) \cup Permutations(Deliveries)

=============================================================================
