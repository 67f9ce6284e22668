------------------------- MODULE MCInterviewSession -------------------------
(* A small session for TLC.  Ids are interchangeable, as they are in the code, *)
(* where they are random. *)
EXTENDS InterviewSession, TLC

Symmetry == Permutations(Generations) \cup Permutations(Atoms) \cup
            Permutations(Episodes)
=============================================================================
