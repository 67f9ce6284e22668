------------------------ MODULE MCReasoningAnalysis ------------------------
(***************************************************************************)
(* ReasoningAnalysis with two calls over two turns, one correction and     *)
(* one stop.                                                               *)
(***************************************************************************)
EXTENDS ReasoningAnalysis
=============================================================================
