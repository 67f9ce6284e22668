-------------------------- MODULE MCSupervisedProcess --------------------------
(* SupervisedProcess on small sets of executions. *)
EXTENDS SupervisedProcess
=============================================================================
