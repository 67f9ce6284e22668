--------------------------- MODULE MCVisionEvidence ---------------------------
(* A small instance of VisionEvidence: one shape inside the region, which may
   go and come back as it was, and one outside, which may move in and out. *)
EXTENDS VisionEvidence

CONSTANTS s1, s2

MCEdits == {<<s1, "DELETE">>, <<s1, "UNDO">>, <<s2, "MOVE">>}

\* The shape outside moves only where the server does not stop: what moves into
\* the region and what goes from it are stale alike for a recovery.  No action
\* that must happen leaves these states.
OneDisturbance == crashes = 0 \/ \A s \in Shapes \ Inside : board.shape[s].rev = 1
===============================================================================
