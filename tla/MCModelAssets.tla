---------------------------- MODULE MCModelAssets ----------------------------
EXTENDS ModelAssets
CONSTANTS m1, m2, a1, a2, c1, c2, t1

\* Only the first manager has a limit; the two artifacts fill it, and what a
\* crash or a failed removal leaves behind is then too much.
MCSize     == [a \in Artifacts |-> IF a = a1 THEN 1 ELSE 2]
MCLimit    == [m \in {m1} |-> 3]
MCRequests == [c \in Clients |-> IF c = c1 THEN {<<m1, a1>>} ELSE Managers \X Artifacts]
=============================================================================
