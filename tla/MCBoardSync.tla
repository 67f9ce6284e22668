---------------------------- MODULE MCBoardSync ----------------------------
EXTENDS BoardSync
CONSTANTS s1, s2

\* Where another window takes part, both change the shape that was drawn before
\* the session; where the student is alone, every shape.  No action that must
\* happen leaves these states.
AnotherWindow ==
    left.foreign < MaxForeign =>
        \A s \in Shapes \ Drawn : canvas[s] = 0 /\ deleted[s] = 0 /\ board[s] = 0
=============================================================================
