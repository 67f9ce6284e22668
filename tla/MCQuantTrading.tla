----------------------------- MODULE MCQuantTrading -----------------------------
(* QuantTrading: every game a single tab plays without a disturbance, and a game two tabs play with them. *)
EXTENDS QuantTrading

\* Somebody comes to trade in every round; or nobody does in the second, with a position open.
Flows == [1 .. 3 -> {"INFORMED", "NOISE_BUY", "NOISE_SELL"}] \cup {<<"NOISE_SELL", "NO_TRADE", "INFORMED">>}

Limits(limited, flow, fair) == [hardPositionLimit |-> limited, stopOnRiskBreach |-> limited, flow |-> flow, fair |-> fair]

\* The fair value moves before the second or the third round.
GameDefinitions ==
  {Limits(limited, flow, fair) :
     limited \in BOOLEAN, flow \in Flows, fair \in {<<10, 14, 14>>, <<10, 10, 6>>}}

\* A quote that is hit in the first round leaves a position with which the hard limit refuses the next quote, and the
\* fair value ends that game early; after a pass, the position of the second round is met by the quote of the third.
SharedDefinitions == {Limits(TRUE, <<"NOISE_BUY", "NOISE_SELL", "INFORMED">>, <<10, 12, 16>>)}

MCDefinitions == GameDefinitions \cup SharedDefinitions

Pair(bid, ask, bidSize, askSize) == [bidPrice |-> bid, askPrice |-> ask, bidSize |-> bidSize, askSize |-> askSize]

\* A quote around the fair value, a wide one at the prices of the other maker, and one that the fair value has to rise to.
SharedQuotes == {Pair(9, 11, 1, 2)}
MCQuotes == SharedQuotes \cup {Pair(6, 14, 1, 1), Pair(11, 13, 2, 2)}

\* One tab loads the state once and plays: what follows a round it shows from the answer to its action.
Alone == disturbances = 0 /\ loads <= 1 /\ \E t \in Tabs : \A u \in Tabs \ {t} : tab[u] = Empty

Shared == \A t \in Tabs : tab[t].act.action \in SharedQuotes \cup {Pass}

OneOrShared == IF definition \in SharedDefinitions THEN Shared ELSE Alone

TabSymmetry == Permutations(Tabs)
=============================================================================
