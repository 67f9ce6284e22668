------------------------------ MODULE QuantTrading ------------------------------
(***************************************************************************)
(* A Quant Trading session: the trading game of local-compute, the         *)
(* coordinator that plays one round for each accepted action and stores    *)
(* it, the reducer that admits what is stored, and browser tabs that show  *)
(* the game and act on what they show.                                     *)
(*                                                                         *)
(* The server keeps no engine: every command plays the stored actions      *)
(* again on the stored definition and goes on from there, and so does      *)
(* Engine below.  The seed is what it decides: who trades in each round.   *)
(*                                                                         *)
(* Abstractions: prices are ticks; money is counted in parts of a tick, so *)
(* fine that an average cost is exact; a quote has few prices and sizes;   *)
(* a command of the writer is one step.                                    *)
(***************************************************************************)
EXTENDS Integers, FiniteSets, OrderBook

CONSTANTS
  Tabs,           \* browser tabs on the session
  Quotes,         \* quotes a candidate makes
  Definitions,    \* scenarios: flow and fair value of each round, and the limits that hold
  Rounds,         \* plannedRounds
  MaxPosition,    \* riskLimits.maxPosition
  StopLoss,       \* riskLimits.stopLossThreshold
  MaxDrawdown,    \* riskLimits.maxDrawdown
  MaxQuoteSize,   \* maxQuoteSize
  NoiseSize,      \* noiseTradeSize
  NoiseSpread,    \* maxNoiseSpread
  Unit,           \* parts of a tick
  MaxLoads,       \* bound on loads of the state that nothing requires
  MaxDisturbances \* bound on lost requests, left tabs and inputs

ASSUME QuantAssumption ==
  /\ {Rounds, MaxPosition, StopLoss, MaxDrawdown, MaxQuoteSize, NoiseSize, NoiseSpread, Unit} \subseteq Nat \ {0}
  /\ StopLoss <= MaxDrawdown
  /\ Quotes \subseteq [bidPrice : Nat \ {0}, bidSize : Nat \ {0}, askPrice : Nat \ {0}, askSize : Nat \ {0}]
  /\ \A quote \in Quotes : quote.bidPrice < quote.askPrice
  /\ \A d \in Definitions :
       /\ d.flow \in [1 .. Rounds -> {"NO_TRADE", "INFORMED", "NOISE_BUY", "NOISE_SELL"}]
       /\ d.fair \in [1 .. Rounds -> Nat \ {0}] /\ \A r \in 1 .. Rounds : d.fair[r] % 2 = 0
       /\ {d.hardPositionLimit, d.stopOnRiskBreach} \subseteq BOOLEAN

VARIABLES
  definition,    \* quantTrading.definition
  history,       \* quantTrading.actions and rounds
  result,        \* quantTrading.result, or Open
  status,        \* status of the session
  input,         \* an input episode is ACTIVE, or an utterance CAPTURING
  output,        \* output is prepared or on its way
  tab,           \* what each tab shows and waits for
  orphans,       \* actions on their way that no tab waits for
  loads,         \* loads of the state
  disturbances   \* lost requests, left tabs and inputs

vars == <<definition, history, result, status, input, output, tab, orphans, loads, disturbances>>

Pass == [bidPrice |-> 0, bidSize |-> 0, askPrice |-> 0, askSize |-> 0]

Actions == Quotes \cup {Pass}

Open == [status |-> "ACTIVE", rounds |-> 0, value |-> 0]

-----------------------------------------------------------------------------
(* PortfolioTracker.                                                       *)

Least(a, b) == IF a < b THEN a ELSE b
Greatest(a, b) == IF a > b THEN a ELSE b
Abs(n) == IF n < 0 THEN -n ELSE n

NewPortfolio == [cash |-> 0, position |-> 0, basis |-> 0, realized |-> 0, peak |-> 0, drawdown |-> 0]

\* applyFill: a fill with the position adds to its cost; one against it realizes what it closes, at the average
\* cost, and what it turns begins at its own price.
ApplyFill(p, fill) ==
  LET notional == fill.price * fill.size * Unit
      signed == IF fill.side = "BUY" THEN fill.size ELSE -fill.size
      held == Abs(p.position)
      closed == Least(fill.size, held)
      average == IF held = 0 THEN 0 ELSE p.basis \div held
      gain == IF fill.side = "SELL" THEN fill.price * Unit - average ELSE average - fill.price * Unit
      moved == [p EXCEPT !.cash = IF fill.side = "BUY" THEN @ - notional ELSE @ + notional, !.position = @ + signed]
  IN IF p.position * signed >= 0
     THEN [moved EXCEPT !.basis = @ + notional]
     ELSE [moved EXCEPT !.realized = @ + gain * closed,
                        !.basis = IF fill.size < held THEN average * (held - fill.size)
                                                      ELSE (fill.size - closed) * fill.price * Unit]

PortfolioValue(p, fair) == p.cash + p.position * fair * Unit

UnrealizedPnL(p, fair) ==
  IF p.position >= 0 THEN p.position * fair * Unit - p.basis ELSE p.basis + p.position * fair * Unit

UpdateMarkPrice(p, fair) ==
  LET peak == Greatest(p.peak, PortfolioValue(p, fair))
  IN [p EXCEPT !.peak = peak, !.drawdown = Greatest(@, peak - PortfolioValue(p, fair))]

CheckRiskLimits(p, fair) ==
  \/ Abs(p.position) > MaxPosition
  \/ p.realized + UnrealizedPnL(p, fair) < -StopLoss * Unit
  \/ p.peak - PortfolioValue(p, fair) > MaxDrawdown * Unit

-----------------------------------------------------------------------------
(* QuantTraderInterviewEngine: e is an engine, d its definition.           *)

\* applyFairValueUpdateForCurrentRound.
FairValueUpdate(d, e) ==
  LET fair == d.fair[e.round]
      marked == [e EXCEPT !.fair = fair, !.portfolio = UpdateMarkPrice(@, fair)]
  IN CASE fair = e.fair -> e
       [] fair # e.fair /\ ~CheckRiskLimits(marked.portfolio, fair) -> marked
       [] OTHER -> [marked EXCEPT !.breaches = @ + 1, !.status = IF d.stopOnRiskBreach THEN "RISK_STOPPED" ELSE @]

NewEngine(d) ==
  [status |-> "ACTIVE", round |-> 1, fair |-> d.fair[1], portfolio |-> NewPortfolio,
   book |-> EmptyBook({"STUDENT", "NOISE_MARKET_MAKER"}), breaches |-> 0]

\* validateQuote: with a hard limit, either side filled in full has to stay within it.
ValidQuote(d, e, quote) ==
  /\ quote.bidSize <= MaxQuoteSize /\ quote.askSize <= MaxQuoteSize
  /\ d.hardPositionLimit => /\ e.portfolio.position + quote.bidSize <= MaxPosition
                            /\ e.portfolio.position - quote.askSize >= -MaxPosition

\* Mutant: every fill of the order is the student's.
AttributeAll(fills, side) ==
  [i \in DOMAIN fills |-> [side |-> Opposite(side), price |-> fills[i].price, size |-> fills[i].size]]

\* attributeStudentFills: those of the student's own orders, seen from his side.
StudentFills(fills, side) ==
  LET own == Only(fills, {fill \in Range(fills) : fill.order[2] = "STUDENT"})
  IN [i \in DOMAIN own |-> [side |-> Opposite(side), price |-> own[i].price, size |-> own[i].size]]

Traded(book, side, plan) ==
  [book |-> CommitMatchPlan(book, side, plan), fills |-> StudentFills(plan.fills, side)]

\* executeMarketOrder.
Incoming(book, side, size) == Traded(book, side, PlanMatch(book, side, size))

\* simulateInformedFlow: who knows the fair value takes all of a side that is wrong.
InformedFlow(book, quote, fair) ==
  LET buys == fair - quote.askPrice
      sells == quote.bidPrice - fair
  IN IF quote = Pass \/ (buys <= 0 /\ sells <= 0)
     THEN [book |-> book, fills |-> <<>>]
     ELSE Incoming(book, IF buys >= sells THEN "BUY" ELSE "SELL", IF buys >= sells THEN quote.askSize ELSE quote.bidSize)

\* simulateNoiseFlow: a trade of fixed size, for which another maker competes with a wide quote.
NoiseFlow(book, side, fair) ==
  LET passive == [bidPrice |-> Greatest(fair \div 2, fair - NoiseSpread), bidSize |-> NoiseSize,
                  askPrice |-> fair + NoiseSpread, askSize |-> NoiseSize]
      traded == Incoming(SetQuotes(book, "NOISE_MARKET_MAKER", passive), side, NoiseSize)
  IN [traded EXCEPT !.book = CancelMakerQuotes(@, "NOISE_MARKET_MAKER")]

OrderFlow(flow, book, quote, fair) ==
  CASE flow = "INFORMED" -> InformedFlow(book, quote, fair)
    [] flow \in {"NOISE_BUY", "NOISE_SELL"} -> NoiseFlow(book, IF flow = "NOISE_BUY" THEN "BUY" ELSE "SELL", fair)
    [] OTHER -> [book |-> book, fills |-> <<>>]

Quoted(book, quote) == IF quote = Pass THEN CancelMakerQuotes(book, "STUDENT") ELSE SetQuotes(book, "STUDENT", quote)

Settle(portfolio, fills, fair) == UpdateMarkPrice(FoldLeft(ApplyFill, portfolio, fills), fair)

\* The engine goes to the next round, if the game is not over.
NextRound(d, e, breached) ==
  CASE breached /\ d.stopOnRiskBreach -> [e EXCEPT !.status = "RISK_STOPPED"]
    [] ~(breached /\ d.stopOnRiskBreach) /\ e.round >= Rounds -> [e EXCEPT !.status = "COMPLETED"]
    [] OTHER -> FairValueUpdate(d, [e EXCEPT !.round = @ + 1])

RoundOf(d, e, flow, portfolio, breached) ==
  [evidence |-> [round |-> e.round, fair |-> e.fair, fills |-> flow.fills, position |-> portfolio.position,
                 value |-> PortfolioValue(portfolio, e.fair), breached |-> breached],
   engine |-> NextRound(d, [e EXCEPT !.portfolio = portfolio, !.book = CancelMakerQuotes(flow.book, "STUDENT"),
                                     !.breaches = @ + (IF breached THEN 1 ELSE 0)], breached)]

Assess(d, e, flow, portfolio) == RoundOf(d, e, flow, portfolio, CheckRiskLimits(portfolio, e.fair))

Trade(d, e, flow) == Assess(d, e, flow, Settle(e.portfolio, flow.fills, e.fair))

\* advanceCommittedRound: what the round did, and the engine after it.
Advance(d, e, quote) == Trade(d, e, OrderFlow(d.flow[e.round], Quoted(e.book, quote), quote, e.fair))

\* The engine after the first n rounds of the history.
Replay(d, rounds) ==
  LET after[n \in 0 .. Len(rounds)] ==
        IF n = 0 THEN NewEngine(d) ELSE Advance(d, after[n - 1], rounds[n].action).engine
  IN after[Len(rounds)]

Engine == Replay(definition, history)

ResultOf(e, n) == [status |-> e.status, rounds |-> n, value |-> PortfolioValue(e.portfolio, e.fair)]

-----------------------------------------------------------------------------
(* The reducer and the coordinator.                                        *)

Counted(side, sum, fill) == IF fill.side = side THEN sum + fill.size ELSE sum

Volume(fills, side) == FoldLeft(LAMBDA sum, fill : Counted(side, sum, fill), 0, fills)

\* QUANT_TRADING_ACTION_ACCEPTED and QUANT_TRADING_ROUND_RESOLVED: whether the reducer takes them.
AdmitsRound(action, evidence) ==
  LET fills == evidence.fills
  IN /\ status = "ACTIVE" /\ result = Open
     /\ evidence.round = Len(history) + 1
     /\ IF action = Pass
        THEN fills = <<>>
        ELSE /\ \A i \in DOMAIN fills :
                  fills[i].price = IF fills[i].side = "BUY" THEN action.bidPrice ELSE action.askPrice
             /\ Volume(fills, "BUY") <= action.bidSize
             /\ Volume(fills, "SELL") <= action.askSize

\* QUANT_TRADING_SCENARIO_COMPLETED.
AdmitsResult(r, rounds) ==
  /\ rounds # <<>>
  /\ r.rounds = Len(rounds) /\ r.rounds <= Rounds
  /\ r.status = "COMPLETED" => r.rounds = Rounds

ValidAction(e, action) == action = Pass \/ ValidQuote(definition, e, action)

Outcome(action, played, rounds) ==
  [engine |-> played.engine, rounds |-> rounds, over |-> played.engine.status # "ACTIVE",
   result |-> ResultOf(played.engine, Len(rounds)), admitted |-> AdmitsRound(action, played.evidence)]

Stored(action, played) == Outcome(action, played, Append(history, [action |-> action, evidence |-> played.evidence]))

\* What comes of an action, of the engine e.
Play(e, action) == Stored(action, Advance(definition, e, action))

\* applyAction goes through.
Accepts(expectedRound, action, e, played) ==
  /\ status = "ACTIVE"
  /\ e.round = expectedRound
  /\ ValidAction(e, action)
  /\ played.over => ~input /\ AdmitsResult(played.result, played.rounds)
  /\ played.admitted

\* Mutant: whether the game is over is told from the number of the round only.
CommitUnfinished(played) ==
  LET over == Len(played.rounds) = Rounds
  IN /\ history' = played.rounds
     /\ result' = IF over THEN played.result ELSE Open
     /\ status' = IF over THEN "COMPLETED" ELSE status
     /\ output' = (output /\ ~over)

\* The round is stored; one that ends the game also withdraws the output, and completes the session.
Commit(played) ==
  /\ history' = played.rounds
  /\ result' = IF played.over THEN played.result ELSE Open
  /\ status' = IF played.over THEN "COMPLETED" ELSE status
  /\ output' = (output /\ ~played.over)

\* replayQuantTradingSessionState, of the state after a command.
Shown(e) == [round |-> e.round, fair |-> e.fair, over |-> e.status # "ACTIVE"]

PublicState(rounds) == Shown(Replay(definition, rounds))

-----------------------------------------------------------------------------
(* The session.                                                            *)

None == [round |-> 0, fair |-> 0, over |-> FALSE]

Idle == [call |-> "none", expected |-> 0, action |-> Pass, ok |-> FALSE, answer |-> None]

Empty == [shown |-> None, reads |-> {}, act |-> Idle]

Init ==
  /\ definition \in Definitions
  /\ history = <<>>
  /\ result = Open
  /\ status = "ACTIVE"
  /\ input = FALSE
  /\ output = FALSE
  /\ tab = [t \in Tabs |-> Empty]
  /\ orphans = {}
  /\ loads = 0
  /\ disturbances = 0

\* The other commands of the session: input begins and is resolved, an answer to it is prepared.
BeginInput ==
  /\ status = "ACTIVE" /\ ~input
  /\ disturbances < MaxDisturbances
  /\ disturbances' = disturbances + 1
  /\ input' = TRUE
  /\ output' = FALSE
  /\ UNCHANGED <<definition, history, result, status, tab, orphans, loads>>

ResolveInput ==
  /\ input
  /\ input' = FALSE
  /\ output' \in BOOLEAN
  /\ UNCHANGED <<definition, history, result, status, tab, orphans, loads, disturbances>>

\* archiveSession.  The server and the reducer refuse it of an active session, and never take completeSession: the
\* game alone completes the session.
ArchiveSession ==
  /\ status = "COMPLETED" /\ ~input
  /\ status' = "ARCHIVED"
  /\ UNCHANGED <<definition, history, result, input, output, tab, orphans, loads, disturbances>>

-----------------------------------------------------------------------------
(* The tabs.                                                               *)

Keep == UNCHANGED <<definition, history, result, status, input, output>>

\* A later read or action makes the reads that are under way stale: quantReadEpoch.
Stale(x) == [x EXCEPT !.reads = {[r EXCEPT !.current = FALSE] : r \in @}]

Read(x) == [Stale(x) EXCEPT !.reads = @ \cup {[current |-> TRUE, answered |-> FALSE, answer |-> None]}]

Loading(t) == \E r \in tab[t].reads : r.current

\* refreshQuantState, by the button or because the page is visible again; neither while an action is pending.
Load(t) ==
  /\ tab[t].act.call = "none"
  /\ loads < MaxLoads
  /\ loads' = loads + 1
  /\ tab' = [tab EXCEPT ![t] = Read(@)]
  /\ Keep /\ UNCHANGED <<orphans, disturbances>>

\* GET_QUANT_SESSION_STATE.
Answer(t, r) ==
  /\ ~r.answered
  /\ tab' = [tab EXCEPT ![t].reads = (@ \ {r}) \cup {[r EXCEPT !.answered = TRUE, !.answer = PublicState(history)]}]
  /\ Keep /\ UNCHANGED <<orphans, loads, disturbances>>

\* Mutant: every answer is shown.
HeardAlways(r) == TRUE

\* The answer of a stale read is not looked at.
Heard(r) == r.current

\* The tab after a read: with the read that follows a refusal, the action is no longer pending.
After(x, r, shown) ==
  [x EXCEPT !.reads = @ \ {r},
            !.shown = IF Heard(r) THEN shown ELSE @,
            !.act = IF r.current /\ @.call = "settling" THEN Idle ELSE @]

Loaded(t, r) ==
  /\ r.answered
  /\ tab' = [tab EXCEPT ![t] = After(@, r, r.answer)]
  /\ Keep /\ UNCHANGED <<orphans, loads, disturbances>>

LoadFails(t, r) ==
  /\ disturbances < MaxDisturbances
  /\ disturbances' = disturbances + 1
  /\ tab' = [tab EXCEPT ![t] = After(@, r, None)]
  /\ Keep /\ UNCHANGED <<orphans, loads>>

\* submitQuantTradingAction; the controls are disabled while the state is loading.
Submit(t, action) ==
  /\ tab[t].shown # None /\ ~tab[t].shown.over /\ tab[t].act.call = "none" /\ ~Loading(t)
  /\ tab' = [tab EXCEPT ![t] = [Stale(@) EXCEPT !.act = [Idle EXCEPT !.call = "sent", !.expected = tab[t].shown.round,
                                                                     !.action = action]]]
  /\ Keep /\ UNCHANGED <<orphans, loads, disturbances>>

\* SUBMIT_QUANT_TRADING_ACTION, of the engine e: the answer shows the state its own command left.
ApplyAction(t, act, e, played) ==
  IF Accepts(act.expected, act.action, e, played)
  THEN /\ Commit(played)
       /\ tab' = [tab EXCEPT ![t].act = [@ EXCEPT !.call = "answered", !.ok = TRUE, !.answer = PublicState(played.rounds)]]
  ELSE /\ tab' = [tab EXCEPT ![t].act = [@ EXCEPT !.call = "answered"]]
       /\ UNCHANGED <<history, result, status, output>>

Serve(t) ==
  /\ tab[t].act.call = "sent"
  /\ ApplyAction(t, tab[t].act, Engine, Play(Engine, tab[t].act.action))
  /\ UNCHANGED <<definition, input, orphans, loads, disturbances>>

CommitIfAccepted(r, e, played) == Accepts(r.expected, r.action, e, played) /\ Commit(played)

\* An action nobody waits for is served, or is lost.
ServeOrphan(r) ==
  /\ r \in orphans
  /\ orphans' = orphans \ {r}
  /\ \/ CommitIfAccepted(r, Engine, Play(Engine, r.action))
     \/ UNCHANGED <<history, result, status, output>>
  /\ UNCHANGED <<definition, input, tab, loads, disturbances>>

\* The action was accepted, or was refused: then the state is read again, and is not shown meanwhile if the
\* refusal was a conflict.
Settled(t) ==
  /\ tab[t].act.call = "answered"
  /\ IF tab[t].act.ok
     THEN tab' = [tab EXCEPT ![t] = [Stale(@) EXCEPT !.act = Idle, !.shown = tab[t].act.answer]]
     ELSE \E shown \in {None, tab[t].shown} :
            tab' = [tab EXCEPT ![t] = [Read(@) EXCEPT !.act = [Idle EXCEPT !.call = "settling"], !.shown = shown]]
  /\ Keep /\ UNCHANGED <<orphans, loads, disturbances>>

Abandoned(act) ==
  IF act.call = "sent" THEN orphans \cup {[expected |-> act.expected, action |-> act.action]} ELSE orphans

\* The outcome of the action is not known.
SubmitFails(t) ==
  /\ tab[t].act.call \in {"sent", "answered"}
  /\ disturbances < MaxDisturbances
  /\ disturbances' = disturbances + 1
  /\ orphans' = Abandoned(tab[t].act)
  /\ tab' = [tab EXCEPT ![t] = [Read(@) EXCEPT !.act = [Idle EXCEPT !.call = "settling"], !.shown = None]]
  /\ Keep /\ UNCHANGED loads

\* The tab leaves the session: nothing that is under way is waited for.
Leave(t) ==
  /\ tab[t].shown # None
  /\ disturbances < MaxDisturbances
  /\ disturbances' = disturbances + 1
  /\ orphans' = Abandoned(tab[t].act)
  /\ tab' = [tab EXCEPT ![t] = [Stale(@) EXCEPT !.act = Idle, !.shown = None]]
  /\ Keep /\ UNCHANGED loads

Next ==
  \/ BeginInput \/ ResolveInput \/ ArchiveSession
  \/ \E t \in Tabs :
       \/ Load(t) \/ Serve(t) \/ Settled(t) \/ SubmitFails(t) \/ Leave(t)
       \/ \E r \in tab[t].reads : Answer(t, r) \/ Loaded(t, r) \/ LoadFails(t, r)
       \/ \E action \in Actions : Submit(t, action)
  \/ \E r \in orphans : ServeOrphan(r)

Spec == Init /\ [][Next]_vars

-----------------------------------------------------------------------------
(* Properties.                                                             *)

TypeOK ==
  /\ definition \in Definitions
  /\ Len(history) <= Rounds
  /\ status \in {"ACTIVE", "COMPLETED", "ARCHIVED"}
  /\ {input, output} \subseteq BOOLEAN
  /\ \A t \in Tabs : tab[t].act.call \in {"none", "sent", "answered", "settling"}
  /\ \A r \in orphans : r.action \in Actions /\ r.expected \in 1 .. Rounds

\* Whatever valid action a candidate takes, the reducer takes the round that the engine makes of it, so a game
\* is never stuck because the checks of the one and the matching of the other disagree; and with a hard limit
\* no flow of orders carries the position beyond it.
Playable(played) ==
  /\ played.admitted
  /\ played.over => AdmitsResult(played.result, played.rounds)
  /\ definition.hardPositionLimit => Abs(played.engine.portfolio.position) <= MaxPosition

ValidActionsPlay ==
  status = "ACTIVE" => \A action \in Actions : ValidAction(Engine, action) => Playable(Play(Engine, action))

\* What is stored can be played again: no round after the end, the result exactly when the game is over, and
\* the session completed exactly then.  Otherwise the session could neither be read nor go on.
HistoryCanBeReplayed ==
  /\ \A n \in 0 .. Len(history) - 1 :
       LET e == Replay(definition, SubSeq(history, 1, n))
       IN e.status = "ACTIVE" /\ Advance(definition, e, history[n + 1].action).evidence = history[n + 1].evidence
  /\ result = IF Engine.status = "ACTIVE" THEN Open ELSE ResultOf(Engine, Len(history))
  /\ status # "ACTIVE" <=> result # Open
  /\ status # "ACTIVE" => ~input /\ ~output

\* What a tab shows never goes back: a late answer does not bring back a round that is over.
ShownNeverGoesBack ==
  [][\A t \in Tabs : tab[t].shown # None /\ tab'[t].shown # None => tab'[t].shown.round >= tab[t].shown.round]_vars
=============================================================================
