-------------------------- MODULE QuantTradingProofs --------------------------
(***************************************************************************)
(* Theorems about QuantTrading for any scenarios, limits, quotes, number   *)
(* of rounds and tabs: what is stored can be played again, what a tab      *)
(* shows never goes back, and every valid action can be played.            *)
(*                                                                         *)
(* The first needs what the engine is after each round of a history, by    *)
(* induction over its length; the second, in which order answers can come  *)
(* to a tab.  The third follows an action through the book: between rounds *)
(* nobody has an order in it, in a round it holds one order of each maker  *)
(* on a side at most, so the folds over a queue and over the fills of a    *)
(* plan go over two elements at most.                                      *)
(***************************************************************************)
EXTENDS QuantTrading, SequenceTheorems, WellFoundedInduction, TLAPS

-----------------------------------------------------------------------------
(* Induction over the positions of a sequence, by a least counterexample.  *)

LEMMA LeastElement ==
  ASSUME NEW S \in SUBSET Nat, S # {}
  PROVE  \E m \in S : \A k \in S : m <= k
<1> DEFINE R == OpToRel(<, Nat)
<1>1. IsWellFoundedOn(R, Nat)
  BY NatLessThanWellFounded
<1>2. \A k, m \in S : k < m => <<k, m>> \in R
  BY DEF OpToRel
<1> HIDE DEF R
<1>3. PICK m \in S : \A k \in S : <<k, m>> \notin R
  BY <1>1, WFMin
<1>4. \A k \in S : ~(k < m)
  BY <1>2, <1>3
<1>5. \A k \in S : m <= k
  BY <1>4
<1> QED BY <1>5

\* A set that holds 0, and with each number below n the next one, holds all up to n.
LEMMA UpTo ==
  ASSUME NEW n \in Nat, NEW S, 0 \in S, \A k \in 0 .. n - 1 : k \in S => k + 1 \in S
  PROVE  \A k \in 0 .. n : k \in S
<1> DEFINE U == {k \in 0 .. n : k \notin S}
<1>1. SUFFICES ASSUME U # {} PROVE FALSE
  OBVIOUS
<1>2. U \in SUBSET Nat
  OBVIOUS
<1>3. PICK m \in U : \A k \in U : m <= k
  BY <1>1, <1>2, LeastElement
<1>4. m # 0
  OBVIOUS
<1>5. m - 1 \in 0 .. n - 1 /\ m - 1 \notin U
  BY <1>3, <1>4
<1> QED BY <1>5

-----------------------------------------------------------------------------
(* What a history replays to. *)

\* f goes through the engines after 0, 1, ... rounds.
Engines(d, rounds, f) ==
  f = [n \in 0 .. Len(rounds) |->
         IF n = 0 THEN NewEngine(d) ELSE Advance(d, f[n - 1], rounds[n].action).engine]

LEMMA EnginesExist ==
  ASSUME NEW d, NEW rounds, Len(rounds) \in Nat
  PROVE  \E f : Engines(d, rounds, f)
<1> DEFINE N == Len(rounds)
           Step(n, e) == Advance(d, e, rounds[n].action).engine
           Upto(n, f) == f = [k \in 0 .. n |-> IF k = 0 THEN NewEngine(d) ELSE Step(k, f[k - 1])]
           S == {n \in 0 .. N : \E f : Upto(n, f)}
<1>1. 0 \in S
  <2> DEFINE f == [k \in 0 .. 0 |-> NewEngine(d)]
  <2>1. Upto(0, f)
    <3> HIDE DEF Step
    <3> QED OBVIOUS
  <2> HIDE DEF Upto, f
  <2> QED BY <2>1
<1>2. ASSUME NEW n \in 0 .. N - 1, n \in S PROVE n + 1 \in S
  <2>1. PICK f : Upto(n, f)
    BY <1>2
  <2> DEFINE g == [k \in 0 .. n + 1 |-> IF k = n + 1 THEN Step(n + 1, f[n]) ELSE f[k]]
             h == [k \in 0 .. n + 1 |-> IF k = 0 THEN NewEngine(d) ELSE Step(k, g[k - 1])]
  <2> HIDE DEF Step
  <2>2. \A k \in 0 .. n : f[k] = IF k = 0 THEN NewEngine(d) ELSE Step(k, f[k - 1])
    BY <2>1
  <2>3. \A k \in 0 .. n : g[k] = f[k]
    OBVIOUS
  <2>4. g[n + 1] = Step(n + 1, f[n])
    OBVIOUS
  <2>5. \A k \in 0 .. n + 1 : g[k] = h[k]
    <3>1. TAKE k \in 0 .. n + 1
    <3>2. CASE k = n + 1
      BY <2>3, <2>4, <3>2
    <3>3. CASE k \in 0 .. n /\ k # 0
      <4>1. k - 1 \in 0 .. n
        BY <3>3
      <4> QED BY <2>2, <2>3, <3>3, <4>1
    <3>4. CASE k = 0
      BY <2>2, <2>3, <3>4
    <3> QED BY <3>2, <3>3, <3>4
  <2>6. g = h
    BY <2>5
  <2>7. Upto(n + 1, g)
    BY <2>6
  <2> HIDE DEF Upto, g
  <2> QED BY <2>7
<1>3. N \in S
  <2>1. N \in Nat
    OBVIOUS
  <2> HIDE DEF S, N
  <2>2. \A k \in 0 .. N : k \in S
    BY <1>1, <1>2, <2>1, UpTo
  <2> QED BY <2>1, <2>2
<1>4. \E f : Upto(N, f)
  <2> HIDE DEF Upto
  <2> QED BY <1>3
<1>5. PICK f : Upto(N, f)
  BY <1>4
<1>6. Engines(d, rounds, f)
  BY <1>5, Zenon DEF Engines
<1> QED BY <1>6

LEMMA ReplayIsTheLast ==
  ASSUME NEW d, NEW rounds, Len(rounds) \in Nat
  PROVE  \E f : Engines(d, rounds, f) /\ Replay(d, rounds) = f[Len(rounds)]
<1> DEFINE after[n \in 0 .. Len(rounds)] ==
             IF n = 0 THEN NewEngine(d) ELSE Advance(d, after[n - 1], rounds[n].action).engine
<1>1. \E f : Engines(d, rounds, f)
  BY EnginesExist
<1>3. Engines(d, rounds, after)
  BY <1>1, Zenon DEF Engines
<1>2. Replay(d, rounds) = after[Len(rounds)]
  BY DEF Replay
<1> HIDE DEF after
<1> QED BY <1>2, <1>3

\* Two histories with the same actions for n rounds have the same engine after them.
LEMMA EnginesAgree ==
  ASSUME NEW d, NEW r1, NEW r2, NEW f1, NEW f2, Engines(d, r1, f1), Engines(d, r2, f2),
         Len(r1) \in Nat, Len(r2) \in Nat,
         NEW n \in Nat, n <= Len(r1), n <= Len(r2), \A k \in 1 .. n : r1[k].action = r2[k].action
  PROVE  f1[n] = f2[n]
<1> DEFINE S == {k \in 0 .. n : f1[k] = f2[k]}
<1>1. 0 \in S
  BY DEF Engines
<1>2. ASSUME NEW k \in 0 .. n - 1, k \in S PROVE k + 1 \in S
  <2>1. f1[k + 1] = Advance(d, f1[k], r1[k + 1].action).engine
    BY DEF Engines
  <2>2. f2[k + 1] = Advance(d, f2[k], r2[k + 1].action).engine
    BY DEF Engines
  <2> QED BY <1>2, <2>1, <2>2
<1>3. \A k \in 0 .. n : k \in S
  <2> HIDE DEF S
  <2> QED BY <1>1, <1>2, UpTo
<1> QED BY <1>3

\* The engine of the empty history, and of one that is a round longer.
LEMMA ReplayNothing ==
  ASSUME NEW d
  PROVE  Replay(d, <<>>) = NewEngine(d)
<1>1. PICK f : Engines(d, <<>>, f) /\ Replay(d, <<>>) = f[Len(<<>>)]
  BY ReplayIsTheLast
<1> QED BY <1>1 DEF Engines

IsSequence(s) == \E S : s \in Seq(S)

LEMMA AppendFacts ==
  ASSUME NEW s, IsSequence(s), NEW x
  PROVE  /\ IsSequence(Append(s, x)) /\ Len(s) \in Nat /\ Len(Append(s, x)) = Len(s) + 1
         /\ \A i \in 1 .. Len(s) : Append(s, x)[i] = s[i]
         /\ Append(s, x)[Len(s) + 1] = x
<1>1. PICK S : s \in Seq(S)
  BY DEF IsSequence
<1>2. s \in Seq(S \cup {x})
  BY <1>1, SeqMonotonic
<1> QED BY <1>2, AppendProperties DEF IsSequence

LEMMA ReplayOneMore ==
  ASSUME NEW d, NEW rounds, IsSequence(rounds), NEW r
  PROVE  Replay(d, Append(rounds, r)) = Advance(d, Replay(d, rounds), r.action).engine
<1> DEFINE more == Append(rounds, r)
           n == Len(rounds)
<1>1. n \in Nat /\ Len(more) = n + 1 /\ (\A i \in 1 .. n : more[i] = rounds[i]) /\ more[n + 1] = r
  BY AppendFacts
<1> HIDE DEF more, n
<1>2. PICK f : Engines(d, rounds, f) /\ Replay(d, rounds) = f[n]
  BY <1>1, ReplayIsTheLast DEF n
<1>3. PICK g : Engines(d, more, g) /\ Replay(d, more) = g[n + 1]
  BY <1>1, ReplayIsTheLast
<1>4. f[n] = g[n]
  BY <1>1, <1>2, <1>3, EnginesAgree DEF n
<1>5. g[n + 1] = Advance(d, g[n], more[n + 1].action).engine
  BY <1>1, <1>3 DEF Engines
<1> QED BY <1>1, <1>2, <1>3, <1>4, <1>5 DEF more

\* What was played before is played as before.
LEMMA ReplayBefore ==
  ASSUME NEW d, NEW rounds, IsSequence(rounds), NEW r, NEW n \in 0 .. Len(rounds)
  PROVE  /\ Replay(d, SubSeq(Append(rounds, r), 1, n)) = Replay(d, SubSeq(rounds, 1, n))
         /\ SubSeq(rounds, 1, Len(rounds)) = rounds
<1>1. PICK S : rounds \in Seq(S)
  BY DEF IsSequence
<1>2. rounds \in Seq(S \cup {r}) /\ Append(rounds, r) \in Seq(S \cup {r})
  BY <1>1, SeqMonotonic, AppendProperties
<1>3. SubSeq(Append(rounds, r), 1, n) = SubSeq(rounds, 1, n)
  <2> DEFINE a == SubSeq(Append(rounds, r), 1, n)
             b == SubSeq(rounds, 1, n)
  <2>1. \A i \in 1 .. n : Append(rounds, r)[i] = rounds[i] /\ rounds[i] \in S \cup {r}
    BY <1>2, AppendProperties, ElementOfSeq
  <2>2. a \in Seq(S \cup {r}) /\ Len(a) = n /\ \A i \in 1 .. n : a[i] = rounds[i]
    BY <2>1, SubSeqProperties
  <2>3. b \in Seq(S \cup {r}) /\ Len(b) = n /\ \A i \in 1 .. n : b[i] = rounds[i]
    BY <2>1, SubSeqProperties
  <2> HIDE DEF a, b
  <2> QED BY <2>2, <2>3, SeqEqual DEF a, b
<1>4. SubSeq(rounds, 1, Len(rounds)) = rounds
  BY <1>1, SubSeqFull
<1> QED BY <1>3, <1>4

-----------------------------------------------------------------------------
(* Engines: a round brings the game to the next one, or to its end.        *)

IsEngine(e) ==
  /\ e = [status |-> e.status, round |-> e.round, fair |-> e.fair, portfolio |-> e.portfolio,
          book |-> e.book, breaches |-> e.breaches]
  /\ e.status \in {"ACTIVE", "RISK_STOPPED", "COMPLETED"}
  /\ e.round \in 1 .. Rounds

LEMMA RoundsIsPositive == Rounds \in Nat \ {0}
BY QuantAssumption

LEMMA NewEngineFacts ==
  ASSUME NEW d
  PROVE  IsEngine(NewEngine(d)) /\ NewEngine(d).status = "ACTIVE" /\ NewEngine(d).round = 1
BY RoundsIsPositive DEF NewEngine, IsEngine

LEMMA FairValueUpdateFacts ==
  ASSUME NEW d, NEW e, IsEngine(e), e.status = "ACTIVE"
  PROVE  /\ IsEngine(FairValueUpdate(d, e))
         /\ FairValueUpdate(d, e).status \in {"ACTIVE", "RISK_STOPPED"}
         /\ FairValueUpdate(d, e).round = e.round
<1> DEFINE fair == d.fair[e.round]
           marked == [e EXCEPT !.fair = fair, !.portfolio = UpdateMarkPrice(@, fair)]
           breached == CheckRiskLimits(marked.portfolio, fair)
<1>1. FairValueUpdate(d, e) = CASE fair = e.fair -> e
                                [] fair # e.fair /\ ~breached -> marked
                                [] OTHER -> [marked EXCEPT !.breaches = @ + 1,
                                                           !.status = IF d.stopOnRiskBreach THEN "RISK_STOPPED" ELSE @]
  BY DEF FairValueUpdate
<1>2. IsEngine(marked) /\ marked.status = "ACTIVE" /\ marked.round = e.round
  <2> DEFINE known == UpdateMarkPrice(e.portfolio, fair)
  <2>1. marked = [e EXCEPT !.fair = fair, !.portfolio = known]
    BY DEF IsEngine
  <2> HIDE DEF fair, marked, breached, known
  <2>2. marked = [status |-> e.status, round |-> e.round, fair |-> fair, portfolio |-> known,
                  book |-> e.book, breaches |-> e.breaches]
    BY <2>1 DEF IsEngine
  <2> QED BY <2>2 DEF IsEngine
<1> HIDE DEF fair, marked, breached
<1> QED BY <1>1, <1>2 DEF IsEngine

LEMMA NextRoundFacts ==
  ASSUME NEW d, NEW e, IsEngine(e), e.status = "ACTIVE", NEW breached
  PROVE  LET n == NextRound(d, e, breached)
         IN /\ IsEngine(n)
            /\ n.status = "ACTIVE" => n.round = e.round + 1
            /\ n.status = "COMPLETED" => e.round = Rounds
            /\ n.round >= e.round
<1> DEFINE next == [e EXCEPT !.round = @ + 1]
<1>1. CASE breached /\ d.stopOnRiskBreach
  BY <1>1, RoundsIsPositive DEF NextRound, IsEngine
<1>2. CASE ~(breached /\ d.stopOnRiskBreach) /\ e.round >= Rounds
  BY <1>2, RoundsIsPositive DEF NextRound, IsEngine
<1>3. CASE ~(breached /\ d.stopOnRiskBreach) /\ ~(e.round >= Rounds)
  <2>1. IsEngine(next) /\ next.status = "ACTIVE" /\ next.round = e.round + 1
    BY <1>3, RoundsIsPositive DEF IsEngine
  <2>2. NextRound(d, e, breached) = FairValueUpdate(d, next)
    BY <1>3 DEF NextRound
  <2> HIDE DEF next
  <2>3. e.round \in Nat
    BY RoundsIsPositive DEF IsEngine
  <2> QED BY <2>1, <2>2, <2>3, FairValueUpdateFacts
<1> QED BY <1>1, <1>2, <1>3

\* What the engine is after a round, and which round its evidence is of.
LEMMA AdvanceFacts ==
  ASSUME NEW d, NEW e, IsEngine(e), e.status = "ACTIVE", NEW quote
  PROVE  LET n == Advance(d, e, quote).engine
         IN /\ IsEngine(n)
            /\ n.status = "ACTIVE" => n.round = e.round + 1
            /\ n.status = "COMPLETED" => e.round = Rounds
            /\ n.round >= e.round
            /\ Advance(d, e, quote).evidence.round = e.round
<1> DEFINE flow == OrderFlow(d.flow[e.round], Quoted(e.book, quote), quote, e.fair)
           portfolio == Settle(e.portfolio, flow.fills, e.fair)
           breached == CheckRiskLimits(portfolio, e.fair)
           settled == [e EXCEPT !.portfolio = portfolio, !.book = CancelMakerQuotes(flow.book, "STUDENT"),
                                !.breaches = @ + (IF breached THEN 1 ELSE 0)]
<1>1. Advance(d, e, quote) = RoundOf(d, e, flow, portfolio, breached)
  BY DEF Advance, Trade, Assess
<1>2. /\ RoundOf(d, e, flow, portfolio, breached).engine = NextRound(d, settled, breached)
      /\ RoundOf(d, e, flow, portfolio, breached).evidence.round = e.round
  BY DEF RoundOf
<1>3. IsEngine(settled) /\ settled.status = "ACTIVE" /\ settled.round = e.round
  <2> DEFINE book == CancelMakerQuotes(flow.book, "STUDENT")
             breaches == e.breaches + (IF breached THEN 1 ELSE 0)
  <2>1. settled = [e EXCEPT !.portfolio = portfolio, !.book = book, !.breaches = breaches]
    BY DEF IsEngine
  <2> HIDE DEF flow, portfolio, breached, settled, book, breaches
  <2>2. settled = [status |-> e.status, round |-> e.round, fair |-> e.fair, portfolio |-> portfolio,
                   book |-> book, breaches |-> breaches]
    BY <2>1 DEF IsEngine
  <2> QED BY <2>2 DEF IsEngine
<1> HIDE DEF flow, portfolio, breached, settled
<1> QED BY <1>1, <1>2, <1>3, NextRoundFacts

-----------------------------------------------------------------------------
(* HistoryCanBeReplayed. *)

\* The engine of the history is in the round the history has reached.
EngineInv ==
  /\ definition \in Definitions /\ IsSequence(history) /\ IsEngine(Engine)
  /\ Engine.status = "ACTIVE" => Engine.round = Len(history) + 1

HistoryInv == EngineInv /\ HistoryCanBeReplayed

LEMMA HistoryStarts == Init => HistoryInv
<1> SUFFICES ASSUME Init PROVE HistoryInv
  OBVIOUS
<1>1. history = <<>> /\ Len(history) = 0 /\ IsSequence(history)
  BY EmptySeq DEF Init, IsSequence
<1>2. Engine = NewEngine(definition)
  BY <1>1, ReplayNothing DEF Engine
<1>3. IsEngine(Engine) /\ Engine.status = "ACTIVE" /\ Engine.round = 1
  BY <1>2, NewEngineFacts
<1> QED BY <1>1, <1>3 DEF Init, HistoryInv, EngineInv, HistoryCanBeReplayed

LEMMA OpenHasNoEnd ==
  ASSUME NEW e, e.status # "ACTIVE", NEW n
  PROVE  ResultOf(e, n) # Open
BY DEF ResultOf, Open

\* An accepted round is played from the engine of the history, and goes on where it ended.
LEMMA RoundKeeps ==
  ASSUME HistoryInv, NEW expected, NEW action,
         Accepts(expected, action, Engine, Play(Engine, action)), Commit(Play(Engine, action)),
         definition' = definition, input' = input
  PROVE  HistoryInv' /\ Engine'.round >= Engine.round
<1> DEFINE played == Advance(definition, Engine, action)
           round == [action |-> action, evidence |-> played.evidence]
           over == played.engine.status # "ACTIVE"
<1>1. /\ history' = Append(history, round)
      /\ result' = IF over THEN ResultOf(played.engine, Len(history')) ELSE Open
      /\ status' = IF over THEN "COMPLETED" ELSE status
      /\ output' = (output /\ ~over)
      /\ over => ~input
      /\ status = "ACTIVE"
  BY DEF Accepts, Commit, Play, Stored, Outcome
<1>2. result = Open /\ Engine.status = "ACTIVE"
  BY <1>1, OpenHasNoEnd DEF HistoryInv, HistoryCanBeReplayed
<1>3. IsSequence(history) /\ IsEngine(Engine) /\ Len(history) \in Nat
  BY AppendFacts DEF HistoryInv, EngineInv
<1>4. Engine' = played.engine
  <2>1. Engine' = Replay(definition, Append(history, round))
    BY <1>1 DEF Engine
  <2>2. Replay(definition, Append(history, round)) = Advance(definition, Replay(definition, history), round.action).engine
    BY <1>3, ReplayOneMore
  <2> QED BY <2>1, <2>2 DEF Engine
<1>5. /\ IsEngine(played.engine)
      /\ played.engine.status = "ACTIVE" => played.engine.round = Engine.round + 1
      /\ played.engine.round >= Engine.round
  BY <1>2, <1>3, AdvanceFacts
<1>6. /\ IsSequence(history') /\ Len(history') = Len(history) + 1
      /\ \A i \in 1 .. Len(history) : history'[i] = history[i]
      /\ history'[Len(history) + 1] = round
  BY <1>1, <1>3, AppendFacts
<1>7. EngineInv'
  <2>1. Engine.round = Len(history) + 1
    BY <1>2 DEF HistoryInv, EngineInv
  <2> QED BY <1>3, <1>4, <1>5, <1>6, <2>1 DEF HistoryInv, EngineInv
<1>8. ASSUME NEW n \in 0 .. Len(history') - 1
      PROVE  LET e == Replay(definition, SubSeq(history', 1, n))
             IN e.status = "ACTIVE" /\ Advance(definition, e, history'[n + 1].action).evidence = history'[n + 1].evidence
  <2>1. n \in 0 .. Len(history)
    BY <1>3, <1>6
  <2>2. /\ Replay(definition, SubSeq(history', 1, n)) = Replay(definition, SubSeq(history, 1, n))
        /\ SubSeq(history, 1, Len(history)) = history
    BY <1>1, <1>3, <2>1, ReplayBefore
  <2>3. CASE n = Len(history)
    <3>1. Replay(definition, SubSeq(history', 1, n)) = Engine
      BY <2>2, <2>3 DEF Engine
    <3> QED BY <1>2, <1>6, <2>3, <3>1
  <2>4. CASE n # Len(history)
    <3>1. n \in 0 .. Len(history) - 1 /\ history'[n + 1] = history[n + 1]
      BY <1>3, <1>6, <2>1, <2>4
    <3> QED BY <2>2, <3>1 DEF HistoryInv, HistoryCanBeReplayed
  <2> QED BY <2>3, <2>4
<1>9. /\ result' = IF Engine'.status = "ACTIVE" THEN Open ELSE ResultOf(Engine', Len(history'))
      /\ status' # "ACTIVE" <=> result' # Open
      /\ status' # "ACTIVE" => ~input' /\ ~output'
  BY <1>1, <1>2, <1>4, OpenHasNoEnd DEF HistoryInv, HistoryCanBeReplayed
<1>10. HistoryCanBeReplayed'
  BY <1>8, <1>9 DEF HistoryCanBeReplayed
<1> QED BY <1>4, <1>5, <1>7, <1>10 DEF HistoryInv

\* What does not touch the history keeps what is known of it.
LEMMA KeptHistory ==
  ASSUME HistoryInv, UNCHANGED <<definition, history, result>>,
         status' # "ACTIVE" <=> status # "ACTIVE", status' # "ACTIVE" => ~input' /\ ~output'
  PROVE  HistoryInv' /\ Engine' = Engine
<1>1. Engine' = Engine
  BY DEF Engine
<1>2. HistoryCanBeReplayed'
  BY <1>1 DEF HistoryInv, HistoryCanBeReplayed
<1> QED BY <1>1, <1>2 DEF HistoryInv, EngineInv

LEMMA HistoryStep ==
  ASSUME HistoryInv, [Next]_vars
  PROVE  HistoryInv' /\ Engine'.round >= Engine.round
<1>1. Engine.round \in Nat
  BY RoundsIsPositive DEF HistoryInv, EngineInv, IsEngine
<1>2. status # "ACTIVE" => ~input /\ ~output
  BY DEF HistoryInv, HistoryCanBeReplayed
<1>3. CASE BeginInput
  BY <1>1, <1>3, KeptHistory DEF BeginInput
<1>4. CASE ResolveInput
  BY <1>1, <1>2, <1>4, KeptHistory DEF ResolveInput
<1>5. CASE ArchiveSession
  BY <1>1, <1>2, <1>5, KeptHistory DEF ArchiveSession
<1>6. CASE Keep
  BY <1>1, <1>2, <1>6, KeptHistory DEF Keep
<1>7. ASSUME NEW t \in Tabs, Serve(t) PROVE HistoryInv' /\ Engine'.round >= Engine.round
  <2> DEFINE act == tab[t].act
  <2>1. ApplyAction(t, act, Engine, Play(Engine, act.action)) /\ definition' = definition /\ input' = input
    BY <1>7 DEF Serve
  <2> HIDE DEF act
  <2>2. CASE Accepts(act.expected, act.action, Engine, Play(Engine, act.action))
    <3>1. Commit(Play(Engine, act.action))
      BY <2>1, <2>2 DEF ApplyAction
    <3> QED BY <2>1, <2>2, <3>1, RoundKeeps
  <2>3. CASE ~Accepts(act.expected, act.action, Engine, Play(Engine, act.action))
    <3>1. UNCHANGED <<history, result, status, output>>
      BY <2>1, <2>3 DEF ApplyAction
    <3> QED BY <1>1, <1>2, <2>1, <3>1, KeptHistory
  <2> QED BY <2>2, <2>3
<1>8. ASSUME NEW r \in orphans, ServeOrphan(r) PROVE HistoryInv' /\ Engine'.round >= Engine.round
  <2>1. definition' = definition /\ input' = input
    BY <1>8 DEF ServeOrphan
  <2>2. CASE CommitIfAccepted(r, Engine, Play(Engine, r.action))
    BY <2>1, <2>2, RoundKeeps DEF CommitIfAccepted
  <2>3. CASE UNCHANGED <<history, result, status, output>>
    BY <1>1, <1>2, <2>1, <2>3, KeptHistory
  <2> QED BY <1>8, <2>2, <2>3 DEF ServeOrphan
<1>9. CASE UNCHANGED vars
  BY <1>1, <1>2, <1>9, KeptHistory DEF vars
<1>10. Next => \/ BeginInput \/ ResolveInput \/ ArchiveSession \/ Keep
               \/ \E t \in Tabs : Serve(t)
               \/ \E r \in orphans : ServeOrphan(r)
  BY DEF Next, Load, Settled, SubmitFails, Leave, Answer, Loaded, LoadFails, Submit
<1> QED BY <1>3, <1>4, <1>5, <1>6, <1>7, <1>8, <1>9, <1>10

LEMMA HistoryInvariance == Spec => []HistoryInv
BY HistoryStarts, HistoryStep, PTL DEF Spec

\* What is stored can be played again, round by round and to the same evidence: no round follows the end of the game, the
\* result is there exactly when it is over, and the session is completed exactly then (quant-trading-coordinator.ts:158-233).
THEOREM StoredGamesReplay == Spec => []HistoryCanBeReplayed
BY HistoryInvariance, PTL DEF HistoryInv

-----------------------------------------------------------------------------
(* ShownNeverGoesBack. *)

IsRead(r) ==
  r = [current |-> r.current, answered |-> r.answered, answer |-> r.answer] /\ {r.current, r.answered} \subseteq BOOLEAN

IsAct(a) ==
  /\ a = [call |-> a.call, expected |-> a.expected, action |-> a.action, ok |-> a.ok, answer |-> a.answer]
  /\ a.ok => a.call = "answered"

\* A state that was shown, or will be, is of round n or an earlier one.
Until(v, n) == v.round \in Nat /\ v.round <= n

NotBehind(x, v) == x.shown # None => x.shown.round <= v.round

\* In round n of the game: a tab waits for one read at most, and for none while an action is under way; an answer it will
\* look at is not behind what it shows.
TabInv(x, n) ==
  /\ x = [shown |-> x.shown, reads |-> x.reads, act |-> x.act]
  /\ x.shown # None => Until(x.shown, n)
  /\ IsAct(x.act) /\ (x.act.ok => Until(x.act.answer, n) /\ NotBehind(x, x.act.answer))
  /\ \A r \in x.reads :
       /\ IsRead(r) /\ (r.answered => Until(r.answer, n))
       /\ r.current => /\ x.act.call \in {"none", "settling"}
                       /\ \A q \in x.reads : q.current => q = r
                       /\ r.answered => NotBehind(x, r.answer)

TabsInv ==
  /\ tab = [t \in Tabs |-> tab[t]]
  /\ \A t \in Tabs : TabInv(tab[t], Engine.round)

\* The parts of a tab and of a read.
LEMMA TabParts ==
  ASSUME NEW x, x = [shown |-> x.shown, reads |-> x.reads, act |-> x.act], NEW v
  PROVE  /\ [x EXCEPT !.shown = v] = [shown |-> v, reads |-> x.reads, act |-> x.act]
         /\ [x EXCEPT !.reads = v] = [shown |-> x.shown, reads |-> v, act |-> x.act]
         /\ [x EXCEPT !.act = v] = [shown |-> x.shown, reads |-> x.reads, act |-> v]
OBVIOUS

LEMMA ReadParts ==
  ASSUME NEW r, IsRead(r), NEW v
  PROVE  /\ [r EXCEPT !.current = v] = [current |-> v, answered |-> r.answered, answer |-> r.answer]
         /\ [r EXCEPT !.answered = v] = [current |-> r.current, answered |-> v, answer |-> r.answer]
         /\ [r EXCEPT !.answer = v] = [current |-> r.current, answered |-> r.answered, answer |-> v]
<1>1. r = [current |-> r.current, answered |-> r.answered, answer |-> r.answer]
  BY DEF IsRead
<1> QED BY <1>1

Act(call, expected, action, ok, answer) ==
  [call |-> call, expected |-> expected, action |-> action, ok |-> ok, answer |-> answer]

\* The tabs and actions that the steps make of x and a.
ReadWith(x, act, shown) == [Read(x) EXCEPT !.act = act, !.shown = shown]
StaleWith(x, act, shown) == [Stale(x) EXCEPT !.act = act, !.shown = shown]
Acting(x, act) == [Stale(x) EXCEPT !.act = act]
Served(x, act) == [x EXCEPT !.act = act]
Answered(x, r, v) == [x EXCEPT !.reads = (@ \ {r}) \cup {[r EXCEPT !.answered = TRUE, !.answer = v]}]
Refused(a) == [a EXCEPT !.call = "answered"]
Accepted(a, v) == [a EXCEPT !.call = "answered", !.ok = TRUE, !.answer = v]
Waits == [Idle EXCEPT !.call = "settling"]
Sent(round, action) == [Idle EXCEPT !.call = "sent", !.expected = round, !.action = action]

\* The provers treat a truth value as the value of a field where it has a name.
LEMMA ActAnswered ==
  ASSUME NEW a, IsAct(a), ~a.ok, NEW v
  PROVE  /\ IsAct(Refused(a)) /\ ~Refused(a).ok
         /\ IsAct(Accepted(a, v)) /\ Accepted(a, v).ok /\ Accepted(a, v).answer = v
<1> DEFINE c == "answered"
           yes == TRUE
           ok == a.ok
           a1 == [a EXCEPT !.call = c]
           a2 == [a1 EXCEPT !.ok = yes]
           a3 == [a2 EXCEPT !.answer = v]
<1>1. a = Act(a.call, a.expected, a.action, ok, a.answer)
  BY DEF IsAct, Act
<1> HIDE DEF yes, ok
<1>2. a1 = Act(c, a.expected, a.action, ok, a.answer)
  BY <1>1 DEF Act
<1> HIDE DEF a1
<1>3. a2 = Act(c, a.expected, a.action, yes, a.answer)
  BY <1>2 DEF Act
<1> HIDE DEF a2
<1>4. a3 = Act(c, a.expected, a.action, yes, v)
  BY <1>3 DEF Act
<1>5. Refused(a) = Act(c, a.expected, a.action, ok, a.answer)
  BY <1>2 DEF a1, Refused
<1>6. Accepted(a, v) = Act(c, a.expected, a.action, yes, v)
  BY <1>4 DEF a1, a2, Accepted, yes
<1>7. IsAct(Refused(a)) /\ Refused(a).ok = ok
  <2> HIDE DEF a3
  <2> QED BY <1>5 DEF IsAct, Act
<1>8. IsAct(Accepted(a, v)) /\ Accepted(a, v).ok = yes /\ Accepted(a, v).answer = v
  BY <1>6 DEF IsAct, Act
<1> QED BY <1>7, <1>8 DEF yes, ok

LEMMA TabInvGrows ==
  ASSUME NEW x, NEW n \in Nat, NEW m \in Nat, n <= m, TabInv(x, n)
  PROVE  TabInv(x, m)
<1>1. \A v : Until(v, n) => Until(v, m)
  BY DEF Until
<1> QED BY <1>1 DEF TabInv

\* The same tab, with every read stale.
LEMMA StaleFacts ==
  ASSUME NEW x, NEW n \in Nat, TabInv(x, n)
  PROVE  /\ TabInv(Stale(x), n) /\ Stale(x).shown = x.shown /\ Stale(x).act = x.act
         /\ \A r \in Stale(x).reads : ~r.current
<1> DEFINE old(r) == [r EXCEPT !.current = FALSE]
<1>1. \A r \in x.reads : /\ IsRead(old(r)) /\ ~old(r).current /\ old(r).answered = r.answered
                          /\ old(r).answer = r.answer
  <2>1. TAKE r \in x.reads
  <2>2. IsRead(r)
    BY DEF TabInv
  <2>3. old(r) = [current |-> FALSE, answered |-> r.answered, answer |-> r.answer]
    BY <2>2, ReadParts
  <2> HIDE DEF old
  <2> QED BY <2>2, <2>3 DEF IsRead
<1>2. Stale(x) = [shown |-> x.shown, reads |-> {old(r) : r \in x.reads}, act |-> x.act]
  BY DEF TabInv, Stale
<1> HIDE DEF old
<1>3. \A r \in Stale(x).reads : IsRead(r) /\ ~r.current /\ (r.answered => Until(r.answer, n))
  BY <1>1, <1>2 DEF TabInv
<1> QED BY <1>2, <1>3 DEF TabInv, NotBehind

\* The same tab after a new read: it shows what it showed, or nothing.
LEMMA ReadFacts ==
  ASSUME NEW x, NEW n \in Nat, TabInv(x, n), NEW act, IsAct(act), ~act.ok, act.call \in {"none", "settling"},
         NEW shown \in {None, x.shown}
  PROVE  TabInv(ReadWith(x, act, shown), n) /\ ReadWith(x, act, shown).shown = shown
<1> DEFINE new == [current |-> TRUE, answered |-> FALSE, answer |-> None]
           y == ReadWith(x, act, shown)
<1>1. /\ TabInv(Stale(x), n) /\ Stale(x).shown = x.shown
      /\ \A r \in Stale(x).reads : ~r.current
  BY StaleFacts
<1>2. y = [shown |-> shown, reads |-> Stale(x).reads \cup {new}, act |-> act]
  <2> DEFINE x1 == Stale(x)
             reads == x1.reads \cup {new}
             x2 == [x1 EXCEPT !.reads = reads]
             x3 == [x2 EXCEPT !.act = act]
  <2>1. y = [x3 EXCEPT !.shown = shown]
    BY DEF Read, ReadWith
  <2>2. x1 = [shown |-> x1.shown, reads |-> x1.reads, act |-> x1.act]
    BY <1>1 DEF TabInv
  <2> HIDE DEF x1, reads
  <2>3. x2 = [shown |-> x1.shown, reads |-> reads, act |-> x1.act]
    BY <2>2, TabParts
  <2> HIDE DEF x2
  <2>4. x3 = [shown |-> x1.shown, reads |-> reads, act |-> act]
    BY <2>3, TabParts
  <2> HIDE DEF x3, y
  <2>5. y = [shown |-> shown, reads |-> reads, act |-> act]
    BY <2>1, <2>4, TabParts
  <2> QED BY <2>5 DEF reads, x1
<1>3. IsRead(new) /\ new.current /\ ~new.answered
  BY DEF IsRead
<1> HIDE DEF new, y
<1>4. \A r \in y.reads : IsRead(r) /\ (r.answered => Until(r.answer, n)) /\ (r.current => r = new)
  BY <1>1, <1>2, <1>3 DEF TabInv
<1>5. y.shown # None => Until(y.shown, n)
  BY <1>2 DEF TabInv
<1>6. TabInv(y, n)
  BY <1>2, <1>3, <1>4, <1>5 DEF TabInv
<1> QED BY <1>2, <1>6 DEF y

\* The same, where nothing but the reads changes.
LEMMA ReadKeeps ==
  ASSUME NEW x, NEW n \in Nat, TabInv(x, n), x.act.call = "none"
  PROVE  TabInv(Read(x), n) /\ Read(x).shown = x.shown
<1> DEFINE y == Read(x)
           new == [current |-> TRUE, answered |-> FALSE, answer |-> None]
<1>1. IsAct(x.act) /\ ~x.act.ok
  BY DEF TabInv, IsAct
<1>2. Stale(x) = [shown |-> x.shown, reads |-> Stale(x).reads, act |-> x.act]
  BY StaleFacts DEF TabInv
<1>3. y = [shown |-> x.shown, reads |-> Stale(x).reads \cup {new}, act |-> x.act]
  <2> DEFINE x1 == Stale(x)
             reads == x1.reads \cup {new}
  <2>1. y = [x1 EXCEPT !.reads = reads]
    BY DEF Read
  <2> HIDE DEF x1, new, y
  <2>2. x1 = [shown |-> x1.shown, reads |-> x1.reads, act |-> x1.act] /\ x1.shown = x.shown /\ x1.act = x.act
    BY <1>2 DEF x1
  <2> HIDE DEF reads
  <2>3. y = [shown |-> x1.shown, reads |-> reads, act |-> x1.act]
    BY <2>1, <2>2, TabParts
  <2> QED BY <2>2, <2>3 DEF reads, x1
<1>4. ReadWith(x, x.act, x.shown) = y
  <2> DEFINE z == [y EXCEPT !.act = x.act]
             reads == Stale(x).reads \cup {new}
  <2> HIDE DEF y, new
  <2>1. y = [shown |-> x.shown, reads |-> reads, act |-> x.act]
    BY <1>3
  <2> HIDE DEF reads
  <2>2. z = [shown |-> x.shown, reads |-> reads, act |-> x.act]
    BY <2>1, TabParts
  <2>3. [z EXCEPT !.shown = x.shown] = [shown |-> x.shown, reads |-> reads, act |-> x.act]
    <3> HIDE DEF z
    <3> QED BY <2>2, TabParts
  <2>4. ReadWith(x, x.act, x.shown) = [z EXCEPT !.shown = x.shown]
    BY DEF ReadWith, y
  <2> QED BY <2>1, <2>3, <2>4
<1>5. TabInv(ReadWith(x, x.act, x.shown), n)
  BY <1>1, ReadFacts
<1> HIDE DEF y
<1>6. TabInv(y, n) /\ y.shown = x.shown
  BY <1>3, <1>4, <1>5
<1> QED BY <1>6 DEF y

LEMMA WaitsFacts == IsAct(Waits) /\ ~Waits.ok /\ Waits.call = "settling"
<1> DEFINE no == FALSE
<1>1. Idle = Act("none", 0, Pass, no, None)
  BY DEF Idle, Act
<1> HIDE DEF no
<1>2. Waits = Act("settling", 0, Pass, no, None)
  BY <1>1 DEF Act, Waits
<1> QED BY <1>2 DEF IsAct, Act, no

LEMMA SentFacts ==
  ASSUME NEW round, NEW action
  PROVE  IsAct(Sent(round, action)) /\ ~Sent(round, action).ok
<1> DEFINE no == FALSE
           a1 == [Idle EXCEPT !.call = "sent"]
           a2 == [a1 EXCEPT !.expected = round]
           a3 == [a2 EXCEPT !.action = action]
<1>1. Idle = Act("none", 0, Pass, no, None)
  BY DEF Idle, Act
<1> HIDE DEF no
<1>2. a1 = Act("sent", 0, Pass, no, None)
  BY <1>1 DEF Act
<1> HIDE DEF a1
<1>3. a2 = Act("sent", round, Pass, no, None)
  BY <1>2 DEF Act
<1> HIDE DEF a2
<1>4. a3 = Act("sent", round, action, no, None)
  BY <1>3 DEF Act
<1>5. IsAct(a3) /\ ~a3.ok
  <2> HIDE DEF a3
  <2> QED BY <1>4 DEF IsAct, Act, no
<1>6. Sent(round, action) = a3
  BY DEF a1, a2, Sent
<1> HIDE DEF a3
<1> QED BY <1>5, <1>6

LEMMA IdleFacts == IsAct(Idle) /\ ~Idle.ok /\ Idle.call = "none"
BY DEF Idle, IsAct

\* A tab that no longer waits for its action, or has just made one: its reads are stale.
LEMMA ActFacts ==
  ASSUME NEW x, NEW n \in Nat, TabInv(x, n), NEW act, IsAct(act), ~act.ok, NEW shown,
         shown # None => Until(shown, n)
  PROVE  TabInv(StaleWith(x, act, shown), n) /\ StaleWith(x, act, shown).shown = shown
<1> DEFINE y == StaleWith(x, act, shown)
<1>1. TabInv(Stale(x), n) /\ \A r \in Stale(x).reads : ~r.current
  BY StaleFacts
<1>2. y = [shown |-> shown, reads |-> Stale(x).reads, act |-> act]
  <2> DEFINE x1 == Stale(x)
             x2 == [x1 EXCEPT !.act = act]
  <2>1. x1 = [shown |-> x1.shown, reads |-> x1.reads, act |-> x1.act]
    BY <1>1 DEF TabInv
  <2>2. y = [x2 EXCEPT !.shown = shown]
    BY DEF StaleWith
  <2> HIDE DEF x1
  <2>3. x2 = [shown |-> x1.shown, reads |-> x1.reads, act |-> act]
    BY <2>1, TabParts
  <2> HIDE DEF x2, y
  <2>4. y = [shown |-> shown, reads |-> x1.reads, act |-> act]
    BY <2>2, <2>3, TabParts
  <2> QED BY <2>4 DEF x1
<1> HIDE DEF y
<1>3. \A r \in y.reads : IsRead(r) /\ ~r.current /\ (r.answered => Until(r.answer, n))
  BY <1>1, <1>2 DEF TabInv
<1>4. TabInv(y, n)
  BY <1>2, <1>3 DEF TabInv
<1> QED BY <1>2, <1>4 DEF y

LEMMA ActKeeps ==
  ASSUME NEW x, NEW n \in Nat, TabInv(x, n), NEW act, IsAct(act), ~act.ok
  PROVE  TabInv(Acting(x, act), n) /\ Acting(x, act).shown = x.shown
<1> DEFINE y == [Stale(x) EXCEPT !.act = act]
<1>1. Stale(x) = [shown |-> x.shown, reads |-> Stale(x).reads, act |-> x.act]
  BY StaleFacts DEF TabInv
<1>2. y = [shown |-> x.shown, reads |-> Stale(x).reads, act |-> act]
  BY <1>1, TabParts
<1>3. x.shown # None => Until(x.shown, n)
  BY DEF TabInv
<1>4. TabInv(StaleWith(x, act, x.shown), n)
  BY <1>3, ActFacts
<1>5. StaleWith(x, act, x.shown) = [y EXCEPT !.shown = x.shown]
  BY DEF StaleWith
<1> HIDE DEF y
<1>6. [y EXCEPT !.shown = x.shown] = y
  BY <1>2
<1>7. TabInv(y, n) /\ y.shown = x.shown
  BY <1>2, <1>4, <1>5, <1>6
<1> QED BY <1>7 DEF y, Acting

LEMMA AnswerFacts ==
  ASSUME NEW x, NEW n \in Nat, TabInv(x, n), NEW r \in x.reads, NEW v, v.round = n
  PROVE  TabInv(Answered(x, r, v), n) /\ Answered(x, r, v).shown = x.shown
<1> DEFINE q == [r EXCEPT !.answered = TRUE, !.answer = v]
           y == [x EXCEPT !.reads = (@ \ {r}) \cup {q}]
<1>1. IsRead(q) /\ q.answered /\ q.answer = v /\ q.current = r.current
  <2> DEFINE r1 == [r EXCEPT !.answered = TRUE]
  <2>1. IsRead(r)
    BY DEF TabInv
  <2>2. r1 = [current |-> r.current, answered |-> TRUE, answer |-> r.answer]
    BY <2>1, ReadParts
  <2>3. q = [r1 EXCEPT !.answer = v]
    OBVIOUS
  <2> HIDE DEF r1, q
  <2>4. IsRead(r1)
    BY <2>1, <2>2 DEF IsRead
  <2>5. q = [current |-> r.current, answered |-> TRUE, answer |-> v]
    BY <2>2, <2>3, <2>4, ReadParts
  <2> QED BY <2>1, <2>5 DEF IsRead
<1>2. y = [shown |-> x.shown, reads |-> (x.reads \ {r}) \cup {q}, act |-> x.act]
  <2>1. x = [shown |-> x.shown, reads |-> x.reads, act |-> x.act]
    BY DEF TabInv
  <2> HIDE DEF q
  <2> QED BY <2>1, TabParts
<1>3. Until(v, n) /\ NotBehind(x, v)
  BY DEF Until, NotBehind, TabInv
<1> HIDE DEF q, y
<1>4. \A p \in y.reads : IsRead(p) /\ (p.answered => Until(p.answer, n))
  BY <1>1, <1>2, <1>3 DEF TabInv
<1>5. \A p \in y.reads : p.current => /\ x.act.call \in {"none", "settling"}
                                      /\ \A o \in y.reads : o.current => o = p
                                      /\ p.answered => NotBehind(x, p.answer)
  <2>1. \A p \in x.reads : p.current => /\ x.act.call \in {"none", "settling"}
                                        /\ \A o \in x.reads : o.current => o = p
                                        /\ p.answered => NotBehind(x, p.answer)
    BY DEF TabInv
  <2> QED BY <1>1, <1>2, <1>3, <2>1
<1>6. TabInv(y, n)
  <2>1. y.shown = x.shown /\ y.act = x.act
    BY <1>2
  <2>2. \A w : NotBehind(x, w) => NotBehind(y, w)
    BY <2>1 DEF NotBehind
  <2>3. /\ x.shown # None => Until(x.shown, n)
        /\ IsAct(x.act) /\ (x.act.ok => Until(x.act.answer, n) /\ NotBehind(x, x.act.answer))
    BY DEF TabInv
  <2>4. y = [shown |-> y.shown, reads |-> y.reads, act |-> y.act]
    BY <1>2
  <2>5. \A p \in y.reads : p.current => /\ y.act.call \in {"none", "settling"}
                                        /\ \A o \in y.reads : o.current => o = p
                                        /\ p.answered => NotBehind(y, p.answer)
    BY <1>5, <2>1, <2>2
  <2>6. /\ y.shown # None => Until(y.shown, n)
        /\ IsAct(y.act) /\ (y.act.ok => Until(y.act.answer, n) /\ NotBehind(y, y.act.answer))
    BY <2>1, <2>2, <2>3
  <2>7. \A p \in y.reads :
          /\ IsRead(p) /\ (p.answered => Until(p.answer, n))
          /\ p.current => /\ y.act.call \in {"none", "settling"}
                          /\ \A o \in y.reads : o.current => o = p
                          /\ p.answered => NotBehind(y, p.answer)
    BY <1>4, <2>5
  <2> QED BY ONLY <2>4, <2>6, <2>7 DEF TabInv
<1>7. Answered(x, r, v) = y
  BY DEF Answered, y, q
<1> QED BY <1>2, <1>6, <1>7

\* After a read: what is shown is its answer, or what was shown; or nothing, when it failed.
LEMMA AfterFacts ==
  ASSUME NEW x, NEW n \in Nat, TabInv(x, n), NEW r \in x.reads, NEW v, v = None \/ (r.answered /\ v = r.answer)
  PROVE  /\ TabInv(After(x, r, v), n)
         /\ x.shown # None /\ After(x, r, v).shown # None => After(x, r, v).shown.round >= x.shown.round
<1> DEFINE y == After(x, r, v)
           act == IF r.current /\ x.act.call = "settling" THEN Idle ELSE x.act
           shown == IF r.current THEN v ELSE x.shown
<1>1. y = [shown |-> shown, reads |-> x.reads \ {r}, act |-> act]
  <2> DEFINE reads == x.reads \ {r}
             x1 == [x EXCEPT !.reads = reads]
             x2 == [x1 EXCEPT !.shown = shown]
  <2>1. x = [shown |-> x.shown, reads |-> x.reads, act |-> x.act]
    BY DEF TabInv
  <2> HIDE DEF reads, shown, act
  <2>2. x1 = [shown |-> x.shown, reads |-> reads, act |-> x.act]
    BY <2>1, TabParts
  <2> HIDE DEF x1
  <2>3. x2 = [shown |-> shown, reads |-> reads, act |-> x.act]
    BY <2>2, TabParts
  <2> HIDE DEF x2
  <2>4. y = [x2 EXCEPT !.act = act]
    BY <2>2, <2>3 DEF After, Heard, x1, x2, reads, shown, act
  <2> HIDE DEF y
  <2>5. y = [shown |-> shown, reads |-> reads, act |-> act]
    BY <2>3, <2>4, TabParts
  <2> QED BY <2>5 DEF reads
<1>2. IsAct(act) /\ (act.ok => ~r.current /\ act = x.act)
  BY IdleFacts DEF TabInv, IsAct
<1>3. shown # None => Until(shown, n)
  BY DEF TabInv
<1>4. x.shown # None /\ shown # None => shown.round >= x.shown.round
  BY DEF TabInv, NotBehind, Until
<1>5. \A q \in x.reads \ {r} : /\ IsRead(q) /\ (q.answered => Until(q.answer, n))
                                /\ q.current => /\ ~r.current /\ act = x.act /\ act.call \in {"none", "settling"}
                                                /\ \A p \in x.reads \ {r} : p.current => p = q
                                                /\ q.answered => NotBehind(x, q.answer)
  BY DEF TabInv
<1>6. ~r.current => shown = x.shown
  OBVIOUS
<1> HIDE DEF y, act, shown
<1>7. TabInv(y, n)
  <2>1. act.ok => Until(act.answer, n) /\ NotBehind(y, act.answer)
    BY <1>1, <1>2, <1>6 DEF TabInv, NotBehind
  <2>2. \A q \in y.reads : /\ IsRead(q) /\ (q.answered => Until(q.answer, n))
                            /\ q.current => /\ y.act.call \in {"none", "settling"}
                                            /\ \A p \in y.reads : p.current => p = q
                                            /\ q.answered => NotBehind(y, q.answer)
    BY <1>1, <1>5, <1>6 DEF NotBehind
  <2> QED BY <1>1, <1>2, <1>3, <2>1, <2>2 DEF TabInv
<1> QED BY <1>1, <1>4, <1>7 DEF y

\* What a tab shows does not go back, and the tab is as the round requires.
GoesOn(t) ==
  /\ TabInv(tab'[t], Engine'.round)
  /\ tab[t].shown # None /\ tab'[t].shown # None => tab'[t].shown.round >= tab[t].shown.round

LEMMA UnchangedTab ==
  ASSUME TabsInv, NEW t \in Tabs, tab'[t] = tab[t], Engine.round \in Nat, Engine'.round \in Nat,
         Engine'.round >= Engine.round
  PROVE  GoesOn(t)
<1>1. TabInv(tab[t], Engine.round)
  BY DEF TabsInv
<1>2. TabInv(tab[t], Engine'.round)
  BY <1>1, TabInvGrows
<1> QED BY <1>1, <1>2 DEF GoesOn, TabInv, Until

\* A step of one tab leaves the others as they are.
LEMMA OneTab ==
  ASSUME TabsInv, NEW t \in Tabs, NEW x, tab' = [tab EXCEPT ![t] = x],
         Engine.round \in Nat, Engine'.round \in Nat, Engine'.round >= Engine.round, GoesOn(t)
  PROVE  TabsInv' /\ \A u \in Tabs : GoesOn(u)
<1>1. tab' = [u \in Tabs |-> tab'[u]] /\ \A u \in Tabs \ {t} : tab'[u] = tab[u]
  BY DEF TabsInv
<1>2. \A u \in Tabs : GoesOn(u)
  BY <1>1, UnchangedTab
<1> QED BY <1>1, <1>2 DEF TabsInv, GoesOn

LEMMA TabStarts == Init => TabsInv
<1> SUFFICES ASSUME Init PROVE TabsInv
  OBVIOUS
<1>1. TabInv(Empty, Engine.round)
  BY IdleFacts DEF TabInv, Empty
<1> QED BY <1>1 DEF Init, TabsInv

LEMMA TabStep ==
  ASSUME HistoryInv, TabsInv, [Next]_vars
  PROVE  TabsInv' /\ \A u \in Tabs : GoesOn(u)
<1> DEFINE n == Engine.round
<1>1. HistoryInv' /\ n \in Nat /\ n' \in Nat /\ n' >= n
  BY HistoryStep, RoundsIsPositive DEF HistoryInv, EngineInv, IsEngine
<1>2. \A t \in Tabs : TabInv(tab[t], n)
  BY DEF TabsInv
<1> HIDE DEF n
<1>3. CASE tab' = tab
  BY <1>1, <1>3, UnchangedTab DEF TabsInv, GoesOn, n
<1>4. ASSUME Keep, Engine' = Engine, NEW t \in Tabs, NEW x, tab' = [tab EXCEPT ![t] = x],
             TabInv(x, n), tab[t].shown # None /\ x.shown # None => x.shown.round >= tab[t].shown.round
      PROVE  TabsInv' /\ \A u \in Tabs : GoesOn(u)
  <2>1. tab'[t] = x
    BY <1>4 DEF TabsInv
  <2>2. GoesOn(t)
    BY <1>4, <2>1 DEF GoesOn, n
  <2> QED BY <1>1, <1>4, <2>2, OneTab DEF n
<1>5. Keep => Engine' = Engine
  BY DEF Keep, Engine
<1>6. \A t \in Tabs : tab[t].shown # None => tab[t].shown.round \in Nat /\ tab[t].shown.round <= n
  BY <1>2 DEF TabInv, Until
<1>7. ASSUME NEW t \in Tabs, Load(t) PROVE TabsInv' /\ \A u \in Tabs : GoesOn(u)
  <2>1. tab[t].act.call = "none" /\ Keep /\ tab' = [tab EXCEPT ![t] = Read(tab[t])]
    BY <1>7 DEF Load, TabsInv
  <2> DEFINE y == Read(tab[t])
  <2>2. TabInv(y, n) /\ y.shown = tab[t].shown
    BY <1>1, <1>2, <2>1, ReadKeeps
  <2> HIDE DEF y
  <2>3. tab[t].shown # None /\ y.shown # None => y.shown.round >= tab[t].shown.round
    BY <1>1, <1>6, <2>2
  <2>4. tab' = [tab EXCEPT ![t] = y]
    BY <2>1 DEF y
  <2> QED BY <1>4, <1>5, <2>1, <2>2, <2>3, <2>4
<1>8. ASSUME NEW t \in Tabs, Serve(t) PROVE TabsInv' /\ \A u \in Tabs : GoesOn(u)
  <2> DEFINE x == tab[t]
             played == Play(Engine, x.act.action)
  <2>1. x.act.call = "sent" /\ ApplyAction(t, x.act, Engine, played) /\ definition' = definition
    BY <1>8 DEF Serve
  <2>2. TabInv(x, n) /\ IsAct(x.act) /\ ~x.act.ok /\ \A r \in x.reads : ~r.current
    BY <1>2, <2>1 DEF TabInv, IsAct
  <2>3. CASE Accepts(x.act.expected, x.act.action, Engine, played)
    <3> DEFINE v == PublicState(played.rounds)
               act == Accepted(x.act, v)
    <3>1. history' = played.rounds /\ tab' = [tab EXCEPT ![t] = Served(x, act)]
      BY <2>1, <2>3 DEF ApplyAction, Commit, TabsInv, Served, Accepted
    <3>2. v.round = n'
      BY <2>1, <3>1 DEF PublicState, Shown, Engine, n
    <3> HIDE DEF played, v
    <3>3. IsAct(act) /\ act.ok /\ act.answer = v
      BY <2>2, ActAnswered
    <3> HIDE DEF act
    <3> DEFINE y == Served(x, act)
    <3>4. y = [shown |-> x.shown, reads |-> x.reads, act |-> act]
      BY <2>2, TabParts DEF TabInv, Served
    <3>5. TabInv(y, n') /\ y.shown = x.shown
      <4>1. TabInv(x, n')
        BY <1>1, <2>2, TabInvGrows
      <4>2. Until(v, n') /\ NotBehind(y, v)
        BY <1>1, <1>6, <3>2, <3>4 DEF Until, NotBehind
      <4> HIDE DEF y
      <4> QED BY <2>2, <3>3, <3>4, <4>1, <4>2 DEF TabInv
    <3>6. tab'[t] = y
      BY <3>1 DEF TabsInv
    <3> HIDE DEF y
    <3>7. GoesOn(t)
      BY <1>1, <1>6, <3>5, <3>6 DEF GoesOn, n
    <3>8. tab' = [tab EXCEPT ![t] = y]
      BY <3>1 DEF y
    <3> QED BY <1>1, <3>7, <3>8, OneTab DEF n
  <2>4. CASE ~Accepts(x.act.expected, x.act.action, Engine, played)
    <3> DEFINE act == Refused(x.act)
    <3>1. history' = history /\ tab' = [tab EXCEPT ![t] = Served(x, act)]
      BY <2>1, <2>4 DEF ApplyAction, TabsInv, Served, Refused
    <3>2. Engine' = Engine
      BY <2>1, <3>1 DEF Engine
    <3> HIDE DEF played
    <3>3. IsAct(act) /\ ~act.ok
      BY <2>2, ActAnswered
    <3> HIDE DEF act
    <3> DEFINE y == Served(x, act)
    <3>4. y = [shown |-> x.shown, reads |-> x.reads, act |-> act]
      BY <2>2, TabParts DEF TabInv, Served
    <3>5. TabInv(y, n) /\ y.shown = x.shown
      <4> HIDE DEF y
      <4> QED BY <2>2, <3>3, <3>4 DEF TabInv
    <3>6. tab'[t] = y
      BY <3>1 DEF TabsInv
    <3> HIDE DEF y
    <3>7. GoesOn(t)
      BY <1>1, <1>6, <3>2, <3>5, <3>6 DEF GoesOn, n
    <3>8. tab' = [tab EXCEPT ![t] = y]
      BY <3>1 DEF y
    <3> QED BY <1>1, <3>7, <3>8, OneTab DEF n
  <2> QED BY <2>3, <2>4
<1>9. ASSUME NEW t \in Tabs, Settled(t) PROVE TabsInv' /\ \A u \in Tabs : GoesOn(u)
  <2> DEFINE x == tab[t]
  <2>1. Keep /\ TabInv(x, n)
    BY <1>2, <1>9 DEF Settled
  <2>2. CASE x.act.ok
    <3> DEFINE y == StaleWith(x, Idle, x.act.answer)
    <3>1. tab' = [tab EXCEPT ![t] = y]
      BY <1>9, <2>2 DEF Settled, TabsInv, StaleWith
    <3>2. Until(x.act.answer, n) /\ NotBehind(x, x.act.answer)
      BY <2>1, <2>2 DEF TabInv
    <3>3. TabInv(y, n) /\ y.shown = x.act.answer
      BY <1>1, <2>1, <3>2, IdleFacts, ActFacts
    <3> HIDE DEF y
    <3>4. x.shown # None /\ y.shown # None => y.shown.round >= x.shown.round
      BY <1>6, <3>2, <3>3 DEF NotBehind, Until
    <3> QED BY <1>4, <1>5, <2>1, <3>1, <3>3, <3>4
  <2>3. CASE ~x.act.ok
    <3>1. PICK shown \in {None, x.shown} :
            tab' = [tab EXCEPT ![t] = ReadWith(x, Waits, shown)]
      BY <1>9, <2>3 DEF Settled, TabsInv, ReadWith, Waits
    <3> DEFINE y == ReadWith(x, Waits, shown)
    <3>2. TabInv(y, n) /\ y.shown = shown
      BY <1>1, <2>1, WaitsFacts, ReadFacts
    <3> HIDE DEF y
    <3>3. x.shown # None /\ y.shown # None => y.shown.round >= x.shown.round
      BY <1>6, <3>2
    <3>4. tab' = [tab EXCEPT ![t] = y]
      BY <3>1 DEF y
    <3> QED BY <1>4, <1>5, <2>1, <3>2, <3>3, <3>4
  <2> QED BY <2>2, <2>3
<1>10. ASSUME NEW t \in Tabs, SubmitFails(t) PROVE TabsInv' /\ \A u \in Tabs : GoesOn(u)
  <2> DEFINE x == tab[t]
             y == ReadWith(x, Waits, None)
  <2>1. Keep /\ tab' = [tab EXCEPT ![t] = y] /\ TabInv(x, n)
    BY <1>2, <1>10 DEF SubmitFails, TabsInv, ReadWith, Waits
  <2>2. TabInv(y, n) /\ y.shown = None
    BY <1>1, <2>1, WaitsFacts, ReadFacts
  <2> HIDE DEF y
  <2> QED BY <1>4, <1>5, <2>1, <2>2
<1>11. ASSUME NEW t \in Tabs, Leave(t) PROVE TabsInv' /\ \A u \in Tabs : GoesOn(u)
  <2> DEFINE x == tab[t]
             y == StaleWith(x, Idle, None)
  <2>1. Keep /\ tab' = [tab EXCEPT ![t] = y] /\ TabInv(x, n)
    BY <1>2, <1>11 DEF Leave, TabsInv, StaleWith
  <2>2. TabInv(y, n) /\ y.shown = None
    BY <1>1, <2>1, IdleFacts, ActFacts
  <2> HIDE DEF y
  <2> QED BY <1>4, <1>5, <2>1, <2>2
<1>12. ASSUME NEW t \in Tabs, NEW r \in tab[t].reads, Answer(t, r) PROVE TabsInv' /\ \A u \in Tabs : GoesOn(u)
  <2> DEFINE x == tab[t]
             v == PublicState(history)
             y == Answered(x, r, v)
  <2>1. Keep /\ tab' = [tab EXCEPT ![t] = y] /\ TabInv(x, n)
    BY <1>2, <1>12 DEF Answer, TabsInv, Answered
  <2>2. v.round = n
    BY DEF PublicState, Shown, Engine, n
  <2> HIDE DEF v
  <2>3. TabInv(y, n) /\ y.shown = x.shown
    BY <1>1, <2>1, <2>2, AnswerFacts
  <2> HIDE DEF y
  <2>4. x.shown # None /\ y.shown # None => y.shown.round >= x.shown.round
    BY <1>1, <1>6, <2>3
  <2> QED BY <1>4, <1>5, <2>1, <2>3, <2>4
<1>13. ASSUME NEW t \in Tabs, NEW r \in tab[t].reads, NEW v, v = None \/ (r.answered /\ v = r.answer), Keep,
              tab' = [tab EXCEPT ![t] = After(tab[t], r, v)]
       PROVE  TabsInv' /\ \A u \in Tabs : GoesOn(u)
  <2>1. /\ TabInv(After(tab[t], r, v), n)
        /\ tab[t].shown # None /\ After(tab[t], r, v).shown # None => After(tab[t], r, v).shown.round >= tab[t].shown.round
    BY <1>1, <1>2, <1>13, AfterFacts
  <2> QED BY <1>4, <1>5, <1>13, <2>1
<1>14. ASSUME NEW t \in Tabs, NEW r \in tab[t].reads, Loaded(t, r) \/ LoadFails(t, r)
       PROVE  TabsInv' /\ \A u \in Tabs : GoesOn(u)
  <2>1. CASE Loaded(t, r)
    <3>1. r.answered /\ Keep /\ tab' = [tab EXCEPT ![t] = After(tab[t], r, r.answer)]
      BY <2>1 DEF Loaded, TabsInv
    <3> QED BY <1>13, <3>1
  <2>2. CASE LoadFails(t, r)
    <3>1. Keep /\ tab' = [tab EXCEPT ![t] = After(tab[t], r, None)]
      BY <2>2 DEF LoadFails, TabsInv
    <3> QED BY <1>13, <3>1
  <2> QED BY <1>14, <2>1, <2>2
<1>15. ASSUME NEW t \in Tabs, NEW action \in Actions, Submit(t, action) PROVE TabsInv' /\ \A u \in Tabs : GoesOn(u)
  <2> DEFINE x == tab[t]
             act == Sent(x.shown.round, action)
             y == Acting(x, act)
  <2>1. Keep /\ tab' = [tab EXCEPT ![t] = y] /\ TabInv(x, n)
    BY <1>2, <1>15 DEF Submit, TabsInv, Acting, Sent
  <2>2. IsAct(act) /\ ~act.ok
    BY SentFacts
  <2> HIDE DEF act
  <2>3. TabInv(y, n) /\ y.shown = x.shown
    BY <1>1, <2>1, <2>2, ActKeeps
  <2> HIDE DEF y
  <2>4. x.shown # None /\ y.shown # None => y.shown.round >= x.shown.round
    BY <1>1, <1>6, <2>3
  <2> QED BY <1>4, <1>5, <2>1, <2>3, <2>4
<1>16. \/ tab' = tab
       \/ \E t \in Tabs :
            \/ Load(t) \/ Serve(t) \/ Settled(t) \/ SubmitFails(t) \/ Leave(t)
            \/ \E r \in tab[t].reads : Answer(t, r) \/ Loaded(t, r) \/ LoadFails(t, r)
            \/ \E action \in Actions : Submit(t, action)
  BY DEF Next, vars, BeginInput, ResolveInput, ArchiveSession, ServeOrphan
<1> QED BY <1>3, <1>7, <1>8, <1>9, <1>10, <1>11, <1>12, <1>14, <1>15, <1>16

\* What a tab shows never goes back: an answer that comes late does not bring back a round that is over, whatever was
\* sent, lost or left behind meanwhile (useInterviewSession.ts:601-645, 660-730).
THEOREM ShownGoesForward == Spec => ShownNeverGoesBack
<1>1. HistoryInv /\ TabsInv /\ [Next]_vars =>
        TabsInv' /\ \A t \in Tabs : tab[t].shown # None /\ tab'[t].shown # None => tab'[t].shown.round >= tab[t].shown.round
  BY TabStep DEF GoesOn
<1>2. Spec => []TabsInv
  BY <1>1, TabStarts, HistoryInvariance, PTL DEF Spec
<1> QED BY <1>1, <1>2, HistoryInvariance, PTL DEF Spec, ShownNeverGoesBack

-----------------------------------------------------------------------------
(* Folds over two elements at most. *)

\* The folds of the model by a name of their own.
Taken(base, s) == FoldLeft(Take, base, s)

Applied(base, s) == FoldLeft(ApplyFill, base, s)

\* What each fold of the model gives for no element, one and two: its recursion over the sets of positions is unrolled.
LEMMA TakeFold ==
  ASSUME NEW base, NEW s, DOMAIN s \in {{}, {1}, {1, 2}}
  PROVE  Taken(base, s) =
           IF DOMAIN s = {} THEN base
           ELSE IF DOMAIN s = {1} THEN Take(base, s[1])
           ELSE Take(Take(base, s[1]), s[2])
<1> DEFINE S == DOMAIN s
           iter[T \in SUBSET S] == IF T = {} THEN base ELSE LET x == Max(T) IN Take(iter[T \ {x}], s[x])
           upTo(T) == IF T = {} THEN base
                      ELSE IF T = {1} THEN Take(base, s[1])
                      ELSE IF T = {2} THEN Take(base, s[2])
                      ELSE Take(Take(base, s[1]), s[2])
           folded == [T \in SUBSET S |-> upTo(T)]
<1>1. \A T \in SUBSET S : T \in {{}, {1}, {2}, {1, 2}}
  OBVIOUS
<1>2. Max({1}) = 1 /\ Max({2}) = 2 /\ Max({1, 2}) = 2
  BY DEF Max
<1>3. \A T \in SUBSET S : upTo(T) = IF T = {} THEN base ELSE LET x == Max(T) IN Take(folded[T \ {x}], s[x])
  <2>1. TAKE T \in SUBSET S
  <2>2. CASE T = {}
    BY <2>2
  <2>3. CASE T = {1}
    BY <1>2, <2>3
  <2>4. CASE T = {2}
    BY <1>2, <2>4
  <2>5. CASE T = {1, 2}
    <3>1. T \ {Max(T)} = {1} /\ {1} \in SUBSET S /\ T # {} /\ T # {1} /\ T # {2}
      BY <1>2, <2>5
    <3>2. folded[{1}] = Take(base, s[1])
      BY <3>1
    <3> QED BY <1>2, <2>5, <3>1, <3>2
  <2> QED BY <1>1, <2>2, <2>3, <2>4, <2>5
<1>4. folded = [T \in SUBSET S |-> IF T = {} THEN base ELSE LET x == Max(T) IN Take(folded[T \ {x}], s[x])]
  <2> HIDE DEF upTo
  <2> QED BY <1>3
<1>5. \E f : f = [T \in SUBSET S |-> IF T = {} THEN base ELSE LET x == Max(T) IN Take(f[T \ {x}], s[x])]
  <2> HIDE DEF folded
  <2> QED BY <1>4
<1>6. iter = [T \in SUBSET S |-> IF T = {} THEN base ELSE LET x == Max(T) IN Take(iter[T \ {x}], s[x])]
  BY <1>5, Zenon
<1>7. Taken(base, s) = iter[S]
  BY DEF FoldLeft, MapThenFoldSet, Taken
<1> HIDE DEF iter
<1>8. CASE S = {}
  BY <1>6, <1>7, <1>8
<1>9. CASE S = {1}
  <2>1. iter[{}] = base
    BY <1>6
  <2>2. S \ {Max(S)} = {} /\ Max(S) = 1 /\ S # {}
    BY <1>2, <1>9
  <2>3. iter[S] = Take(base, s[1])
    BY <1>6, <2>1, <2>2
  <2> QED BY <1>7, <1>9, <2>2, <2>3
<1>10. CASE S = {1, 2}
  <2>1. iter[{}] = base
    BY <1>6
  <2>2. iter[{1}] = Take(base, s[1])
    <3>1. {1} \ {Max({1})} = {} /\ {1} \in SUBSET S /\ {1} # {}
      BY <1>2, <1>10
    <3> QED BY <1>2, <1>6, <2>1, <3>1
  <2>3. S \ {Max(S)} = {1} /\ Max(S) = 2 /\ S # {} /\ S # {1}
    BY <1>2, <1>10
  <2>4. iter[S] = Take(Take(base, s[1]), s[2])
    BY <1>6, <2>2, <2>3
  <2> QED BY <1>7, <1>10, <2>3, <2>4
<1> QED BY <1>8, <1>9, <1>10

LEMMA OnlyFold ==
  ASSUME NEW s, DOMAIN s \in {{}, {1}, {1, 2}}, NEW kept
  PROVE  Only(s, kept) =
           IF DOMAIN s = {} THEN <<>>
           ELSE IF DOMAIN s = {1} THEN Add(kept, <<>>, s[1])
           ELSE Add(kept, Add(kept, <<>>, s[1]), s[2])
<1> DEFINE S == DOMAIN s
           iter[T \in SUBSET S] == IF T = {} THEN <<>> ELSE LET x == Max(T) IN Add(kept, iter[T \ {x}], s[x])
           upTo(T) == IF T = {} THEN <<>>
                      ELSE IF T = {1} THEN Add(kept, <<>>, s[1])
                      ELSE IF T = {2} THEN Add(kept, <<>>, s[2])
                      ELSE Add(kept, Add(kept, <<>>, s[1]), s[2])
           folded == [T \in SUBSET S |-> upTo(T)]
<1>1. \A T \in SUBSET S : T \in {{}, {1}, {2}, {1, 2}}
  OBVIOUS
<1>2. Max({1}) = 1 /\ Max({2}) = 2 /\ Max({1, 2}) = 2
  BY DEF Max
<1>3. \A T \in SUBSET S : upTo(T) = IF T = {} THEN <<>> ELSE LET x == Max(T) IN Add(kept, folded[T \ {x}], s[x])
  <2>1. TAKE T \in SUBSET S
  <2>2. CASE T = {}
    BY <2>2
  <2>3. CASE T = {1}
    BY <1>2, <2>3
  <2>4. CASE T = {2}
    BY <1>2, <2>4
  <2>5. CASE T = {1, 2}
    <3>1. T \ {Max(T)} = {1} /\ {1} \in SUBSET S /\ T # {} /\ T # {1} /\ T # {2}
      BY <1>2, <2>5
    <3>2. folded[{1}] = Add(kept, <<>>, s[1])
      BY <3>1
    <3> QED BY <1>2, <2>5, <3>1, <3>2
  <2> QED BY <1>1, <2>2, <2>3, <2>4, <2>5
<1>4. folded = [T \in SUBSET S |-> IF T = {} THEN <<>> ELSE LET x == Max(T) IN Add(kept, folded[T \ {x}], s[x])]
  <2> HIDE DEF upTo
  <2> QED BY <1>3
<1>5. \E f : f = [T \in SUBSET S |-> IF T = {} THEN <<>> ELSE LET x == Max(T) IN Add(kept, f[T \ {x}], s[x])]
  <2> HIDE DEF folded
  <2> QED BY <1>4
<1>6. iter = [T \in SUBSET S |-> IF T = {} THEN <<>> ELSE LET x == Max(T) IN Add(kept, iter[T \ {x}], s[x])]
  BY <1>5, Zenon
<1>7. Only(s, kept) = iter[S]
  BY DEF FoldLeft, MapThenFoldSet, Only
<1> HIDE DEF iter
<1>8. CASE S = {}
  BY <1>6, <1>7, <1>8
<1>9. CASE S = {1}
  <2>1. iter[{}] = <<>>
    BY <1>6
  <2>2. S \ {Max(S)} = {} /\ Max(S) = 1 /\ S # {}
    BY <1>2, <1>9
  <2>3. iter[S] = Add(kept, <<>>, s[1])
    BY <1>6, <2>1, <2>2
  <2> QED BY <1>7, <1>9, <2>2, <2>3
<1>10. CASE S = {1, 2}
  <2>1. iter[{}] = <<>>
    BY <1>6
  <2>2. iter[{1}] = Add(kept, <<>>, s[1])
    <3>1. {1} \ {Max({1})} = {} /\ {1} \in SUBSET S /\ {1} # {}
      BY <1>2, <1>10
    <3> QED BY <1>2, <1>6, <2>1, <3>1
  <2>3. S \ {Max(S)} = {1} /\ Max(S) = 2 /\ S # {} /\ S # {1}
    BY <1>2, <1>10
  <2>4. iter[S] = Add(kept, Add(kept, <<>>, s[1]), s[2])
    BY <1>6, <2>2, <2>3
  <2> QED BY <1>7, <1>10, <2>3, <2>4
<1> QED BY <1>8, <1>9, <1>10

LEMMA VolumeFold ==
  ASSUME NEW s, DOMAIN s \in {{}, {1}, {1, 2}}, NEW side
  PROVE  Volume(s, side) =
           IF DOMAIN s = {} THEN 0
           ELSE IF DOMAIN s = {1} THEN Counted(side, 0, s[1])
           ELSE Counted(side, Counted(side, 0, s[1]), s[2])
<1> DEFINE S == DOMAIN s
           iter[T \in SUBSET S] == IF T = {} THEN 0 ELSE LET x == Max(T) IN Counted(side, iter[T \ {x}], s[x])
           upTo(T) == IF T = {} THEN 0
                      ELSE IF T = {1} THEN Counted(side, 0, s[1])
                      ELSE IF T = {2} THEN Counted(side, 0, s[2])
                      ELSE Counted(side, Counted(side, 0, s[1]), s[2])
           folded == [T \in SUBSET S |-> upTo(T)]
<1>1. \A T \in SUBSET S : T \in {{}, {1}, {2}, {1, 2}}
  OBVIOUS
<1>2. Max({1}) = 1 /\ Max({2}) = 2 /\ Max({1, 2}) = 2
  BY DEF Max
<1>3. \A T \in SUBSET S : upTo(T) = IF T = {} THEN 0 ELSE LET x == Max(T) IN Counted(side, folded[T \ {x}], s[x])
  <2>1. TAKE T \in SUBSET S
  <2>2. CASE T = {}
    BY <2>2
  <2>3. CASE T = {1}
    BY <1>2, <2>3
  <2>4. CASE T = {2}
    BY <1>2, <2>4
  <2>5. CASE T = {1, 2}
    <3>1. T \ {Max(T)} = {1} /\ {1} \in SUBSET S /\ T # {} /\ T # {1} /\ T # {2}
      BY <1>2, <2>5
    <3>2. folded[{1}] = Counted(side, 0, s[1])
      BY <3>1
    <3> QED BY <1>2, <2>5, <3>1, <3>2
  <2> QED BY <1>1, <2>2, <2>3, <2>4, <2>5
<1>4. folded = [T \in SUBSET S |-> IF T = {} THEN 0 ELSE LET x == Max(T) IN Counted(side, folded[T \ {x}], s[x])]
  <2> HIDE DEF upTo
  <2> QED BY <1>3
<1>5. \E f : f = [T \in SUBSET S |-> IF T = {} THEN 0 ELSE LET x == Max(T) IN Counted(side, f[T \ {x}], s[x])]
  <2> HIDE DEF folded
  <2> QED BY <1>4
<1>6. iter = [T \in SUBSET S |-> IF T = {} THEN 0 ELSE LET x == Max(T) IN Counted(side, iter[T \ {x}], s[x])]
  BY <1>5, Zenon
<1>7. Volume(s, side) = iter[S]
  BY DEF FoldLeft, MapThenFoldSet, Volume
<1> HIDE DEF iter
<1>8. CASE S = {}
  BY <1>6, <1>7, <1>8
<1>9. CASE S = {1}
  <2>1. iter[{}] = 0
    BY <1>6
  <2>2. S \ {Max(S)} = {} /\ Max(S) = 1 /\ S # {}
    BY <1>2, <1>9
  <2>3. iter[S] = Counted(side, 0, s[1])
    BY <1>6, <2>1, <2>2
  <2> QED BY <1>7, <1>9, <2>2, <2>3
<1>10. CASE S = {1, 2}
  <2>1. iter[{}] = 0
    BY <1>6
  <2>2. iter[{1}] = Counted(side, 0, s[1])
    <3>1. {1} \ {Max({1})} = {} /\ {1} \in SUBSET S /\ {1} # {}
      BY <1>2, <1>10
    <3> QED BY <1>2, <1>6, <2>1, <3>1
  <2>3. S \ {Max(S)} = {1} /\ Max(S) = 2 /\ S # {} /\ S # {1}
    BY <1>2, <1>10
  <2>4. iter[S] = Counted(side, Counted(side, 0, s[1]), s[2])
    BY <1>6, <2>2, <2>3
  <2> QED BY <1>7, <1>10, <2>3, <2>4
<1> QED BY <1>8, <1>9, <1>10

LEMMA ApplyFold ==
  ASSUME NEW base, NEW s, DOMAIN s \in {{}, {1}, {1, 2}}
  PROVE  Applied(base, s) =
           IF DOMAIN s = {} THEN base
           ELSE IF DOMAIN s = {1} THEN ApplyFill(base, s[1])
           ELSE ApplyFill(ApplyFill(base, s[1]), s[2])
<1> DEFINE S == DOMAIN s
           iter[T \in SUBSET S] == IF T = {} THEN base ELSE LET x == Max(T) IN ApplyFill(iter[T \ {x}], s[x])
           upTo(T) == IF T = {} THEN base
                      ELSE IF T = {1} THEN ApplyFill(base, s[1])
                      ELSE IF T = {2} THEN ApplyFill(base, s[2])
                      ELSE ApplyFill(ApplyFill(base, s[1]), s[2])
           folded == [T \in SUBSET S |-> upTo(T)]
<1>1. \A T \in SUBSET S : T \in {{}, {1}, {2}, {1, 2}}
  OBVIOUS
<1>2. Max({1}) = 1 /\ Max({2}) = 2 /\ Max({1, 2}) = 2
  BY DEF Max
<1>3. \A T \in SUBSET S : upTo(T) = IF T = {} THEN base ELSE LET x == Max(T) IN ApplyFill(folded[T \ {x}], s[x])
  <2>1. TAKE T \in SUBSET S
  <2>2. CASE T = {}
    BY <2>2
  <2>3. CASE T = {1}
    BY <1>2, <2>3
  <2>4. CASE T = {2}
    BY <1>2, <2>4
  <2>5. CASE T = {1, 2}
    <3>1. T \ {Max(T)} = {1} /\ {1} \in SUBSET S /\ T # {} /\ T # {1} /\ T # {2}
      BY <1>2, <2>5
    <3>2. folded[{1}] = ApplyFill(base, s[1])
      BY <3>1
    <3> QED BY <1>2, <2>5, <3>1, <3>2
  <2> QED BY <1>1, <2>2, <2>3, <2>4, <2>5
<1>4. folded = [T \in SUBSET S |-> IF T = {} THEN base ELSE LET x == Max(T) IN ApplyFill(folded[T \ {x}], s[x])]
  <2> HIDE DEF upTo
  <2> QED BY <1>3
<1>5. \E f : f = [T \in SUBSET S |-> IF T = {} THEN base ELSE LET x == Max(T) IN ApplyFill(f[T \ {x}], s[x])]
  <2> HIDE DEF folded
  <2> QED BY <1>4
<1>6. iter = [T \in SUBSET S |-> IF T = {} THEN base ELSE LET x == Max(T) IN ApplyFill(iter[T \ {x}], s[x])]
  BY <1>5, Zenon
<1>7. Applied(base, s) = iter[S]
  BY DEF FoldLeft, MapThenFoldSet, Applied
<1> HIDE DEF iter
<1>8. CASE S = {}
  BY <1>6, <1>7, <1>8
<1>9. CASE S = {1}
  <2>1. iter[{}] = base
    BY <1>6
  <2>2. S \ {Max(S)} = {} /\ Max(S) = 1 /\ S # {}
    BY <1>2, <1>9
  <2>3. iter[S] = ApplyFill(base, s[1])
    BY <1>6, <2>1, <2>2
  <2> QED BY <1>7, <1>9, <2>2, <2>3
<1>10. CASE S = {1, 2}
  <2>1. iter[{}] = base
    BY <1>6
  <2>2. iter[{1}] = ApplyFill(base, s[1])
    <3>1. {1} \ {Max({1})} = {} /\ {1} \in SUBSET S /\ {1} # {}
      BY <1>2, <1>10
    <3> QED BY <1>2, <1>6, <2>1, <3>1
  <2>3. S \ {Max(S)} = {1} /\ Max(S) = 2 /\ S # {} /\ S # {1}
    BY <1>2, <1>10
  <2>4. iter[S] = ApplyFill(ApplyFill(base, s[1]), s[2])
    BY <1>6, <2>2, <2>3
  <2> QED BY <1>7, <1>10, <2>3, <2>4
<1> QED BY <1>8, <1>9, <1>10

\* What Only keeps of no element, of one and of two.
LEMMA OnlyNone ==
  ASSUME NEW kept
  PROVE  Only(<<>>, kept) = <<>>
BY OnlyFold

LEMMA OnlyOne ==
  ASSUME NEW kept, NEW a
  PROVE  Only(<<a>>, kept) = IF a \in kept THEN <<a>> ELSE <<>>
<1> DEFINE s == <<a>>
<1>1. DOMAIN s = {1} /\ s[1] = a
  OBVIOUS
<1> HIDE DEF s
<1>2. Only(s, kept) = Add(kept, <<>>, a)
  BY <1>1, OnlyFold
<1>3. Append(<<>>, a) = <<a>>
  OBVIOUS
<1> QED BY <1>2, <1>3 DEF s, Add

\* Sequences of one element and of two.
LEMMA TwoOf ==
  ASSUME NEW a, NEW c
  PROVE  /\ Append(<<a>>, c) = <<a, c>> /\ <<a>> \o <<c>> = <<a, c>>
         /\ <<>> \o <<a>> = <<a>> /\ <<a>> \o <<>> = <<a>>
         /\ SubSeq(<<a>>, 1, 1) = <<a>> /\ SubSeq(<<a>>, 1, 0) = <<>> /\ SubSeq(<<a>>, 2, 1) = <<>>
<1> DEFINE S == {a, c}
<1>1. <<a>> \in Seq(S) /\ <<c>> \in Seq(S) /\ <<a, c>> \in Seq(S)
  OBVIOUS
<1>2. Append(<<a>>, c) = <<a, c>>
  <2> DEFINE t == Append(<<a>>, c)
  <2>1. t \in Seq(S) /\ Len(t) = 2 /\ t[1] = a /\ t[2] = c
    BY <1>1, AppendProperties
  <2> HIDE DEF t, S
  <2>2. t = <<a, c>>
    BY <1>1, <2>1, SeqEqual
  <2> QED BY <2>2 DEF t
<1>3. <<a>> \o <<c>> = <<a, c>>
  <2> DEFINE t == <<a>> \o <<c>>
  <2>1. t \in Seq(S) /\ Len(t) = 2 /\ t[1] = a /\ t[2] = c
    BY <1>1, ConcatProperties
  <2> HIDE DEF t, S
  <2>2. t = <<a, c>>
    BY <1>1, <2>1, SeqEqual
  <2> QED BY <2>2 DEF t
<1>4. <<>> \o <<a>> = <<a>> /\ <<a>> \o <<>> = <<a>>
  BY <1>1, ConcatEmptySeq
<1>5. SubSeq(<<a>>, 1, 1) = <<a>>
  <2>1. Len(<<a>>) = 1
    OBVIOUS
  <2> QED BY <1>1, <2>1, SubSeqFull
<1>6. SubSeq(<<a>>, 1, 0) = <<>> /\ SubSeq(<<a>>, 2, 1) = <<>>
  BY SubSeqEmpty
<1> QED BY <1>2, <1>3, <1>4, <1>5, <1>6

LEMMA OnlyTwo ==
  ASSUME NEW kept, NEW a, NEW c
  PROVE  Only(<<a, c>>, kept) =
           IF a \in kept THEN IF c \in kept THEN <<a, c>> ELSE <<a>> ELSE IF c \in kept THEN <<c>> ELSE <<>>
<1> DEFINE s == <<a, c>>
<1>1. DOMAIN s = {1, 2} /\ s[1] = a /\ s[2] = c
  OBVIOUS
<1> HIDE DEF s
<1>2. Only(s, kept) = Add(kept, Add(kept, <<>>, a), c)
  BY <1>1, OnlyFold
<1>3. Append(<<>>, a) = <<a>> /\ Append(<<>>, c) = <<c>>
  OBVIOUS
<1>4. Append(<<a>>, c) = <<a, c>>
  BY TwoOf, Zenon
<1> QED BY <1>2, <1>3, <1>4 DEF s, Add

\* An order that comes to an empty queue, or to a queue of one.
LEMMA InsertFacts ==
  ASSUME NEW side, NEW o, NEW a
  PROVE  /\ Insert(side, <<>>, o) = <<o>>
         /\ Insert(side, <<a>>, o) \in {<<a, o>>, <<o, a>>}
<1>1. Insert(side, <<>>, o) = <<o>>
  <2> DEFINE I == {i \in 1 .. Len(<<>>) : ~Ahead(side, <<>>[i], o)}
  <2>1. I = {}
    OBVIOUS
  <2>2. Len(<<>>) = 0
    OBVIOUS
  <2>3. Insert(side, <<>>, o) = InsertAt(<<>>, 1, o)
    BY <2>1, <2>2 DEF Insert, SelectInSeq
  <2>4. InsertAt(<<>>, 1, o) = SubSeq(<<>>, 1, 0) \o <<o>> \o SubSeq(<<>>, 1, 0)
    BY DEF InsertAt
  <2>5. SubSeq(<<>>, 1, 0) = <<>>
    BY SubSeqEmpty
  <2>6. <<>> \o <<o>> = <<o>> /\ <<o>> \o <<>> = <<o>>
    BY TwoOf, Zenon
  <2> QED BY <2>3, <2>4, <2>5, <2>6
<1>2. Insert(side, <<a>>, o) \in {<<a, o>>, <<o, a>>}
  <2> DEFINE I == {i \in 1 .. Len(<<a>>) : ~Ahead(side, <<a>>[i], o)}
             behind == IF I # {} THEN Min(I) ELSE 0
  <2>1. I \in {{}, {1}}
    OBVIOUS
  <2>2. Min({1}) = 1
    BY DEF Min
  <2>3. Insert(side, <<a>>, o) = InsertAt(<<a>>, IF behind = 0 THEN Len(<<a>>) + 1 ELSE behind, o)
    BY DEF Insert, SelectInSeq
  <2> HIDE DEF I
  <2>4. behind \in {0, 1}
    BY <2>1, <2>2
  <2>5. InsertAt(<<a>>, 2, o) = <<a, o>> /\ InsertAt(<<a>>, 1, o) = <<o, a>>
    <3>1. /\ InsertAt(<<a>>, 2, o) = SubSeq(<<a>>, 1, 1) \o <<o>> \o SubSeq(<<a>>, 2, 1)
          /\ InsertAt(<<a>>, 1, o) = SubSeq(<<a>>, 1, 0) \o <<o>> \o SubSeq(<<a>>, 1, 1)
      BY DEF InsertAt
    <3>2. <<a, o>> \o <<>> = <<a, o>>
      <4>1. <<a, o>> \in Seq({a, o})
        OBVIOUS
      <4> QED BY <4>1, ConcatEmptySeq
    <3> QED BY <3>1, <3>2, TwoOf
  <2> HIDE DEF behind
  <2>6. CASE behind = 0
    BY <2>3, <2>5, <2>6
  <2>7. CASE behind = 1
    BY <2>3, <2>5, <2>7
  <2> QED BY <2>4, <2>6, <2>7
<1> QED BY <1>1, <1>2

-----------------------------------------------------------------------------
(* The book. *)

Makers == {"STUDENT", "NOISE_MARKET_MAKER"}

IsBook(b) ==
  /\ b = [queue |-> b.queue, quotes |-> b.quotes, clock |-> b.clock]
  /\ b.queue = [side \in Sides |-> b.queue[side]]
  /\ b.quotes = [o \in Makers |-> b.quotes[o]]

LEMMA BookParts ==
  ASSUME NEW b, b = [queue |-> b.queue, quotes |-> b.quotes, clock |-> b.clock], NEW v
  PROVE  /\ [b EXCEPT !.queue = v] = [queue |-> v, quotes |-> b.quotes, clock |-> b.clock]
         /\ [b EXCEPT !.quotes = v] = [queue |-> b.queue, quotes |-> v, clock |-> b.clock]
         /\ [b EXCEPT !.clock = v] = [queue |-> b.queue, quotes |-> b.quotes, clock |-> v]
OBVIOUS

\* The orders of a side that do not have the ids.
Without(queue, ids) == Only(queue, {o \in Range(queue) : o.id \notin ids})

\* A cancelled maker has no order in the book, and the others keep theirs.
LEMMA CancelFacts ==
  ASSUME NEW b, IsBook(b), NEW owner \in Makers
  PROVE  LET c == CancelMakerQuotes(b, owner)
         IN /\ IsBook(c)
            /\ \A side \in Sides : c.queue[side] = Without(b.queue[side], b.quotes[owner])
            /\ \A o \in Makers : c.quotes[o] = IF o = owner THEN {} ELSE b.quotes[o]
<1> DEFINE c == CancelMakerQuotes(b, owner)
           queue == [side \in Sides |-> Without(b.queue[side], b.quotes[owner])]
           quotes == [b.quotes EXCEPT ![owner] = {}]
           cancelled == Cancel(b, b.quotes[owner])
<1>1. b = [queue |-> b.queue, quotes |-> b.quotes, clock |-> b.clock]
  BY DEF IsBook
<1>2. cancelled = [queue |-> queue, quotes |-> b.quotes, clock |-> b.clock]
  <2>1. cancelled = [b EXCEPT !.queue = queue]
    BY DEF Cancel, Without
  <2> HIDE DEF queue, cancelled
  <2> QED BY <1>1, <2>1, BookParts
<1>3. c = [queue |-> queue, quotes |-> quotes, clock |-> b.clock]
  <2>1. c = [cancelled EXCEPT !.quotes[owner] = {}]
    BY DEF CancelMakerQuotes
  <2> HIDE DEF queue, cancelled, c
  <2>2. c = [cancelled EXCEPT !.quotes = [cancelled.quotes EXCEPT ![owner] = {}]]
    BY <2>1
  <2>3. cancelled.quotes = b.quotes /\ cancelled.queue = queue /\ cancelled.clock = b.clock
    BY <1>2
  <2>4. c = [cancelled EXCEPT !.quotes = quotes]
    BY <2>2, <2>3
  <2> HIDE DEF quotes
  <2> QED BY <1>2, <2>3, <2>4, BookParts
<1>4. quotes = [o \in Makers |-> IF o = owner THEN {} ELSE b.quotes[o]]
  BY DEF IsBook
<1> HIDE DEF c, quotes
<1>5. \A side \in Sides : c.queue[side] = Without(b.queue[side], b.quotes[owner])
  BY <1>3
<1>6. \A o \in Makers : c.quotes[o] = IF o = owner THEN {} ELSE b.quotes[o]
  BY <1>3, <1>4
<1>7. IsBook(c)
  <2> HIDE DEF queue
  <2>1. c.queue = queue /\ c.quotes = quotes /\ c.clock = b.clock
    BY <1>3
  <2>2. queue = [side \in Sides |-> queue[side]]
    BY DEF queue
  <2>3. quotes = [o \in Makers |-> quotes[o]]
    BY <1>4
  <2>4. c = [queue |-> c.queue, quotes |-> c.quotes, clock |-> c.clock]
    BY <1>3, <2>1
  <2> QED BY <2>1, <2>2, <2>3, <2>4 DEF IsBook
<1> QED BY <1>5, <1>6, <1>7 DEF c

PriceOf(quote, side) == IF side = "BUY" THEN quote.bidPrice ELSE quote.askPrice
SizeOf(quote, side) == IF side = "BUY" THEN quote.bidSize ELSE quote.askSize

\* The order of an owner on a side.
OrderOf(b, owner, quote, side) ==
  Order(side, owner, b.clock + 1, PriceOf(quote, side), SizeOf(quote, side), b.clock)

IdsOf(b, owner, quote) == {OrderOf(b, owner, quote, side).id : side \in Sides}

\* New quotes put one order of the owner on each side.
LEMMA SetFacts ==
  ASSUME NEW b, IsBook(b), NEW owner \in Makers, NEW quote
  PROVE  LET c == SetQuotes(b, owner, quote)
             k == CancelMakerQuotes(b, owner)
         IN /\ IsBook(c)
            /\ \A side \in Sides : c.queue[side] = Insert(side, k.queue[side], OrderOf(b, owner, quote, side))
            /\ \A o \in Makers : c.quotes[o] = IF o = owner THEN IdsOf(b, owner, quote)
                                               ELSE b.quotes[o]
<1> DEFINE c == SetQuotes(b, owner, quote)
           k == CancelMakerQuotes(b, owner)
           bid == OrderOf(b, owner, quote, "BUY")
           ask == OrderOf(b, owner, quote, "SELL")
           ids == {bid.id, ask.id}
           queue == [BUY |-> Insert("BUY", k.queue["BUY"], bid), SELL |-> Insert("SELL", k.queue["SELL"], ask)]
           quotes == [k.quotes EXCEPT ![owner] = ids]
           clock == k.clock + 1
<1>1. c = [k EXCEPT !.queue = queue, !.quotes[owner] = ids, !.clock = @ + 1]
  BY DEF SetQuotes, OrderOf, PriceOf, SizeOf
<1>2. IsBook(k) /\ \A o \in Makers : k.quotes[o] = IF o = owner THEN {} ELSE b.quotes[o]
  BY CancelFacts
<1>3. ids = IdsOf(b, owner, quote)
  BY DEF Sides, IdsOf
<1>4. \A side \in Sides : queue[side] = Insert(side, k.queue[side], OrderOf(b, owner, quote, side))
  BY DEF Sides
<1>5. queue = [side \in Sides |-> queue[side]]
  BY DEF Sides
<1> HIDE DEF c, k, ids, queue
<1>6. c = [queue |-> queue, quotes |-> quotes, clock |-> clock]
  <2> DEFINE k1 == [k EXCEPT !.queue = queue]
             k2 == [k1 EXCEPT !.quotes = quotes]
  <2>1. k1 = [queue |-> queue, quotes |-> k.quotes, clock |-> k.clock]
    BY <1>2, BookParts DEF IsBook
  <2>2. c = [[k1 EXCEPT !.quotes[owner] = ids] EXCEPT !.clock = @ + 1]
    BY <1>1
  <2> HIDE DEF k1
  <2>3. k1.quotes = k.quotes /\ k1.queue = queue /\ k1.clock = k.clock
    BY <2>1
  <2>4. [k1 EXCEPT !.quotes[owner] = ids] = [k1 EXCEPT !.quotes = quotes]
    BY <2>1, <2>3
  <2>5. k2 = [queue |-> queue, quotes |-> quotes, clock |-> k.clock]
    <3> HIDE DEF quotes
    <3> QED BY <2>1, <2>3, BookParts
  <2>6. c = [k2 EXCEPT !.clock = @ + 1]
    BY <2>2, <2>4
  <2> HIDE DEF k2, quotes
  <2>7. c = [k2 EXCEPT !.clock = clock]
    BY <2>5, <2>6
  <2> HIDE DEF clock
  <2> QED BY <2>5, <2>7
<1>7. quotes = [o \in Makers |-> IF o = owner THEN ids ELSE b.quotes[o]]
  BY <1>2 DEF IsBook
<1> HIDE DEF quotes, clock
<1>8. c.queue = queue /\ c.quotes = quotes /\ c.clock = clock
  BY <1>6
<1>9. IsBook(c)
  <2>1. c = [queue |-> c.queue, quotes |-> c.quotes, clock |-> c.clock]
    BY <1>6, <1>8
  <2>2. c.quotes = [o \in Makers |-> c.quotes[o]]
    BY <1>7, <1>8
  <2> QED BY <1>5, <1>8, <2>1, <2>2 DEF IsBook
<1>10. \A side \in Sides : c.queue[side] = Insert(side, k.queue[side], OrderOf(b, owner, quote, side))
  BY <1>4, <1>8
<1>11. \A o \in Makers : c.quotes[o] = IF o = owner THEN IdsOf(b, owner, quote) ELSE b.quotes[o]
  BY <1>3, <1>7, <1>8
<1> QED BY <1>9, <1>10, <1>11 DEF c, k

LEMMA OppositeFacts == \A side \in Sides : Opposite(side) \in Sides /\ Opposite(Opposite(side)) = side /\ Opposite(side) # side
BY DEF Sides, Opposite

\* The orders that a plan leaves.
Reduced(b, side, plan) ==
  [i \in DOMAIN b.queue[Opposite(side)] |-> [b.queue[Opposite(side)][i] EXCEPT
     !.size = @ - Filled(plan, b.queue[Opposite(side)][i].id)]]

\* A plan changes the side it matches only.
LEMMA CommitFacts ==
  ASSUME NEW b, IsBook(b), NEW side \in Sides, NEW plan
  PROVE  LET c == CommitMatchPlan(b, side, plan)
             left == Reduced(b, side, plan)
         IN /\ IsBook(c) /\ c.quotes = b.quotes
            /\ c.queue[Opposite(side)] = Only(left, {o \in Range(left) : o.size > 0})
            /\ c.queue[side] = b.queue[side]
<1> DEFINE c == CommitMatchPlan(b, side, plan)
           left == Reduced(b, side, plan)
           rest == Only(left, {o \in Range(left) : o.size > 0})
           queue == [b.queue EXCEPT ![Opposite(side)] = rest]
<1>1. c = [b EXCEPT !.queue[Opposite(side)] = rest]
  BY DEF CommitMatchPlan, Reduced
<1> HIDE DEF c, rest
<1>2. c = [b EXCEPT !.queue = queue]
  BY <1>1 DEF IsBook
<1>3. queue = [s \in Sides |-> IF s = Opposite(side) THEN rest ELSE b.queue[s]]
  BY DEF IsBook
<1> HIDE DEF queue
<1>4. c = [queue |-> queue, quotes |-> b.quotes, clock |-> b.clock]
  BY <1>2, BookParts DEF IsBook
<1>5. c.queue = queue /\ c.quotes = b.quotes /\ c.clock = b.clock
  BY <1>4
<1>6. IsBook(c)
  <2>1. c = [queue |-> c.queue, quotes |-> c.quotes, clock |-> c.clock]
    BY <1>4, <1>5
  <2>2. c.queue = [s \in Sides |-> c.queue[s]]
    BY <1>3, <1>5
  <2>3. c.quotes = [o \in Makers |-> c.quotes[o]]
    BY <1>5 DEF IsBook
  <2> QED BY <2>1, <2>2, <2>3 DEF IsBook
<1>7. c.queue[Opposite(side)] = rest /\ c.queue[side] = b.queue[side]
  BY <1>3, <1>5, OppositeFacts
<1> QED BY <1>5, <1>6, <1>7 DEF c, rest

\* Nobody has an order in the book: so it is between rounds.
Fresh(b) ==
  /\ IsBook(b)
  /\ \A side \in Sides : b.queue[side] = <<>>
  /\ \A o \in Makers : b.quotes[o] = {}

\* x is an order its owner has in the book; the student's are those of the quote.
Rests(b, x, side, quote) ==
  /\ x = [id |-> x.id, price |-> x.price, size |-> x.size, time |-> x.time]
  /\ x.id[2] \in Makers /\ x.id \in b.quotes[x.id[2]] /\ x.size \in Nat
  /\ x.id[2] = "STUDENT" => /\ quote # Pass /\ x.price = PriceOf(quote, side)
                          /\ SizeOf(quote, side) \in Nat /\ x.size <= SizeOf(quote, side)

\* Each maker has at most one order on a side.
Standing(b, quote) ==
  /\ IsBook(b)
  /\ \A side \in Sides :
       \/ b.queue[side] = <<>>
       \/ \E a : b.queue[side] = <<a>> /\ Rests(b, a, side, quote)
       \/ \E a, c : b.queue[side] = <<a, c>> /\ Rests(b, a, side, quote) /\ Rests(b, c, side, quote) /\ a.id[2] # c.id[2]

\* The student is alone.
StudentsOnly(b, quote) ==
  /\ IsBook(b) /\ b.quotes["NOISE_MARKET_MAKER"] = {}
  /\ \A side \in Sides :
       b.queue[side] = <<>> \/ \E a : b.queue[side] = <<a>> /\ a.id[2] = "STUDENT" /\ Rests(b, a, side, quote)

LEMMA ActionFacts ==
  ASSUME NEW quote \in Actions, quote # Pass
  PROVE  quote.bidSize \in Nat /\ quote.askSize \in Nat
BY QuantAssumption DEF Actions

LEMMA OrderFacts ==
  ASSUME NEW b, NEW owner, NEW quote, NEW side
  PROVE  LET x == OrderOf(b, owner, quote, side)
         IN /\ x = [id |-> x.id, price |-> x.price, size |-> x.size, time |-> x.time]
            /\ x.id[2] = owner /\ x.price = PriceOf(quote, side) /\ x.size = SizeOf(quote, side)
BY DEF OrderOf, Order

\* With a fresh book, quoting leaves the student alone in it, with the orders of the quote.
LEMMA QuotedFacts ==
  ASSUME NEW b, Fresh(b), NEW quote \in Actions
  PROVE  StudentsOnly(Quoted(b, quote), quote)
<1> DEFINE k == CancelMakerQuotes(b, "STUDENT")
<1>1. "STUDENT" \in Makers /\ "NOISE_MARKET_MAKER" \in Makers /\ "STUDENT" # "NOISE_MARKET_MAKER"
  BY DEF Makers
<1>2. /\ IsBook(k)
      /\ \A side \in Sides : k.queue[side] = <<>>
      /\ \A o \in Makers : k.quotes[o] = {}
  <2>1. IsBook(b) /\ \A side \in Sides : b.queue[side] = <<>>
    BY DEF Fresh
  <2>2. \A o \in Makers : b.quotes[o] = {}
    BY DEF Fresh
  <2>3. /\ IsBook(k)
        /\ \A side \in Sides : k.queue[side] = Without(b.queue[side], b.quotes["STUDENT"])
        /\ \A o \in Makers : k.quotes[o] = IF o = "STUDENT" THEN {} ELSE b.quotes[o]
    BY <1>1, <2>1, CancelFacts
  <2> HIDE DEF k
  <2>4. \A ids : Without(<<>>, ids) = <<>>
    BY OnlyNone DEF Without
  <2> QED BY <2>1, <2>2, <2>3, <2>4
<1>3. CASE quote = Pass
  <2>1. Quoted(b, quote) = k
    BY <1>3 DEF Quoted
  <2> QED BY <1>1, <1>2, <2>1 DEF StudentsOnly
<1>4. CASE quote # Pass
  <2> DEFINE c == SetQuotes(b, "STUDENT", quote)
  <2>1. Quoted(b, quote) = c
    BY <1>4 DEF Quoted
  <2>2. /\ IsBook(c)
        /\ \A side \in Sides : c.queue[side] = Insert(side, k.queue[side], OrderOf(b, "STUDENT", quote, side))
        /\ c.quotes["STUDENT"] = IdsOf(b, "STUDENT", quote)
        /\ c.quotes["NOISE_MARKET_MAKER"] = {}
    <3>1. /\ IsBook(c)
          /\ \A side \in Sides : c.queue[side] = Insert(side, k.queue[side], OrderOf(b, "STUDENT", quote, side))
          /\ \A o \in Makers : c.quotes[o] = IF o = "STUDENT" THEN IdsOf(b, "STUDENT", quote)
                                             ELSE b.quotes[o]
      <4>1. IsBook(b)
        BY DEF Fresh
      <4> QED BY <1>1, <4>1, SetFacts
    <3> HIDE DEF c, k
    <3>2. b.quotes["NOISE_MARKET_MAKER"] = {}
      BY <1>1 DEF Fresh
    <3> QED BY <1>1, <3>1, <3>2
  <2> HIDE DEF c, k
  <2>3. ASSUME NEW side \in Sides
        PROVE  \E a : c.queue[side] = <<a>> /\ a.id[2] = "STUDENT" /\ Rests(c, a, side, quote)
    <3> DEFINE a == OrderOf(b, "STUDENT", quote, side)
    <3>1. c.queue[side] = <<a>>
      BY <1>2, <2>2, InsertFacts
    <3>2. /\ a = [id |-> a.id, price |-> a.price, size |-> a.size, time |-> a.time]
          /\ a.id[2] = "STUDENT" /\ a.price = PriceOf(quote, side) /\ a.size = SizeOf(quote, side)
      BY OrderFacts
    <3>3. a.id \in c.quotes["STUDENT"]
      BY <2>2 DEF IdsOf
    <3> HIDE DEF a
    <3>4. a.size \in Nat
      BY <1>4, <3>2, ActionFacts DEF SizeOf
    <3>5. Rests(c, a, side, quote)
      BY <1>1, <1>4, <3>2, <3>3, <3>4 DEF Rests
    <3> QED BY <3>1, <3>2, <3>5
  <2> QED BY <2>1, <2>2, <2>3 DEF StudentsOnly
<1> QED BY <1>3, <1>4

LEMMA StudentsOnlyStands ==
  ASSUME NEW b, NEW quote, StudentsOnly(b, quote)
  PROVE  Standing(b, quote)
BY DEF StudentsOnly, Standing

\* The other maker comes to compete.
LEMMA CompeteFacts ==
  ASSUME NEW b, NEW quote, StudentsOnly(b, quote), NEW other, other.bidSize \in Nat, other.askSize \in Nat
  PROVE  Standing(SetQuotes(b, "NOISE_MARKET_MAKER", other), quote)
<1> DEFINE c == SetQuotes(b, "NOISE_MARKET_MAKER", other)
           k == CancelMakerQuotes(b, "NOISE_MARKET_MAKER")
<1>1. "STUDENT" \in Makers /\ "NOISE_MARKET_MAKER" \in Makers /\ "STUDENT" # "NOISE_MARKET_MAKER"
  BY DEF Makers
<1>2. IsBook(b) /\ b.quotes["NOISE_MARKET_MAKER"] = {}
  BY DEF StudentsOnly
<1>3. \A side \in Sides : k.queue[side] = Without(b.queue[side], {})
  <2>1. \A owner \in Makers : \A side \in Sides :
          CancelMakerQuotes(b, owner).queue[side] = Without(b.queue[side], b.quotes[owner])
    BY <1>2, CancelFacts
  <2>2. \A side \in Sides : k.queue[side] = Without(b.queue[side], b.quotes["NOISE_MARKET_MAKER"])
    BY <1>1, <2>1
  <2> QED BY <1>2, <2>2
<1>4. /\ IsBook(c)
      /\ \A side \in Sides : c.queue[side] = Insert(side, k.queue[side], OrderOf(b, "NOISE_MARKET_MAKER", other, side))
      /\ c.quotes["NOISE_MARKET_MAKER"] = IdsOf(b, "NOISE_MARKET_MAKER", other)
      /\ c.quotes["STUDENT"] = b.quotes["STUDENT"]
  <2>1. /\ IsBook(c)
        /\ \A side \in Sides : c.queue[side] = Insert(side, k.queue[side], OrderOf(b, "NOISE_MARKET_MAKER", other, side))
        /\ \A o \in Makers : c.quotes[o] = IF o = "NOISE_MARKET_MAKER"
                                           THEN IdsOf(b, "NOISE_MARKET_MAKER", other)
                                           ELSE b.quotes[o]
    BY <1>1, <1>2, SetFacts
  <2> HIDE DEF c, k
  <2> QED BY <1>1, <2>1
<1> HIDE DEF c, k
<1>5. ASSUME NEW side \in Sides
      PROVE  \/ c.queue[side] = <<>>
             \/ \E a : c.queue[side] = <<a>> /\ Rests(c, a, side, quote)
             \/ \E a, x : c.queue[side] = <<a, x>> /\ Rests(c, a, side, quote) /\ Rests(c, x, side, quote) /\ a.id[2] # x.id[2]
  <2> DEFINE n == OrderOf(b, "NOISE_MARKET_MAKER", other, side)
  <2>1. /\ n = [id |-> n.id, price |-> n.price, size |-> n.size, time |-> n.time]
        /\ n.id[2] = "NOISE_MARKET_MAKER" /\ n.size = SizeOf(other, side)
    BY OrderFacts
  <2>2. n.id \in c.quotes["NOISE_MARKET_MAKER"] /\ c.queue[side] = Insert(side, k.queue[side], n)
    BY <1>4 DEF IdsOf
  <2> HIDE DEF n
  <2>3. Rests(c, n, side, quote)
    BY <1>1, <2>1, <2>2 DEF Rests, SizeOf
  <2>4. CASE b.queue[side] = <<>>
    <3>1. k.queue[side] = <<>>
      BY <1>3, <2>4, OnlyNone DEF Without
    <3>2. c.queue[side] = <<n>>
      BY <2>2, <3>1, InsertFacts
    <3> QED BY <2>3, <3>2
  <2>5. ASSUME NEW a, b.queue[side] = <<a>>, a.id[2] = "STUDENT", Rests(b, a, side, quote)
        PROVE  \E x, y : c.queue[side] = <<x, y>> /\ Rests(c, x, side, quote) /\ Rests(c, y, side, quote) /\ x.id[2] # y.id[2]
    <3>1. k.queue[side] = <<a>>
      <4>1. a \in {o \in Range(<<a>>) : o.id \notin {}}
        BY DEF Range
      <4> QED BY <1>3, <2>5, <4>1, OnlyOne DEF Without
    <3>2. c.queue[side] \in {<<a, n>>, <<n, a>>}
      BY <2>2, <3>1, InsertFacts
    <3>3. Rests(c, a, side, quote)
      BY <1>4, <2>5 DEF Rests
    <3> QED BY <1>1, <2>1, <2>3, <2>5, <3>2, <3>3
  <2> QED BY <2>4, <2>5 DEF StudentsOnly
<1>6. Standing(c, quote)
  BY <1>4, <1>5 DEF Standing
<1> QED BY <1>6 DEF c

-----------------------------------------------------------------------------
(* Orders for the market. *)

\* f fills the order x, or a part of it.
Fills(f, x) == f.order = x.id /\ f.price = x.price /\ f.size \in Nat /\ f.size <= x.size

IsPlan(p) == p = [left |-> p.left, fills |-> p.fills] /\ p.left \in Nat

\* A resting order adds one fill of it to a plan, or nothing.
LEMMA TakeFacts ==
  ASSUME NEW p, IsPlan(p), NEW x, x.size \in Nat
  PROVE  /\ IsPlan(Take(p, x))
         /\ Take(p, x) = p \/ \E f : Take(p, x).fills = Append(p.fills, f) /\ Fills(f, x)
         /\ p.left = 0 => Take(p, x) = p
<1> DEFINE size == IF p.left < x.size THEN p.left ELSE x.size
           f == [order |-> x.id, price |-> x.price, size |-> size]
           t == Take(p, x)
<1>1. CASE p.left = 0
  <2>1. t = p
    BY <1>1 DEF Take
  <2> QED BY <1>1, <2>1
<1>2. CASE p.left # 0
  <2>1. t = [left |-> p.left - size, fills |-> Append(p.fills, f)]
    BY <1>2 DEF Take
  <2>2. p.left - size \in Nat /\ size \in Nat /\ size <= x.size
    BY DEF IsPlan
  <2> HIDE DEF size, t
  <2>3. Fills(f, x)
    BY <2>2 DEF Fills
  <2> HIDE DEF f
  <2>4. IsPlan(t) /\ t.fills = Append(p.fills, f)
    BY <2>1, <2>2 DEF IsPlan
  <2> QED BY <1>2, <2>3, <2>4 DEF t
<1> QED BY <1>1, <1>2

\* A plan fills the first order, or the first two.
LEMMA PlanFacts ==
  ASSUME NEW base, IsPlan(base), base.fills = <<>>, NEW q
  PROVE  LET fills == Taken(base, q).fills
         IN /\ q = <<>> => fills = <<>>
            /\ \A a : q = <<a>> /\ a.size \in Nat => fills = <<>> \/ \E f : fills = <<f>> /\ Fills(f, a)
            /\ \A a, c : q = <<a, c>> /\ a.size \in Nat /\ c.size \in Nat =>
                 \/ fills = <<>>
                 \/ \E f : fills = <<f>> /\ Fills(f, a)
                 \/ \E f, g : fills = <<f, g>> /\ Fills(f, a) /\ Fills(g, c)
<1> DEFINE plan == Taken(base, q)
<1>0. \A f : Append(<<>>, f) = <<f>>
  OBVIOUS
<1>1. CASE q = <<>>
  <2>1. DOMAIN q = {}
    BY <1>1
  <2>2. plan = base
    BY <2>1, TakeFold
  <2> QED BY <1>1, <2>2
<1>2. ASSUME NEW a, q = <<a>>, a.size \in Nat
      PROVE  plan.fills = <<>> \/ \E f : plan.fills = <<f>> /\ Fills(f, a)
  <2>1. DOMAIN q = {1} /\ q[1] = a
    BY <1>2
  <2>2. plan = Take(base, a)
    BY <2>1, TakeFold
  <2> HIDE DEF plan
  <2>3. plan = base \/ \E f : plan.fills = Append(base.fills, f) /\ Fills(f, a)
    BY <1>2, <2>2, TakeFacts
  <2> QED BY <1>0, <2>3
<1>3. ASSUME NEW a, NEW c, q = <<a, c>>, a.size \in Nat, c.size \in Nat
      PROVE  \/ plan.fills = <<>>
             \/ \E f : plan.fills = <<f>> /\ Fills(f, a)
             \/ \E f, g : plan.fills = <<f, g>> /\ Fills(f, a) /\ Fills(g, c)
  <2> DEFINE first == Take(base, a)
  <2>1. DOMAIN q = {1, 2} /\ q[1] = a /\ q[2] = c
    BY <1>3
  <2>2. plan = Take(first, c)
    BY <2>1, TakeFold
  <2>3. /\ IsPlan(first)
        /\ first = base \/ \E f : first.fills = Append(base.fills, f) /\ Fills(f, a)
        /\ base.left = 0 => first = base
    BY <1>3, TakeFacts
  <2>4. base.left # 0 => first # base
    BY DEF Take, IsPlan
  <2> HIDE DEF first, plan
  <2>5. CASE first = base
    <3>1. plan = base
      BY <1>3, <2>2, <2>4, <2>5, TakeFacts
    <3> QED BY <3>1
  <2>6. ASSUME NEW f, first.fills = Append(base.fills, f), Fills(f, a)
        PROVE  plan.fills = <<f>> \/ \E g : plan.fills = <<f, g>> /\ Fills(g, c)
    <3>1. first.fills = <<f>>
      BY <1>0, <2>6
    <3>2. plan = first \/ \E g : plan.fills = Append(first.fills, g) /\ Fills(g, c)
      BY <1>3, <2>2, <2>3, TakeFacts
    <3>3. \A g : Append(<<f>>, g) = <<f, g>>
      BY TwoOf, Zenon
    <3> QED BY <3>1, <3>2, <3>3
  <2> QED BY <2>3, <2>5, <2>6
<1> QED BY <1>1, <1>2, <1>3

\* What a round brings the student: nothing, or one fill of the quote.
IsFlow(fills, quote) ==
  \/ fills = <<>>
  \/ /\ quote # Pass
     /\ \E side \in Sides, size \in Nat :
          size <= SizeOf(quote, side) /\ fills = <<[side |-> side, price |-> PriceOf(quote, side), size |-> size]>>

StudentFill(side, f) == [side |-> side, price |-> f.price, size |-> f.size]

\* Of the fills of one order or two, the student's.
LEMMA StudentFillsFacts ==
  ASSUME NEW fills, NEW side \in Sides
  PROVE  LET mine == StudentFills(fills, side)
         IN /\ fills = <<>> => mine = <<>>
            /\ \A f : fills = <<f>> => mine = IF f.order[2] = "STUDENT" THEN <<StudentFill(Opposite(side), f)>> ELSE <<>>
            /\ \A f, g : fills = <<f, g>> =>
                 /\ f.order[2] # "STUDENT" /\ g.order[2] # "STUDENT" => mine = <<>>
                 /\ f.order[2] = "STUDENT" /\ g.order[2] # "STUDENT" => mine = <<StudentFill(Opposite(side), f)>>
                 /\ f.order[2] # "STUDENT" /\ g.order[2] = "STUDENT" => mine = <<StudentFill(Opposite(side), g)>>
<1> DEFINE mine == StudentFills(fills, side)
           own == Only(fills, {fill \in Range(fills) : fill.order[2] = "STUDENT"})
<1>1. mine = [i \in DOMAIN own |-> StudentFill(Opposite(side), own[i])]
  BY DEF StudentFills, StudentFill
<1>2. own = <<>> => mine = <<>>
  BY <1>1
<1>3. \A f : own = <<f>> => mine = <<StudentFill(Opposite(side), f)>>
  BY <1>1
<1> HIDE DEF mine
<1>4. CASE fills = <<>>
  BY <1>2, <1>4, OnlyNone DEF mine
<1>5. ASSUME NEW f, fills = <<f>>
      PROVE  mine = IF f.order[2] = "STUDENT" THEN <<StudentFill(Opposite(side), f)>> ELSE <<>>
  <2>1. f \in Range(fills)
    BY <1>5 DEF Range
  <2>2. own = IF f.order[2] = "STUDENT" THEN <<f>> ELSE <<>>
    BY <1>5, <2>1, OnlyOne
  <2> HIDE DEF own
  <2> QED BY <1>2, <1>3, <2>2
<1>6. ASSUME NEW f, NEW g, fills = <<f, g>>
      PROVE  /\ f.order[2] # "STUDENT" /\ g.order[2] # "STUDENT" => mine = <<>>
             /\ f.order[2] = "STUDENT" /\ g.order[2] # "STUDENT" => mine = <<StudentFill(Opposite(side), f)>>
             /\ f.order[2] # "STUDENT" /\ g.order[2] = "STUDENT" => mine = <<StudentFill(Opposite(side), g)>>
  <2>1. f \in Range(fills) /\ g \in Range(fills)
    BY <1>6 DEF Range
  <2>2. own = IF f.order[2] = "STUDENT"
              THEN IF g.order[2] = "STUDENT" THEN <<f, g>> ELSE <<f>>
              ELSE IF g.order[2] = "STUDENT" THEN <<g>> ELSE <<>>
    BY <1>6, <2>1, OnlyTwo
  <2> HIDE DEF own
  <2> QED BY <1>2, <1>3, <2>2
<1> QED BY <1>4, <1>5, <1>6 DEF mine

\* Every order in the book is one that its owner will withdraw.
Known(b, x) == \E o \in Makers : x.id \in b.quotes[o]

Tidy(b) ==
  /\ IsBook(b)
  /\ \A side \in Sides :
       \/ b.queue[side] = <<>>
       \/ \E a : b.queue[side] = <<a>> /\ Known(b, a)
       \/ \E a, c : b.queue[side] = <<a, c>> /\ Known(b, a) /\ Known(b, c)

LEMMA StandingIsTidy ==
  ASSUME NEW b, NEW quote, Standing(b, quote)
  PROVE  Tidy(b)
<1>1. \A x, side : Rests(b, x, side, quote) => Known(b, x)
  BY DEF Rests, Known
<1> QED BY <1>1 DEF Standing, Tidy

\* An order for the market: what it fills of the student, and the book it leaves.
LEMMA IncomingFacts ==
  ASSUME NEW b, NEW quote, Standing(b, quote), NEW side \in Sides, NEW size \in Nat
  PROVE  LET t == Incoming(b, side, size) IN IsFlow(t.fills, quote) /\ Tidy(t.book) /\ t.book.quotes = b.quotes
<1> DEFINE t == Incoming(b, side, size)
           base == [left |-> size, fills |-> <<>>]
           other == Opposite(side)
           q == b.queue[other]
           plan == Taken(base, q)
           mine == StudentFills(plan.fills, side)
           c == CommitMatchPlan(b, side, plan)
           left == Reduced(b, side, plan)
<1>1. t = [book |-> c, fills |-> mine]
  BY DEF Incoming, Traded, PlanMatch, Taken
<1>2. other \in Sides /\ Opposite(other) = side /\ side # other
  BY OppositeFacts
<1>3. IsPlan(base) /\ base.fills = <<>>
  BY DEF IsPlan
<1>4. \/ q = <<>>
      \/ \E a : q = <<a>> /\ Rests(b, a, other, quote)
      \/ \E a, x : q = <<a, x>> /\ Rests(b, a, other, quote) /\ Rests(b, x, other, quote) /\ a.id[2] # x.id[2]
  BY <1>2 DEF Standing
<1> HIDE DEF t, base, other, q
<1>5. IsFlow(mine, quote)
  <2>1. ASSUME NEW a, Rests(b, a, other, quote), NEW f, Fills(f, a), f.order[2] = "STUDENT",
               mine = <<StudentFill(other, f)>>
        PROVE  IsFlow(mine, quote)
    <3>1. /\ quote # Pass /\ f.price = PriceOf(quote, other) /\ f.size \in Nat /\ a.size \in Nat
          /\ SizeOf(quote, other) \in Nat /\ a.size <= SizeOf(quote, other) /\ f.size <= a.size
      BY <2>1 DEF Rests, Fills
    <3> HIDE DEF mine
    <3>2. mine = <<[side |-> other, price |-> PriceOf(quote, other), size |-> f.size]>>
      BY <2>1, <3>1 DEF StudentFill
    <3>3. f.size <= SizeOf(quote, other)
      BY <3>1
    <3> QED BY <1>2, <3>1, <3>2, <3>3 DEF IsFlow
  <2>2. plan.fills = <<>> => mine = <<>>
    BY StudentFillsFacts
  <2>3. \A f : plan.fills = <<f>> => mine = IF f.order[2] = "STUDENT" THEN <<StudentFill(other, f)>> ELSE <<>>
    BY StudentFillsFacts DEF other
  <2>4. \A f, g : plan.fills = <<f, g>> =>
          /\ f.order[2] # "STUDENT" /\ g.order[2] # "STUDENT" => mine = <<>>
          /\ f.order[2] = "STUDENT" /\ g.order[2] # "STUDENT" => mine = <<StudentFill(other, f)>>
          /\ f.order[2] # "STUDENT" /\ g.order[2] = "STUDENT" => mine = <<StudentFill(other, g)>>
    BY StudentFillsFacts DEF other
  <2> HIDE DEF mine
  <2>5. mine = <<>> => IsFlow(mine, quote)
    BY DEF IsFlow
  <2>6. \A a : Rests(b, a, other, quote) => a.size \in Nat
    BY DEF Rests
  <2>7. CASE q = <<>>
    <3>1. plan.fills = <<>>
      BY <1>3, <2>7, PlanFacts
    <3> QED BY <2>2, <2>5, <3>1
  <2>8. ASSUME NEW a, q = <<a>>, Rests(b, a, other, quote) PROVE IsFlow(mine, quote)
    <3>1. plan.fills = <<>> \/ \E f : plan.fills = <<f>> /\ Fills(f, a)
      BY <1>3, <2>6, <2>8, PlanFacts
    <3> HIDE DEF plan
    <3>2. ASSUME NEW f, plan.fills = <<f>>, Fills(f, a) PROVE IsFlow(mine, quote)
      BY <2>1, <2>3, <2>5, <2>8, <3>2
    <3> QED BY <2>2, <2>5, <3>1, <3>2
  <2>9. ASSUME NEW a, NEW x, q = <<a, x>>, Rests(b, a, other, quote), Rests(b, x, other, quote), a.id[2] # x.id[2]
        PROVE  IsFlow(mine, quote)
    <3>1. \/ plan.fills = <<>>
          \/ \E f : plan.fills = <<f>> /\ Fills(f, a)
          \/ \E f, g : plan.fills = <<f, g>> /\ Fills(f, a) /\ Fills(g, x)
      BY <1>3, <2>6, <2>9, PlanFacts
    <3> HIDE DEF plan
    <3>2. ASSUME NEW f, plan.fills = <<f>>, Fills(f, a) PROVE IsFlow(mine, quote)
      BY <2>1, <2>3, <2>5, <2>9, <3>2
    <3>3. ASSUME NEW f, NEW g, plan.fills = <<f, g>>, Fills(f, a), Fills(g, x) PROVE IsFlow(mine, quote)
      <4>1. f.order[2] # "STUDENT" \/ g.order[2] # "STUDENT"
        BY <2>9, <3>3 DEF Fills
      <4>2. CASE f.order[2] = "STUDENT"
        BY <2>1, <2>4, <2>9, <3>3, <4>1, <4>2
      <4>3. CASE g.order[2] = "STUDENT"
        BY <2>1, <2>4, <2>9, <3>3, <4>1, <4>3
      <4>4. CASE f.order[2] # "STUDENT" /\ g.order[2] # "STUDENT"
        BY <2>4, <2>5, <3>3, <4>4
      <4> QED BY <4>2, <4>3, <4>4
    <3> QED BY <2>2, <2>5, <3>1, <3>2, <3>3
  <2> QED BY <1>4, <2>7, <2>8, <2>9
<1>6. Tidy(c) /\ c.quotes = b.quotes
  <2> DEFINE rest == Only(left, {o \in Range(left) : o.size > 0})
             less(x) == [x EXCEPT !.size = @ - Filled(plan, x.id)]
  <2>1. IsBook(c) /\ c.quotes = b.quotes /\ c.queue[other] = rest /\ c.queue[side] = b.queue[side]
    BY CommitFacts DEF Standing, other
  <2>2. left = [i \in DOMAIN q |-> less(q[i])]
    BY DEF Reduced, q, other
  <2>3. \A x : Rests(b, x, other, quote) => Known(b, less(x)) /\ Known(b, x)
    BY DEF Rests, Known
  <2> HIDE DEF left, less, c
  <2>4. \A x : Known(b, x) <=> Known(c, x)
    BY <2>1 DEF Known
  <2>5. rest = <<>> \/ (\E y : rest = <<y>> /\ Known(b, y)) \/ \E y, z : rest = <<y, z>> /\ Known(b, y) /\ Known(b, z)
    <3>1. CASE q = <<>>
      <4>1. left = <<>>
        BY <2>2, <3>1
      <4> QED BY <4>1, OnlyNone
    <3>2. ASSUME NEW a, q = <<a>>, Rests(b, a, other, quote)
          PROVE  rest = <<>> \/ \E y : rest = <<y>> /\ Known(b, y)
      <4>1. left = <<less(a)>>
        BY <2>2, <3>2
      <4>2. rest = <<>> \/ rest = <<less(a)>>
        BY <4>1, OnlyOne
      <4> QED BY <2>3, <3>2, <4>2
    <3>3. ASSUME NEW a, NEW x, q = <<a, x>>, Rests(b, a, other, quote), Rests(b, x, other, quote)
          PROVE  rest = <<>> \/ (\E y : rest = <<y>> /\ Known(b, y)) \/ \E y, z : rest = <<y, z>> /\ Known(b, y) /\ Known(b, z)
      <4>1. left = <<less(a), less(x)>>
        BY <2>2, <3>3
      <4>2. \/ rest = <<>> \/ rest = <<less(a)>> \/ rest = <<less(x)>> \/ rest = <<less(a), less(x)>>
        BY <4>1, OnlyTwo
      <4> QED BY <2>3, <3>3, <4>2
    <3> QED BY <1>4, <3>1, <3>2, <3>3
  <2>6. Tidy(b)
    BY StandingIsTidy
  <2> HIDE DEF rest
  <2>7. ASSUME NEW s \in Sides
        PROVE  \/ c.queue[s] = <<>>
               \/ \E y : c.queue[s] = <<y>> /\ Known(c, y)
               \/ \E y, z : c.queue[s] = <<y, z>> /\ Known(c, y) /\ Known(c, z)
    <3>1. s = side \/ s = other
      BY DEF Sides, Opposite, other
    <3>2. CASE s = other
      BY <2>1, <2>4, <2>5, <3>2
    <3>3. CASE s = side
      BY <2>1, <2>4, <2>6, <3>3 DEF Tidy
    <3> QED BY <3>1, <3>2, <3>3
  <2> QED BY <2>1, <2>7 DEF Tidy
<1> HIDE DEF mine, c
<1> QED BY <1>1, <1>5, <1>6 DEF t

\* What is left of a queue of one order or two without some ids.
LEMMA WithoutFacts ==
  ASSUME NEW ids, NEW a, NEW c
  PROVE  /\ Without(<<>>, ids) = <<>>
         /\ Without(<<a>>, ids) = IF a.id \in ids THEN <<>> ELSE <<a>>
         /\ Without(<<a, c>>, ids) = IF a.id \in ids THEN IF c.id \in ids THEN <<>> ELSE <<c>>
                                     ELSE IF c.id \in ids THEN <<a>> ELSE <<a, c>>
<1>1. Without(<<>>, ids) = <<>>
  BY OnlyNone DEF Without
<1>2. Without(<<a>>, ids) = IF a.id \in ids THEN <<>> ELSE <<a>>
  <2>1. a \in Range(<<a>>)
    BY DEF Range
  <2> QED BY <2>1, OnlyOne DEF Without
<1>3. Without(<<a, c>>, ids) = IF a.id \in ids THEN IF c.id \in ids THEN <<>> ELSE <<c>>
                               ELSE IF c.id \in ids THEN <<a>> ELSE <<a, c>>
  <2>1. a \in Range(<<a, c>>) /\ c \in Range(<<a, c>>)
    BY DEF Range
  <2> QED BY <2>1, OnlyTwo DEF Without
<1> QED BY <1>1, <1>2, <1>3

\* The other maker leaves, or the student does.
LEMMA WithdrawFacts ==
  ASSUME NEW b, Tidy(b), NEW owner \in Makers
  PROVE  LET c == CancelMakerQuotes(b, owner)
         IN /\ Tidy(c)
            /\ \A o \in Makers : c.quotes[o] = IF o = owner THEN {} ELSE b.quotes[o]
            /\ (\A o \in Makers : c.quotes[o] = {}) => Fresh(c)
<1> DEFINE c == CancelMakerQuotes(b, owner)
<1>1. /\ IsBook(c)
      /\ \A side \in Sides : c.queue[side] = Without(b.queue[side], b.quotes[owner])
      /\ \A o \in Makers : c.quotes[o] = IF o = owner THEN {} ELSE b.quotes[o]
  BY CancelFacts DEF Tidy
<1> HIDE DEF c
<1>2. \A x : Known(b, x) /\ x.id \notin b.quotes[owner] => Known(c, x)
  BY <1>1 DEF Known
<1>3. ASSUME NEW side \in Sides
      PROVE  \/ c.queue[side] = <<>>
             \/ \E a : c.queue[side] = <<a>> /\ Known(c, a)
             \/ \E a, x : c.queue[side] = <<a, x>> /\ Known(c, a) /\ Known(c, x)
  <2> DEFINE ids == b.quotes[owner]
  <2>1. c.queue[side] = Without(b.queue[side], ids)
    BY <1>1
  <2> HIDE DEF ids
  <2>2. CASE b.queue[side] = <<>>
    BY <2>1, <2>2, WithoutFacts
  <2>3. ASSUME NEW a, b.queue[side] = <<a>>, Known(b, a)
        PROVE  c.queue[side] = <<>> \/ \E x : c.queue[side] = <<x>> /\ Known(c, x)
    <3>1. c.queue[side] = IF a.id \in ids THEN <<>> ELSE <<a>>
      <4>1. Without(<<a>>, ids) = IF a.id \in ids THEN <<>> ELSE <<a>>
        BY WithoutFacts
      <4> HIDE DEF c
      <4> QED BY <2>1, <2>3, <4>1
    <3>2. CASE a.id \in ids
      BY <3>1, <3>2
    <3>3. CASE a.id \notin ids
      <4>1. c.queue[side] = <<a>> /\ Known(c, a)
        BY <1>2, <2>3, <3>1, <3>3 DEF ids
      <4> QED BY <4>1
    <3> QED BY <3>2, <3>3
  <2>4. ASSUME NEW a, NEW x, b.queue[side] = <<a, x>>, Known(b, a), Known(b, x)
        PROVE  \/ c.queue[side] = <<>>
               \/ \E y : c.queue[side] = <<y>> /\ Known(c, y)
               \/ \E y, z : c.queue[side] = <<y, z>> /\ Known(c, y) /\ Known(c, z)
    <3>1. c.queue[side] = IF a.id \in ids THEN IF x.id \in ids THEN <<>> ELSE <<x>>
                          ELSE IF x.id \in ids THEN <<a>> ELSE <<a, x>>
      BY <2>1, <2>4, WithoutFacts
    <3>2. (a.id \notin ids => Known(c, a)) /\ (x.id \notin ids => Known(c, x))
      BY <1>2, <2>4 DEF ids
    <3>3. CASE a.id \in ids
      BY <3>1, <3>2, <3>3
    <3>4. CASE a.id \notin ids /\ x.id \in ids
      BY <3>1, <3>2, <3>4
    <3>5. CASE a.id \notin ids /\ x.id \notin ids
      <4>1. c.queue[side] = <<a, x>> /\ Known(c, a) /\ Known(c, x)
        BY <3>1, <3>2, <3>5
      <4> QED BY <4>1
    <3> QED BY <3>3, <3>4, <3>5
  <2> QED BY <2>2, <2>3, <2>4 DEF Tidy
<1>4. Tidy(c)
  BY <1>1, <1>3 DEF Tidy
<1>5. ASSUME \A o \in Makers : c.quotes[o] = {} PROVE Fresh(c)
  <2>1. \A x : ~Known(c, x)
    BY <1>5 DEF Known
  <2>2. \A side \in Sides : c.queue[side] = <<>>
    BY <1>3, <2>1
  <2> QED BY <1>1, <1>5, <2>2 DEF Fresh
<1> QED BY <1>1, <1>4, <1>5 DEF c

\* The orders of a round: they bring the student one fill of the quote at most, and leave no order behind.
FlowDone(t, quote) ==
  IsFlow(t.fills, quote) /\ Tidy(t.book) /\ t.book.quotes["NOISE_MARKET_MAKER"] = {}

LEMMA NoFlowFacts ==
  ASSUME NEW b, NEW quote, StudentsOnly(b, quote)
  PROVE  FlowDone([book |-> b, fills |-> <<>>], quote)
BY StudentsOnlyStands, StandingIsTidy DEF FlowDone, IsFlow, StudentsOnly

\* The flow of who knows the fair value, and the flow of noise.
LEMMA InformedFacts ==
  ASSUME NEW b, NEW quote \in Actions, StudentsOnly(b, quote), NEW fair
  PROVE  FlowDone(InformedFlow(b, quote, fair), quote)
<1> DEFINE buys == fair - quote.askPrice
           sells == quote.bidPrice - fair
           side == IF buys >= sells THEN "BUY" ELSE "SELL"
           size == IF buys >= sells THEN quote.askSize ELSE quote.bidSize
           nothing == [book |-> b, fills |-> <<>>]
           t == Incoming(b, side, size)
<1>1. CASE quote = Pass \/ (buys <= 0 /\ sells <= 0)
  <2>1. InformedFlow(b, quote, fair) = nothing
    BY <1>1 DEF InformedFlow
  <2> QED BY <2>1, NoFlowFacts
<1>2. CASE ~(quote = Pass \/ (buys <= 0 /\ sells <= 0))
  <2>1. InformedFlow(b, quote, fair) = t
    BY <1>2 DEF InformedFlow
  <2>2. side \in Sides /\ size \in Nat
    BY <1>2, ActionFacts DEF Sides
  <2>3. Standing(b, quote)
    BY StudentsOnlyStands
  <2> HIDE DEF side, size
  <2>4. IsFlow(t.fills, quote) /\ Tidy(t.book) /\ t.book.quotes = b.quotes
    BY <2>2, <2>3, IncomingFacts
  <2> HIDE DEF t
  <2>5. b.quotes["NOISE_MARKET_MAKER"] = {}
    BY DEF StudentsOnly
  <2> QED BY <2>1, <2>4, <2>5 DEF FlowDone
<1> QED BY <1>1, <1>2

LEMMA NoiseFacts ==
  ASSUME NEW b, NEW quote \in Actions, StudentsOnly(b, quote), NEW side \in Sides, NEW fair
  PROVE  FlowDone(NoiseFlow(b, side, fair), quote)
<1> DEFINE passive == [bidPrice |-> Greatest(fair \div 2, fair - NoiseSpread), bidSize |-> NoiseSize,
                       askPrice |-> fair + NoiseSpread, askSize |-> NoiseSize]
           both == SetQuotes(b, "NOISE_MARKET_MAKER", passive)
           traded == Incoming(both, side, NoiseSize)
           c == CancelMakerQuotes(traded.book, "NOISE_MARKET_MAKER")
           t == NoiseFlow(b, side, fair)
<1>1. "NOISE_MARKET_MAKER" \in Makers
  BY DEF Makers
<1>2. NoiseSize \in Nat
  BY QuantAssumption
<1>3. passive.bidSize \in Nat /\ passive.askSize \in Nat
  BY <1>2
<1>4. t = [traded EXCEPT !.book = CancelMakerQuotes(@, "NOISE_MARKET_MAKER")]
  BY DEF NoiseFlow
<1>5. traded = [book |-> traded.book, fills |-> traded.fills]
  BY DEF Incoming, Traded
<1> HIDE DEF passive, traded, t
<1>6. Standing(both, quote)
  BY <1>3, CompeteFacts
<1> HIDE DEF both
<1>7. IsFlow(traded.fills, quote) /\ Tidy(traded.book)
  BY <1>2, <1>6, IncomingFacts DEF traded
<1>8. Tidy(c) /\ c.quotes["NOISE_MARKET_MAKER"] = {}
  BY <1>1, <1>7, WithdrawFacts
<1>9. t.fills = traded.fills /\ t.book = c
  BY <1>4, <1>5
<1> HIDE DEF c
<1> QED BY <1>7, <1>8, <1>9 DEF FlowDone, t

\* Any flow, with the student out of the book again after it.
LEMMA FlowFacts ==
  ASSUME NEW b, Fresh(b), NEW quote \in Actions, NEW flow, NEW fair
  PROVE  LET t == OrderFlow(flow, Quoted(b, quote), quote, fair)
         IN IsFlow(t.fills, quote) /\ Fresh(CancelMakerQuotes(t.book, "STUDENT"))
<1> DEFINE c == Quoted(b, quote)
           t == OrderFlow(flow, c, quote, fair)
           nothing == [book |-> c, fills |-> <<>>]
<1>1. StudentsOnly(c, quote)
  BY QuotedFacts
<1> HIDE DEF c
<1>2. FlowDone(t, quote)
  <2>1. CASE flow = "INFORMED"
    <3>1. t = InformedFlow(c, quote, fair)
      BY <2>1 DEF OrderFlow
    <3> QED BY <1>1, <3>1, InformedFacts
  <2>2. CASE flow \in {"NOISE_BUY", "NOISE_SELL"}
    <3> DEFINE side == IF flow = "NOISE_BUY" THEN "BUY" ELSE "SELL"
    <3>1. t = NoiseFlow(c, side, fair)
      BY <2>2 DEF OrderFlow
    <3>2. side \in Sides
      BY DEF Sides
    <3> HIDE DEF side
    <3> QED BY <1>1, <3>1, <3>2, NoiseFacts
  <2>3. CASE flow \notin {"INFORMED", "NOISE_BUY", "NOISE_SELL"}
    <3>1. t = nothing
      BY <2>3 DEF OrderFlow
    <3> QED BY <1>1, <3>1, NoFlowFacts
  <2> QED BY <2>1, <2>2, <2>3
<1> HIDE DEF t
<1>3. Fresh(CancelMakerQuotes(t.book, "STUDENT"))
  <2> DEFINE k == CancelMakerQuotes(t.book, "STUDENT")
  <2>1. Tidy(t.book) /\ t.book.quotes["NOISE_MARKET_MAKER"] = {} /\ "STUDENT" \in Makers
    BY <1>2 DEF FlowDone, Makers
  <2>2. /\ \A o \in Makers : k.quotes[o] = IF o = "STUDENT" THEN {} ELSE t.book.quotes[o]
        /\ (\A o \in Makers : k.quotes[o] = {}) => Fresh(k)
    <3>1. ASSUME NEW final, Tidy(final)
          PROVE  LET w == CancelMakerQuotes(final, "STUDENT")
                 IN /\ \A o \in Makers : w.quotes[o] = IF o = "STUDENT" THEN {} ELSE final.quotes[o]
                    /\ (\A o \in Makers : w.quotes[o] = {}) => Fresh(w)
      BY <2>1, <3>1, WithdrawFacts
    <3> QED BY <2>1, <3>1
  <2> HIDE DEF k
  <2>3. \A o \in Makers : k.quotes[o] = {}
    BY <2>1, <2>2 DEF Makers
  <2> QED BY <2>2, <2>3 DEF k
<1> QED BY <1>2, <1>3 DEF t, c, FlowDone

-----------------------------------------------------------------------------
(* The portfolio. *)

IsPortfolio(p) ==
  /\ p = [cash |-> p.cash, position |-> p.position, basis |-> p.basis, realized |-> p.realized, peak |-> p.peak,
          drawdown |-> p.drawdown]
  /\ p.position \in Int

\* One field of a portfolio.
LEMMA PortfolioParts ==
  ASSUME NEW p, IsPortfolio(p), NEW v
  PROVE  /\ IsPortfolio([p EXCEPT !.cash = v]) /\ [p EXCEPT !.cash = v].position = p.position
         /\ IsPortfolio([p EXCEPT !.basis = v]) /\ [p EXCEPT !.basis = v].position = p.position
         /\ IsPortfolio([p EXCEPT !.realized = v]) /\ [p EXCEPT !.realized = v].position = p.position
         /\ IsPortfolio([p EXCEPT !.peak = v]) /\ [p EXCEPT !.peak = v].position = p.position
         /\ IsPortfolio([p EXCEPT !.drawdown = v]) /\ [p EXCEPT !.drawdown = v].position = p.position
         /\ v \in Int => IsPortfolio([p EXCEPT !.position = v]) /\ [p EXCEPT !.position = v].position = v
BY DEF IsPortfolio

\* A fill moves the position by its size.
LEMMA FillFacts ==
  ASSUME NEW p, IsPortfolio(p), NEW fill, fill.side \in Sides, fill.size \in Nat
  PROVE  /\ IsPortfolio(ApplyFill(p, fill))
         /\ ApplyFill(p, fill).position = IF fill.side = "BUY" THEN p.position + fill.size ELSE p.position - fill.size
<1> DEFINE notional == fill.price * fill.size * Unit
           signed == IF fill.side = "BUY" THEN fill.size ELSE -fill.size
           held == Abs(p.position)
           closed == Least(fill.size, held)
           average == IF held = 0 THEN 0 ELSE p.basis \div held
           gain == IF fill.side = "SELL" THEN fill.price * Unit - average ELSE average - fill.price * Unit
           moved == [p EXCEPT !.cash = IF fill.side = "BUY" THEN @ - notional ELSE @ + notional, !.position = @ + signed]
           basis == IF fill.size < held THEN average * (held - fill.size) ELSE (fill.size - closed) * fill.price * Unit
           added == [moved EXCEPT !.basis = @ + notional]
           turned == [moved EXCEPT !.realized = @ + gain * closed, !.basis = basis]
<1>1. ApplyFill(p, fill) = added \/ ApplyFill(p, fill) = turned
  BY DEF ApplyFill
<1>2. signed \in Int /\ p.position + signed = IF fill.side = "BUY" THEN p.position + fill.size ELSE p.position - fill.size
  BY DEF IsPortfolio
<1>3. IsPortfolio(moved) /\ moved.position = p.position + signed
  <2> DEFINE cash == IF fill.side = "BUY" THEN p.cash - notional ELSE p.cash + notional
             position == p.position + signed
             paid == [p EXCEPT !.cash = cash]
  <2>1. moved = [paid EXCEPT !.position = position]
    BY DEF IsPortfolio
  <2>2. position \in Int
    BY <1>2 DEF IsPortfolio
  <2> HIDE DEF cash, position, moved
  <2>3. IsPortfolio(paid)
    BY PortfolioParts
  <2> HIDE DEF paid
  <2>4. IsPortfolio(moved) /\ moved.position = position
    BY <2>1, <2>2, <2>3, PortfolioParts
  <2> QED BY <2>4 DEF position
<1> HIDE DEF moved
<1>4. IsPortfolio(added) /\ added.position = moved.position
  <2> DEFINE v == moved.basis + notional
  <2>1. added = [moved EXCEPT !.basis = v]
    BY <1>3 DEF IsPortfolio
  <2> HIDE DEF v, added
  <2> QED BY <1>3, <2>1, PortfolioParts
<1>5. IsPortfolio(turned) /\ turned.position = moved.position
  <2> DEFINE v == moved.realized + gain * closed
             realized == [moved EXCEPT !.realized = v]
  <2>1. turned = [realized EXCEPT !.basis = basis]
    BY <1>3 DEF IsPortfolio
  <2> HIDE DEF v, turned, basis
  <2>2. IsPortfolio(realized) /\ realized.position = moved.position
    BY <1>3, PortfolioParts
  <2> HIDE DEF realized
  <2> QED BY <2>1, <2>2, PortfolioParts
<1> HIDE DEF added, turned, signed
<1> QED BY <1>1, <1>2, <1>3, <1>4, <1>5

\* A mark does not move it.
LEMMA MarkFacts ==
  ASSUME NEW p, IsPortfolio(p), NEW fair
  PROVE  IsPortfolio(UpdateMarkPrice(p, fair)) /\ UpdateMarkPrice(p, fair).position = p.position
<1> DEFINE peak == Greatest(p.peak, PortfolioValue(p, fair))
           drawdown == Greatest(p.drawdown, peak - PortfolioValue(p, fair))
           raised == [p EXCEPT !.peak = peak]
           marked == UpdateMarkPrice(p, fair)
<1>1. marked = [raised EXCEPT !.drawdown = drawdown]
  BY DEF UpdateMarkPrice, IsPortfolio
<1> HIDE DEF marked, drawdown, peak
<1>2. IsPortfolio(raised) /\ raised.position = p.position
  BY PortfolioParts
<1> HIDE DEF raised
<1>3. IsPortfolio(marked) /\ marked.position = p.position
  BY <1>1, <1>2, PortfolioParts
<1> QED BY <1>3 DEF marked

\* A round moves the position by no more than the quote offers on a side.
Moved(p, s, quote) ==
  \/ s.position = p.position
  \/ quote # Pass /\ s.position >= p.position /\ s.position <= p.position + quote.bidSize
  \/ quote # Pass /\ s.position <= p.position /\ s.position >= p.position - quote.askSize

LEMMA SettleFacts ==
  ASSUME NEW p, IsPortfolio(p), NEW quote \in Actions, NEW fills, IsFlow(fills, quote), NEW fair
  PROVE  IsPortfolio(Settle(p, fills, fair)) /\ Moved(p, Settle(p, fills, fair), quote)
<1> DEFINE a == Applied(p, fills)
           s == Settle(p, fills, fair)
<1>1. s = UpdateMarkPrice(a, fair)
  BY DEF Settle, Applied
<1> HIDE DEF a
<1>2. IsPortfolio(a) /\ Moved(p, a, quote)
  <2>1. CASE fills = <<>>
    <3>1. DOMAIN fills = {}
      BY <2>1
    <3>2. a = p
      BY <3>1, ApplyFold DEF a
    <3> QED BY <3>2 DEF Moved
  <2>2. ASSUME quote # Pass, NEW side \in Sides, NEW size \in Nat, size <= SizeOf(quote, side),
               fills = <<[side |-> side, price |-> PriceOf(quote, side), size |-> size]>>
        PROVE  IsPortfolio(a) /\ Moved(p, a, quote)
    <3> DEFINE fill == [side |-> side, price |-> PriceOf(quote, side), size |-> size]
    <3>1. DOMAIN fills = {1} /\ fills[1] = fill
      BY <2>2
    <3>2. fill.side = side /\ fill.size = size
      OBVIOUS
    <3> HIDE DEF fill
    <3>3. a = ApplyFill(p, fill)
      BY <3>1, ApplyFold DEF a
    <3>4. IsPortfolio(a) /\ a.position = IF side = "BUY" THEN p.position + size ELSE p.position - size
      BY <3>2, <3>3, FillFacts
    <3>5. quote.bidSize \in Nat /\ quote.askSize \in Nat /\ p.position \in Int
      BY <2>2, ActionFacts DEF IsPortfolio
    <3> QED BY <2>2, <3>4, <3>5 DEF Moved, SizeOf
  <2> QED BY <2>1, <2>2 DEF IsFlow
<1> HIDE DEF s
<1>3. IsPortfolio(s) /\ s.position = a.position
  BY <1>1, <1>2, MarkFacts
<1>4. Moved(p, s, quote)
  BY <1>2, <1>3 DEF Moved
<1> QED BY <1>3, <1>4 DEF s

-----------------------------------------------------------------------------
(* ValidActionsPlay. *)

\* Between rounds: nobody has an order in the book, and with a hard limit the position is within it.
SoundEngine(d, e) ==
  /\ IsEngine(e) /\ Fresh(e.book) /\ IsPortfolio(e.portfolio)
  /\ d.hardPositionLimit => Abs(e.portfolio.position) <= MaxPosition

\* n has the book and the position of e.
Resembles(n, e) ==
  n.book = e.book /\ IsPortfolio(n.portfolio) /\ n.portfolio.position = e.portfolio.position

\* The next round has the book and the position the last one left.
LEMMA FairValueUpdateKeeps ==
  ASSUME NEW d, NEW e, IsEngine(e), IsPortfolio(e.portfolio)
  PROVE  Resembles(FairValueUpdate(d, e), e)
<1> DEFINE fair == d.fair[e.round]
           marked == [e EXCEPT !.fair = fair, !.portfolio = UpdateMarkPrice(@, fair)]
           breached == CheckRiskLimits(marked.portfolio, fair)
           stopped == [marked EXCEPT !.breaches = @ + 1, !.status = IF d.stopOnRiskBreach THEN "RISK_STOPPED" ELSE @]
<1>1. FairValueUpdate(d, e) \in {e, marked, stopped}
  BY DEF FairValueUpdate
<1>2. Resembles(marked, e) /\ IsEngine(marked)
  <2> DEFINE known == UpdateMarkPrice(e.portfolio, fair)
  <2>1. marked = [e EXCEPT !.fair = fair, !.portfolio = known]
    BY DEF IsEngine
  <2>2. IsPortfolio(known) /\ known.position = e.portfolio.position
    BY MarkFacts
  <2> HIDE DEF fair, marked, breached, known
  <2>3. marked = [status |-> e.status, round |-> e.round, fair |-> fair, portfolio |-> known,
                  book |-> e.book, breaches |-> e.breaches]
    BY <2>1 DEF IsEngine
  <2> QED BY <2>2, <2>3 DEF IsEngine, Resembles
<1> HIDE DEF marked
<1>3. Resembles(stopped, e)
  BY <1>2 DEF IsEngine, Resembles
<1>4. Resembles(e, e)
  BY DEF Resembles
<1> HIDE DEF stopped
<1> QED BY <1>1, <1>2, <1>3, <1>4

LEMMA NextRoundKeeps ==
  ASSUME NEW d, NEW e, IsEngine(e), e.status = "ACTIVE", IsPortfolio(e.portfolio), NEW breached
  PROVE  Resembles(NextRound(d, e, breached), e)
<1> DEFINE next == [e EXCEPT !.round = @ + 1]
<1>1. CASE breached /\ d.stopOnRiskBreach
  BY <1>1 DEF NextRound, IsEngine, Resembles
<1>2. CASE ~(breached /\ d.stopOnRiskBreach) /\ e.round >= Rounds
  BY <1>2 DEF NextRound, IsEngine, Resembles
<1>3. CASE ~(breached /\ d.stopOnRiskBreach) /\ ~(e.round >= Rounds)
  <2>1. IsEngine(next) /\ next.book = e.book /\ next.portfolio = e.portfolio
    BY <1>3, RoundsIsPositive DEF IsEngine
  <2>2. NextRound(d, e, breached) = FairValueUpdate(d, next)
    BY <1>3 DEF NextRound
  <2> HIDE DEF next
  <2>3. Resembles(FairValueUpdate(d, next), next)
    BY <2>1, FairValueUpdateKeeps
  <2> QED BY <2>1, <2>2, <2>3 DEF Resembles
<1> QED BY <1>1, <1>2, <1>3

LEMMA NewEngineIsSound ==
  ASSUME NEW d
  PROVE  SoundEngine(d, NewEngine(d))
<1> DEFINE b == EmptyBook({"STUDENT", "NOISE_MARKET_MAKER"})
           p == NewPortfolio
<1>1. Fresh(b)
  BY DEF EmptyBook, Fresh, IsBook, Makers
<1>2. IsPortfolio(p) /\ p.position = 0
  BY DEF NewPortfolio, IsPortfolio
<1>3. NewEngine(d).book = b /\ NewEngine(d).portfolio = p
  BY DEF NewEngine
<1>4. MaxPosition \in Nat
  BY QuantAssumption
<1> QED BY <1>1, <1>2, <1>3, <1>4, NewEngineFacts DEF SoundEngine, Abs

\* A valid action of a sound engine: the round brings the student a fill of the quote at most, and leaves the engine sound.
LEMMA RoundIsSound ==
  ASSUME NEW d, NEW e, SoundEngine(d, e), e.status = "ACTIVE", NEW quote \in Actions, quote = Pass \/ ValidQuote(d, e, quote)
  PROVE  SoundEngine(d, Advance(d, e, quote).engine) /\ IsFlow(Advance(d, e, quote).evidence.fills, quote)
<1> DEFINE flow == OrderFlow(d.flow[e.round], Quoted(e.book, quote), quote, e.fair)
           portfolio == Settle(e.portfolio, flow.fills, e.fair)
           breached == CheckRiskLimits(portfolio, e.fair)
           book == CancelMakerQuotes(flow.book, "STUDENT")
           settled == [e EXCEPT !.portfolio = portfolio, !.book = CancelMakerQuotes(flow.book, "STUDENT"),
                                !.breaches = @ + (IF breached THEN 1 ELSE 0)]
           n == Advance(d, e, quote).engine
<1>1. Advance(d, e, quote) = RoundOf(d, e, flow, portfolio, breached)
  BY DEF Advance, Trade, Assess
<1>2. /\ RoundOf(d, e, flow, portfolio, breached).engine = NextRound(d, settled, breached)
      /\ RoundOf(d, e, flow, portfolio, breached).evidence.fills = flow.fills
  BY DEF RoundOf
<1>3. IsEngine(n)
  BY AdvanceFacts DEF SoundEngine
<1>4. IsFlow(flow.fills, quote) /\ Fresh(book)
  BY FlowFacts DEF SoundEngine
<1> HIDE DEF flow, book
<1>5. IsPortfolio(portfolio) /\ Moved(e.portfolio, portfolio, quote)
  BY <1>4, SettleFacts DEF SoundEngine
<1> HIDE DEF portfolio, breached
<1>6. IsEngine(settled) /\ settled.status = "ACTIVE" /\ settled.book = book /\ settled.portfolio = portfolio
  <2> DEFINE breaches == e.breaches + (IF breached THEN 1 ELSE 0)
  <2>1. settled = [e EXCEPT !.portfolio = portfolio, !.book = book, !.breaches = breaches]
    BY DEF SoundEngine, IsEngine, book
  <2> HIDE DEF settled, breaches
  <2>2. settled = [status |-> e.status, round |-> e.round, fair |-> e.fair, portfolio |-> portfolio,
                   book |-> book, breaches |-> breaches]
    BY <2>1 DEF SoundEngine, IsEngine
  <2> QED BY <2>2 DEF SoundEngine, IsEngine
<1> HIDE DEF settled
<1>7. Resembles(n, settled)
  BY <1>1, <1>2, <1>5, <1>6, NextRoundKeeps
<1> HIDE DEF n
<1>8. ASSUME d.hardPositionLimit PROVE Abs(portfolio.position) <= MaxPosition
  <2>1. e.portfolio.position \in Int /\ portfolio.position \in Int /\ MaxPosition \in Nat
    BY <1>5, QuantAssumption DEF SoundEngine, IsPortfolio
  <2>2. Abs(e.portfolio.position) <= MaxPosition
    BY <1>8 DEF SoundEngine
  <2>3. -MaxPosition <= e.portfolio.position /\ e.portfolio.position <= MaxPosition
    BY <2>1, <2>2 DEF Abs
  <2>4. CASE quote # Pass
    <3>1. quote.bidSize \in Nat /\ quote.askSize \in Nat
      BY <2>4, ActionFacts
    <3>2. e.portfolio.position + quote.bidSize <= MaxPosition /\ e.portfolio.position - quote.askSize >= -MaxPosition
      BY <1>8, <2>4 DEF ValidQuote
    <3>3. -MaxPosition <= portfolio.position /\ portfolio.position <= MaxPosition
      BY <1>5, <2>1, <2>3, <3>1, <3>2 DEF Moved
    <3> QED BY <2>1, <3>3 DEF Abs
  <2>5. CASE quote = Pass
    BY <1>5, <2>2, <2>5 DEF Moved
  <2> QED BY <2>4, <2>5
<1>9. SoundEngine(d, n)
  BY <1>3, <1>4, <1>5, <1>6, <1>7, <1>8 DEF SoundEngine, Resembles, n
<1> QED BY <1>1, <1>2, <1>4, <1>9 DEF n

\* What the reducer checks of the fills.
LEMMA VolumeFacts ==
  ASSUME NEW fills, NEW quote \in Actions, quote # Pass, IsFlow(fills, quote)
  PROVE  /\ \A i \in DOMAIN fills : fills[i].price = IF fills[i].side = "BUY" THEN quote.bidPrice ELSE quote.askPrice
         /\ Volume(fills, "BUY") <= quote.bidSize
         /\ Volume(fills, "SELL") <= quote.askSize
<1>1. quote.bidSize \in Nat /\ quote.askSize \in Nat
  BY ActionFacts
<1>2. CASE fills = <<>>
  <2>1. DOMAIN fills = {}
    BY <1>2
  <2>2. Volume(fills, "BUY") = 0 /\ Volume(fills, "SELL") = 0
    BY <2>1, VolumeFold
  <2> QED BY <1>1, <2>1, <2>2
<1>3. ASSUME NEW side \in Sides, NEW size \in Nat, size <= SizeOf(quote, side),
             fills = <<[side |-> side, price |-> PriceOf(quote, side), size |-> size]>>
      PROVE  /\ \A i \in DOMAIN fills : fills[i].price = IF fills[i].side = "BUY" THEN quote.bidPrice ELSE quote.askPrice
             /\ Volume(fills, "BUY") <= quote.bidSize
             /\ Volume(fills, "SELL") <= quote.askSize
  <2> DEFINE fill == [side |-> side, price |-> PriceOf(quote, side), size |-> size]
  <2>1. DOMAIN fills = {1} /\ fills[1] = fill
    BY <1>3
  <2>2. fill.side = side /\ fill.size = size /\ fill.price = PriceOf(quote, side)
    OBVIOUS
  <2> HIDE DEF fill
  <2>3. Volume(fills, "BUY") = Counted("BUY", 0, fill) /\ Volume(fills, "SELL") = Counted("SELL", 0, fill)
    BY <2>1, VolumeFold
  <2>4. Counted("BUY", 0, fill) <= quote.bidSize /\ Counted("SELL", 0, fill) <= quote.askSize
    BY <1>1, <1>3, <2>2 DEF Counted, SizeOf, Sides
  <2> QED BY <2>1, <2>2, <2>3, <2>4 DEF PriceOf
<1> QED BY <1>2, <1>3 DEF IsFlow

\* With a sound engine, a valid action can be played.
LEMMA SoundPlays ==
  ASSUME HistoryInv, SoundEngine(definition, Engine), status = "ACTIVE",
         NEW action \in Actions, ValidAction(Engine, action)
  PROVE  Playable(Play(Engine, action)) /\ SoundEngine(definition, Play(Engine, action).engine)
<1> DEFINE d == definition
           e == Engine
           turn == Advance(d, e, action)
           round == [action |-> action, evidence |-> turn.evidence]
           rounds == Append(history, round)
           played == Play(e, action)
<1>1. /\ played.engine = turn.engine /\ played.rounds = rounds
      /\ played.over = (turn.engine.status # "ACTIVE")
      /\ played.result = ResultOf(turn.engine, Len(rounds))
      /\ played.admitted = AdmitsRound(action, turn.evidence)
  BY DEF Play, Stored, Outcome
<1>2. result = Open /\ e.status = "ACTIVE"
  BY OpenHasNoEnd DEF HistoryInv, HistoryCanBeReplayed
<1>3. /\ IsSequence(history) /\ Len(history) \in Nat /\ IsEngine(e) /\ e.round = Len(history) + 1
      /\ IsSequence(rounds) /\ Len(rounds) = e.round
  BY <1>2, AppendFacts DEF HistoryInv, EngineInv
<1>4. e.round \in 1 .. Rounds
  BY <1>3 DEF IsEngine
<1> HIDE DEF e, rounds
<1>5. action = Pass \/ ValidQuote(d, e, action)
  BY DEF ValidAction, e
<1>6. SoundEngine(d, turn.engine) /\ IsFlow(turn.evidence.fills, action)
  BY <1>2, <1>5, RoundIsSound DEF e
<1>7. /\ turn.engine.status = "COMPLETED" => e.round = Rounds
      /\ turn.evidence.round = e.round
  BY <1>2, <1>3, AdvanceFacts
<1> HIDE DEF turn, played
<1>8. AdmitsRound(action, turn.evidence)
  <2>1. CASE action = Pass
    <3>1. turn.evidence.fills = <<>>
      BY <1>6, <2>1 DEF IsFlow
    <3> QED BY <1>2, <1>3, <1>7, <2>1, <3>1 DEF AdmitsRound
  <2>2. CASE action # Pass
    <3> DEFINE fills == turn.evidence.fills
    <3>1. /\ \A i \in DOMAIN fills : fills[i].price = IF fills[i].side = "BUY" THEN action.bidPrice ELSE action.askPrice
          /\ Volume(fills, "BUY") <= action.bidSize
          /\ Volume(fills, "SELL") <= action.askSize
      BY <1>6, <2>2, VolumeFacts
    <3> QED BY <1>2, <1>3, <1>7, <2>2, <3>1 DEF AdmitsRound
  <2> QED BY <2>1, <2>2
<1>9. AdmitsResult(played.result, played.rounds)
  <2>1. played.result.rounds = Len(rounds) /\ played.result.status = turn.engine.status
    BY <1>1 DEF ResultOf
  <2>2. rounds # <<>>
    BY <1>3, <1>4
  <2>3. Len(rounds) <= Rounds
    BY <1>3, <1>4, RoundsIsPositive
  <2> QED BY <1>1, <1>3, <1>7, <2>1, <2>2, <2>3 DEF AdmitsResult
<1>10. d.hardPositionLimit => Abs(played.engine.portfolio.position) <= MaxPosition
  BY <1>1, <1>6 DEF SoundEngine
<1>11. Playable(played) /\ SoundEngine(d, played.engine)
  BY <1>1, <1>6, <1>8, <1>9, <1>10 DEF Playable
<1> QED BY <1>11 DEF played, e

\* What is under way is an action of the game.
ActionsInv ==
  /\ \A t \in Tabs : tab[t].act.action \in Actions
  /\ \A r \in orphans : r.action \in Actions

IsTab(x) == x = [shown |-> x.shown, reads |-> x.reads, act |-> x.act]

LEMMA ReadOf ==
  ASSUME NEW x, IsTab(x)
  PROVE  IsTab(Read(x)) /\ IsTab(Stale(x)) /\ Read(x).act = x.act /\ Stale(x).act = x.act
<1> DEFINE stale == {[r EXCEPT !.current = FALSE] : r \in x.reads}
           y == Stale(x)
           more == y.reads \cup {[current |-> TRUE, answered |-> FALSE, answer |-> None]}
<1>1. y = [x EXCEPT !.reads = stale]
  BY DEF Stale, IsTab
<1>2. Read(x) = [y EXCEPT !.reads = more]
  BY DEF Read
<1> HIDE DEF stale, y, more
<1>3. IsTab(y) /\ y.act = x.act
  BY <1>1 DEF IsTab
<1>4. IsTab(Read(x)) /\ Read(x).act = x.act
  BY <1>2, <1>3 DEF IsTab
<1> QED BY <1>3, <1>4 DEF y

\* The action that the steps leave to a tab.
LEMMA ActOf ==
  ASSUME NEW x, IsTab(x), NEW act, NEW shown, NEW r, NEW v
  PROVE  /\ ReadWith(x, act, shown).act = act /\ StaleWith(x, act, shown).act = act
         /\ Acting(x, act).act = act /\ Served(x, act).act = act
         /\ Answered(x, r, v).act = x.act
         /\ After(x, r, v).act \in {x.act, Idle}
<1> DEFINE y == Read(x)
           z == Stale(x)
<1>1. IsTab(y) /\ IsTab(z)
  BY ReadOf
<1>2. ReadWith(x, act, shown) = [[y EXCEPT !.act = act] EXCEPT !.shown = shown]
  BY DEF ReadWith
<1>3. StaleWith(x, act, shown) = [[z EXCEPT !.act = act] EXCEPT !.shown = shown]
  BY DEF StaleWith
<1>4. Acting(x, act) = [z EXCEPT !.act = act]
  BY DEF Acting
<1> HIDE DEF y, z
<1>5. /\ [[y EXCEPT !.act = act] EXCEPT !.shown = shown].act = act
      /\ [[z EXCEPT !.act = act] EXCEPT !.shown = shown].act = act
      /\ [z EXCEPT !.act = act].act = act
  BY <1>1 DEF IsTab
<1>6. Served(x, act).act = act
  BY DEF Served, IsTab
<1>7. Answered(x, r, v).act = x.act
  <2> DEFINE reads == (x.reads \ {r}) \cup {[r EXCEPT !.answered = TRUE, !.answer = v]}
  <2>1. Answered(x, r, v) = [x EXCEPT !.reads = reads]
    BY DEF Answered, IsTab
  <2> HIDE DEF reads
  <2> QED BY <2>1 DEF IsTab
<1>8. After(x, r, v).act \in {x.act, Idle}
  <2> DEFINE s == IF Heard(r) THEN v ELSE x.shown
             a == IF r.current /\ x.act.call = "settling" THEN Idle ELSE x.act
             reads == x.reads \ {r}
  <2>1. After(x, r, v) = [[[x EXCEPT !.reads = reads] EXCEPT !.shown = s] EXCEPT !.act = a]
    BY DEF After, IsTab
  <2>2. a \in {x.act, Idle}
    OBVIOUS
  <2> HIDE DEF s, a, reads
  <2>3. After(x, r, v).act = a
    BY <2>1 DEF IsTab
  <2> QED BY <2>2, <2>3
<1> QED BY <1>2, <1>3, <1>4, <1>5, <1>6, <1>7, <1>8

LEMMA ActionOf ==
  ASSUME NEW a, IsAct(a), NEW v, NEW n, NEW action
  PROVE  /\ Accepted(a, v).action = a.action /\ Refused(a).action = a.action
         /\ Idle.action = Pass /\ Waits.action = Pass /\ Sent(n, action).action = action
<1>1. Idle.action = Pass
  BY DEF Idle
<1>2. Waits.action = Pass
  BY DEF Idle, Waits
<1>3. Sent(n, action).action = action
  BY DEF Idle, Sent
<1>4. Refused(a).action = a.action
  BY DEF IsAct, Refused
<1>5. Accepted(a, v).action = a.action
  <2> DEFINE c == "answered"
             yes == TRUE
             a1 == [a EXCEPT !.call = c]
             a2 == [a1 EXCEPT !.ok = yes]
  <2>1. Accepted(a, v) = [a2 EXCEPT !.answer = v]
    BY DEF Accepted
  <2> HIDE DEF yes
  <2>2. a1 = Act(c, a.expected, a.action, a.ok, a.answer)
    BY DEF IsAct, Act
  <2> HIDE DEF a1
  <2>3. a2 = Act(c, a.expected, a.action, yes, a.answer)
    BY <2>2 DEF Act
  <2> HIDE DEF a2
  <2> QED BY <2>1, <2>3 DEF Act
<1> QED BY <1>1, <1>2, <1>3, <1>4, <1>5

LEMMA ActionsStart == Init => ActionsInv
<1> SUFFICES ASSUME Init PROVE ActionsInv
  OBVIOUS
<1>1. Empty.act.action = Pass
  BY DEF Empty, Idle
<1> QED BY <1>1 DEF Init, ActionsInv, Actions

\* What is left behind by a tab is its action.
LEMMA AbandonedFacts ==
  ASSUME ActionsInv, NEW t \in Tabs
  PROVE  \A r \in Abandoned(tab[t].act) : r.action \in Actions
BY DEF ActionsInv, Abandoned

LEMMA ActionsStep ==
  ASSUME TabsInv, ActionsInv, [Next]_vars
  PROVE  ActionsInv'
<1>1. \A t \in Tabs : IsTab(tab[t]) /\ IsAct(tab[t].act) /\ tab[t].act.action \in Actions
  BY DEF TabsInv, TabInv, IsTab, ActionsInv
<1>2. Pass \in Actions
  BY DEF Actions
<1>3. ASSUME NEW t \in Tabs, NEW x, tab' = [tab EXCEPT ![t] = x], x.act.action \in Actions,
             \A r \in orphans' : r.action \in Actions
      PROVE  ActionsInv'
  <2>1. \A u \in Tabs : tab'[u] = IF u = t THEN x ELSE tab[u]
    BY <1>3 DEF TabsInv
  <2> QED BY <1>1, <1>3, <2>1 DEF ActionsInv
<1>4. orphans' = orphans => \A r \in orphans' : r.action \in Actions
  BY DEF ActionsInv
<1>5. CASE tab' = tab /\ orphans' \subseteq orphans
  BY <1>5 DEF ActionsInv
<1>6. ASSUME NEW t \in Tabs, Load(t) PROVE ActionsInv'
  <2> DEFINE x == tab[t]
             y == Read(x)
  <2>1. tab' = [tab EXCEPT ![t] = y] /\ orphans' = orphans
    BY <1>6 DEF Load, TabsInv
  <2>2. y.act = x.act
    BY <1>1, ReadOf
  <2> HIDE DEF y
  <2> QED BY <1>1, <1>3, <1>4, <2>1, <2>2
<1>7. ASSUME NEW t \in Tabs, Serve(t) PROVE ActionsInv'
  <2> DEFINE x == tab[t]
             played == Play(Engine, x.act.action)
             v == PublicState(played.rounds)
             yes == Served(x, Accepted(x.act, v))
             no == Served(x, Refused(x.act))
  <2>1. \/ tab' = [tab EXCEPT ![t] = yes]
        \/ tab' = [tab EXCEPT ![t] = no]
    BY <1>7 DEF Serve, ApplyAction, TabsInv, Served, Accepted, Refused
  <2>2. orphans' = orphans
    BY <1>7 DEF Serve
  <2> HIDE DEF v, played
  <2>3. yes.act = Accepted(x.act, v) /\ no.act = Refused(x.act)
    BY <1>1, ActOf
  <2>4. Accepted(x.act, v).action = x.act.action /\ Refused(x.act).action = x.act.action
    BY <1>1, ActionOf
  <2>5. yes.act.action \in Actions /\ no.act.action \in Actions
    BY <1>1, <2>3, <2>4
  <2> HIDE DEF yes, no
  <2> QED BY <1>3, <1>4, <2>1, <2>2, <2>5
<1>8. ASSUME NEW t \in Tabs, Settled(t) PROVE ActionsInv'
  <2> DEFINE x == tab[t]
             y == StaleWith(x, Idle, x.act.answer)
  <2>1. orphans' = orphans
    BY <1>8 DEF Settled
  <2>2. CASE x.act.ok
    <3>1. tab' = [tab EXCEPT ![t] = y]
      BY <1>8, <2>2 DEF Settled, TabsInv, StaleWith
    <3>2. y.act = Idle /\ Idle.action = Pass
      BY <1>1, ActOf, ActionOf
    <3> HIDE DEF y
    <3> QED BY <1>2, <1>3, <1>4, <2>1, <3>1, <3>2
  <2>3. CASE ~x.act.ok
    <3>1. PICK shown \in {None, x.shown} :
            tab' = [tab EXCEPT ![t] = ReadWith(x, Waits, shown)]
      BY <1>8, <2>3 DEF Settled, TabsInv, ReadWith, Waits
    <3> DEFINE z == ReadWith(x, Waits, shown)
    <3>2. z.act = Waits /\ Waits.action = Pass
      BY <1>1, ActOf, ActionOf
    <3>3. tab' = [tab EXCEPT ![t] = z]
      BY <3>1
    <3> HIDE DEF z
    <3> QED BY <1>2, <1>3, <1>4, <2>1, <3>2, <3>3
  <2> QED BY <2>2, <2>3
<1>9. ASSUME NEW t \in Tabs, SubmitFails(t) PROVE ActionsInv'
  <2> DEFINE x == tab[t]
             y == ReadWith(x, Waits, None)
  <2>1. tab' = [tab EXCEPT ![t] = y] /\ orphans' = Abandoned(x.act)
    BY <1>9 DEF SubmitFails, TabsInv, ReadWith, Waits
  <2>2. y.act = Waits /\ Waits.action = Pass
    BY <1>1, ActOf, ActionOf
  <2>3. \A r \in orphans' : r.action \in Actions
    BY <2>1, AbandonedFacts
  <2> HIDE DEF y
  <2> QED BY <1>2, <1>3, <2>1, <2>2, <2>3
<1>10. ASSUME NEW t \in Tabs, Leave(t) PROVE ActionsInv'
  <2> DEFINE x == tab[t]
             y == StaleWith(x, Idle, None)
  <2>1. tab' = [tab EXCEPT ![t] = y] /\ orphans' = Abandoned(x.act)
    BY <1>10 DEF Leave, TabsInv, StaleWith
  <2>2. y.act = Idle /\ Idle.action = Pass
    BY <1>1, ActOf, ActionOf
  <2>3. \A r \in orphans' : r.action \in Actions
    BY <2>1, AbandonedFacts
  <2> HIDE DEF y
  <2> QED BY <1>2, <1>3, <2>1, <2>2, <2>3
<1>11. ASSUME NEW t \in Tabs, NEW r \in tab[t].reads, Answer(t, r) PROVE ActionsInv'
  <2> DEFINE x == tab[t]
             v == PublicState(history)
             y == Answered(x, r, v)
  <2>1. tab' = [tab EXCEPT ![t] = y] /\ orphans' = orphans
    BY <1>11 DEF Answer, TabsInv, Answered
  <2> HIDE DEF v
  <2>2. y.act = x.act
    BY <1>1, ActOf
  <2> HIDE DEF y
  <2> QED BY <1>1, <1>3, <1>4, <2>1, <2>2
<1>12. ASSUME NEW t \in Tabs, NEW r \in tab[t].reads, Loaded(t, r) \/ LoadFails(t, r) PROVE ActionsInv'
  <2>1. PICK v : tab' = [tab EXCEPT ![t] = After(tab[t], r, v)]
    BY <1>12 DEF Loaded, LoadFails, TabsInv
  <2> DEFINE x == tab[t]
             y == After(x, r, v)
  <2>2. y.act \in {x.act, Idle} /\ Idle.action = Pass
    BY <1>1, ActOf, ActionOf
  <2>3. tab' = [tab EXCEPT ![t] = y] /\ orphans' = orphans
    BY <1>12, <2>1 DEF Loaded, LoadFails
  <2> HIDE DEF y
  <2> QED BY <1>1, <1>2, <1>3, <1>4, <2>2, <2>3
<1>13. ASSUME NEW t \in Tabs, NEW action \in Actions, Submit(t, action) PROVE ActionsInv'
  <2> DEFINE x == tab[t]
             act == Sent(x.shown.round, action)
             y == Acting(x, act)
  <2>1. tab' = [tab EXCEPT ![t] = y] /\ orphans' = orphans
    BY <1>13 DEF Submit, TabsInv, Acting, Sent
  <2>2. act.action = action
    BY <1>1, ActionOf
  <2> HIDE DEF act
  <2>3. y.act = act
    BY <1>1, ActOf
  <2> HIDE DEF y
  <2> QED BY <1>3, <1>4, <2>1, <2>2, <2>3
<1>14. \/ tab' = tab /\ orphans' \subseteq orphans
       \/ \E t \in Tabs :
            \/ Load(t) \/ Serve(t) \/ Settled(t) \/ SubmitFails(t) \/ Leave(t)
            \/ \E r \in tab[t].reads : Answer(t, r) \/ Loaded(t, r) \/ LoadFails(t, r)
            \/ \E action \in Actions : Submit(t, action)
  BY DEF Next, vars, BeginInput, ResolveInput, ArchiveSession, ServeOrphan
<1> QED BY <1>5, <1>6, <1>7, <1>8, <1>9, <1>10, <1>11, <1>12, <1>13, <1>14

\* The engine of the history is sound.
EngineIsSound == SoundEngine(definition, Engine)

LEMMA SoundStarts == Init => EngineIsSound
<1> SUFFICES ASSUME Init PROVE EngineIsSound
  OBVIOUS
<1>1. Engine = NewEngine(definition)
  BY ReplayNothing DEF Init, Engine
<1> QED BY <1>1, NewEngineIsSound DEF EngineIsSound

LEMMA AcceptedIsSound ==
  ASSUME HistoryInv, EngineIsSound, definition' = definition, NEW expected, NEW action \in Actions,
         Accepts(expected, action, Engine, Play(Engine, action)), Commit(Play(Engine, action))
  PROVE  EngineIsSound'
<1> DEFINE turn == Advance(definition, Engine, action)
           round == [action |-> action, evidence |-> turn.evidence]
           played == Play(Engine, action)
<1>1. /\ history' = Append(history, round) /\ played.engine = turn.engine
      /\ status = "ACTIVE" /\ ValidAction(Engine, action)
  BY DEF Accepts, Commit, Play, Stored, Outcome
<1>2. SoundEngine(definition, played.engine)
  BY <1>1, SoundPlays DEF EngineIsSound
<1>3. Engine' = turn.engine
  <2>1. Engine' = Replay(definition, Append(history, round))
    BY <1>1 DEF Engine
  <2>2. Replay(definition, Append(history, round)) = Advance(definition, Replay(definition, history), round.action).engine
    BY ReplayOneMore DEF HistoryInv, EngineInv
  <2> QED BY <2>1, <2>2 DEF Engine
<1> HIDE DEF turn, played
<1>4. SoundEngine(definition', Engine')
  BY <1>1, <1>2, <1>3
<1> QED BY <1>4 DEF EngineIsSound

\* No step makes it unsound: what is served is an action of the game, and the engine took it as valid.
LEMMA SoundStep ==
  ASSUME HistoryInv, ActionsInv, EngineIsSound, [Next]_vars
  PROVE  EngineIsSound'
<1>1. CASE UNCHANGED <<definition, history>>
  BY <1>1 DEF EngineIsSound, Engine
<1>2. ASSUME NEW t \in Tabs, Serve(t) PROVE EngineIsSound'
  <2>1. definition' = definition /\ tab[t].act.action \in Actions
    BY <1>2 DEF Serve, ActionsInv
  <2>2. CASE Accepts(tab[t].act.expected, tab[t].act.action, Engine, Play(Engine, tab[t].act.action))
    <3>1. Commit(Play(Engine, tab[t].act.action))
      BY <1>2, <2>2 DEF Serve, ApplyAction
    <3> QED BY <2>1, <2>2, <3>1, AcceptedIsSound
  <2>3. CASE ~Accepts(tab[t].act.expected, tab[t].act.action, Engine, Play(Engine, tab[t].act.action))
    <3>1. history' = history
      BY <1>2, <2>3 DEF Serve, ApplyAction
    <3> QED BY <1>1, <2>1, <3>1
  <2> QED BY <2>2, <2>3
<1>3. ASSUME NEW r \in orphans, ServeOrphan(r) PROVE EngineIsSound'
  <2>1. definition' = definition /\ r.action \in Actions
    BY <1>3 DEF ServeOrphan, ActionsInv
  <2>2. \/ history' = history
        \/ /\ Accepts(r.expected, r.action, Engine, Play(Engine, r.action))
           /\ Commit(Play(Engine, r.action))
    BY <1>3 DEF ServeOrphan, CommitIfAccepted
  <2> QED BY <1>1, <2>1, <2>2, AcceptedIsSound
<1>4. \/ UNCHANGED <<definition, history>>
      \/ \E t \in Tabs : Serve(t)
      \/ \E r \in orphans : ServeOrphan(r)
  BY DEF Next, vars, BeginInput, ResolveInput, ArchiveSession, Load, Settled, SubmitFails, Leave, Answer, Loaded, LoadFails,
         Submit, Keep
<1> QED BY <1>1, <1>2, <1>3, <1>4

LEMMA SoundInvariance == Spec => [](TabsInv /\ ActionsInv /\ EngineIsSound)
<1>1. HistoryInv /\ TabsInv /\ ActionsInv /\ EngineIsSound /\ [Next]_vars => TabsInv' /\ ActionsInv' /\ EngineIsSound'
  BY TabStep, ActionsStep, SoundStep
<1> QED BY <1>1, TabStarts, ActionsStart, SoundStarts, HistoryInvariance, PTL DEF Spec

\* Whatever valid action a candidate takes, the reducer takes the round that the engine makes of it, and with a hard limit
\* no flow of orders carries the position beyond it (quant-trader-interview.ts:589-713, 766-947, reducer.ts:126-235).
THEOREM ValidActionsArePlayed == Spec => []ValidActionsPlay
<1>1. HistoryInv /\ EngineIsSound => ValidActionsPlay
  BY SoundPlays DEF ValidActionsPlay, EngineIsSound
<1> QED BY <1>1, HistoryInvariance, SoundInvariance, PTL
=============================================================================
