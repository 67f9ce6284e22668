---------------------------- MODULE SpeechProofs ----------------------------
(***************************************************************************)
(* Theorems about what is said: ReasoningAnalysis, which interprets what   *)
(* the student said, and VoiceRuntime, which hears the student and reads   *)
(* answers aloud.  The two share nothing, and each half of this module     *)
(* speaks of one.  ReasoningAnalysis for every number of calls, turns,     *)
(* corrections and stops and every limit; VoiceRuntime for any streams,    *)
(* texts and syntheses, and every limit.  Liveness stays with TLC.         *)
(***************************************************************************)
EXTENDS ReasoningAnalysis, VoiceRuntime, FiniteSetTheorems, TLAPS

-----------------------------------------------------------------------------
(* ReasoningAnalysis *)

\* A call that waits, or gave up, knows an execution that has started; one
\* that gave up has had it cancelled, unless it is over.
CallsAreBacked ==
  \A k \in Calls :
    /\ call[k].told \in {"WAITING", "TIME_LIMIT"} =>
         call[k].of \in Analyses /\ run[call[k].of] # "NONE"
    /\ call[k].told = "TIME_LIMIT" =>
         call[k].of \in cancelled \/ run[call[k].of] = "SETTLED"

\* Before the request is durable there is none, and afterwards a decision.
RunFollowsRequest ==
  \A a \in Analyses :
    /\ run[a] \in {"PROVIDER", "REQUEST"} => verif[a] = "NONE"
    /\ run[a] = "SETTLED" => verif[a] # "PENDING"

Evidence == [of : Analyses, status : {"ACTIVE", "SUPERSEDED", "INVALIDATED"}]

IInv == TypeOK /\ CallsAreBacked /\ RunFollowsRequest /\ EvidenceOutlivesNoCorrection

-----------------------------------------------------------------------------
LEMMA InitInductive == Init => IInv
<1> SUFFICES ASSUME Init PROVE IInv
  OBVIOUS
<1>1. TypeOK
  <2>1. turn \in 1..MaxTurns /\ epoch \in 1..MaxEpoch /\ stops \in Nat
    BY BoundsAssumption DEF Init
  <2>2. history \in Seq(Evidence)
    BY DEF Init
  <2>3. QED BY <2>1, <2>2 DEF Init, TypeOK, Stages, Evidence
<1>2. CallsAreBacked /\ RunFollowsRequest /\ EvidenceOutlivesNoCorrection
  BY DEF Init, CallsAreBacked, RunFollowsRequest, EvidenceOutlivesNoCorrection
<1>3. QED BY <1>1, <1>2 DEF IInv

\* The analysis of the latest turn in the present epoch is one of Analyses.
LEMMA LatestType == TypeOK => <<turn, epoch>> \in Analyses
BY DEF TypeOK, Analyses

\* The steps of the session around the analysis.
LEMMA SessionInductive ==
  ASSUME IInv, CommitTurn \/ CorrectTranscript \/ CompleteSession
  PROVE  IInv'
<1>1. CASE CommitTurn
  BY <1>1, BoundsAssumption DEF IInv, TypeOK, CallsAreBacked, RunFollowsRequest,
     EvidenceOutlivesNoCorrection, CommitTurn, volatile
<1>2. CASE CompleteSession
  BY <1>2 DEF IInv, TypeOK, CallsAreBacked, RunFollowsRequest,
     EvidenceOutlivesNoCorrection, CompleteSession, volatile
<1>3. CASE CorrectTranscript
  <2>1. /\ history' \in Seq(Evidence)
        /\ \A i \in DOMAIN history' : history'[i].status # "ACTIVE"
    <3> DEFINE f == [i \in DOMAIN history |->
          IF history[i].status = "ACTIVE" THEN [history[i] EXCEPT !.status = "INVALIDATED"]
          ELSE history[i]]
    <3>1. history \in Seq(Evidence)
      BY DEF IInv, TypeOK, Evidence
    <3>2. ASSUME NEW i \in DOMAIN history
          PROVE  f[i] \in Evidence /\ f[i].status # "ACTIVE"
      <4>1. history[i] \in Evidence
        BY <3>1
      <4>2. QED BY <4>1 DEF Evidence
    <3>3. DOMAIN f = DOMAIN history
      OBVIOUS
    <3>4. DOMAIN history = 1..Len(history) /\ Len(history) \in Nat
      BY <3>1
    <3>5. f \in Seq(Evidence)
      BY <3>2, <3>3, <3>4
    <3>6. history' = f
      BY <1>3 DEF CorrectTranscript
    <3>7. QED BY <3>2, <3>3, <3>5, <3>6
  <2>2. TypeOK'
    BY <1>3, <2>1, BoundsAssumption DEF IInv, TypeOK, CorrectTranscript, volatile, Evidence
  <2>3. EvidenceOutlivesNoCorrection'
    BY <2>1 DEF EvidenceOutlivesNoCorrection
  <2>4. QED BY <1>3, <2>2, <2>3 DEF IInv, CallsAreBacked, RunFollowsRequest,
            CorrectTranscript, volatile
<1>4. QED BY <1>1, <1>2, <1>3

\* A step that changes neither the verdicts nor the stages, and cancels more.
LEMMA CancelInductive ==
  ASSUME IInv, UNCHANGED <<durable, call, run, sound, running>>,
         NEW S \in SUBSET Analyses, Abandon(S), closing' \in BOOLEAN, stops' \in Nat
  PROVE  IInv'
<1>1. cancelled' \in SUBSET Analyses /\ cancelled \subseteq cancelled' /\ orphans' \in SUBSET Analyses
  BY DEF Abandon, Active, IInv, TypeOK
<1>2. TypeOK'
  BY <1>1 DEF IInv, TypeOK, durable
<1>3. QED BY <1>1, <1>2 DEF IInv, CallsAreBacked, RunFollowsRequest,
          EvidenceOutlivesNoCorrection, durable

\* The steps of a caller.
LEMMA CallInductive ==
  ASSUME IInv, NEW k \in Calls,
         Skip(k) \/ Full(k) \/ Join(k) \/ Resume(k) \/ Interpret(k) \/ Return(k) \/ TimeLimit(k)
  PROVE  IInv'
<1> DEFINE a == <<turn, epoch>>
<1>1. a \in Analyses
  BY LatestType DEF IInv
<1> USE DEF IInv, CallsAreBacked, RunFollowsRequest, EvidenceOutlivesNoCorrection, Tell, durable
<1>2. CASE Skip(k) \/ Full(k) \/ Return(k)
  <2>1. CASE Skip(k)
    BY <2>1 DEF Skip, TypeOK, Nobody
  <2>2. CASE Full(k)
    BY <2>2 DEF Full, TypeOK, Nobody
  <2>3. CASE Return(k)
    <3>1. call[k].of \in Analyses
      BY <2>3 DEF Return
    <3>2. QED BY <2>3, <3>1 DEF Return, TypeOK
  <2>4. QED BY <1>2, <2>1, <2>2, <2>3
<1>3. CASE Join(k)
  BY <1>1, <1>3 DEF Join, Admissible, TypeOK
<1>4. CASE Resume(k)
  BY <1>1, <1>4 DEF Resume, Admissible, TypeOK, Stages, Named
<1>5. CASE Interpret(k)
  <2>1. PICK s \in {"SETTLED", "PROVIDER"} : run' = [run EXCEPT ![a] = s]
    BY <1>5 DEF Interpret
  <2>2. running' \in SUBSET Analyses
    <3>1. running \in SUBSET Analyses
      BY DEF TypeOK
    <3>2. running' = running \/ running' = running \cup {a}
      BY <1>5 DEF Interpret
    <3>3. QED BY <1>1, <3>1, <3>2
  <2>3. QED BY <1>1, <1>5, <2>1, <2>2 DEF Interpret, Admissible, TypeOK, Stages
<1>6. CASE TimeLimit(k)
  <2> DEFINE b == call[k].of
  <2>1. b \in Analyses /\ run[b] # "NONE" /\ run[b] # "SETTLED"
    BY <1>6 DEF TimeLimit
  <2>2. /\ cancelled' = cancelled \cup {b}
        /\ orphans' \in SUBSET Analyses
    BY <1>6, <2>1 DEF TimeLimit, Abandon, Active, TypeOK
  <2>3. QED BY <1>6, <2>1, <2>2 DEF TimeLimit, TypeOK
<1>7. QED BY <1>2, <1>3, <1>4, <1>5, <1>6

\* A step that moves the execution of a on.
LEMMA GotoInductive ==
  ASSUME IInv, NEW a \in Analyses, NEW s \in Stages \ {"NONE", "PROVIDER", "REQUEST", "SETTLED"},
         run[a] \notin {"NONE", "SETTLED"}, run' = [run EXCEPT ![a] = s],
         sound' \in [Analyses -> BOOLEAN],
         verif' \in [Analyses -> {"NONE", "PENDING", "ACCEPTED", "DISCARDED"}],
         \A b \in Analyses : b # a => verif'[b] = verif[b],
         UNCHANGED <<turn, epoch, open, confirms, history, call, cancelled, running, orphans,
                     closing, stops>>
  PROVE  IInv'
BY DEF IInv, TypeOK, CallsAreBacked, RunFollowsRequest, EvidenceOutlivesNoCorrection

\* A step that ends the execution of a and leaves its request decided.
LEMMA SettleInductive ==
  ASSUME IInv, NEW a \in Analyses, run[a] # "NONE", Settle(a),
         verif' \in [Analyses -> {"NONE", "PENDING", "ACCEPTED", "DISCARDED"}],
         \A b \in Analyses : b # a => verif'[b] = verif[b],
         verif'[a] # "PENDING",
         confirms' \in [Analyses -> BOOLEAN], running' \in SUBSET Analyses,
         history' \in Seq(Evidence),
         EvidenceOutlivesNoCorrection',
         UNCHANGED <<turn, epoch, open, call, orphans, closing, stops>>
  PROVE  IInv'
<1>1. TypeOK'
  BY DEF IInv, TypeOK, Settle, Stages, Evidence
<1>2. CallsAreBacked' /\ RunFollowsRequest'
  BY DEF IInv, TypeOK, CallsAreBacked, RunFollowsRequest, Settle
<1>3. QED BY <1>1, <1>2 DEF IInv

\* A record whose request the transaction admits is of the present epoch.
LEMMA CommitInductive ==
  ASSUME IInv, NEW a \in Analyses, Commit(a)
  PROVE  IInv'
<1>1. verif' \in [Analyses -> {"NONE", "PENDING", "ACCEPTED", "DISCARDED"}]
      /\ verif'[a] # "PENDING" /\ \A b \in Analyses : b # a => verif'[b] = verif[b]
  BY DEF Commit, IInv, TypeOK
<1>2. CASE history' = history
  BY <1>1, <1>2, SettleInductive DEF Commit, IInv, TypeOK, EvidenceOutlivesNoCorrection, Evidence
<1>3. CASE history' # history
  <2>1. Admits(a) /\ history' = Append(Superseded, [of |-> a, status |-> "ACTIVE"])
    BY <1>3 DEF Commit
  <2>2. a[2] = epoch
    BY <2>1 DEF Admits, Current
  <2>3. /\ Superseded \in Seq(Evidence)
        /\ \A i \in DOMAIN Superseded : Superseded[i].status # "ACTIVE"
    <3>1. history \in Seq(Evidence)
      BY DEF IInv, TypeOK, Evidence
    <3>2. ASSUME NEW i \in DOMAIN history
          PROVE  Superseded[i] \in Evidence /\ Superseded[i].status # "ACTIVE"
      <4>1. history[i] \in Evidence
        BY <3>1
      <4>2. QED BY <4>1 DEF Evidence, Superseded
    <3>3. DOMAIN Superseded = DOMAIN history
      BY DEF Superseded
    <3>4. DOMAIN history = 1..Len(history) /\ Len(history) \in Nat
      BY <3>1
    <3>5. Superseded \in Seq(Evidence)
      BY <3>2, <3>3, <3>4 DEF Superseded
    <3>6. QED BY <3>2, <3>3, <3>5
  <2>4. /\ history' \in Seq(Evidence)
        /\ \A i \in DOMAIN history' : history'[i].status = "ACTIVE" => history'[i].of = a
    BY <2>1, <2>3 DEF Evidence
  <2>5. EvidenceOutlivesNoCorrection'
    BY <2>2, <2>4 DEF EvidenceOutlivesNoCorrection, Commit
  <2>6. QED BY <1>1, <2>4, <2>5, SettleInductive DEF Commit, IInv, TypeOK
<1>4. QED BY <1>2, <1>3

\* The steps of an execution, and of the discard nobody awaits.
LEMMA RunInductive ==
  ASSUME IInv, NEW a \in Analyses,
         \/ DiscardOrphan(a) \/ ProviderSettles(a) \/ CancelWins(a) \/ RequestVerification(a)
         \/ Opened(a) \/ Verified(a) \/ Recomputed(a) \/ Commit(a) \/ Discard(a)
  PROVE  IInv'
<1>1. /\ verif \in [Analyses -> {"NONE", "PENDING", "ACCEPTED", "DISCARDED"}]
      /\ confirms \in [Analyses -> BOOLEAN] /\ sound \in [Analyses -> BOOLEAN]
      /\ running \in SUBSET Analyses
      /\ history \in Seq(Evidence)
  BY DEF IInv, TypeOK, Evidence
<1>2. history' = history /\ epoch' = epoch => EvidenceOutlivesNoCorrection'
  BY DEF IInv, EvidenceOutlivesNoCorrection
<1>3. CASE DiscardOrphan(a)
  BY <1>3 DEF DiscardOrphan, IInv, TypeOK, CallsAreBacked, RunFollowsRequest,
     EvidenceOutlivesNoCorrection
<1>4. CASE ProviderSettles(a)
  <2>1. CASE run[a] # "PROVIDER" /\ UNCHANGED <<run, cancelled, sound, confirms>>
    BY <1>4, <2>1 DEF ProviderSettles, IInv, TypeOK, CallsAreBacked, RunFollowsRequest,
       EvidenceOutlivesNoCorrection
  <2>2. CASE run[a] = "PROVIDER" /\ Settle(a) /\ UNCHANGED confirms
    <3>1. verif[a] = "NONE"
      BY <2>2 DEF IInv, RunFollowsRequest
    <3>2. QED BY <1>1, <1>2, <1>4, <2>2, <3>1, SettleInductive DEF ProviderSettles
  <2>3. CASE run[a] = "PROVIDER" /\ Goto(a, "REQUEST")
             /\ \E c \in BOOLEAN : confirms' = [confirms EXCEPT ![a] = c]
    BY <1>4, <2>3 DEF ProviderSettles, Goto, IInv, TypeOK, Stages, CallsAreBacked,
       RunFollowsRequest, EvidenceOutlivesNoCorrection
  <2>4. QED BY <1>4, <2>1, <2>2, <2>3 DEF ProviderSettles
<1>5. CASE CancelWins(a)
  <2>1. verif[a] = "NONE"
    BY <1>5 DEF CancelWins, IInv, RunFollowsRequest
  <2>2. QED BY <1>1, <1>2, <1>5, <2>1, SettleInductive DEF CancelWins, durable
<1>6. CASE RequestVerification(a)
  <2>1. verif[a] = "NONE"
    BY <1>6 DEF RequestVerification, IInv, RunFollowsRequest
  <2>2. CASE Current(a)
    BY <1>1, <1>6, <2>2, GotoInductive DEF RequestVerification, Goto, Stages
  <2>3. CASE ~Current(a)
    BY <1>1, <1>2, <1>6, <2>1, <2>3, SettleInductive DEF RequestVerification
  <2>4. QED BY <2>2, <2>3
<1>7. CASE Opened(a)
  <2>1. PICK s \in {"DISCARD", "VERIFY"} : Goto(a, s)
    BY <1>7 DEF Opened
  <2>2. QED BY <1>1, <1>7, <2>1, GotoInductive DEF Opened, Goto, durable, Stages, Named
<1>8. CASE Verified(a)
  <2>1. PICK s \in {"DISCARD", "RECOMPUTE"} : run' = [run EXCEPT ![a] = s]
    BY <1>8 DEF Verified, Withdraw, Goto
  <2>2. sound' \in [Analyses -> BOOLEAN] /\ cancelled' = cancelled
    BY <1>1, <1>8 DEF Verified, Withdraw, Goto
  <2>3. QED BY <1>1, <1>8, <2>1, <2>2, GotoInductive DEF Verified, durable, Stages, Named
<1>9. CASE Recomputed(a)
  <2>1. sound' \in [Analyses -> BOOLEAN]
    BY <1>1, <1>9 DEF Recomputed
  <2>2. QED BY <1>1, <1>9, <2>1, GotoInductive DEF Recomputed, durable, Stages, Named
<1>10. CASE Commit(a)
  BY <1>10, CommitInductive
<1>11. CASE Discard(a)
  BY <1>1, <1>2, <1>11, SettleInductive DEF Discard
<1>12. QED BY <1>3, <1>4, <1>5, <1>6, <1>7, <1>8, <1>9, <1>10, <1>11

LEMMA StopInductive == IInv /\ Stop => IInv'
<1> SUFFICES ASSUME IInv, Stop PROVE IInv'
  OBVIOUS
<1>1. TypeOK'
  <2>1. stops' \in Nat /\ call' \in [Calls ->
          [of : Analyses \cup {Nobody},
           told : {"NOTHING", "WAITING", "ANALYZED", "TIME_LIMIT", "SKIPPED"}]]
    BY DEF IInv, TypeOK, Stop
  <2>2. confirms' \in [Analyses -> BOOLEAN] /\ run' \in [Analyses -> Stages]
        /\ sound' \in [Analyses -> BOOLEAN]
    BY DEF Stop, Stages
  <2>3. QED BY <2>1, <2>2 DEF IInv, TypeOK, Stop
<1>2. CallsAreBacked' /\ RunFollowsRequest'
  BY DEF Stop, CallsAreBacked, RunFollowsRequest
<1>3. QED BY <1>1, <1>2 DEF IInv, Stop, EvidenceOutlivesNoCorrection

LEMMA NextInductive == IInv /\ [Next]_vars => IInv'
<1> SUFFICES ASSUME IInv, [Next]_vars PROVE IInv'
  OBVIOUS
<1>1. CASE UNCHANGED vars
  BY <1>1 DEF IInv, TypeOK, CallsAreBacked, RunFollowsRequest, EvidenceOutlivesNoCorrection,
     vars, durable, volatile
<1>2. CASE CommitTurn \/ CorrectTranscript \/ CompleteSession
  BY <1>2, SessionInductive
<1>3. CASE SupersedeStale
  <2>1. {a \in Active : ~open \/ a[1] # turn} \in SUBSET Analyses
    BY DEF Active
  <2>2. QED BY <1>3, <2>1, CancelInductive DEF SupersedeStale, IInv, TypeOK
<1>4. CASE Shutdown
  <2>1. Active \in SUBSET Analyses
    BY DEF Active
  <2>2. stops' \in Nat /\ closing' \in BOOLEAN
    BY <1>4 DEF Shutdown, IInv, TypeOK
  <2>3. QED BY <1>4, <2>1, <2>2, CancelInductive DEF Shutdown
<1>5. CASE ResumeAdmission
  BY <1>5 DEF ResumeAdmission, durable, IInv, TypeOK, CallsAreBacked, RunFollowsRequest,
     EvidenceOutlivesNoCorrection
<1>6. CASE Stop
  BY <1>6, StopInductive
<1>7. ASSUME NEW k \in Calls,
             Skip(k) \/ Full(k) \/ Join(k) \/ Resume(k) \/ Interpret(k) \/ Return(k) \/ TimeLimit(k)
      PROVE  IInv'
  BY <1>7, CallInductive
<1>8. ASSUME NEW a \in Analyses,
             \/ DiscardOrphan(a) \/ ProviderSettles(a) \/ CancelWins(a) \/ RequestVerification(a)
             \/ Opened(a) \/ Verified(a) \/ Recomputed(a) \/ Commit(a) \/ Discard(a)
      PROVE  IInv'
  BY <1>8, RunInductive
<1>9. QED BY <1>1, <1>2, <1>3, <1>4, <1>5, <1>6, <1>7, <1>8 DEF Next

LEMMA InductiveInvariant == Spec => []IInv
BY InitInductive, NextInductive, PTL DEF Spec

-----------------------------------------------------------------------------
\* Evidence in force is of the present transcript: processResult asks in its own
\* transaction, and a correction withdraws what is in force in its own.
THEOREM EvidenceFollowsTranscript == Spec => []EvidenceOutlivesNoCorrection
<1>1. IInv => EvidenceOutlivesNoCorrection
  BY DEF IInv
<1>2. QED BY InductiveInvariant, <1>1, PTL

\* A settled analysis has no request that is still undecided: every way out of
\* the interpretation coordinator's run discards what it does not admit.
THEOREM SettledMeansDecided == Spec => []SettledIsDecided
<1>1. IInv => SettledIsDecided
  BY DEF IInv, RunFollowsRequest, SettledIsDecided
<1>2. QED BY InductiveInvariant, <1>1, PTL

\* A request is accepted by a commit only, of an execution that nobody cancelled
\* and that has not settled.
LEMMA AcceptedByCommit ==
  ASSUME IInv, [Next]_vars, NEW a \in Analyses, verif'[a] = "ACCEPTED", verif[a] # "ACCEPTED"
  PROVE  a \notin cancelled /\ run[a] = "COMMIT"
<1>1. verif' # verif
  OBVIOUS
<1>2. \E b \in Analyses : DiscardOrphan(b) \/ RequestVerification(b) \/ Commit(b) \/ Discard(b)
  BY <1>1 DEF Next, vars, durable, CommitTurn, CorrectTranscript, CompleteSession,
     SupersedeStale, Shutdown, ResumeAdmission, Stop, Skip, Full, Join, Resume, Interpret,
     Return, TimeLimit, ProviderSettles, CancelWins, Opened, Verified, Recomputed
<1>3. PICK b \in Analyses : DiscardOrphan(b) \/ RequestVerification(b) \/ Commit(b) \/ Discard(b)
  BY <1>2
<1>4. Commit(b) /\ a = b /\ Admits(b)
  BY <1>3 DEF DiscardOrphan, RequestVerification, Commit, Discard, IInv, TypeOK
<1>5. QED BY <1>4 DEF Commit, Admits, IsCancelled

\* The answer TIME_LIMIT stands: abandon cancels the record of the caller in the
\* step that answers, and the transaction asks the record.
THEOREM TimeLimitStands == Spec => TimeLimitIsFinal
<1>1. IInv /\ [Next]_vars =>
        \A k \in Calls : call[k].told = "TIME_LIMIT" /\ call'[k] = call[k]
          => (verif'[call[k].of] = "ACCEPTED" => verif[call[k].of] = "ACCEPTED")
  BY AcceptedByCommit DEF IInv, CallsAreBacked
<1>2. QED BY <1>1, InductiveInvariant, PTL DEF Spec, TimeLimitIsFinal

-----------------------------------------------------------------------------
(* VoiceRuntime.  SpeechIsBacked is not inductive: nothing in it says that a call finds its text   *)
(* without speech when it comes to queue some.  SpeechInv follows a call from the text it was made *)
(* for to its command in the queue.                                                                *)

\* A call that was made reads a text that was sent; one that was not made reads nothing.
ReadsASentText ==
  \A y \in Syntheses :
    IF job[y] = "unused"
      THEN source[y] = None
      ELSE source[y] \in Texts /\ text[source[y]] \notin {"NONE", "QUEUED"}

\* The model works for a call that waits for it, or is over.
CallsAreKnown == \A y \in calls : job[y] \in {"working", "done"}

Waiting(y) == job[y] \notin {"unused", "done"}

\* A text has one call in flight at most.
OneInFlight ==
  \A y, z \in Syntheses :
    source[y] = source[z] /\ source[y] \in Texts /\ Waiting(y) /\ Waiting(z) => y = z

\* Speech is queued at the end of a call, and the call found no speech of its text.
NothingYet ==
  \A y \in Syntheses :
    /\ job[y] \in {"unused", "recovering", "working", "queueing"} => audio[y] = "NONE"
    /\ job[y] \in {"working", "queueing"} => SpeechOf(source[y]) = {}

\* The command that queues speech is the one its call waits for.
QueuedOnce ==
  \A i, j \in DOMAIN commands :
    commands[i].do = "audio" =>
      /\ job[commands[i].of] = "queueing"
      /\ commands[j] = commands[i] => i = j

\* The bytes of a call that waits are in the store, unless nobody will want them.
BytesAreKept ==
  \A y \in Syntheses :
    /\ job[y] = "queueing" /\ session = "ACTIVE" /\ stopping # "stopped"
    /\ generation[source[y]] = "VALIDATED"
    => y \in assets

OneSpeech == \A t \in Texts : \A y, z \in SpeechOf(t) : y = z

SpeechIsCurrent ==
  \A y \in Syntheses :
    /\ audio[y] = "QUEUED" /\ stopping # "stopped" => y \in assets
    /\ audio[y] \in {"QUEUED", "DELIVERING"} => generation[source[y]] = "VALIDATED"

SpeechInv ==
  /\ ReadsASentText /\ CallsAreKnown /\ OneInFlight /\ NothingYet
  /\ QueuedOnce /\ BytesAreKept /\ OneSpeech /\ SpeechIsCurrent

Commands == [do : {"begin", "discard", "finalize", "commit", "revoke"}, of : Streams]
            \cup [do : {"audio"}, of : Syntheses]

\* No command that queues speech comes to the queue.
NoneComes ==
  \E k \in {0, 1} : \A i \in DOMAIN commands' :
    commands'[i].do = "audio" => i + k \in DOMAIN commands /\ commands'[i] = commands[i + k]

\* The queue stays a queue, whatever is appended to it and whether or not its head leaves it.
LEMMA QueueMoves ==
  ASSUME commands \in Seq(Commands)
  PROVE  /\ UNCHANGED commands => commands' \in Seq(Commands) /\ NoneComes
         /\ commands # << >> /\ commands' = Tail(commands) => commands' \in Seq(Commands) /\ NoneComes
         /\ \A c \in Commands :
              /\ commands' = Append(commands, c) => commands' \in Seq(Commands) /\ (c.do # "audio" => NoneComes)
              /\ commands # << >> /\ commands' = Append(Tail(commands), c) =>
                   commands' \in Seq(Commands) /\ (c.do # "audio" => NoneComes)
<1>1. UNCHANGED commands => commands' \in Seq(Commands) /\ NoneComes
  BY DEF NoneComes
<1>2. ASSUME commands # << >>, commands' = Tail(commands)
      PROVE  commands' \in Seq(Commands) /\ NoneComes
  <2>1. commands' \in Seq(Commands) /\ DOMAIN commands' = 1 .. Len(commands) - 1
    BY <1>2
  <2>2. \A i \in DOMAIN commands' : i + 1 \in DOMAIN commands /\ commands'[i] = commands[i + 1]
    BY <1>2, <2>1
  <2> QED BY <2>1, <2>2 DEF NoneComes
<1>3. ASSUME NEW c \in Commands, commands' = Append(commands, c)
      PROVE  commands' \in Seq(Commands) /\ (c.do # "audio" => NoneComes)
  <2>1. commands' \in Seq(Commands) /\ DOMAIN commands' = 1 .. Len(commands) + 1
    BY <1>3
  <2>2. \A i \in DOMAIN commands' : commands'[i] = IF i = Len(commands) + 1 THEN c ELSE commands[i]
    BY <1>3
  <2>3. c.do # "audio" => \A i \in DOMAIN commands' :
           commands'[i].do = "audio" => i + 0 \in DOMAIN commands /\ commands'[i] = commands[i + 0]
    BY <2>1, <2>2
  <2> QED BY <2>1, <2>3 DEF NoneComes
<1>4. ASSUME NEW c \in Commands, commands # << >>, commands' = Append(Tail(commands), c)
      PROVE  commands' \in Seq(Commands) /\ (c.do # "audio" => NoneComes)
  <2>1. commands' \in Seq(Commands) /\ DOMAIN commands' = 1 .. Len(commands)
    BY <1>4
  <2>2. \A i \in DOMAIN commands' : commands'[i] = IF i = Len(commands) THEN c ELSE commands[i + 1]
    BY <1>4
  <2>3. c.do # "audio" => \A i \in DOMAIN commands' :
           commands'[i].do = "audio" => i + 1 \in DOMAIN commands /\ commands'[i] = commands[i + 1]
    BY <2>1, <2>2
  <2> QED BY <2>1, <2>3 DEF NoneComes
<1> QED BY <1>1, <1>2, <1>3, <1>4

LEMMA CommandIsOne ==
  /\ \A s \in Streams : \A do \in {"begin", "discard", "finalize", "commit", "revoke"} :
       Command(do, s) \in Commands /\ Command(do, s).do # "audio"
  /\ \A y \in Syntheses : Command("audio", y) \in Commands
BY DEF Command, Commands

\* What a revoked stream leaves behind.
LEMMA RevokeTypes ==
  ASSUME VoiceTypeOK, NEW bound \in SUBSET Streams, Revoke(bound)
  PROVE  /\ stream' \in [Streams -> {"unopened", "opening", "active", "closed"}]
         /\ listening' \in [Streams -> {"silence", "speech", "closed"}]
         /\ frames' \in [Streams -> 0 .. MaxFrames]
         /\ commands' \in Seq(Commands) /\ NoneComes
         /\ UNCHANGED handling
<1> DEFINE capturing == {s \in bound : utterance[s] = "CAPTURING"}
<1>1. stream' \in [Streams -> {"unopened", "opening", "active", "closed"}]
  BY DEF VoiceTypeOK, Revoke, Revoked
<1>2. listening' \in [Streams -> {"silence", "speech", "closed"}]
  BY DEF VoiceTypeOK, Revoke
<1>3. frames' \in [Streams -> 0 .. MaxFrames]
  <2>1. 0 \in 0 .. MaxFrames
    BY VoiceAssumption
  <2> QED BY <2>1 DEF VoiceTypeOK, Revoke
<1>4. commands' \in Seq(Commands) /\ NoneComes
  <2>1. commands \in Seq(Commands)
    BY DEF VoiceTypeOK, Commands
  <2>2. CASE capturing = {}
    <3>1. commands' = commands
      BY <2>1, <2>2 DEF Revoke, Discards
    <3> QED BY <2>1, <3>1, QueueMoves
  <2>3. CASE capturing # {}
    <3>1. PICK s \in Streams : commands' = commands \o << Command("revoke", s) >>
      BY <2>3 DEF Revoke, Discards
    <3>2. commands' = Append(commands, Command("revoke", s))
      <4>1. Command("revoke", s) \in Commands
        BY CommandIsOne
      <4> QED BY <2>1, <3>1, <4>1
    <3> QED BY <2>1, <3>2, QueueMoves, CommandIsOne
  <2> QED BY <2>2, <2>3
<1> QED BY <1>1, <1>2, <1>3, <1>4 DEF Revoke

LEMMA VoiceInitTypes == VoiceInit => VoiceTypeOK
<1> SUFFICES ASSUME VoiceInit PROVE VoiceTypeOK
  OBVIOUS
<1>1. frames \in [Streams -> 0 .. MaxFrames] /\ left \in 0 .. MaxDisturbances
  BY VoiceAssumption DEF VoiceInit
<1>2. << >> \in Seq(Commands)
  OBVIOUS
<1> QED BY <1>1, <1>2 DEF VoiceInit, VoiceTypeOK, Statuses, Commands

\* The authority of the session takes the values it may.
LEMMA InvalidatedTypes ==
  /\ \A status \in Statuses : Invalidated(status) \in Statuses
  /\ \A status \in Statuses : Invalidated(status) \notin {"QUEUED", "DELIVERING"}
  /\ \A status \in Statuses : (Invalidated(status) = "NONE") = (status = "NONE")
  /\ \A status \in Statuses : Invalidated(status) = status \/ status \in {"QUEUED", "DELIVERING"}
BY DEF Invalidated, Statuses

LEMMA InvalidateOutputTypes ==
  ASSUME VoiceTypeOK, InvalidateOutput
  PROVE  /\ generation' \in [Texts -> {"NONE", "VALIDATED", "SUPERSEDED"}]
         /\ text' \in [Texts -> Statuses]
         /\ audio' \in [Syntheses -> Statuses]
BY InvalidatedTypes DEF VoiceTypeOK, InvalidateOutput

LEMMA CancelledTypes ==
  ASSUME VoiceTypeOK, CancelSyntheses
  PROVE  /\ job' \in [Syntheses -> {"unused", "recovering", "working", "queueing", "publishing", "done"}]
         /\ UNCHANGED <<source, calls, reserved>>
BY DEF VoiceTypeOK, CancelSyntheses, Cancelled

LEMMA StreamTypes ==
  ASSUME VoiceTypeOK, NEW s \in Streams, AskStream(s) \/ OpenStream(s) \/ SubmitFrame(s) \/ Flush(s),
         left' \in 0 .. MaxDisturbances
  PROVE  VoiceTypeOK'
<1>1. /\ stream' \in [Streams -> {"unopened", "opening", "active", "closed"}]
      /\ handling' \in [Streams -> {"nothing", "frame", "flush", "begin", "discard", "finalize", "commit"}]
  <2>1. CASE AskStream(s)
    BY <2>1 DEF AskStream, VoiceTypeOK
  <2>2. CASE OpenStream(s)
    BY <2>2 DEF OpenStream, VoiceTypeOK
  <2>3. CASE SubmitFrame(s) \/ Flush(s)
    BY <2>3 DEF SubmitFrame, Flush, Submit, VoiceTypeOK
  <2> QED BY <2>1, <2>2, <2>3
<1>2. UNCHANGED <<authority, commands, listening, frames, speech, assets, stopping>>
  BY DEF AskStream, OpenStream, SubmitFrame, Flush, Submit
<1> QED BY <1>1, <1>2 DEF VoiceTypeOK, authority, speech

LEMMA RevokingTypes ==
  ASSUME VoiceTypeOK, NEW s \in Streams, CancelStream(s) \/ ExpireIdleStream(s), left' \in 0 .. MaxDisturbances
  PROVE  VoiceTypeOK'
<1>1. Revoke({s})
  BY DEF CancelStream, ExpireIdleStream
<1>2. UNCHANGED <<authority, speech, assets, stopping>>
  BY DEF CancelStream, ExpireIdleStream
<1> QED BY <1>1, <1>2, RevokeTypes DEF VoiceTypeOK, Commands, authority, speech

LEMMA WorkerTypes ==
  ASSUME VoiceTypeOK, NEW s \in Streams, WorkerAnswers(s), left' \in 0 .. MaxDisturbances
  PROVE  VoiceTypeOK' /\ NoneComes
<1>1. PICK event \in Heard(s) : /\ Listen(s, event)
                                /\ IF IsCurrent(s) THEN ApplyEvent(s, event) ELSE Finish(s)
  BY DEF WorkerAnswers
<1>2. listening' \in [Streams -> {"silence", "speech", "closed"}]
  BY <1>1 DEF VoiceTypeOK, Listen
<1>3. frames' \in [Streams -> 0 .. MaxFrames]
  <2>1. 0 \in 0 .. MaxFrames
    BY VoiceAssumption
  <2>2. event = "quiet" => frames[s] < MaxFrames
    <3>1. "quiet" \notin Decisions(s)
      BY DEF Decisions
    <3> QED BY <1>1, <3>1 DEF Heard, VoiceTypeOK, WorkerAnswers
  <2>3. event = "quiet" => frames[s] + 1 \in 0 .. MaxFrames
    BY <2>2, VoiceAssumption DEF VoiceTypeOK
  <2> QED BY <1>1, <2>1, <2>3 DEF VoiceTypeOK, Listen
<1>4. commands \in Seq(Commands)
  BY DEF VoiceTypeOK, Commands
<1>5. /\ stream' \in [Streams -> {"unopened", "opening", "active", "closed"}]
      /\ handling' \in [Streams -> {"nothing", "frame", "flush", "begin", "discard", "finalize", "commit"}]
      /\ commands' \in Seq(Commands) /\ NoneComes
  <2>1. ASSUME Finish(s) \/ Terminate(s)
        PROVE  <1>5!1 /\ <1>5!2 /\ <1>5!3
    <3>1. UNCHANGED commands
      BY <2>1 DEF Finish, Terminate
    <3>2. <1>5!1 /\ <1>5!2
      BY <2>1 DEF Finish, Terminate, VoiceTypeOK
    <3> QED BY <1>4, <3>1, <3>2, QueueMoves
  <2>2. ASSUME NEW do \in {"begin", "finalize", "discard"}, Await(s, do)
        PROVE  <1>5!1 /\ <1>5!2 /\ <1>5!3
    <3>1. commands' = Append(commands, Command(do, s)) /\ Command(do, s) \in Commands /\ Command(do, s).do # "audio"
      BY <2>2, CommandIsOne DEF Await
    <3>2. <1>5!1 /\ <1>5!2
      BY <2>2 DEF Await, VoiceTypeOK
    <3> QED BY <1>4, <3>1, <3>2, QueueMoves
  <2>3. Finish(s) \/ Terminate(s) \/ \E do \in {"begin", "finalize", "discard"} : Await(s, do)
    BY <1>1 DEF ApplyEvent
  <2> QED BY <2>1, <2>2, <2>3
<1>6. UNCHANGED <<authority, speech, assets, stopping>>
  BY DEF WorkerAnswers
<1> QED BY <1>2, <1>3, <1>5, <1>6 DEF VoiceTypeOK, Commands, authority, speech

LEMMA SpeechInvInitially == VoiceInit => SpeechInv
<1> SUFFICES ASSUME VoiceInit PROVE SpeechInv
  OBVIOUS
<1>1. ReadsASentText /\ CallsAreKnown /\ OneInFlight
  BY VoiceAssumption DEF VoiceInit, ReadsASentText, CallsAreKnown, OneInFlight, Waiting
<1>2. NothingYet
  BY DEF VoiceInit, NothingYet
<1>3. QueuedOnce
  <2>1. DOMAIN commands = {}
    BY DEF VoiceInit
  <2> QED BY <2>1 DEF QueuedOnce
<1>4. BytesAreKept /\ SpeechIsCurrent
  BY DEF VoiceInit, BytesAreKept, SpeechIsCurrent
<1>5. OneSpeech
  BY DEF VoiceInit, OneSpeech, SpeechOf
<1> QED BY <1>1, <1>2, <1>3, <1>4, <1>5 DEF SpeechInv

\* The commands that queue speech stay the ones their calls wait for, when none comes and no call
\* that waits for one goes on.
LEMMA QueuedOnceStays ==
  ASSUME VoiceTypeOK, VoiceTypeOK', QueuedOnce, NoneComes,
         \A y \in Syntheses : job[y] = "queueing" => job'[y] = "queueing"
  PROVE  QueuedOnce'
<1>1. PICK k \in {0, 1} : \A i \in DOMAIN commands' :
        commands'[i].do = "audio" => i + k \in DOMAIN commands /\ commands'[i] = commands[i + k]
  BY DEF NoneComes
<1>2. commands \in Seq(Commands) /\ commands' \in Seq(Commands)
  BY DEF VoiceTypeOK, Commands
<1>3. \A i \in DOMAIN commands : commands[i].do = "audio" => commands[i].of \in Syntheses
  <2>1. \A i \in DOMAIN commands : commands[i] \in Commands
    BY <1>2
  <2>2. \A c \in Commands : c.do = "audio" => c.of \in Syntheses
    BY DEF Commands
  <2> QED BY <2>1, <2>2
<1> SUFFICES ASSUME NEW i \in DOMAIN commands', NEW j \in DOMAIN commands', commands'[i].do = "audio"
             PROVE  job'[commands'[i].of] = "queueing" /\ (commands'[j] = commands'[i] => i = j)
  BY DEF QueuedOnce
<1>4. i + k \in DOMAIN commands /\ commands'[i] = commands[i + k]
  BY <1>1
<1>5. job'[commands'[i].of] = "queueing"
  BY <1>3, <1>4 DEF QueuedOnce
<1>6. ASSUME commands'[j] = commands'[i] PROVE i = j
  <2>1. j + k \in DOMAIN commands /\ commands'[j] = commands[j + k]
    BY <1>1, <1>6
  <2>2. i + k = j + k
    BY <1>4, <1>6, <2>1 DEF QueuedOnce
  <2> QED BY <1>2, <2>2
<1> QED BY <1>5, <1>6

\* A step that leaves the texts and their speech alone, but for what the end of the session or the
\* shutdown does to the calls and the bytes.
LEMMA AsideKeeps ==
  ASSUME VoiceTypeOK, VoiceTypeOK', SpeechInv, NoneComes,
         UNCHANGED <<generation, text, audio, source, calls>>,
         job' = job \/ job' = Cancelled,
         session' = "ACTIVE" => session = "ACTIVE",
         stopping' # "stopped" => stopping # "stopped",
         \A y \in assets : y \notin assets' =>
           \/ stopping' = "stopped"
           \/ audio[y] # "QUEUED" /\ (job[y] = "queueing" => session' # "ACTIVE")
  PROVE  SpeechInv'
<1>1. \A y \in Syntheses : job'[y] = job[y] \/ (job[y] = "working" /\ job'[y] = "done")
  <2>1. CASE job' = job
    BY <2>1
  <2>2. CASE job' = Cancelled
    BY <2>2 DEF Cancelled
  <2> QED BY <2>1, <2>2
<1>2. \A t : SpeechOf(t)' = SpeechOf(t)
  BY DEF SpeechOf
<1>3. ReadsASentText' /\ CallsAreKnown' /\ OneInFlight'
  BY <1>1 DEF SpeechInv, ReadsASentText, CallsAreKnown, OneInFlight, Waiting, VoiceTypeOK
<1>4. NothingYet'
  BY <1>1, <1>2 DEF SpeechInv, NothingYet
<1>5. QueuedOnce'
  BY <1>1, QueuedOnceStays DEF SpeechInv
<1>6. BytesAreKept'
  BY <1>1 DEF SpeechInv, BytesAreKept
<1>7. OneSpeech' /\ SpeechIsCurrent'
  BY <1>2 DEF SpeechInv, OneSpeech, SpeechIsCurrent
<1> QED BY <1>3, <1>4, <1>5, <1>6, <1>7 DEF SpeechInv

\* A change of authority withdraws the speech with the text it reads.
LEMMA InvalidatingKeeps ==
  ASSUME VoiceTypeOK, VoiceTypeOK', SpeechInv, NoneComes,
         InvalidateOutput, UNCHANGED <<source, calls>>, job' = job \/ job' = Cancelled
  PROVE  SpeechInv'
<1>1. \A y \in Syntheses : job'[y] = job[y] \/ (job[y] = "working" /\ job'[y] = "done")
  <2>1. CASE job' = job
    BY <2>1
  <2>2. CASE job' = Cancelled
    BY <2>2 DEF Cancelled
  <2> QED BY <2>1, <2>2
<1>2. \A t \in Texts : text[t] \notin {"NONE", "QUEUED"} => text'[t] \notin {"NONE", "QUEUED"}
  BY InvalidatedTypes DEF InvalidateOutput, VoiceTypeOK
<1>3. \A y \in Syntheses : /\ audio'[y] \notin {"QUEUED", "DELIVERING"}
                           /\ (audio'[y] = "NONE") = (audio[y] = "NONE")
                           /\ audio[y] = "CANCELLED" => audio'[y] = "CANCELLED"
  BY InvalidatedTypes DEF InvalidateOutput, VoiceTypeOK
<1>4. \A t : SpeechOf(t)' \subseteq SpeechOf(t)
  BY <1>3 DEF SpeechOf
<1>5. \A t \in Texts : generation'[t] # "VALIDATED"
  BY DEF InvalidateOutput
<1>6. ReadsASentText' /\ CallsAreKnown' /\ OneInFlight'
  BY <1>1, <1>2 DEF SpeechInv, ReadsASentText, CallsAreKnown, OneInFlight, Waiting, VoiceTypeOK
<1>7. NothingYet'
  BY <1>1, <1>3, <1>4 DEF SpeechInv, NothingYet
<1>8. QueuedOnce'
  BY <1>1, QueuedOnceStays DEF SpeechInv
<1>9. BytesAreKept'
  BY <1>5, <1>6 DEF BytesAreKept, ReadsASentText
<1>10. OneSpeech' /\ SpeechIsCurrent'
  BY <1>3, <1>4 DEF SpeechInv, OneSpeech, SpeechIsCurrent
<1> QED BY <1>6, <1>7, <1>8, <1>9, <1>10 DEF SpeechInv

\* Speech goes on its way, or reaches its end.
LEMMA SpokenKeeps ==
  ASSUME VoiceTypeOK, VoiceTypeOK', SpeechInv, NEW y \in Syntheses,
         UNCHANGED <<session, generation, text, source, calls, commands, assets, stopping>>,
         job' = job \/ (job[y] = "publishing" /\ job' = [job EXCEPT ![y] = "done"]),
         \/ audio' = audio
         \/ /\ audio[y] \in {"QUEUED", "DELIVERING"} /\ audio'[y] \notin {"NONE", "QUEUED"}
            /\ \A z \in Syntheses : z # y => audio'[z] = audio[z]
  PROVE  SpeechInv'
<1>1. \A z \in Syntheses : job'[z] = job[z] \/ (job[z] = "publishing" /\ job'[z] = "done")
  <2>1. DOMAIN job = Syntheses
    BY DEF VoiceTypeOK
  <2>2. CASE job' = job
    BY <2>2
  <2>3. CASE job[y] = "publishing" /\ job' = [job EXCEPT ![y] = "done"]
    BY <2>1, <2>3
  <2> QED BY <2>2, <2>3
<1>2. \A z \in Syntheses : /\ audio'[z] = audio[z] \/ audio[z] \in {"QUEUED", "DELIVERING"}
                           /\ audio'[z] = "QUEUED" => audio[z] = "QUEUED"
                           /\ (audio'[z] = "NONE") = (audio[z] = "NONE")
  OBVIOUS
<1>3. \A t : SpeechOf(t)' \subseteq SpeechOf(t)
  BY <1>2 DEF SpeechOf
<1>4. ReadsASentText' /\ CallsAreKnown' /\ OneInFlight'
  BY <1>1 DEF SpeechInv, ReadsASentText, CallsAreKnown, OneInFlight, Waiting, VoiceTypeOK
<1>5. NothingYet'
  BY <1>1, <1>2, <1>3 DEF SpeechInv, NothingYet
<1>6. QueuedOnce'
  <2>1. NoneComes
    BY QueueMoves DEF VoiceTypeOK, Commands
  <2> QED BY <1>1, <2>1, QueuedOnceStays DEF SpeechInv
<1>7. BytesAreKept'
  BY <1>1 DEF SpeechInv, BytesAreKept
<1>8. OneSpeech' /\ SpeechIsCurrent'
  BY <1>2, <1>3 DEF SpeechInv, OneSpeech, SpeechIsCurrent
<1> QED BY <1>4, <1>5, <1>6, <1>7, <1>8 DEF SpeechInv

VoiceInv == VoiceTypeOK /\ SpeechInv

LEMMA QueueIsKept == VoiceTypeOK /\ UNCHANGED commands => NoneComes
BY QueueMoves DEF VoiceTypeOK, Commands

LEMMA AnswerKeeps ==
  ASSUME VoiceInv, NEW t \in Texts, Answer(t), UNCHANGED left
  PROVE  VoiceInv'
<1> USE DEF VoiceInv
<1>1. VoiceTypeOK'
  BY DEF VoiceTypeOK, Statuses, Answer, input, speech
<1>2. text[t] = "NONE" /\ UNCHANGED <<session, audio, commands, job, source, calls, assets, stopping>>
  BY DEF Answer, speech
<1>3. \A u \in Texts : u # t => generation'[u] = generation[u] /\ text'[u] = text[u]
  BY DEF Answer, VoiceTypeOK
<1>4. \A y \in Syntheses : job[y] # "unused" => source[y] \in Texts /\ source[y] # t
  BY <1>2 DEF SpeechInv, ReadsASentText
<1>5. \A y \in Syntheses : audio[y] # "NONE" => job[y] # "unused"
  BY DEF SpeechInv, NothingYet
<1>6. \A u : SpeechOf(u)' = SpeechOf(u)
  BY <1>2 DEF SpeechOf
<1>7. ReadsASentText' /\ CallsAreKnown' /\ OneInFlight'
  BY <1>2, <1>3, <1>4 DEF SpeechInv, ReadsASentText, CallsAreKnown, OneInFlight, Waiting
<1>8. NothingYet' /\ QueuedOnce' /\ OneSpeech'
  BY <1>2, <1>6 DEF SpeechInv, NothingYet, QueuedOnce, OneSpeech
<1>9. BytesAreKept' /\ SpeechIsCurrent'
  BY <1>2, <1>3, <1>4, <1>5 DEF SpeechInv, BytesAreKept, SpeechIsCurrent
<1> QED BY <1>1, <1>7, <1>8, <1>9 DEF SpeechInv

\* A text that was sent, or met its end, is still a text that was sent.
LEMMA TextMovesKeep ==
  ASSUME VoiceTypeOK, VoiceTypeOK', SpeechInv,
         UNCHANGED <<session, generation, audio, job, source, calls, commands, assets, stopping>>,
         \A t \in Texts : text'[t] = text[t] \/ text'[t] \notin {"NONE", "QUEUED"}
  PROVE  SpeechInv'
<1>1. \A u : SpeechOf(u)' = SpeechOf(u)
  BY DEF SpeechOf
<1>2. ReadsASentText' /\ CallsAreKnown' /\ OneInFlight'
  BY DEF SpeechInv, ReadsASentText, CallsAreKnown, OneInFlight, Waiting
<1>3. NothingYet' /\ QueuedOnce' /\ OneSpeech'
  BY <1>1 DEF SpeechInv, NothingYet, QueuedOnce, OneSpeech
<1>4. BytesAreKept' /\ SpeechIsCurrent'
  BY DEF SpeechInv, BytesAreKept, SpeechIsCurrent
<1> QED BY <1>2, <1>3, <1>4 DEF SpeechInv

LEMMA TextEndsKeeps ==
  ASSUME VoiceInv, NEW t \in Texts, NEW status \in {"EXPOSED", "CANCELLED", "POSSIBLY_EXPOSED"},
         TextEnds(t, status), left' \in 0 .. MaxDisturbances
  PROVE  VoiceInv'
<1>1. VoiceTypeOK'
  BY DEF VoiceInv, VoiceTypeOK, Statuses, TextEnds, Ends, input, speech
<1>2. UNCHANGED <<session, generation, audio, job, source, calls, commands, assets, stopping>>
  BY DEF TextEnds, Ends, speech
<1>3. \A u \in Texts : text'[u] = text[u] \/ text'[u] \notin {"NONE", "QUEUED"}
  BY DEF TextEnds, Ends, VoiceInv, VoiceTypeOK
<1> QED BY <1>1, <1>2, <1>3, TextMovesKeep DEF VoiceInv

\* Speech is scheduled for a text that has none under way.
LEMMA DeliverySentKeeps ==
  ASSUME VoiceInv, NEW t \in Texts, DeliverySent(t), UNCHANGED left
  PROVE  VoiceInv'
<1> USE DEF VoiceInv
<1>1. /\ UNCHANGED <<session, generation, audio, utterance, commands, input, assets, stopping>>
      /\ text' = [text EXCEPT ![t] = "DELIVERING"]
  BY DEF DeliverySent
<1>2. \A u \in Texts : text'[u] = text[u] \/ text'[u] \notin {"NONE", "QUEUED"}
  BY <1>1 DEF VoiceTypeOK
<1>3. CASE UNCHANGED speech
  <2>1. VoiceTypeOK'
    BY <1>1, <1>3 DEF VoiceTypeOK, Statuses, input, speech
  <2> QED BY <1>1, <1>2, <1>3, <2>1, TextMovesKeep DEF speech
<1>4. CASE ~UNCHANGED speech
  <2>1. ~InFlight(t) /\ Unused # {} /\ UNCHANGED <<calls, reserved>>
    BY <1>4 DEF DeliverySent
  <2>2. PICK y \in Unused : job' = [job EXCEPT ![y] = "recovering"] /\ source' = [source EXCEPT ![y] = t]
    BY <1>4, <2>1 DEF DeliverySent
  <2>3. y \in Syntheses /\ job[y] = "unused" /\ source[y] = None /\ audio[y] = "NONE"
    BY <2>2 DEF Unused, SpeechInv, ReadsASentText, NothingYet
  <2>4. VoiceTypeOK'
    BY <1>1, <2>1, <2>2, <2>3 DEF VoiceTypeOK, Statuses, input
  <2>5. /\ job'[y] = "recovering" /\ source'[y] = t
        /\ \A z \in Syntheses : z # y => job'[z] = job[z] /\ source'[z] = source[z]
    BY <2>2, <2>3 DEF VoiceTypeOK
  <2>6. \A z \in Syntheses : z # y /\ source'[z] = t => ~Waiting(z)
    BY <2>1, <2>5 DEF InFlight, Waiting
  <2>7. text'[t] = "DELIVERING"
    BY <1>1 DEF VoiceTypeOK
  <2>8. \A u \in Texts : SpeechOf(u)' = SpeechOf(u)
    BY <1>1, <2>3, <2>5, VoiceAssumption DEF SpeechOf
  <2>9. ReadsASentText'
    BY <1>2, <2>5, <2>7 DEF SpeechInv, ReadsASentText
  <2>10. CallsAreKnown'
    BY <2>1, <2>3, <2>5 DEF SpeechInv, CallsAreKnown, VoiceTypeOK
  <2>11. OneInFlight'
    BY <2>5, <2>6 DEF SpeechInv, OneInFlight, Waiting
  <2>12. NothingYet'
    <3>1. \A z \in Syntheses : job'[z] \in {"working", "queueing"} => source'[z] \in Texts /\ z # y
      BY <2>5 DEF SpeechInv, ReadsASentText
    <3> QED BY <1>1, <2>3, <2>5, <2>8, <3>1 DEF SpeechInv, NothingYet
  <2>13. QueuedOnce'
    <3>1. \A z \in Syntheses : job[z] = "queueing" => job'[z] = "queueing"
      BY <2>3, <2>5
    <3> QED BY <1>1, <2>4, <3>1, QueuedOnceStays, QueueIsKept DEF SpeechInv
  <2>14. BytesAreKept' /\ SpeechIsCurrent'
    BY <1>1, <2>3, <2>5 DEF SpeechInv, BytesAreKept, SpeechIsCurrent
  <2>15. OneSpeech'
    BY <2>8 DEF SpeechInv, OneSpeech
  <2> QED BY <2>4, <2>9, <2>10, <2>11, <2>12, <2>13, <2>14, <2>15 DEF SpeechInv
<1> QED BY <1>3, <1>4

\* The request is made, or refused.
LEMMA SynthesizeKeeps ==
  ASSUME VoiceInv, NEW y \in Syntheses, SynthesizeSentTextDelivery(y), UNCHANGED left
  PROVE  VoiceInv'
<1> USE DEF VoiceInv
<1>1. /\ job[y] = "recovering"
      /\ UNCHANGED <<authority, commands, input, source, assets, stopping>>
  BY DEF SynthesizeSentTextDelivery
<1>2. VoiceTypeOK'
  BY DEF SynthesizeSentTextDelivery, VoiceTypeOK, Statuses, input, authority
<1>3. \A z \in Syntheses : z # y => job'[z] = job[z]
  BY DEF SynthesizeSentTextDelivery, VoiceTypeOK
<1>4. /\ job'[y] \in {"working", "done"}
      /\ job'[y] = "working" => SpeechOf(source[y]) = {}
      /\ calls' \subseteq calls \cup {y}
  BY DEF SynthesizeSentTextDelivery, VoiceTypeOK, Admitted
<1>5. \A u : SpeechOf(u)' = SpeechOf(u)
  BY <1>1 DEF SpeechOf, authority
<1>6. ReadsASentText' /\ OneInFlight'
  BY <1>1, <1>3, <1>4 DEF SpeechInv, ReadsASentText, OneInFlight, Waiting, authority
<1>7. CallsAreKnown'
  BY <1>3, <1>4 DEF SpeechInv, CallsAreKnown, VoiceTypeOK
<1>8. NothingYet'
  BY <1>1, <1>3, <1>4, <1>5 DEF SpeechInv, NothingYet, authority
<1>9. QueuedOnce'
  BY <1>1, <1>2, <1>3, QueuedOnceStays, QueueIsKept DEF SpeechInv
<1>10. BytesAreKept' /\ SpeechIsCurrent' /\ OneSpeech'
  BY <1>1, <1>3, <1>4, <1>5 DEF SpeechInv, BytesAreKept, SpeechIsCurrent, OneSpeech, authority
<1> QED BY <1>2, <1>6, <1>7, <1>8, <1>9, <1>10 DEF SpeechInv

\* The model settles: the bytes are registered and their command is queued, or the call is over.
LEMMA ModelSettlesKeeps ==
  ASSUME VoiceInv, NEW y \in Syntheses, ModelSettles(y), UNCHANGED left
  PROVE  VoiceInv'
<1> USE DEF VoiceInv
<1>1. /\ y \in calls /\ calls' = calls \ {y} /\ reserved' = reserved \ {y}
      /\ UNCHANGED <<authority, input, source, stopping>>
  BY DEF ModelSettles
<1>2. \A u : SpeechOf(u)' = SpeechOf(u)
  BY <1>1 DEF SpeechOf, authority
<1>3. CASE job' = [job EXCEPT ![y] = "done"] /\ UNCHANGED <<assets, commands>>
  <2>1. VoiceTypeOK'
    BY <1>1, <1>3 DEF VoiceTypeOK, Statuses, input, authority
  <2>2. job[y] \in {"working", "done"} /\ job'[y] = "done"
    BY <1>1, <1>3 DEF VoiceTypeOK, SpeechInv, CallsAreKnown
  <2>3. \A z \in Syntheses : z # y => job'[z] = job[z]
    BY <1>3 DEF VoiceTypeOK
  <2>4. ReadsASentText' /\ OneInFlight'
    BY <1>1, <2>2, <2>3 DEF SpeechInv, ReadsASentText, OneInFlight, Waiting, authority
  <2>5. CallsAreKnown'
    BY <1>1, <2>3 DEF SpeechInv, CallsAreKnown, VoiceTypeOK
  <2>6. NothingYet'
    BY <1>1, <1>2, <2>2, <2>3 DEF SpeechInv, NothingYet, authority
  <2>7. QueuedOnce'
    BY <1>3, <2>1, <2>2, <2>3, QueuedOnceStays, QueueIsKept DEF SpeechInv
  <2>8. BytesAreKept' /\ SpeechIsCurrent' /\ OneSpeech'
    BY <1>1, <1>2, <1>3, <2>2, <2>3 DEF SpeechInv, BytesAreKept, SpeechIsCurrent, OneSpeech, authority
  <2> QED BY <2>1, <2>4, <2>5, <2>6, <2>7, <2>8 DEF SpeechInv
<1>4. CASE job[y] = "working" /\ Register(y)
  <2>1. /\ assets' = assets \cup {y}
        /\ commands' = Append(commands, Command("audio", y))
        /\ job' = [job EXCEPT ![y] = "queueing"]
    BY <1>4 DEF Register
  <2>2. commands \in Seq(Commands) /\ commands' \in Seq(Commands) /\ Command("audio", y) \in Commands
    BY <2>1, QueueMoves, CommandIsOne DEF VoiceTypeOK, Commands
  <2>3. VoiceTypeOK'
    BY <1>1, <2>1, <2>2 DEF VoiceTypeOK, Statuses, Commands, input, authority
  <2>4. job'[y] = "queueing" /\ \A z \in Syntheses : z # y => job'[z] = job[z]
    BY <2>1 DEF VoiceTypeOK
  <2>5. ReadsASentText' /\ OneInFlight'
    BY <1>1, <1>4, <2>4 DEF SpeechInv, ReadsASentText, OneInFlight, Waiting, authority
  <2>6. CallsAreKnown'
    BY <1>1, <2>4 DEF SpeechInv, CallsAreKnown, VoiceTypeOK
  <2>7. NothingYet'
    BY <1>1, <1>2, <1>4, <2>4 DEF SpeechInv, NothingYet, authority
  <2>8. QueuedOnce'
    <3>1. DOMAIN commands = 1 .. Len(commands) /\ DOMAIN commands' = 1 .. Len(commands) + 1 /\ Len(commands) \in Nat
      BY <2>1, <2>2
    <3>2. \A i \in DOMAIN commands' : commands'[i] = IF i = Len(commands) + 1 THEN Command("audio", y) ELSE commands[i]
      BY <2>1, <2>2
    <3>3. \A i \in DOMAIN commands : commands[i].do = "audio" =>
            job[commands[i].of] = "queueing" /\ commands[i].of \in Syntheses /\ commands[i].of # y
      <4>1. \A i \in DOMAIN commands : commands[i].do = "audio" => commands[i].of \in Syntheses
        <5>1. \A i \in DOMAIN commands : commands[i] \in Commands
          BY <2>2
        <5> QED BY <5>1 DEF Commands
      <4>2. \A i \in DOMAIN commands : commands[i].do = "audio" => job[commands[i].of] = "queueing"
        BY DEF SpeechInv, QueuedOnce
      <4> QED BY <1>4, <4>1, <4>2
    <3>4. Command("audio", y).do = "audio" /\ Command("audio", y).of = y
      BY DEF Command
    <3> SUFFICES ASSUME NEW i \in DOMAIN commands', NEW j \in DOMAIN commands', commands'[i].do = "audio"
                 PROVE  job'[commands'[i].of] = "queueing" /\ (commands'[j] = commands'[i] => i = j)
      BY DEF QueuedOnce
    <3>5. CASE i = Len(commands) + 1
      <4>1. commands'[i] = Command("audio", y)
        BY <3>2, <3>5
      <4>2. ASSUME j \in DOMAIN commands PROVE commands'[j] # Command("audio", y)
        <5>1. commands'[j] = commands[j]
          BY <3>1, <3>2, <4>2
        <5> QED BY <3>3, <3>4, <4>2, <5>1
      <4> QED BY <2>4, <3>1, <3>4, <3>5, <4>1, <4>2
    <3>6. CASE i # Len(commands) + 1
      <4>1. i \in DOMAIN commands /\ commands'[i] = commands[i]
        BY <3>1, <3>2, <3>6
      <4>2. job'[commands'[i].of] = "queueing"
        BY <2>4, <3>3, <4>1
      <4>3. ASSUME commands'[j] = commands'[i] PROVE i = j
        <5>1. commands'[j] # Command("audio", y)
          BY <3>3, <3>4, <4>1, <4>3
        <5>2. j \in DOMAIN commands /\ commands'[j] = commands[j]
          BY <3>1, <3>2, <5>1
        <5> QED BY <4>1, <4>3, <5>2 DEF SpeechInv, QueuedOnce
      <4> QED BY <4>2, <4>3
    <3> QED BY <3>5, <3>6
  <2>9. BytesAreKept' /\ SpeechIsCurrent' /\ OneSpeech'
    BY <1>1, <1>2, <2>1, <2>4 DEF SpeechInv, BytesAreKept, SpeechIsCurrent, OneSpeech, authority
  <2> QED BY <2>3, <2>5, <2>6, <2>7, <2>8, <2>9 DEF SpeechInv
<1> QED BY <1>3, <1>4 DEF ModelSettles

\* The writer queues the speech, or refuses it and the bytes are given back.
LEMMA QueueAudioKeeps ==
  ASSUME VoiceInv, NEW y \in Syntheses, QueueAudioDelivery(y), UNCHANGED left
  PROVE  VoiceInv'
<1> USE DEF VoiceInv
<1>1. /\ commands # << >> /\ Head(commands) = Command("audio", y) /\ commands' = Tail(commands)
      /\ UNCHANGED <<session, generation, text, utterance, input, source, calls, reserved, stopping>>
  BY DEF QueueAudioDelivery, Next1
<1>2. commands \in Seq(Commands) /\ commands' \in Seq(Commands)
  BY <1>1, QueueMoves DEF VoiceTypeOK, Commands
<1>3. /\ DOMAIN commands = 1 .. Len(commands) /\ DOMAIN commands' = 1 .. Len(commands) - 1
      /\ Len(commands) \in Nat \ {0}
      /\ \A i \in DOMAIN commands' : i + 1 \in DOMAIN commands /\ commands'[i] = commands[i + 1]
      /\ commands[1] = Command("audio", y)
  BY <1>1, <1>2
<1>4. Command("audio", y).do = "audio" /\ Command("audio", y).of = y
  BY DEF Command
<1>5. job[y] = "queueing" /\ audio[y] = "NONE" /\ SpeechOf(source[y]) = {} /\ source[y] \in Texts
  BY <1>3, <1>4 DEF SpeechInv, QueuedOnce, NothingYet, ReadsASentText
<1>6. \A i \in DOMAIN commands' :
        commands'[i].do = "audio" => commands'[i].of \in Syntheses /\ commands'[i].of # y
  <2> SUFFICES ASSUME NEW i \in DOMAIN commands', commands'[i].do = "audio"
               PROVE  commands'[i].of \in Syntheses /\ commands'[i].of # y
    OBVIOUS
  <2>1. commands'[i] \in Commands
    BY <1>2
  <2>2. commands'[i] = [do |-> "audio", of |-> commands'[i].of] /\ commands'[i].of \in Syntheses
    BY <2>1 DEF Commands
  <2>3. ASSUME commands'[i].of = y PROVE FALSE
    <3>1. commands[i + 1] = commands[1]
      BY <1>3, <2>2, <2>3 DEF Command
    <3>2. commands[1].do = "audio" /\ 1 \in DOMAIN commands /\ i + 1 \in DOMAIN commands
      BY <1>3, <1>4
    <3>3. 1 = i + 1
      BY <3>1, <3>2 DEF SpeechInv, QueuedOnce
    <3> QED BY <1>3, <3>3
  <2> QED BY <2>2, <2>3
<1>7. /\ job'[y] \in {"publishing", "done"} /\ \A z \in Syntheses : z # y => job'[z] = job[z]
      /\ \A z \in Syntheses : z # y => audio'[z] = audio[z]
  BY DEF QueueAudioDelivery, VoiceTypeOK
<1>8. VoiceTypeOK'
  <2>1. /\ audio' \in [Syntheses -> Statuses]
        /\ job' \in [Syntheses -> {"unused", "recovering", "working", "queueing", "publishing", "done"}]
        /\ assets' \subseteq Syntheses
    <3>1. CASE session = "ACTIVE" /\ Speakable(source[y])
      <4>1. audio' = [audio EXCEPT ![y] = "QUEUED"] /\ job' = [job EXCEPT ![y] = "publishing"] /\ assets' = assets
        BY <3>1 DEF QueueAudioDelivery
      <4> QED BY <4>1 DEF VoiceTypeOK, Statuses
    <3>2. CASE ~(session = "ACTIVE" /\ Speakable(source[y]))
      <4>1. audio' = audio /\ job' = [job EXCEPT ![y] = "done"] /\ assets' \subseteq assets
        BY <3>2 DEF QueueAudioDelivery
      <4> QED BY <4>1 DEF VoiceTypeOK
    <3> QED BY <3>1, <3>2
  <2> QED BY <1>1, <1>2, <2>1 DEF VoiceTypeOK, Commands, input
<1>9. ReadsASentText' /\ CallsAreKnown' /\ OneInFlight'
  <2>1. y \notin calls
    BY <1>5 DEF SpeechInv, CallsAreKnown
  <2> QED BY <1>1, <1>5, <1>7, <2>1 DEF SpeechInv, ReadsASentText, CallsAreKnown, OneInFlight, Waiting, VoiceTypeOK
<1>10. \A z \in Syntheses : z # y /\ job[z] \in {"working", "queueing"} => source[z] # source[y]
  BY <1>5 DEF SpeechInv, OneInFlight, Waiting
<1>11. \A u : SpeechOf(u)' \subseteq SpeechOf(u) \cup {y}
  BY <1>1, <1>7 DEF SpeechOf
<1>12. \A u : u # source[y] => SpeechOf(u)' \subseteq SpeechOf(u)
  BY <1>1, <1>7 DEF SpeechOf
<1>13. NothingYet'
  BY <1>1, <1>7, <1>10, <1>12 DEF SpeechInv, NothingYet
<1>14. OneSpeech'
  BY <1>5, <1>11, <1>12 DEF SpeechInv, OneSpeech
<1>15. QueuedOnce'
  <2>1. \A i \in DOMAIN commands' : commands'[i].do = "audio" => job'[commands'[i].of] = "queueing"
    BY <1>3, <1>6, <1>7 DEF SpeechInv, QueuedOnce
  <2>2. \A i, j \in DOMAIN commands' : commands'[i].do = "audio" /\ commands'[j] = commands'[i] => i = j
    <3> SUFFICES ASSUME NEW i \in DOMAIN commands', NEW j \in DOMAIN commands',
                        commands'[i].do = "audio", commands'[j] = commands'[i]
                 PROVE  i = j
      OBVIOUS
    <3>1. i + 1 = j + 1
      BY <1>3 DEF SpeechInv, QueuedOnce
    <3> QED BY <1>3, <3>1
  <2> QED BY <2>1, <2>2 DEF QueuedOnce
<1>16. BytesAreKept' /\ SpeechIsCurrent'
  <2>1. CASE session = "ACTIVE" /\ Speakable(source[y])
    <3>1. UNCHANGED assets /\ generation[source[y]] = "VALIDATED"
      BY <2>1 DEF QueueAudioDelivery, Speakable
    <3>2. stopping # "stopped" => y \in assets
      BY <1>5, <2>1, <3>1 DEF SpeechInv, BytesAreKept
    <3> QED BY <1>1, <1>7, <3>1, <3>2 DEF SpeechInv, BytesAreKept, SpeechIsCurrent
  <2>2. CASE ~(session = "ACTIVE" /\ Speakable(source[y]))
    <3>1. UNCHANGED audio /\ assets' = assets \ {y}
      BY <2>2 DEF QueueAudioDelivery
    <3> QED BY <1>1, <1>5, <1>7, <3>1 DEF SpeechInv, BytesAreKept, SpeechIsCurrent
  <2> QED BY <2>1, <2>2
<1> QED BY <1>8, <1>9, <1>13, <1>14, <1>15, <1>16 DEF SpeechInv

LEMMA PublishMoves ==
  ASSUME VoiceTypeOK, NEW y \in Syntheses, Publish(y)
  PROVE  /\ audio' \in [Syntheses -> Statuses]
         /\ \/ audio' = audio
            \/ /\ audio[y] \in {"QUEUED", "DELIVERING"} /\ audio'[y] \notin {"NONE", "QUEUED"}
               /\ \A z \in Syntheses : z # y => audio'[z] = audio[z]
<1>1. PICK status \in Published(y) : audio' = [audio EXCEPT ![y] = status]
  BY DEF Publish
<1>2. /\ status \in Statuses
      /\ \/ status = audio[y]
         \/ audio[y] \in {"QUEUED", "DELIVERING"} /\ status \notin {"NONE", "QUEUED"}
  <2>1. CASE audio[y] = "QUEUED"
    BY <1>1, <2>1 DEF Published, VoiceTypeOK, Statuses
  <2>2. CASE audio[y] = "DELIVERING"
    BY <1>1, <2>2 DEF Published, VoiceTypeOK, Statuses
  <2>3. CASE audio[y] \notin {"QUEUED", "DELIVERING"}
    <3>1. status = audio[y]
      BY <1>1, <2>3 DEF Published
    <3> QED BY <3>1 DEF VoiceTypeOK
  <2> QED BY <2>1, <2>2, <2>3
<1> QED BY <1>1, <1>2 DEF VoiceTypeOK

\* Speech is sent when its call ends, and to a renderer that attaches.
LEMMA PublishingKeeps ==
  ASSUME VoiceInv, NEW y \in Syntheses, PublishSpeech(y) \/ Attach(y), left' \in 0 .. MaxDisturbances
  PROVE  VoiceInv'
<1> USE DEF VoiceInv
<1>1. /\ UNCHANGED <<session, generation, text, utterance, commands, input, assets, stopping, source, calls, reserved>>
      /\ Publish(y) \/ audio' = audio
  BY DEF PublishSpeech, Attach, Publish, authority, speech
<1>2. job' = job \/ (job[y] = "publishing" /\ job' = [job EXCEPT ![y] = "done"])
  BY DEF PublishSpeech, Attach, speech
<1>3. /\ audio' \in [Syntheses -> Statuses]
      /\ \/ audio' = audio
         \/ /\ audio[y] \in {"QUEUED", "DELIVERING"} /\ audio'[y] \notin {"NONE", "QUEUED"}
            /\ \A z \in Syntheses : z # y => audio'[z] = audio[z]
  BY <1>1, PublishMoves DEF VoiceTypeOK
<1>4. job' \in [Syntheses -> {"unused", "recovering", "working", "queueing", "publishing", "done"}]
  <2>1. CASE job' = job
    BY <2>1 DEF VoiceTypeOK
  <2>2. CASE job' = [job EXCEPT ![y] = "done"]
    BY <2>2 DEF VoiceTypeOK
  <2> QED BY <1>2, <2>1, <2>2
<1>5. VoiceTypeOK'
  BY <1>1, <1>3, <1>4 DEF VoiceTypeOK, input
<1> QED BY <1>1, <1>2, <1>3, <1>5, SpokenKeeps

LEMMA SpeechEndsKeeps ==
  ASSUME VoiceInv, NEW y \in Syntheses, NEW status \in {"EXPOSED", "CANCELLED", "POSSIBLY_EXPOSED"},
         SpeechEnds(y, status), left' \in 0 .. MaxDisturbances
  PROVE  VoiceInv'
<1>1. VoiceTypeOK'
  BY DEF VoiceInv, VoiceTypeOK, Statuses, SpeechEnds, Ends, input, speech
<1>2. UNCHANGED <<session, generation, text, source, calls, commands, assets, stopping, job>>
  BY DEF SpeechEnds, Ends, speech
<1>3. /\ audio[y] = "DELIVERING" /\ audio'[y] \notin {"NONE", "QUEUED"}
      /\ \A z \in Syntheses : z # y => audio'[z] = audio[z]
  BY DEF SpeechEnds, Ends, VoiceInv, VoiceTypeOK
<1> QED BY <1>1, <1>2, <1>3, SpokenKeeps DEF VoiceInv

\* What happens to a stream does not touch what is read aloud.
LEMMA StreamKeeps ==
  ASSUME VoiceInv, NEW s \in Streams, left' \in 0 .. MaxDisturbances,
         \/ AskStream(s) \/ OpenStream(s) \/ SubmitFrame(s) \/ Flush(s)
         \/ CancelStream(s) \/ ExpireIdleStream(s) \/ WorkerAnswers(s)
         \/ DiscardUtterance(s) \/ FinalizeUtterance(s)
  PROVE  VoiceInv'
<1> USE DEF VoiceInv
<1>1. UNCHANGED <<session, generation, text, audio, job, source, calls, reserved, assets, stopping>>
  BY DEF AskStream, OpenStream, SubmitFrame, Flush, Submit, CancelStream, ExpireIdleStream, WorkerAnswers,
         DiscardUtterance, FinalizeUtterance, authority, speech
<1>2. commands \in Seq(Commands)
  BY DEF VoiceTypeOK, Commands
<1>3. CASE AskStream(s) \/ OpenStream(s) \/ SubmitFrame(s) \/ Flush(s)
  <2>1. UNCHANGED commands
    BY <1>3 DEF AskStream, OpenStream, SubmitFrame, Flush, Submit
  <2> QED BY <1>1, <1>3, <2>1, StreamTypes, QueueIsKept, AsideKeeps
<1>4. CASE CancelStream(s) \/ ExpireIdleStream(s)
  <2>1. NoneComes
    BY <1>4, RevokeTypes DEF CancelStream, ExpireIdleStream
  <2> QED BY <1>1, <1>4, <2>1, RevokingTypes, AsideKeeps
<1>5. CASE WorkerAnswers(s)
  BY <1>1, <1>5, WorkerTypes, AsideKeeps
<1>6. CASE DiscardUtterance(s)
  <2>1. commands # << >> /\ commands' = Tail(commands)
    BY <1>6 DEF DiscardUtterance, Next1
  <2>2. commands' \in Seq(Commands) /\ NoneComes
    BY <1>2, <2>1, QueueMoves
  <2>3. VoiceTypeOK'
    BY <1>1, <1>6, <2>2 DEF DiscardUtterance, Discarded, Returned, VoiceTypeOK, Commands
  <2> QED BY <1>1, <2>2, <2>3, AsideKeeps
<1>7. CASE FinalizeUtterance(s)
  <2>1. /\ commands # << >>
        /\ commands' = Tail(commands) \/ commands' = Append(Tail(commands), Command("commit", s))
    BY <1>7 DEF FinalizeUtterance, Next1
  <2>2. commands' \in Seq(Commands) /\ NoneComes
    BY <1>2, <2>1, QueueMoves, CommandIsOne
  <2>3. /\ utterance' \in [Streams -> {"NONE", "CAPTURING", "DISCARDED", "FINALIZED", "COMMITTED"}]
        /\ handling' \in [Streams -> {"nothing", "frame", "flush", "begin", "discard", "finalize", "commit"}]
    BY <1>7 DEF FinalizeUtterance, Returned, VoiceTypeOK
  <2>4. VoiceTypeOK'
    BY <1>1, <1>7, <2>2, <2>3 DEF FinalizeUtterance, VoiceTypeOK, Commands
  <2> QED BY <1>1, <2>2, <2>4, AsideKeeps
<1> QED BY <1>3, <1>4, <1>5, <1>6, <1>7

\* A turn of the student, spoken or typed, and the end of the session, withdraw what was to be read.
LEMMA CommitKeeps ==
  ASSUME VoiceInv, CommitInput \/ EndSession, left' \in 0 .. MaxDisturbances
  PROVE  VoiceInv'
<1> USE DEF VoiceInv
<1>1. /\ InvalidateOutput /\ session' \in {session, "ENDING"}
      /\ UNCHANGED <<utterance, commands, input, speech, assets, stopping>>
  BY DEF CommitInput, EndSession
<1>2. VoiceTypeOK'
  BY <1>1, InvalidateOutputTypes DEF VoiceTypeOK, input, speech
<1> QED BY <1>1, <1>2, InvalidatingKeeps, QueueIsKept DEF speech

LEMMA BeginKeeps ==
  ASSUME VoiceInv, NEW s \in Streams, BeginUtterance(s), UNCHANGED left
  PROVE  VoiceInv'
<1> USE DEF VoiceInv
<1>1. commands # << >> /\ UNCHANGED <<session, stream, listening, frames, stopping>>
  BY DEF BeginUtterance, Next1, authority
<1>2. commands \in Seq(Commands)
  BY DEF VoiceTypeOK, Commands
<1>3. commands' \in Seq(Commands) /\ NoneComes
  <2>1. commands' = Tail(commands) \/ commands' = Append(Tail(commands), Command("discard", s))
    BY DEF BeginUtterance
  <2> QED BY <1>1, <1>2, <2>1, QueueMoves, CommandIsOne
<1>4. handling' \in [Streams -> {"nothing", "frame", "flush", "begin", "discard", "finalize", "commit"}]
  BY DEF BeginUtterance, Returned, VoiceTypeOK
<1>5. CASE session # "ACTIVE"
  <2>1. UNCHANGED <<authority, speech, assets>>
    BY <1>5 DEF BeginUtterance
  <2>2. VoiceTypeOK'
    BY <1>1, <1>3, <1>4, <2>1 DEF VoiceTypeOK, Commands, authority, speech
  <2> QED BY <1>1, <1>3, <2>1, <2>2, AsideKeeps DEF authority, speech
<1>6. CASE session = "ACTIVE"
  <2>1. /\ InvalidateOutput /\ utterance' = [utterance EXCEPT ![s] = "CAPTURING"]
        /\ \/ UNCHANGED <<speech, assets>>
           \/ CancelSyntheses /\ assets' = Pruned
    BY <1>6 DEF BeginUtterance
  <2>2. /\ UNCHANGED <<source, calls, reserved>>
        /\ job' = job \/ job' = Cancelled
        /\ job' \in [Syntheses -> {"unused", "recovering", "working", "queueing", "publishing", "done"}]
        /\ assets' \subseteq Syntheses
    <3>1. CASE UNCHANGED <<speech, assets>>
      BY <3>1 DEF VoiceTypeOK, speech
    <3>2. CASE CancelSyntheses /\ assets' = Pruned
      <4>1. job' = Cancelled /\ assets' \subseteq assets
        BY <3>2 DEF CancelSyntheses, Pruned
      <4> QED BY <3>2, <4>1, CancelledTypes DEF VoiceTypeOK
    <3> QED BY <2>1, <3>1, <3>2
  <2>3. VoiceTypeOK'
    BY <1>1, <1>3, <1>4, <2>1, <2>2, InvalidateOutputTypes DEF VoiceTypeOK, Commands
  <2> QED BY <1>3, <2>1, <2>2, <2>3, InvalidatingKeeps
<1> QED BY <1>5, <1>6

LEMMA CommitEpisodeKeeps ==
  ASSUME VoiceInv, NEW s \in Streams, CommitInputEpisode(s), UNCHANGED left
  PROVE  VoiceInv'
<1> USE DEF VoiceInv
<1>1. /\ commands # << >> /\ commands' = Tail(commands)
      /\ UNCHANGED <<session, listening, frames, speech, assets, stopping>>
  BY DEF CommitInputEpisode, Next1
<1>2. commands' \in Seq(Commands) /\ NoneComes
  BY <1>1, QueueMoves DEF VoiceTypeOK, Commands
<1>3. /\ utterance' \in [Streams -> {"NONE", "CAPTURING", "DISCARDED", "FINALIZED", "COMMITTED"}]
      /\ stream' \in [Streams -> {"unopened", "opening", "active", "closed"}]
      /\ handling' \in [Streams -> {"nothing", "frame", "flush", "begin", "discard", "finalize", "commit"}]
  BY DEF CommitInputEpisode, Returned, VoiceTypeOK
<1>4. CASE InvalidateOutput
  <2>1. VoiceTypeOK'
    BY <1>1, <1>2, <1>3, <1>4, InvalidateOutputTypes DEF VoiceTypeOK, Commands, speech
  <2> QED BY <1>1, <1>2, <1>4, <2>1, InvalidatingKeeps DEF speech
<1>5. CASE UNCHANGED <<generation, text, audio>>
  <2>1. VoiceTypeOK'
    BY <1>1, <1>2, <1>3, <1>5 DEF VoiceTypeOK, Commands, speech
  <2> QED BY <1>1, <1>2, <1>5, <2>1, AsideKeeps DEF speech
<1> QED BY <1>4, <1>5 DEF CommitInputEpisode

\* The end of the session, the shutdown, and the browser's taking of the bytes.
LEMMA EndingKeeps ==
  ASSUME VoiceInv, left' \in 0 .. MaxDisturbances,
         \/ HandleSessionTerminal \/ ShutDown \/ ShutDownWorkers \/ FinishStop
         \/ \E y \in Syntheses : TakeAsset(y)
  PROVE  VoiceInv'
<1> USE DEF VoiceInv
<1>1. CASE HandleSessionTerminal
  <2>1. /\ session' = "ENDED" /\ Revoke(Bound) /\ CancelSyntheses /\ assets' = Pruned
        /\ UNCHANGED <<generation, text, audio, utterance, stopping>>
    BY <1>1 DEF HandleSessionTerminal
  <2>2. Bound \in SUBSET Streams
    BY DEF Bound
  <2>3. VoiceTypeOK'
    <3>1. assets' \subseteq Syntheses
      BY <2>1 DEF Pruned, VoiceTypeOK
    <3> QED BY <2>1, <2>2, <3>1, RevokeTypes, CancelledTypes DEF VoiceTypeOK, Commands
  <2>4. \A y \in assets : y \notin assets' => audio[y] # "QUEUED"
    BY <2>1 DEF Pruned
  <2>5. job' = Cancelled /\ UNCHANGED <<source, calls>>
    BY <2>1 DEF CancelSyntheses
  <2>6. NoneComes
    BY <2>1, <2>2, RevokeTypes
  <2> QED BY <2>1, <2>3, <2>4, <2>5, <2>6, AsideKeeps
<1>2. CASE ShutDown
  <2>1. stopping' = "input" /\ stopping = "no" /\ Revoke(Bound) /\ UNCHANGED <<authority, speech, assets>>
    BY <1>2 DEF ShutDown
  <2>2. Bound \in SUBSET Streams
    BY DEF Bound
  <2>3. VoiceTypeOK' /\ NoneComes
    BY <2>1, <2>2, RevokeTypes DEF VoiceTypeOK, Commands, authority, speech
  <2> QED BY <2>1, <2>3, AsideKeeps DEF authority, speech
<1>3. CASE ShutDownWorkers
  <2>1. /\ stopping = "input" /\ stopping' = "draining" /\ CancelSyntheses
        /\ UNCHANGED <<authority, commands, input, assets>>
    BY <1>3 DEF ShutDownWorkers
  <2>2. VoiceTypeOK'
    BY <2>1, CancelledTypes DEF VoiceTypeOK, authority, input
  <2> QED BY <2>1, <2>2, AsideKeeps, QueueIsKept DEF authority, CancelSyntheses
<1>4. CASE FinishStop
  <2>1. stopping' = "stopped" /\ assets' = {} /\ UNCHANGED <<authority, commands, input, speech>>
    BY <1>4 DEF FinishStop
  <2>2. VoiceTypeOK'
    BY <2>1 DEF VoiceTypeOK, authority, input, speech
  <2> QED BY <2>1, <2>2, AsideKeeps, QueueIsKept DEF authority, speech
<1>5. ASSUME NEW y \in Syntheses, TakeAsset(y) PROVE VoiceInv'
  <2>1. /\ audio[y] = "DELIVERING" /\ assets' = assets \ {y}
        /\ UNCHANGED <<authority, commands, input, speech, stopping>>
    BY <1>5 DEF TakeAsset
  <2>2. VoiceTypeOK'
    BY <2>1 DEF VoiceTypeOK, authority, input, speech
  <2>3. job[y] # "queueing"
    BY <2>1 DEF SpeechInv, NothingYet
  <2> QED BY <2>1, <2>2, <2>3, AsideKeeps, QueueIsKept DEF authority, speech
<1> QED BY <1>1, <1>2, <1>3, <1>4, <1>5

LEMMA VoiceStep == VoiceInv /\ [VoiceNext]_voiceVars => VoiceInv'
<1> SUFFICES ASSUME VoiceInv, [VoiceNext]_voiceVars PROVE VoiceInv'
  OBVIOUS
<1>1. CASE Continue
  <2>1. UNCHANGED left /\ left' \in 0 .. MaxDisturbances
    BY <1>1 DEF Continue, VoiceInv, VoiceTypeOK
  <2> QED BY <1>1, <2>1, BeginKeeps, StreamKeeps, CommitEpisodeKeeps, QueueAudioKeeps, SynthesizeKeeps,
             PublishingKeeps, EndingKeeps
          DEF Continue, ExecuteNext
<1>2. CASE Proceed
  <2>1. UNCHANGED left /\ left' \in 0 .. MaxDisturbances
    BY <1>2 DEF Proceed, VoiceInv, VoiceTypeOK
  <2> QED BY <1>2, <2>1, StreamKeeps, AnswerKeeps, DeliverySentKeeps, TextEndsKeeps, ModelSettlesKeeps,
             EndingKeeps, SpeechEndsKeeps
          DEF Proceed
<1>3. CASE Disturb
  <2>1. left' \in 0 .. MaxDisturbances
    BY <1>3, VoiceAssumption DEF Disturb, VoiceInv, VoiceTypeOK
  <2> QED BY <1>3, <2>1, StreamKeeps, TextEndsKeeps, SpeechEndsKeeps, PublishingKeeps, CommitKeeps, EndingKeeps
          DEF Disturb
<1>4. CASE UNCHANGED voiceVars
  <2>1. VoiceTypeOK'
    BY <1>4 DEF VoiceInv, VoiceTypeOK, voiceVars, authority, input, speech
  <2>2. UNCHANGED <<session, generation, text, audio, commands, job, source, calls, assets, stopping>>
    BY <1>4 DEF voiceVars, authority, input, speech
  <2> QED BY <2>1, <2>2, AsideKeeps, QueueIsKept DEF VoiceInv
<1> QED BY <1>1, <1>2, <1>3, <1>4 DEF VoiceNext

LEMMA VoiceInductive == VoiceSpec => []VoiceInv
<1>1. VoiceInit => VoiceInv
  BY VoiceInitTypes, SpeechInvInitially DEF VoiceInv
<1> QED BY <1>1, VoiceStep, PTL DEF VoiceSpec

\* Every variable of the voice runtime holds a value of its kind (voice-runtime.ts:560-581).
THEOREM VoiceTypes == VoiceSpec => []VoiceTypeOK
<1>1. VoiceInv => VoiceTypeOK
  BY DEF VoiceInv
<1> QED BY <1>1, VoiceInductive, PTL

\* Speech is made once for a text, has its bytes while it waits, and is on its way only while the
\* answer it reads is in force and has begun to be delivered: for any streams, texts and calls, and
\* whatever is sent again, withdrawn, taken, pruned or shut down in between (synthesizeSentTextDelivery,
\* queueAudioDeliveryFromValidatedText, pruneUnauthorizedSessionAssets).
THEOREM VoiceSpeechIsBacked == VoiceSpec => []SpeechIsBacked
<1>1. VoiceInv => SpeechIsBacked
  <2> SUFFICES ASSUME VoiceInv PROVE SpeechIsBacked
    OBVIOUS
  <2>1. ASSUME NEW t \in Texts PROVE Cardinality(SpeechOf(t)) <= 1
    <3>1. CASE SpeechOf(t) = {}
      BY <3>1, FS_EmptySet
    <3>2. ASSUME NEW y \in SpeechOf(t) PROVE Cardinality(SpeechOf(t)) <= 1
      <4>1. SpeechOf(t) = {y}
        BY DEF VoiceInv, SpeechInv, OneSpeech
      <4> QED BY <4>1, FS_Singleton
    <3> QED BY <3>1, <3>2
  <2>2. \A y \in Syntheses : audio[y] \in {"QUEUED", "DELIVERING"} => text[source[y]] \notin {"NONE", "QUEUED"}
    BY DEF VoiceInv, SpeechInv, NothingYet, ReadsASentText
  <2> QED BY <2>1, <2>2 DEF VoiceInv, SpeechInv, SpeechIsCurrent, SpeechIsBacked
<1> QED BY <1>1, VoiceInductive, PTL
=============================================================================
