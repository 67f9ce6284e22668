------------------------- MODULE ReasoningAnalysis -------------------------
(***************************************************************************)
(* The analysis of what a student said, from the committed turn to the     *)
(* evidence a deterministic verifier supports                              *)
(* (apps/server/src/student-reasoning-analysis-coordinator.ts,             *)
(* packages/interview-engine/src/interpretation-coordinator.ts and         *)
(* verification-coordinator.ts with their reducer).                        *)
(*                                                                         *)
(* A turn is interpreted by a fallible provider, the one candidate it      *)
(* leaves is made a durable verification request, a verifier is run on it  *)
(* twice, and the result is admitted against the state of that moment.     *)
(* Between any two of these the next turn is committed, the transcript     *)
(* corrected, the time limit of the caller reached, or the server stopped. *)
(*                                                                         *)
(* An analysis is named by its turn and context epoch, which is what the   *)
(* digest analysisRequestId tells apart here: a retry has the same name,   *)
(* an analysis after a correction another.  One session is modelled, of a  *)
(* supported problem, whose analyses are all about the same claim.         *)
(* Abstracted: the text and the candidates, which are admitted or not, and *)
(* of an admitted one only whether the verifier confirms it; proposals of  *)
(* a generation, which no caller in src/ makes; the cap on cached records. *)
(***************************************************************************)
EXTENDS Naturals, Sequences, FiniteSets

CONSTANTS
  Calls,        \* the calls of analyze that one run of the server makes
  MaxInFlight,  \* MAX_STUDENT_REASONING_ANALYSIS_IN_FLIGHT
  MaxTurns,     \* bound: committed turns
  MaxEpoch,     \* bound: context epochs, one more than the corrections
  MaxStops      \* bound: stops of the server, refused shutdowns included

ASSUME BoundsAssumption ==
  /\ MaxInFlight \in Nat \ {0} /\ MaxTurns \in Nat \ {0}
  /\ MaxEpoch \in Nat \ {0} /\ MaxStops \in Nat

VARIABLES
  turn,      \* durable: the latest committed turn
  epoch,     \* durable: state.contextEpoch
  open,      \* durable: state.status is ACTIVE
  verif,     \* durable: state.verificationRequests
  confirms,  \* whether the verifier confirms the candidate of an analysis
  history,   \* durable: state.evidenceHistory of the claim
  call,      \* what each caller waits for or was told
  run,       \* where the execution of a record of the coordinator is
  cancelled, \* the records with cancelled set that have not settled
  sound,     \* whether supplied and recomputed agree so far
  running,   \* provider invocations that have not settled
  orphans,   \* discards abandon has sent and nobody awaits
  closing,   \* shuttingDown
  stops

durable == <<turn, epoch, open, verif, confirms, history>>
volatile == <<call, run, cancelled, sound, running, orphans, closing>>
vars == <<durable, volatile, stops>>

Analyses == (1..MaxTurns) \X (1..MaxEpoch)
Nobody == <<0, 0>>

\* The stages that know record.verificationRequestId.
Named == {"VERIFY", "RECOMPUTE", "COMMIT", "DISCARD"}
Stages == {"NONE", "PROVIDER", "REQUEST", "OPENED", "SETTLED"} \cup Named

TypeOK ==
  /\ turn \in 1..MaxTurns
  /\ epoch \in 1..MaxEpoch
  /\ open \in BOOLEAN
  /\ verif \in [Analyses -> {"NONE", "PENDING", "ACCEPTED", "DISCARDED"}]
  /\ confirms \in [Analyses -> BOOLEAN]
  /\ history \in Seq([of : Analyses, status : {"ACTIVE", "SUPERSEDED", "INVALIDATED"}])
  /\ call \in [Calls -> [of : Analyses \cup {Nobody},
                         told : {"NOTHING", "WAITING", "ANALYZED", "TIME_LIMIT", "SKIPPED"}]]
  /\ run \in [Analyses -> Stages]
  /\ cancelled \in SUBSET Analyses
  /\ sound \in [Analyses -> BOOLEAN]
  /\ running \in SUBSET Analyses
  /\ orphans \in SUBSET Analyses
  /\ closing \in BOOLEAN
  /\ stops \in Nat

(***************************************************************************)
(* What is current.                                                        *)
(***************************************************************************)

\* A bug: the session is looked at, the basis of the request is not.
AlwaysCurrent(a) == open

\* checkCurrentRequest and isVerificationBasisStillCompatible for a request
\* that does not depend on the board.
Current(a) == open /\ a = <<turn, epoch>>

\* A bug: the verifier's result is admitted whoever has given up on it.
NeverCancelled(a) == FALSE

\* cancellationRequested, asked inside the transaction.
IsCancelled(a) == a \in cancelled

\* context.active: the executions that have not settled.
Active == {a \in Analyses : run[a] \notin {"NONE", "SETTLED"}}

Init ==
  /\ turn = 1 /\ epoch = 1 /\ open = TRUE
  /\ verif = [a \in Analyses |-> "NONE"]
  /\ confirms = [a \in Analyses |-> FALSE]
  /\ history = <<>>
  /\ call = [k \in Calls |-> [of |-> Nobody, told |-> "NOTHING"]]
  /\ run = [a \in Analyses |-> "NONE"]
  /\ cancelled = {} /\ running = {} /\ orphans = {}
  /\ sound = [a \in Analyses |-> FALSE]
  /\ closing = FALSE /\ stops = 0

(***************************************************************************)
(* The session around the analysis (external to it, same writer).          *)
(***************************************************************************)

CommitTurn ==
  /\ open /\ turn < MaxTurns
  /\ turn' = turn + 1
  /\ UNCHANGED <<epoch, open, verif, confirms, history, volatile, stops>>

\* correctTranscript: a new epoch, and every evidence in force is withdrawn.
CorrectTranscript ==
  /\ open /\ epoch < MaxEpoch
  /\ epoch' = epoch + 1
  /\ history' = [i \in DOMAIN history |->
       IF history[i].status = "ACTIVE" THEN [history[i] EXCEPT !.status = "INVALIDATED"]
       ELSE history[i]]
  /\ UNCHANGED <<turn, open, verif, confirms, volatile, stops>>

CompleteSession ==
  /\ open
  /\ open' = FALSE
  /\ UNCHANGED <<turn, epoch, verif, confirms, history, volatile, stops>>

(***************************************************************************)
(* analyze.                                                                *)
(***************************************************************************)

Tell(k, a, what) == call' = [call EXCEPT ![k] = [of |-> a, told |-> what]]

\* Shutting down, a turn that is not the latest, a session that is not active.
Skip(k) ==
  /\ call[k].told = "NOTHING"
  /\ closing \/ ~open \/ turn > 1
  /\ Tell(k, Nobody, "SKIPPED")
  /\ UNCHANGED <<durable, run, cancelled, sound, running, orphans, closing, stops>>

\* RESOURCE_LIMIT: as many analyses are active as the session may have.
Full(k) ==
  /\ call[k].told = "NOTHING"
  /\ ~closing /\ open
  /\ Cardinality(Active) >= MaxInFlight
  /\ Tell(k, Nobody, "SKIPPED")
  /\ UNCHANGED <<durable, run, cancelled, sound, running, orphans, closing, stops>>

Admissible(k) ==
  /\ call[k].told = "NOTHING"
  /\ ~closing /\ open
  /\ Cardinality(Active) < MaxInFlight
  /\ Tell(k, <<turn, epoch>>, "WAITING")

\* interpretAndVerify: a known request has its promise returned, settled or not.
Join(k) ==
  /\ Admissible(k)
  /\ run[<<turn, epoch>>] # "NONE"
  /\ UNCHANGED <<durable, run, cancelled, sound, running, orphans, closing, stops>>

\* resumePersistedDirectVerification: a request of an earlier run of the
\* server is answered as it was decided, or its verifier is run again.
Resume(k) ==
  /\ Admissible(k)
  /\ run[<<turn, epoch>>] = "NONE"
  /\ verif[<<turn, epoch>>] # "NONE"
  /\ run' = [run EXCEPT ![<<turn, epoch>>] =
       IF verif[<<turn, epoch>>] = "PENDING" THEN "VERIFY" ELSE "SETTLED"]
  /\ UNCHANGED <<durable, cancelled, sound, running, orphans, closing, stops>>

\* The provider is asked, unless the text is irrelevant to the problem or
\* abandoned invocations still take up the provider.
Interpret(k) ==
  /\ Admissible(k)
  /\ run[<<turn, epoch>>] = "NONE"
  /\ verif[<<turn, epoch>>] = "NONE"
  /\ \/ /\ run' = [run EXCEPT ![<<turn, epoch>>] = "SETTLED"]
        /\ UNCHANGED running
     \/ /\ Cardinality(running) < MaxInFlight
        /\ run' = [run EXCEPT ![<<turn, epoch>>] = "PROVIDER"]
        /\ running' = running \cup {<<turn, epoch>>}
  /\ UNCHANGED <<durable, cancelled, sound, orphans, closing, stops>>

\* The execution a caller awaits has settled.
Return(k) ==
  /\ call[k].told = "WAITING"
  /\ run[call[k].of] = "SETTLED"
  /\ Tell(k, call[k].of, "ANALYZED")
  /\ UNCHANGED <<durable, run, cancelled, sound, running, orphans, closing, stops>>

(***************************************************************************)
(* abandon.                                                                *)
(***************************************************************************)

\* Records that have settled are left alone; one whose verification request is
\* known has it discarded by a command nobody awaits.
Abandon(S) ==
  /\ cancelled' = cancelled \cup (S \cap Active)
  /\ orphans' = orphans \cup {a \in S : run[a] \in Named}

\* The timer of analyze.
TimeLimit(k) ==
  /\ call[k].told = "WAITING"
  /\ run[call[k].of] # "SETTLED"
  /\ Abandon({call[k].of})
  /\ Tell(k, call[k].of, "TIME_LIMIT")
  /\ UNCHANGED <<durable, run, sound, running, closing, stops>>

\* supersedeStaleRequests, after a command that may have made work obsolete.
SupersedeStale ==
  /\ \E a \in Active \ cancelled : ~open \/ a[1] # turn
  /\ Abandon({a \in Active : ~open \/ a[1] # turn})
  /\ UNCHANGED <<durable, call, run, sound, running, closing, stops>>

Shutdown ==
  /\ ~closing /\ stops < MaxStops
  /\ closing' = TRUE /\ stops' = stops + 1
  /\ Abandon(Active)
  /\ UNCHANGED <<durable, call, run, sound, running>>

\* resume, after a shutdown that could not be completed.
ResumeAdmission ==
  /\ closing
  /\ closing' = FALSE
  /\ UNCHANGED <<durable, call, run, cancelled, sound, running, orphans, stops>>

DiscardOrphan(a) ==
  /\ a \in orphans
  /\ orphans' = orphans \ {a}
  /\ verif' = [verif EXCEPT ![a] = IF @ = "PENDING" THEN "DISCARDED" ELSE @]
  /\ UNCHANGED <<turn, epoch, open, confirms, history, call, run, cancelled, sound,
                 running, closing, stops>>

(***************************************************************************)
(* The execution of one record: run of the interpretation coordinator.     *)
(***************************************************************************)

Goto(a, stage) == run' = [run EXCEPT ![a] = stage] /\ UNCHANGED <<cancelled, sound>>

\* The execution is over; nothing asks for its flags again.
Settle(a) ==
  /\ run' = [run EXCEPT ![a] = "SETTLED"]
  /\ cancelled' = cancelled \ {a}
  /\ sound' = [sound EXCEPT ![a] = FALSE]

\* The provider settles, whether anyone still waits for it or not; with a
\* result that leaves exactly one admissible candidate, or with none.
ProviderSettles(a) ==
  /\ a \in running
  /\ running' = running \ {a}
  /\ \/ /\ run[a] # "PROVIDER"
        /\ UNCHANGED <<run, cancelled, sound, confirms>>
     \/ /\ run[a] = "PROVIDER"
        /\ Settle(a)
        /\ UNCHANGED confirms
     \/ /\ run[a] = "PROVIDER" /\ a \notin cancelled /\ Current(a)
        /\ Goto(a, "REQUEST")
        /\ \E c \in BOOLEAN : confirms' = [confirms EXCEPT ![a] = c]
  /\ UNCHANGED <<turn, epoch, open, verif, history, call, orphans, closing, stops>>

\* The cancel signal wins the race against the provider.
CancelWins(a) ==
  /\ run[a] = "PROVIDER" /\ a \in cancelled
  /\ Settle(a)
  /\ UNCHANGED <<durable, call, running, orphans, closing, stops>>

\* requestVerification: refused when the basis changed before its turn came.
RequestVerification(a) ==
  /\ run[a] = "REQUEST"
  /\ IF Current(a)
     THEN /\ verif' = [verif EXCEPT ![a] = "PENDING"]
          /\ Goto(a, "OPENED")
          /\ UNCHANGED confirms
     ELSE /\ Settle(a)
          /\ confirms' = [confirms EXCEPT ![a] = FALSE]
          /\ UNCHANGED verif
  /\ UNCHANGED <<turn, epoch, open, history, call, running, orphans, closing, stops>>

\* The execution learns that its request is durable.
Opened(a) ==
  /\ run[a] = "OPENED"
  /\ Goto(a, IF a \in cancelled THEN "DISCARD" ELSE "VERIFY")
  /\ UNCHANGED <<durable, call, running, orphans, closing, stops>>

\* A bug: the request of a stale analysis is left as it is.
LeftAsItIs(a) == Settle(a)

\* An execution whose result must not be admitted goes on to discard its request.
Withdraw(a) == Goto(a, "DISCARD")

\* executeVerifier returns, with the verifier's result or with its failure.
Verified(a) ==
  /\ run[a] = "VERIFY"
  /\ IF a \in cancelled \/ ~Current(a)
     THEN Withdraw(a)
     ELSE /\ run' = [run EXCEPT ![a] = "RECOMPUTE"]
          /\ \E ok \in BOOLEAN : sound' = [sound EXCEPT ![a] = ok]
          /\ UNCHANGED cancelled
  /\ UNCHANGED <<durable, call, running, orphans, closing, stops>>

\* processResult, before its command: the verifier is run once more.
Recomputed(a) ==
  /\ run[a] = "RECOMPUTE"
  /\ run' = [run EXCEPT ![a] = "COMMIT"]
  /\ \E ok \in BOOLEAN : sound' = [sound EXCEPT ![a] = @ /\ ok]
  /\ UNCHANGED <<durable, call, cancelled, running, orphans, closing, stops>>

\* STUDENT_EVIDENCE_UPDATED supersedes the record in force.
Superseded == [i \in DOMAIN history |->
  IF history[i].status = "ACTIVE" THEN [history[i] EXCEPT !.status = "SUPERSEDED"]
  ELSE history[i]]

\* The transaction of processResult.
Admits(a) == verif[a] = "PENDING" /\ ~IsCancelled(a) /\ Current(a) /\ sound[a]
Commit(a) ==
  /\ run[a] = "COMMIT"
  /\ Settle(a)
  /\ \/ /\ Admits(a)
        /\ verif' = [verif EXCEPT ![a] = "ACCEPTED"]
        /\ history' = IF confirms[a]
                      THEN Append(Superseded, [of |-> a, status |-> "ACTIVE"])
                      ELSE history
     \/ /\ ~Admits(a)
        /\ verif' = [verif EXCEPT ![a] = IF @ = "PENDING" THEN "DISCARDED" ELSE @]
        /\ UNCHANGED history
  /\ UNCHANGED <<turn, epoch, open, confirms, call, running, orphans, closing, stops>>

\* discardPendingVerification, awaited by the execution.
Discard(a) ==
  /\ run[a] = "DISCARD"
  /\ Settle(a)
  /\ verif' = [verif EXCEPT ![a] = IF @ = "PENDING" THEN "DISCARDED" ELSE @]
  /\ UNCHANGED <<turn, epoch, open, confirms, history, call, running, orphans, closing,
                 stops>>

(***************************************************************************)
(* The server stops: what is durable stays.                                *)
(***************************************************************************)

Stop ==
  /\ stops < MaxStops
  /\ stops' = stops + 1
  /\ call' = [k \in Calls |-> [of |-> Nobody, told |-> "NOTHING"]]
  /\ run' = [a \in Analyses |-> "NONE"]
  /\ cancelled' = {} /\ running' = {} /\ orphans' = {}
  /\ sound' = [a \in Analyses |-> FALSE]
  /\ closing' = FALSE
  /\ confirms' = [a \in Analyses |-> verif[a] # "NONE" /\ confirms[a]]
  /\ UNCHANGED <<turn, epoch, open, verif, history>>

Next ==
  \/ CommitTurn \/ CorrectTranscript \/ CompleteSession
  \/ SupersedeStale \/ Shutdown \/ ResumeAdmission \/ Stop
  \/ \E k \in Calls :
       Skip(k) \/ Full(k) \/ Join(k) \/ Resume(k) \/ Interpret(k) \/ Return(k) \/ TimeLimit(k)
  \/ \E a \in Analyses :
       \/ DiscardOrphan(a) \/ ProviderSettles(a) \/ CancelWins(a) \/ RequestVerification(a)
       \/ Opened(a) \/ Verified(a) \/ Recomputed(a) \/ Commit(a) \/ Discard(a)

Spec == Init /\ [][Next]_vars

\* A bug: analyze waits for the execution alone.
NeverFires(k) == FALSE /\ TimeLimit(k)
\* The timer of a call fires.
Fires(k) == TimeLimit(k)

\* Promises that settle have their continuations run, commands reach the head
\* of the writer's queue, timers fire, and a verifier, which runs in the
\* process on a bounded statement, returns.  The provider need not.
FairSpec ==
  /\ Spec
  /\ \A k \in Calls : WF_vars(Return(k)) /\ WF_vars(Fires(k))
  /\ \A a \in Analyses :
       /\ WF_vars(CancelWins(a)) /\ WF_vars(RequestVerification(a)) /\ WF_vars(Opened(a))
       /\ WF_vars(Verified(a)) /\ WF_vars(Recomputed(a)) /\ WF_vars(Commit(a))
       /\ WF_vars(Discard(a)) /\ WF_vars(DiscardOrphan(a))

(***************************************************************************)
(* Properties.                                                             *)
(***************************************************************************)

\* Evidence in force rests on the transcript as it is now: whatever is
\* corrected while an analysis is interpreted, requested, verified or
\* committed, and across stops, no record drawn from the earlier text is in
\* force (processResult against correctTranscript).
EvidenceOutlivesNoCorrection ==
  \A i \in DOMAIN history : history[i].status = "ACTIVE" => history[i].of[2] = epoch

\* A caller told that the time is up has been told the truth: what the verifier
\* finds afterwards is not admitted, though abandon awaits neither the provider
\* nor the discard it sends.
TimeLimitIsFinal ==
  [][\A k \in Calls :
       call[k].told = "TIME_LIMIT" /\ call'[k] = call[k]
         => (verif'[call[k].of] = "ACCEPTED" => verif[call[k].of] = "ACCEPTED")]_vars

\* An analysis that has settled leaves no verification request undecided, so
\* that nothing waits for a result nobody will bring (FORMAL_INTERPRETATION_
\* ROUTING.md: a serialized request is driven to an admitted or discarded result).
SettledIsDecided ==
  \A a \in Analyses : run[a] = "SETTLED" => verif[a] # "PENDING"

\* The turn a caller wants analysed goes on, with a provider that never answers
\* too: it waits for analyze before it asks for an interviewer's answer.
EveryCallEnds == \A k \in Calls : call[k].told = "WAITING" ~> call[k].told # "WAITING"
=============================================================================
