-------------------------- MODULE TurnOrchestration --------------------------
(***************************************************************************)
(* How a committed turn of one session gets its answer: the server's turn  *)
(* orchestrator (apps/server/src/turn-orchestrator.ts), the execution of a *)
(* provider (packages/interview-engine/src/provider-coordinator.ts), the   *)
(* recovery that every command waits for, and the shutdown of the server.  *)
(* A step ends where the code awaits.  The student's reasoning analysis,   *)
(* the provider and the renderer are the outside world: the first is       *)
(* bounded by a timer, the provider may never answer.                      *)
(***************************************************************************)
EXTENDS Naturals, FiniteSets

CONSTANTS MaxTurns,        \* turns the student commits
          MaxGenerations,
          MaxChanges,      \* board, evidence or transcript changes
          MaxResends,      \* commits the client sends again
          MaxCrashes, MaxStops,
          MaxDisturbances  \* all four of them together

ASSUME OrchestrationAssumption ==
    /\ MaxTurns \in Nat /\ MaxGenerations \in Nat
    /\ MaxChanges \in Nat /\ MaxResends \in Nat /\ MaxCrashes \in Nat /\ MaxStops \in Nat
    /\ MaxDisturbances \in Nat

Turns == 1 .. MaxTurns
Generations == 1 .. MaxGenerations

VARIABLES
    \* the session, in the event store
    latest,      \* the turn committed last, 0 before the first
    active,      \* the session is ACTIVE
    epoch,       \* contextEpoch
    generation,  \* status of each generation
    turnOf,      \* the turn it answers
    output,      \* what became of its delivery
    \* the process
    phase,
    recovery,    \* recoveries: the recovery that commands wait for
    requests,    \* commands at the server: 0 a new commit, t a resent commit of t
    work,        \* inFlight: where the orchestration of each turn is
    requested,   \* its cancellationRequested
    epochAt,     \* the contextEpoch it began in
    genOf,       \* the generation it executes, 0 for none
    cancelled,   \* cancellationRequests of the executions
    cancels,     \* cancelGeneration calls that nobody awaits
    ended,       \* how the last orchestration of each turn ended
    left         \* what the bounds still allow

sessionVars == <<latest, active, epoch, generation, turnOf, output>>
workVars == <<work, requested, epochAt, genOf, cancelled, cancels, ended>>
vars == <<sessionVars, phase, recovery, requests, workVars, left>>

LiveStatus == {"ACTIVE", "VALIDATED"}
\* Steps at which the provider coordinator runs the execution.
Executing == {"COMPILING", "OPENING", "STREAMING", "ADMITTING", "ADMITTED", "REFUSED",
              "UNCOMPILED", "UNOPENED", "BROKEN", "UNADMITTED", "CANCELLING"}
\* Steps at which the orchestrator has registered the execution.
Registered == Executing \cup {"PUBLISHING"}
Steps == {"IDLE", "ANALYZING", "SELECTING", "RESOLVING", "STARTING", "STARTED"} \cup Registered

TypeOK ==
    /\ latest \in 0 .. MaxTurns /\ active \in BOOLEAN /\ epoch \in 0 .. MaxChanges
    /\ generation \in [Generations -> {"UNUSED", "ACTIVE", "VALIDATED", "REJECTED", "SUPERSEDED"}]
    /\ turnOf \in [Generations -> 0 .. MaxTurns]
    /\ output \in [Generations -> {"NONE", "QUEUED", "SHOWN", "CANCELLED"}]
    /\ phase \in {"UP", "CLOSING", "STOPPING", "STOPPED", "DOWN"}
    /\ recovery \in {"NONE", "CLEANING", "TURN", "DONE"}
    /\ requests \in SUBSET (0 .. MaxTurns)
    /\ work \in [Turns -> Steps]
    /\ requested \in [Turns -> BOOLEAN]
    /\ epochAt \in [Turns -> 0 .. MaxChanges]
    /\ genOf \in [Turns -> 0 .. MaxGenerations]
    /\ cancelled \in SUBSET Generations /\ cancels \in SUBSET Generations
    /\ ended \in [Turns -> {"NEVER", "WAIT", "STALE", "CANCELLED", "FAILED", "RETRYABLE",
                            "REJECTED", "ANSWERED"}]
    /\ left \in [changes : 0 .. MaxChanges, resends : 0 .. MaxResends,
                 crashes : 0 .. MaxCrashes, stops : 0 .. MaxStops, all : 0 .. MaxDisturbances]

Init ==
    /\ latest = 0 /\ active = TRUE /\ epoch = 0
    /\ generation = [g \in Generations |-> "UNUSED"]
    /\ turnOf = [g \in Generations |-> 0]
    /\ output = [g \in Generations |-> "NONE"]
    /\ phase = "UP" /\ recovery = "NONE" /\ requests = {}
    /\ work = [t \in Turns |-> "IDLE"]
    /\ requested = [t \in Turns |-> FALSE]
    /\ epochAt = [t \in Turns |-> 0]
    /\ genOf = [t \in Turns |-> 0]
    /\ cancelled = {} /\ cancels = {}
    /\ ended = [t \in Turns |-> "NEVER"]
    /\ left = [changes |-> MaxChanges, resends |-> MaxResends,
               crashes |-> MaxCrashes, stops |-> MaxStops, all |-> MaxDisturbances]

-----------------------------------------------------------------------------
(* What the commands of the session make of its generations. *)

Live == {g \in Generations : generation[g] \in LiveStatus}
\* Supersedes G and cancels what of it is still queued.
Withdraw(G) ==
    /\ generation' = [g \in Generations |-> IF g \in G \cap Live THEN "SUPERSEDED" ELSE generation[g]]
    /\ output' = [g \in Generations |-> IF g \in G /\ output[g] = "QUEUED" THEN "CANCELLED" ELSE output[g]]

\* Work is accepted until cancellation is requested for the shutdown.
AcceptingWork == phase \in {"UP", "CLOSING"}
Serving == phase \in {"UP", "CLOSING", "STOPPING"}
InFlight == {t \in Turns : work[t] # "IDLE"}

\* cancelGeneration, called and not awaited, for the executions of T: the
\* signal is given at once, the rest waits for the session's writer.
CancelGeneration(T) ==
    /\ cancelled' = cancelled \cup {genOf[t] : t \in {u \in T : work[u] \in Executing}}
    /\ cancels' = cancels \cup {genOf[t] : t \in T}

\* The registered executions of generations that are superseded.
Superseded(status) == {t \in Turns : work[t] \in Registered /\ status[genOf[t]] \notin LiveStatus}

-----------------------------------------------------------------------------
(* The orchestration of a turn. *)

End(t, how) ==
    /\ work' = [work EXCEPT ![t] = "IDLE"]
    /\ genOf' = [genOf EXCEPT ![t] = 0]
    /\ cancelled' = cancelled \ {genOf[t]}
    /\ ended' = [ended EXCEPT ![t] = how]
    /\ UNCHANGED <<requested, epochAt, cancels>>

Goto(t, step) ==
    /\ work' = [work EXCEPT ![t] = step]
    /\ UNCHANGED <<requested, epochAt, genOf, cancelled, cancels, ended>>

frame == <<phase, recovery, requests, left>>
sessionFrame == <<latest, active, epoch, turnOf>>

\* orchestrateTurn(t), in a session whose latest turn is l and whose
\* generations have the given statuses.  Whatever else is in flight is
\* cancelled first; then t proceeds if it is the latest turn and unanswered.
Orchestrate(t, l, status) ==
    IF ~AcceptingWork \/ work[t] # "IDLE"
    THEN UNCHANGED workVars
    ELSE /\ requested' = [u \in Turns |-> IF u = t THEN FALSE ELSE requested[u] \/ work[u] # "IDLE"]
         /\ CancelGeneration(Superseded(status))
         /\ work' = [work EXCEPT ![t] =
                       IF t = l /\ (\A g \in Generations : turnOf[g] = t => status[g] # "VALIDATED")
                       THEN "ANALYZING" ELSE "IDLE"]
         /\ epochAt' = [epochAt EXCEPT ![t] = epoch]
         /\ UNCHANGED <<genOf, ended>>

\* The analysis has ended, or its timer has.
Analyzed(t) ==
    /\ work[t] = "ANALYZING"
    /\ IF requested[t] THEN End(t, "CANCELLED")
       ELSE IF ~active \/ epoch # epochAt[t] \/ t # latest THEN End(t, "STALE")
       ELSE Goto(t, "SELECTING")
    /\ UNCHANGED <<sessionVars, frame>>

\* selectAction: it throws when the turn is not the latest any more.
SelectAction(t) ==
    /\ work[t] = "SELECTING"
    /\ IF ~active \/ t # latest THEN End(t, "STALE")
       ELSE End(t, "WAIT") \/ Goto(t, "RESOLVING")
    /\ UNCHANGED <<sessionVars, frame>>

\* The provider runtime is resolved, or cannot be.
Resolved(t) ==
    /\ work[t] = "RESOLVING" /\ ~requested[t]
    /\ End(t, "RETRYABLE") \/ Goto(t, "STARTING")
    /\ UNCHANGED <<sessionVars, frame>>

CancelResolution(t) ==
    /\ work[t] = "RESOLVING" /\ requested[t]
    /\ End(t, "CANCELLED")
    /\ UNCHANGED <<sessionVars, frame>>

\* startGeneration, in the session's writer.
StartGeneration(t) ==
    /\ work[t] = "STARTING"
    /\ IF active /\ t = latest /\ \A g \in Live : turnOf[g] # t
       THEN \E g \in Generations :
              /\ generation[g] = "UNUSED" /\ \A h \in 1 .. (g - 1) : generation[h] # "UNUSED"
              /\ generation' = [generation EXCEPT ![g] = "ACTIVE"]
              /\ turnOf' = [turnOf EXCEPT ![g] = t]
              /\ genOf' = [genOf EXCEPT ![t] = g]
              /\ work' = [work EXCEPT ![t] = "STARTED"]
              /\ UNCHANGED <<output, requested, epochAt, cancelled, cancels, ended>>
       ELSE End(t, "STALE") /\ UNCHANGED <<generation, turnOf, output>>
    /\ UNCHANGED <<latest, active, epoch, frame>>

\* Mutant: a cancellation requested before the execution is registered is lost.
RegisterOnly(t) ==
    /\ work[t] = "STARTED"
    /\ Goto(t, "COMPILING")
    /\ UNCHANGED <<sessionVars, frame>>

\* The execution is registered; what happened since it began is made good.
Register(t) ==
    /\ work[t] = "STARTED"
    /\ work' = [work EXCEPT ![t] = "COMPILING"]
    /\ IF requested[t] \/ generation[genOf[t]] \notin LiveStatus
       THEN /\ cancelled' = cancelled \cup {genOf[t]}
            /\ cancels' = cancels \cup {genOf[t]}
       ELSE UNCHANGED <<cancelled, cancels>>
    /\ UNCHANGED <<sessionVars, frame, requested, epochAt, genOf, ended>>

-----------------------------------------------------------------------------
(* The execution of a generation. *)

Cancelled(t) == genOf[t] \in cancelled

\* The provider context is compiled, or compilation fails: always when the
\* generation is not active any more.
Compile(t) ==
    /\ work[t] = "COMPILING"
    /\ IF Cancelled(t) THEN Goto(t, "CANCELLING") \/ Goto(t, "UNCOMPILED")
       ELSE \/ generation[genOf[t]] = "ACTIVE" /\ Goto(t, "OPENING")
            \/ Goto(t, "UNCOMPILED")
    /\ UNCHANGED <<sessionVars, frame>>

\* The provider's session opens or is refused; its stream yields a proposal,
\* fails, or ends without one.  A cancellation wins.
Opened(t) ==
    /\ work[t] = "OPENING" /\ ~Cancelled(t)
    /\ Goto(t, "STREAMING") \/ Goto(t, "UNOPENED")
    /\ UNCHANGED <<sessionVars, frame>>

Streamed(t) ==
    /\ work[t] = "STREAMING" /\ ~Cancelled(t)
    /\ Goto(t, "ADMITTING") \/ Goto(t, "BROKEN")
    /\ UNCHANGED <<sessionVars, frame>>

\* The race with the provider is decided by the cancellation signal.
CancelExecution(t) ==
    /\ work[t] \in {"OPENING", "STREAMING"} /\ Cancelled(t)
    /\ Goto(t, "CANCELLING")
    /\ UNCHANGED <<sessionVars, frame>>

\* processProposal: the proposal is accepted, found wanting, or found stale.
AdmitProposal(t) ==
    LET g == genOf[t] IN
    /\ work[t] = "ADMITTING"
    /\ \/ /\ generation[g] = "ACTIVE" /\ t = latest
          /\ generation' = [generation EXCEPT ![g] = "VALIDATED"]
          /\ output' = [output EXCEPT ![g] = "QUEUED"]
          /\ Goto(t, "ADMITTED")
       \/ /\ \E verdict \in {"REJECTED", "SUPERSEDED"} :
               generation' = IF generation[g] = "ACTIVE"
                             THEN [generation EXCEPT ![g] = verdict] ELSE generation
          /\ UNCHANGED output
          /\ Goto(t, "REFUSED")
       \/ /\ UNCHANGED <<generation, output>>
          /\ Goto(t, "UNADMITTED")
    /\ UNCHANGED <<sessionFrame, frame>>

\* The answer of processProposal is taken up.
Conclude(t) ==
    /\ work[t] \in {"ADMITTED", "REFUSED"}
    /\ IF Cancelled(t) THEN Goto(t, "CANCELLING")
       ELSE IF work[t] = "ADMITTED" THEN Goto(t, "PUBLISHING")
       ELSE End(t, "REJECTED")
    /\ UNCHANGED <<sessionVars, frame>>

Failed == {"UNCOMPILED", "UNOPENED", "BROKEN", "UNADMITTED"}
\* How the orchestrator takes a failure at the step: the provider's own may be
\* retried by a later recovery.
FailedAt(t) == IF work[t] \in {"UNOPENED", "BROKEN"} /\ t = latest THEN "RETRYABLE" ELSE "FAILED"

\* Mutant: a failed execution leaves its generation as it is.
FailQuietly(t) ==
    /\ work[t] \in Failed
    /\ End(t, FailedAt(t))
    /\ UNCHANGED <<sessionVars, frame>>

\* A failed execution supersedes its generation.  Once the provider's session
\* is open, a cancellation is looked for again afterwards.
Fail(t) ==
    /\ work[t] \in Failed
    /\ Withdraw({genOf[t]})
    /\ IF work[t] \in {"BROKEN", "UNADMITTED"} /\ Cancelled(t)
       THEN Goto(t, "CANCELLING") ELSE End(t, FailedAt(t))
    /\ UNCHANGED <<sessionFrame, frame>>

\* An execution whose orchestration nobody cancelled was found superseded.
FinishCancellation(t) ==
    /\ work[t] = "CANCELLING"
    /\ Withdraw({genOf[t]})
    /\ End(t, IF requested[t] THEN "CANCELLED" ELSE "STALE")
    /\ UNCHANGED <<sessionFrame, frame>>

\* The rest of a cancelGeneration that nobody awaits.
Cancel(g) ==
    /\ g \in cancels
    /\ Withdraw({g})
    /\ cancels' = cancels \ {g}
    /\ UNCHANGED <<sessionFrame, frame, work, requested, epochAt, genOf, cancelled, ended>>

Deliverable(g) == generation[g] = "VALIDATED" /\ output[g] = "QUEUED"

\* publishDelivery has settled: written to a renderer, left queued, or thrown.
Published(t) ==
    /\ work[t] = "PUBLISHING"
    /\ \/ /\ Deliverable(genOf[t])
          /\ output' = [output EXCEPT ![genOf[t]] = "SHOWN"]
          /\ End(t, "ANSWERED")
       \/ UNCHANGED output /\ End(t, "ANSWERED")
       \/ UNCHANGED output /\ End(t, IF t = latest THEN "RETRYABLE" ELSE "FAILED")
    /\ UNCHANGED <<sessionFrame, generation, frame>>
-----------------------------------------------------------------------------
(* Commands.  Each of them waits for the recovery of the session; a commit  *)
(* and the orchestration it starts are one step, because the continuations  *)
(* of two commits run in the order of the commits.                          *)

Spend(what) ==
    /\ left[what] > 0 /\ left.all > 0
    /\ left' = [left EXCEPT ![what] = @ - 1, !.all = @ - 1]

\* A new commit, or one that is sent again because its answer was lost.
Send(t) ==
    /\ phase = "UP" /\ t \notin requests
    /\ \/ t = 0 /\ latest < MaxTurns /\ UNCHANGED left
       \/ t \in 1 .. latest /\ Spend("resends")
    /\ requests' = requests \cup {t}
    /\ UNCHANGED <<sessionVars, phase, recovery, workVars>>

\* COMMIT_TYPED_INPUT with a new RequestId: everything alive is superseded.
CommitInput ==
    /\ 0 \in requests /\ recovery = "DONE"
    /\ requests' = requests \ {0}
    /\ IF active /\ latest < MaxTurns
       THEN /\ latest' = latest + 1
            /\ Withdraw(Live)
            /\ Orchestrate(latest + 1, latest + 1, generation')
       ELSE UNCHANGED <<latest, generation, output, workVars>>
    /\ UNCHANGED <<active, epoch, turnOf, phase, recovery, left>>

\* The same command again: the writer answers from the request's outcome, and
\* the command server orchestrates the turn it names.
ReplayCommit(t) ==
    /\ t \in requests /\ recovery = "DONE"
    /\ requests' = requests \ {t}
    /\ Orchestrate(t, latest, generation)
    /\ UNCHANGED <<sessionVars, phase, recovery, left>>

\* An authoritative change under the current turn: the board, evidence, or a
\* transcript correction, which also moves the context epoch.
Change(moves) ==
    /\ phase = "UP" /\ recovery = "DONE" /\ active
    /\ Spend("changes")
    /\ epoch' = IF moves THEN epoch + 1 ELSE epoch
    /\ Withdraw(Live)
    /\ UNCHANGED <<latest, active, turnOf, phase, recovery, requests, workVars>>

\* COMPLETE_SESSION or ARCHIVE_SESSION, and handleSessionTerminal.
EndSession ==
    /\ phase = "UP" /\ recovery = "DONE" /\ active
    /\ active' = FALSE
    /\ Withdraw(Live)
    /\ requested' = [t \in Turns |-> requested[t] \/ work[t] # "IDLE"]
    /\ CancelGeneration(Superseded(generation'))
    /\ UNCHANGED <<latest, epoch, turnOf, frame, work, epochAt, genOf, ended>>

\* The renderer stream shows what is queued, whenever a renderer is there.
Show(g) ==
    /\ Serving /\ recovery = "DONE" /\ Deliverable(g)
    /\ output' = [output EXCEPT ![g] = "SHOWN"]
    /\ UNCHANGED <<sessionFrame, generation, frame, workVars>>

-----------------------------------------------------------------------------
(* ensureRecovered and recoverPendingTurns.  No command changes the session  *)
(* while they run.                                                           *)

\* The first command begins it, or a renderer that attaches.
BeginRecovery ==
    /\ Serving /\ recovery = "NONE"
    /\ recovery' = "CLEANING"
    /\ UNCHANGED <<sessionVars, phase, requests, workVars, left>>

\* Generations that the process before this one left running.
Stranded == {g \in Generations : generation[g] = "ACTIVE"}

CleanUp(g) ==
    /\ recovery = "CLEANING" /\ g \in Stranded
    /\ Withdraw({g})
    /\ UNCHANGED <<sessionFrame, frame, workVars>>

\* Mutant: recovery looks at generations only, not at what was delivered.
AnsweredNow(t) == \E g \in Generations : turnOf[g] = t /\ generation[g] = "VALIDATED"

\* The latest turn has an answer that is validated, or may have been seen.
Answered(t) == \E g \in Generations : /\ turnOf[g] = t
                                      /\ generation[g] = "VALIDATED" \/ output[g] \in {"QUEUED", "SHOWN"}

\* Mutant: a turn whose generation crashed counts as tried.
RecoverUntriedTurn ==
    /\ recovery = "CLEANING" /\ Stranded = {}
    /\ IF active /\ latest # 0 /\ (\A g \in Generations : turnOf[g] # latest)
       THEN recovery' = "TURN" /\ Orchestrate(latest, latest, generation)
       ELSE recovery' = "DONE" /\ UNCHANGED workVars
    /\ UNCHANGED <<sessionVars, phase, requests, left>>

\* recoverPendingTurns: only the turn committed last is taken up again.
RecoverTurn ==
    /\ recovery = "CLEANING" /\ Stranded = {}
    /\ IF active /\ latest # 0 /\ ~Answered(latest)
       THEN recovery' = "TURN" /\ Orchestrate(latest, latest, generation)
       ELSE recovery' = "DONE" /\ UNCHANGED workVars
    /\ UNCHANGED <<sessionVars, phase, requests, left>>

\* A recovery that the shutdown cut short is forgotten and done again.
FinishRecovery ==
    /\ recovery = "TURN" /\ work[latest] = "IDLE"
    /\ recovery' = IF AcceptingWork THEN "DONE" ELSE "NONE"
    /\ UNCHANGED <<sessionVars, phase, requests, workVars, left>>

-----------------------------------------------------------------------------
(* The process. *)

\* stopFully: the command server closes, which waits for its requests.
Stop ==
    /\ phase = "UP" /\ Spend("stops")
    /\ phase' = "CLOSING"
    /\ UNCHANGED <<sessionVars, recovery, requests, workVars>>

RequestCancellationForShutdown ==
    /\ phase = "CLOSING" /\ requests = {}
    /\ phase' = "STOPPING"
    /\ requested' = [t \in Turns |-> requested[t] \/ work[t] # "IDLE"]
    /\ CancelGeneration({t \in Turns : work[t] \in Registered})
    /\ UNCHANGED <<sessionVars, recovery, requests, work, epochAt, genOf, ended, left>>

\* waitForAll, the renderer stream and the writers: a recovery that is still
\* at work finds its writer closed.
Stopped ==
    /\ phase = "STOPPING" /\ InFlight = {} /\ cancels = {}
    /\ phase' = "STOPPED"
    /\ recovery' = IF recovery = "DONE" THEN "DONE" ELSE "NONE"
    /\ UNCHANGED <<sessionVars, requests, workVars, left>>

\* The same runtime starts again: resumeAfterShutdown.
Start ==
    /\ phase = "STOPPED"
    /\ phase' = "UP"
    /\ UNCHANGED <<sessionVars, recovery, requests, workVars, left>>

Crash ==
    /\ phase # "DOWN" /\ Spend("crashes")
    /\ phase' = "DOWN" /\ recovery' = "NONE" /\ requests' = {}
    /\ work' = [t \in Turns |-> "IDLE"]
    /\ requested' = [t \in Turns |-> FALSE]
    /\ epochAt' = [t \in Turns |-> 0]
    /\ genOf' = [t \in Turns |-> 0]
    /\ cancelled' = {} /\ cancels' = {}
    /\ ended' = [t \in Turns |-> "NEVER"]
    /\ UNCHANGED sessionVars

Boot ==
    /\ phase = "DOWN"
    /\ phase' = "UP"
    /\ UNCHANGED <<sessionVars, recovery, requests, workVars, left>>

-----------------------------------------------------------------------------
\* What the provider owes, and may never give.
Provider == \E t \in Turns : Resolved(t) \/ Opened(t) \/ Streamed(t)

Proceed(t) ==
    \/ Analyzed(t) \/ SelectAction(t) \/ CancelResolution(t) \/ StartGeneration(t) \/ Register(t)
    \/ Compile(t) \/ CancelExecution(t) \/ AdmitProposal(t) \/ Conclude(t) \/ Fail(t)
    \/ FinishCancellation(t) \/ Published(t)

Recovering == RecoverTurn \/ FinishRecovery \/ \E g \in Generations : CleanUp(g)
Handle == CommitInput \/ \E t \in Turns : ReplayCommit(t)

Next ==
    \/ Provider
    \/ \E t \in Turns : Proceed(t)
    \/ \E g \in Generations : Cancel(g) \/ Show(g)
    \/ \E t \in 0 .. MaxTurns : Send(t)
    \/ \E moves \in BOOLEAN : Change(moves)
    \/ Handle \/ EndSession
    \/ BeginRecovery \/ Recovering
    \/ Stop \/ RequestCancellationForShutdown \/ Stopped \/ Start \/ Crash \/ Boot

Spec == Init /\ [][Next]_vars

\* The event loop runs every continuation but those of the provider: its
\* answers are nobody's promise.
FairSpec ==
    /\ Spec
    /\ \A t \in Turns : WF_vars(Proceed(t))
    /\ \A g \in Generations : WF_vars(Cancel(g))
    /\ WF_vars(BeginRecovery /\ requests # {}) /\ WF_vars(Recovering) /\ WF_vars(Handle)
    /\ WF_vars(RequestCancellationForShutdown) /\ WF_vars(Stopped)

-----------------------------------------------------------------------------
(* Properties *)

Ready == phase = "UP" /\ recovery = "DONE"

\* No turn is answered twice, whatever is retried, recovered or cancelled: two
\* outputs of one turn are never both waiting or seen.  (A commit that is sent
\* again is not included: executeOrchestration looks for a validated generation
\* only, and answers again when the one that was shown has been superseded.)
NoTurnIsAnsweredTwice ==
    left.resends = MaxResends =>
        \A g, h \in Generations :
            /\ turnOf[g] = turnOf[h] /\ turnOf[g] # 0
            /\ output[g] \in {"QUEUED", "SHOWN"} /\ output[h] \in {"QUEUED", "SHOWN"}
            => g = h

\* In a process that has recovered its session, the latest turn is answered,
\* is being worked on, or was left on purpose: the policy said to wait, or the
\* provider failed or proposed what is not admissible.  It is never left because
\* of a crash, or because the work of another turn was cancelled or found stale.
\* (A change under the turn withdraws its answer, and the code then waits for
\* input; so it does for a turn that a stop of the server, or an older commit
\* that was sent again, has cancelled.)
Undisturbed == left.changes = MaxChanges /\ left.stops = MaxStops /\ left.resends = MaxResends
NoTurnIsStranded ==
    Ready /\ Undisturbed /\ active /\ latest # 0 /\ work[latest] = "IDLE" /\ ~Answered(latest) =>
        ended[latest] \in {"WAIT", "FAILED", "RETRYABLE", "REJECTED"}

\* A generation that is active is being executed by this process: no failure,
\* cancellation, shutdown or recovery forgets one, which would block every
\* later generation of its turn.
ActiveGenerationIsExecuted ==
    recovery \in {"TURN", "DONE"} =>
        \A g \in Generations : generation[g] = "ACTIVE" =>
            \E t \in Turns : genOf[t] = g /\ work[t] # "IDLE"

\* An execution whose cancellation was requested ends with nothing alive and
\* nothing queued, also when the request raced the admission of its proposal.
CancelledExecutionLeavesNothing ==
    [][\A t \in Turns : genOf[t] \in cancelled /\ genOf'[t] # genOf[t] /\ phase' # "DOWN" =>
         /\ generation'[genOf[t]] \notin LiveStatus
         /\ output'[genOf[t]] # "QUEUED"]_vars

\* Cancelled work ends although the provider never answers.
Abandoned(t) == requested[t] /\ (t # latest \/ ~active \/ phase = "STOPPING")
CancelledWorkEnds == \A t \in Turns : (Abandoned(t) /\ work[t] # "IDLE") ~> (work[t] = "IDLE")

\* A turn cancels older work only (turn-orchestrator.ts:253-255): while the
\* server accepts work, the latest turn of an active session is not cancelled.
CancelsOnlyOlderWork ==
    AcceptingWork /\ active /\ latest # 0 /\ work[latest] # "IDLE" => ~requested[latest]

\* The answer of a provider never gates a shutdown (turn-orchestrator.ts:142-144).
ShutdownEnds == (phase \in {"CLOSING", "STOPPING"}) ~> (phase \in {"STOPPED", "DOWN"})
=============================================================================
