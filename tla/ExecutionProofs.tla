--------------------------- MODULE ExecutionProofs ---------------------------
(***************************************************************************)
(* What TLAPS proves of the two parts that carry an execution of a         *)
(* provider: TurnOrchestration, and SupervisedProcess, whose child it may  *)
(* be.  The two modules share nothing.                                     *)
(*                                                                         *)
(* Of the turns, for any number of turns, generations and disturbances:    *)
(* who owns the active generation (IInv), that no turn is answered twice   *)
(* (TwiceInv), and that the latest turn is answered or left on purpose     *)
(* (StrandInv).                                                            *)
(*                                                                         *)
(* Of the children, for any number of executions, replacements of the      *)
(* executable and drains (ProcessInv): what an execution reports of its    *)
(* child is true, what is left behind closes the runner, and whoever is on *)
(* the way when the runner stops knows it.                                 *)
(***************************************************************************)
EXTENDS TurnOrchestration, SupervisedProcess, TLAPS

-----------------------------------------------------------------------------
(* TurnOrchestration: the invariants. *)

\* The steps at which an orchestration has a generation.
Holding == {"STARTED"} \cup Registered

\* A generation belongs to the one orchestration that started it, until that
\* ends; once its proposal has been judged it is not active any more; and one
\* that is being published was not cancelled.
Custody ==
    \A t \in Turns :
        /\ genOf[t] # 0 <=> work[t] \in Holding
        /\ genOf[t] # 0 => turnOf[genOf[t]] = t /\ generation[genOf[t]] # "UNUSED"
        /\ work[t] \in {"ADMITTED", "REFUSED", "PUBLISHING"} => generation[genOf[t]] # "ACTIVE"
        /\ work[t] = "PUBLISHING" => genOf[t] \notin cancelled

\* Each move of the epoch was a change.
EpochBound == epoch + left.changes <= MaxChanges

IInv == TypeOK /\ Custody /\ EpochBound /\ ActiveGenerationIsExecuted

\* Statuses only go on: none becomes unused or active again.
Onward == \A g \in Generations :
              /\ generation[g] # "UNUSED" => generation'[g] # "UNUSED"
              /\ generation[g] # "ACTIVE" => generation'[g] # "ACTIVE"

-----------------------------------------------------------------------------
(* What the building blocks of the actions keep. *)

\* Withdrawing generations leaves the statuses typed and moves them on; none of
\* the withdrawn is alive or queued afterwards.
LEMMA WithdrawKeeps ==
  ASSUME TypeOK, NEW G \in SUBSET Generations, Withdraw(G)
  PROVE  /\ generation' \in [Generations -> {"UNUSED", "ACTIVE", "VALIDATED", "REJECTED", "SUPERSEDED"}]
         /\ output' \in [Generations -> {"NONE", "QUEUED", "SHOWN", "CANCELLED"}]
         /\ Onward
         /\ \A g \in G : generation'[g] \notin LiveStatus /\ output'[g] # "QUEUED"
<1>1. generation' \in [Generations -> {"UNUSED", "ACTIVE", "VALIDATED", "REJECTED", "SUPERSEDED"}]
  BY DEF Withdraw, TypeOK
<1>2. output' \in [Generations -> {"NONE", "QUEUED", "SHOWN", "CANCELLED"}]
  BY DEF Withdraw, TypeOK
<1>3. Onward
  BY DEF Withdraw, Onward, Live, LiveStatus
<1>4. \A g \in G : generation'[g] \notin LiveStatus /\ output'[g] # "QUEUED"
  BY DEF Withdraw, Live, LiveStatus
<1>5. QED BY <1>1, <1>2, <1>3, <1>4

WorkType ==
    /\ work \in [Turns -> Steps]
    /\ requested \in [Turns -> BOOLEAN]
    /\ epochAt \in [Turns -> 0 .. MaxChanges]
    /\ genOf \in [Turns -> 0 .. MaxGenerations]
    /\ cancelled \in SUBSET Generations /\ cancels \in SUBSET Generations
    /\ ended \in [Turns -> {"NEVER", "WAIT", "STALE", "CANCELLED", "FAILED", "RETRYABLE",
                            "REJECTED", "ANSWERED"}]

\* An orchestration ends: its generation is nobody's from then on.
LEMMA EndKeeps ==
  ASSUME TypeOK, Custody, NEW t \in Turns,
         NEW how \in {"WAIT", "STALE", "CANCELLED", "FAILED", "RETRYABLE", "REJECTED", "ANSWERED"},
         End(t, how), Onward, turnOf' = turnOf
  PROVE  WorkType' /\ Custody'
<1>1. WorkType'
  BY OrchestrationAssumption DEF End, TypeOK, WorkType, Steps
<1>2. Custody'
  <2> SUFFICES ASSUME NEW u \in Turns
               PROVE  /\ genOf'[u] # 0 <=> work'[u] \in Holding
                      /\ genOf'[u] # 0 => turnOf'[genOf'[u]] = u /\ generation'[genOf'[u]] # "UNUSED"
                      /\ work'[u] \in {"ADMITTED", "REFUSED", "PUBLISHING"} => generation'[genOf'[u]] # "ACTIVE"
                      /\ work'[u] = "PUBLISHING" => genOf'[u] \notin cancelled'
    BY DEF Custody
  <2>1. CASE u = t
    BY <2>1 DEF End, TypeOK, Holding, Registered, Executing
  <2>2. CASE u # t
    <3>1. work'[u] = work[u] /\ genOf'[u] = genOf[u] /\ cancelled' \subseteq cancelled
      BY <2>2 DEF End, TypeOK
    <3>2. genOf[u] # 0 => genOf[u] \in Generations
      BY DEF TypeOK, Generations
    <3>3. work[u] \in {"ADMITTED", "REFUSED", "PUBLISHING"} => genOf[u] # 0
      BY DEF Custody, Holding, Registered, Executing
    <3>4. QED BY <3>1, <3>2, <3>3 DEF Custody, Onward
  <2>3. QED BY <2>1, <2>2
<1>3. QED BY <1>1, <1>2

\* An orchestration goes on to the next step, with or without a generation.
LEMMA GotoKeeps ==
  ASSUME TypeOK, Custody, NEW t \in Turns, NEW step \in Steps,
         Goto(t, step), Onward, turnOf' = turnOf,
         work[t] \in Holding <=> step \in Holding,
         step \in {"ADMITTED", "REFUSED", "PUBLISHING"} => generation'[genOf[t]] # "ACTIVE",
         step = "PUBLISHING" => genOf[t] \notin cancelled
  PROVE  WorkType' /\ Custody'
<1>1. WorkType'
  BY DEF Goto, TypeOK, WorkType
<1>2. Custody'
  <2> SUFFICES ASSUME NEW u \in Turns
               PROVE  /\ genOf'[u] # 0 <=> work'[u] \in Holding
                      /\ genOf'[u] # 0 => turnOf'[genOf'[u]] = u /\ generation'[genOf'[u]] # "UNUSED"
                      /\ work'[u] \in {"ADMITTED", "REFUSED", "PUBLISHING"} => generation'[genOf'[u]] # "ACTIVE"
                      /\ work'[u] = "PUBLISHING" => genOf'[u] \notin cancelled'
    BY DEF Custody
  <2>1. genOf'[u] = genOf[u] /\ cancelled' = cancelled
    BY DEF Goto
  <2>2. genOf[u] # 0 => genOf[u] \in Generations
    BY DEF TypeOK, Generations
  <2>3. work[u] \in {"ADMITTED", "REFUSED", "PUBLISHING"} => genOf[u] # 0
    BY DEF Custody, Holding, Registered, Executing
  <2>4. CASE u = t
    <3>1. work'[u] = step
      BY <2>4 DEF Goto, TypeOK
    <3>2. QED BY <2>1, <2>2, <2>4, <3>1 DEF Custody, Onward
  <2>5. CASE u # t
    <3>1. work'[u] = work[u]
      BY <2>5 DEF Goto, TypeOK
    <3>2. QED BY <2>1, <2>2, <2>3, <3>1 DEF Custody, Onward
  <2>6. QED BY <2>4, <2>5
<1>3. QED BY <1>1, <1>2

GenerationType ==
    /\ generation \in [Generations -> {"UNUSED", "ACTIVE", "VALIDATED", "REJECTED", "SUPERSEDED"}]
    /\ output \in [Generations -> {"NONE", "QUEUED", "SHOWN", "CANCELLED"}]

\* The end of an orchestration keeps the invariant, if it leaves no active
\* generation behind.
LEMMA Ended ==
  ASSUME IInv, NEW t \in Turns,
         NEW how \in {"WAIT", "STALE", "CANCELLED", "FAILED", "RETRYABLE", "REJECTED", "ANSWERED"},
         End(t, how), GenerationType', Onward, UNCHANGED sessionFrame, UNCHANGED frame,
         genOf[t] # 0 => generation'[genOf[t]] # "ACTIVE"
  PROVE  IInv'
<1>1. WorkType' /\ Custody'
  BY EndKeeps DEF IInv, sessionFrame
<1>2. TypeOK'
  BY <1>1 DEF IInv, TypeOK, WorkType, GenerationType, sessionFrame, frame
<1>3. EpochBound'
  BY DEF IInv, EpochBound, sessionFrame, frame
<1>4. ActiveGenerationIsExecuted'
  <2> SUFFICES ASSUME recovery \in {"TURN", "DONE"}, NEW g \in Generations, generation'[g] = "ACTIVE"
               PROVE  \E u \in Turns : genOf'[u] = g /\ work'[u] # "IDLE"
    BY DEF ActiveGenerationIsExecuted, frame
  <2>1. generation[g] = "ACTIVE"
    BY DEF Onward
  <2>2. PICK u \in Turns : genOf[u] = g /\ work[u] # "IDLE"
    BY <2>1 DEF IInv, ActiveGenerationIsExecuted
  <2>3. u # t
    BY <2>2, OrchestrationAssumption DEF Generations
  <2>4. genOf'[u] = g /\ work'[u] # "IDLE"
    BY <2>2, <2>3 DEF End, IInv, TypeOK
  <2>5. QED BY <2>4
<1>5. QED BY <1>1, <1>2, <1>3, <1>4 DEF IInv

\* So does going on to another step.
LEMMA Went ==
  ASSUME IInv, NEW t \in Turns, NEW step \in Steps \ {"IDLE"},
         Goto(t, step), GenerationType', Onward, UNCHANGED sessionFrame, UNCHANGED frame,
         work[t] \in Holding <=> step \in Holding,
         step \in {"ADMITTED", "REFUSED", "PUBLISHING"} => generation'[genOf[t]] # "ACTIVE",
         step = "PUBLISHING" => genOf[t] \notin cancelled
  PROVE  IInv'
<1>1. WorkType' /\ Custody'
  BY GotoKeeps DEF IInv, sessionFrame
<1>2. TypeOK'
  BY <1>1 DEF IInv, TypeOK, WorkType, GenerationType, sessionFrame, frame
<1>3. EpochBound'
  BY DEF IInv, EpochBound, sessionFrame, frame
<1>4. ActiveGenerationIsExecuted'
  <2> SUFFICES ASSUME recovery \in {"TURN", "DONE"}, NEW g \in Generations, generation'[g] = "ACTIVE"
               PROVE  \E u \in Turns : genOf'[u] = g /\ work'[u] # "IDLE"
    BY DEF ActiveGenerationIsExecuted, frame
  <2>1. generation[g] = "ACTIVE"
    BY DEF Onward
  <2>2. PICK u \in Turns : genOf[u] = g /\ work[u] # "IDLE"
    BY <2>1 DEF IInv, ActiveGenerationIsExecuted
  <2>3. genOf'[u] = g /\ work'[u] # "IDLE"
    BY <2>2 DEF Goto, IInv, TypeOK
  <2>4. QED BY <2>3
<1>5. QED BY <1>1, <1>2, <1>3, <1>4 DEF IInv

\* A step that leaves the session alone.
LEMMA SameGenerations ==
  ASSUME IInv, UNCHANGED sessionVars
  PROVE  GenerationType' /\ Onward /\ UNCHANGED sessionFrame /\ generation' = generation
BY DEF IInv, TypeOK, GenerationType, Onward, sessionVars, sessionFrame

\* The generation of an orchestration is one.
LEMMA HeldGeneration ==
  ASSUME IInv, NEW t \in Turns
  PROVE  /\ genOf[t] # 0 => genOf[t] \in Generations
         /\ work[t] \in Holding => genOf[t] \in Generations
         /\ work[t] \notin Holding => genOf[t] = 0
<1>1. genOf[t] \in 0 .. MaxGenerations /\ MaxGenerations \in Nat
  BY OrchestrationAssumption DEF IInv, TypeOK
<1>2. work[t] \in Holding <=> genOf[t] # 0
  BY DEF IInv, Custody
<1>3. genOf[t] # 0 => genOf[t] \in Generations
  BY <1>1 DEF Generations
<1>4. QED BY <1>2, <1>3

-----------------------------------------------------------------------------
(* The orchestration of a turn, up to its generation. *)

LEMMA AnalyzedKeeps == ASSUME IInv, NEW t \in Turns, Analyzed(t) PROVE IInv'
<1>1. UNCHANGED sessionVars /\ UNCHANGED frame /\ work[t] = "ANALYZING"
  BY DEF Analyzed
<1>2. work[t] \notin Holding /\ "SELECTING" \notin Holding /\ "SELECTING" \in Steps \ {"IDLE"}
  BY <1>1 DEF Holding, Registered, Executing, Steps
<1>3. genOf[t] = 0
  BY <1>2, HeldGeneration
<1>4. CASE End(t, "CANCELLED") \/ End(t, "STALE")
  BY <1>1, <1>3, <1>4, SameGenerations, Ended
<1>5. CASE Goto(t, "SELECTING")
  BY <1>1, <1>2, <1>5, SameGenerations, Went
<1>6. QED BY <1>4, <1>5 DEF Analyzed

LEMMA SelectActionKeeps == ASSUME IInv, NEW t \in Turns, SelectAction(t) PROVE IInv'
<1>1. UNCHANGED sessionVars /\ UNCHANGED frame /\ work[t] = "SELECTING"
  BY DEF SelectAction
<1>2. work[t] \notin Holding /\ "RESOLVING" \notin Holding /\ "RESOLVING" \in Steps \ {"IDLE"}
  BY <1>1 DEF Holding, Registered, Executing, Steps
<1>3. genOf[t] = 0
  BY <1>2, HeldGeneration
<1>4. CASE End(t, "WAIT") \/ End(t, "STALE")
  BY <1>1, <1>3, <1>4, SameGenerations, Ended
<1>5. CASE Goto(t, "RESOLVING")
  BY <1>1, <1>2, <1>5, SameGenerations, Went
<1>6. QED BY <1>4, <1>5 DEF SelectAction

LEMMA ResolutionKeeps == ASSUME IInv, NEW t \in Turns, Resolved(t) \/ CancelResolution(t) PROVE IInv'
<1>1. UNCHANGED sessionVars /\ UNCHANGED frame /\ work[t] = "RESOLVING"
  BY DEF Resolved, CancelResolution
<1>2. work[t] \notin Holding /\ "STARTING" \notin Holding /\ "STARTING" \in Steps \ {"IDLE"}
  BY <1>1 DEF Holding, Registered, Executing, Steps
<1>3. genOf[t] = 0
  BY <1>2, HeldGeneration
<1>4. CASE End(t, "RETRYABLE") \/ End(t, "CANCELLED")
  BY <1>1, <1>3, <1>4, SameGenerations, Ended
<1>5. CASE Goto(t, "STARTING")
  BY <1>1, <1>2, <1>5, SameGenerations, Went
<1>6. QED BY <1>4, <1>5 DEF Resolved, CancelResolution

\* Two orchestrations never have the same generation.
LEMMA OneOwner ==
  ASSUME IInv, NEW t \in Turns, NEW u \in Turns, genOf[t] # 0, genOf[t] = genOf[u]
  PROVE  t = u
BY DEF IInv, Custody

LEMMA StartGenerationKeeps == ASSUME IInv, NEW t \in Turns, StartGeneration(t) PROVE IInv'
<1>1. /\ work[t] = "STARTING" /\ "STARTED" \in Steps /\ "STARTED" \in Holding
      /\ UNCHANGED <<latest, active, epoch>> /\ UNCHANGED frame
  BY DEF StartGeneration, Steps, Holding
<1>2. genOf[t] = 0
  BY <1>1, HeldGeneration DEF Holding, Registered, Executing
<1>3. CASE End(t, "STALE") /\ UNCHANGED <<generation, turnOf, output>>
  <2>1. UNCHANGED sessionVars
    BY <1>1, <1>3 DEF sessionVars
  <2>2. QED BY <1>1, <1>2, <1>3, <2>1, SameGenerations, Ended
<1>4. ASSUME NEW g \in Generations, generation[g] = "UNUSED",
             generation' = [generation EXCEPT ![g] = "ACTIVE"], turnOf' = [turnOf EXCEPT ![g] = t],
             genOf' = [genOf EXCEPT ![t] = g], work' = [work EXCEPT ![t] = "STARTED"],
             UNCHANGED <<output, requested, epochAt, cancelled, cancels, ended>>
      PROVE  IInv'
  <2>1. g \in Nat /\ g # 0 /\ g \in 0 .. MaxGenerations /\ t \in 0 .. MaxTurns
    BY OrchestrationAssumption DEF Generations, Turns
  <2>2. TypeOK'
    BY <1>1, <1>4, <2>1 DEF IInv, TypeOK, frame
  <2>3. EpochBound'
    BY <1>1 DEF IInv, EpochBound, frame
  <2>4. ASSUME NEW u \in Turns, u # t
        PROVE  /\ work'[u] = work[u] /\ genOf'[u] = genOf[u]
               /\ genOf[u] # 0 => genOf[u] # g /\ generation'[genOf[u]] = generation[genOf[u]]
                                  /\ turnOf'[genOf[u]] = turnOf[genOf[u]]
    <3>1. work'[u] = work[u] /\ genOf'[u] = genOf[u]
      BY <1>4, <2>4 DEF IInv, TypeOK
    <3>2. genOf[u] # 0 => genOf[u] # g /\ genOf[u] \in Generations
      BY <1>4, HeldGeneration DEF IInv, Custody
    <3>3. QED BY <1>4, <3>1, <3>2 DEF IInv, TypeOK
  <2>5. work'[t] = "STARTED" /\ genOf'[t] = g /\ generation'[g] = "ACTIVE" /\ turnOf'[g] = t
    BY <1>4 DEF IInv, TypeOK
  <2>6. Custody'
    <3> SUFFICES ASSUME NEW u \in Turns
                 PROVE  /\ genOf'[u] # 0 <=> work'[u] \in Holding
                        /\ genOf'[u] # 0 => turnOf'[genOf'[u]] = u /\ generation'[genOf'[u]] # "UNUSED"
                        /\ work'[u] \in {"ADMITTED", "REFUSED", "PUBLISHING"} => generation'[genOf'[u]] # "ACTIVE"
                        /\ work'[u] = "PUBLISHING" => genOf'[u] \notin cancelled'
      BY DEF Custody
    <3>1. CASE u = t
      BY <1>1, <2>1, <2>5, <3>1
    <3>2. CASE u # t
      <4>1. work[u] \in {"ADMITTED", "REFUSED", "PUBLISHING"} => genOf[u] # 0
        BY DEF IInv, Custody, Holding, Registered, Executing
      <4>2. QED BY <1>4, <2>4, <3>2, <4>1 DEF IInv, Custody
    <3>3. QED BY <3>1, <3>2
  <2>7. ActiveGenerationIsExecuted'
    <3> SUFFICES ASSUME recovery \in {"TURN", "DONE"}, NEW h \in Generations, generation'[h] = "ACTIVE"
                 PROVE  \E u \in Turns : genOf'[u] = h /\ work'[u] # "IDLE"
      BY <1>1 DEF ActiveGenerationIsExecuted, frame
    <3>1. CASE h = g
      BY <2>5, <3>1
    <3>2. CASE h # g
      <4>1. generation[h] = "ACTIVE"
        BY <1>4, <3>2 DEF IInv, TypeOK
      <4>2. PICK u \in Turns : genOf[u] = h /\ work[u] # "IDLE"
        BY <4>1 DEF IInv, ActiveGenerationIsExecuted
      <4>3. u # t
        BY <1>2, <4>2, OrchestrationAssumption DEF Generations
      <4>4. QED BY <2>4, <4>2, <4>3
    <3>3. QED BY <3>1, <3>2
  <2>8. QED BY <2>2, <2>3, <2>6, <2>7 DEF IInv
<1>5. QED BY <1>3, <1>4 DEF StartGeneration

LEMMA RegisterKeeps == ASSUME IInv, NEW t \in Turns, Register(t) PROVE IInv'
<1>1. /\ work[t] = "STARTED" /\ "COMPILING" \in Steps /\ "STARTED" \in Holding /\ "COMPILING" \in Holding
      /\ UNCHANGED sessionVars /\ UNCHANGED frame /\ UNCHANGED <<requested, epochAt, genOf, ended>>
  BY DEF Register, Steps, Holding, Registered, Executing
<1>2. genOf[t] \in Generations /\ genOf[t] # 0
  BY <1>1, HeldGeneration, OrchestrationAssumption DEF Generations
<1>3. /\ cancelled' \in SUBSET Generations /\ cancels' \in SUBSET Generations
      /\ cancelled' \subseteq cancelled \cup {genOf[t]}
  BY <1>2 DEF Register, IInv, TypeOK
<1>4. TypeOK'
  BY <1>1, <1>3 DEF Register, IInv, TypeOK, sessionVars, frame
<1>5. EpochBound'
  BY <1>1 DEF IInv, EpochBound, sessionVars, frame
<1>6. work'[t] = "COMPILING" /\ \A u \in Turns : u # t => work'[u] = work[u]
  BY DEF Register, IInv, TypeOK
<1>7. ASSUME NEW u \in Turns, work'[u] = "PUBLISHING" PROVE genOf[u] \notin cancelled'
  <2>1. u # t /\ work[u] = "PUBLISHING" /\ genOf[u] # 0
    BY <1>6, <1>7 DEF IInv, Custody, Holding, Registered
  <2>2. genOf[u] # genOf[t]
    BY <1>2, <2>1, OneOwner
  <2>3. QED BY <1>3, <2>1, <2>2 DEF IInv, Custody
<1>8. Custody'
  <2>1. \A u \in Turns : work'[u] \in Holding <=> work[u] \in Holding
    BY <1>1, <1>6
  <2>2. \A u \in Turns : work'[u] \in {"ADMITTED", "REFUSED", "PUBLISHING"} => work'[u] = work[u]
    BY <1>6
  <2>3. QED BY <1>1, <1>7, <2>1, <2>2 DEF IInv, Custody, sessionVars
<1>9. ActiveGenerationIsExecuted'
  BY <1>1, <1>6 DEF IInv, ActiveGenerationIsExecuted, sessionVars, frame
<1>10. QED BY <1>4, <1>5, <1>8, <1>9 DEF IInv

-----------------------------------------------------------------------------
(* The execution of a generation. *)

\* The steps of an execution, each with a generation.
LEMMA ExecutionSteps == Executing \subseteq Steps \ {"IDLE"} /\ Executing \subseteq Holding
                        /\ "PUBLISHING" \in Steps \ {"IDLE"} /\ "PUBLISHING" \in Holding
BY DEF Executing, Registered, Steps, Holding

\* Steps of the execution that change nothing but where it stands.
LEMMA AdvanceKeeps ==
  ASSUME IInv, NEW t \in Turns, work[t] \in Executing,
         NEW step \in Executing \ {"ADMITTED", "REFUSED"}, Goto(t, step),
         UNCHANGED sessionVars, UNCHANGED frame
  PROVE  IInv'
<1>1. /\ work[t] \in Holding <=> step \in Holding
      /\ step \in Steps \ {"IDLE"} /\ step # "PUBLISHING"
  BY ExecutionSteps DEF Executing
<1>2. QED BY <1>1, SameGenerations, Went

LEMMA ExecutionKeeps ==
  ASSUME IInv, NEW t \in Turns, Compile(t) \/ Opened(t) \/ Streamed(t) \/ CancelExecution(t)
  PROVE  IInv'
<1>1. UNCHANGED sessionVars /\ UNCHANGED frame /\ work[t] \in {"COMPILING", "OPENING", "STREAMING"}
  BY DEF Compile, Opened, Streamed, CancelExecution
<1>2. PICK step \in {"OPENING", "STREAMING", "ADMITTING", "UNCOMPILED", "UNOPENED", "BROKEN", "CANCELLING"} :
        Goto(t, step)
  BY DEF Compile, Opened, Streamed, CancelExecution
<1>3. work[t] \in Executing /\ step \in Executing \ {"ADMITTED", "REFUSED"}
  BY <1>1, <1>2 DEF Executing
<1>4. QED BY <1>1, <1>2, <1>3, AdvanceKeeps

LEMMA AdmitProposalKeeps == ASSUME IInv, NEW t \in Turns, AdmitProposal(t) PROVE IInv'
<1> DEFINE g == genOf[t]
<1>1. /\ work[t] = "ADMITTING" /\ UNCHANGED sessionFrame /\ UNCHANGED frame
      /\ work[t] \in Executing /\ work[t] \in Holding
  BY ExecutionSteps DEF AdmitProposal, Executing
<1>2. g \in Generations
  BY <1>1, HeldGeneration
<1>3. CASE /\ generation[g] = "ACTIVE"
           /\ generation' = [generation EXCEPT ![g] = "VALIDATED"]
           /\ output' = [output EXCEPT ![g] = "QUEUED"]
           /\ Goto(t, "ADMITTED")
  <2>1. GenerationType' /\ Onward /\ generation'[g] = "VALIDATED"
    BY <1>2, <1>3 DEF IInv, TypeOK, GenerationType, Onward
  <2>2. "ADMITTED" \in Steps \ {"IDLE"} /\ "ADMITTED" \in Holding
    BY ExecutionSteps DEF Executing
  <2>3. QED BY <1>1, <1>3, <2>1, <2>2, Went
<1>4. ASSUME NEW verdict \in {"REJECTED", "SUPERSEDED"},
             generation' = IF generation[g] = "ACTIVE"
                           THEN [generation EXCEPT ![g] = verdict] ELSE generation,
             UNCHANGED output, Goto(t, "REFUSED")
      PROVE  IInv'
  <2>1. GenerationType' /\ Onward /\ generation'[g] # "ACTIVE"
    BY <1>2, <1>4 DEF IInv, TypeOK, GenerationType, Onward
  <2>2. "REFUSED" \in Steps \ {"IDLE"} /\ "REFUSED" \in Holding
    BY ExecutionSteps DEF Executing
  <2>3. QED BY <1>1, <1>4, <2>1, <2>2, Went
<1>5. CASE UNCHANGED <<generation, output>> /\ Goto(t, "UNADMITTED")
  <2>1. UNCHANGED sessionVars
    BY <1>1, <1>5 DEF sessionFrame, sessionVars
  <2>2. "UNADMITTED" \in Executing \ {"ADMITTED", "REFUSED"}
    BY DEF Executing
  <2>3. QED BY <1>1, <1>5, <2>1, <2>2, AdvanceKeeps
<1>6. QED BY <1>3, <1>4, <1>5 DEF AdmitProposal

LEMMA ConcludeKeeps == ASSUME IInv, NEW t \in Turns, Conclude(t) PROVE IInv'
<1>1. /\ UNCHANGED sessionVars /\ UNCHANGED frame /\ work[t] \in {"ADMITTED", "REFUSED"}
      /\ work[t] \in Executing /\ work[t] \in Holding
  BY ExecutionSteps DEF Conclude, Executing
<1>2. generation[genOf[t]] # "ACTIVE"
  BY <1>1 DEF IInv, Custody
<1>3. CASE Goto(t, "CANCELLING")
  <2>1. "CANCELLING" \in Executing \ {"ADMITTED", "REFUSED"}
    BY DEF Executing
  <2>2. QED BY <1>1, <1>3, <2>1, AdvanceKeeps
<1>4. CASE genOf[t] \notin cancelled /\ Goto(t, "PUBLISHING")
  BY <1>1, <1>2, <1>4, ExecutionSteps, SameGenerations, Went
<1>5. CASE End(t, "REJECTED")
  BY <1>1, <1>2, <1>5, SameGenerations, Ended
<1>6. QED BY <1>3, <1>4, <1>5 DEF Conclude, Cancelled

\* A withdrawal of t's own generation.
LEMMA WithdrawOwn ==
  ASSUME IInv, NEW t \in Turns, work[t] \in Executing, Withdraw({genOf[t]}), UNCHANGED sessionFrame
  PROVE  /\ genOf[t] \in Generations /\ GenerationType' /\ Onward
         /\ generation'[genOf[t]] \notin LiveStatus /\ output'[genOf[t]] # "QUEUED"
<1>1. genOf[t] \in Generations
  BY HeldGeneration, ExecutionSteps
<1>2. QED BY <1>1, WithdrawKeeps DEF IInv, GenerationType

LEMMA FailKeeps == ASSUME IInv, NEW t \in Turns, Fail(t) PROVE IInv'
<1>1. /\ work[t] \in Failed /\ work[t] \in Executing /\ work[t] \in Holding
      /\ UNCHANGED sessionFrame /\ UNCHANGED frame /\ Withdraw({genOf[t]})
  BY ExecutionSteps DEF Fail, Failed, Executing
<1>2. GenerationType' /\ Onward /\ generation'[genOf[t]] \notin LiveStatus
  BY <1>1, WithdrawOwn
<1>3. generation'[genOf[t]] # "ACTIVE"
  BY <1>2 DEF LiveStatus
<1>4. CASE Goto(t, "CANCELLING")
  <2>1. "CANCELLING" \in Steps \ {"IDLE"} /\ "CANCELLING" \in Holding
    BY ExecutionSteps DEF Executing
  <2>2. QED BY <1>1, <1>2, <1>4, <2>1, Went
<1>5. CASE End(t, FailedAt(t))
  <2>1. FailedAt(t) \in {"FAILED", "RETRYABLE"}
    BY DEF FailedAt
  <2>2. QED BY <1>1, <1>2, <1>3, <1>5, <2>1, Ended
<1>6. QED BY <1>4, <1>5 DEF Fail

LEMMA FinishCancellationKeeps == ASSUME IInv, NEW t \in Turns, FinishCancellation(t) PROVE IInv'
<1>1. /\ work[t] \in Executing /\ UNCHANGED sessionFrame /\ UNCHANGED frame /\ Withdraw({genOf[t]})
      /\ End(t, IF requested[t] THEN "CANCELLED" ELSE "STALE")
  BY DEF FinishCancellation, Executing
<1>2. GenerationType' /\ Onward /\ generation'[genOf[t]] \notin LiveStatus
  BY <1>1, WithdrawOwn
<1>3. generation'[genOf[t]] # "ACTIVE"
  BY <1>2 DEF LiveStatus
<1>4. QED BY <1>1, <1>2, <1>3, Ended

LEMMA PublishedKeeps == ASSUME IInv, NEW t \in Turns, Published(t) PROVE IInv'
<1>1. /\ work[t] = "PUBLISHING" /\ work[t] \in Holding
      /\ UNCHANGED sessionFrame /\ UNCHANGED frame /\ generation' = generation
  BY ExecutionSteps DEF Published
<1>2. PICK how \in {"ANSWERED", "RETRYABLE", "FAILED"} : End(t, how)
  BY DEF Published
<1>3. genOf[t] \in Generations /\ generation[genOf[t]] # "ACTIVE"
  BY <1>1, HeldGeneration DEF IInv, Custody
<1>4. GenerationType' /\ Onward
  BY <1>1, <1>3 DEF Published, IInv, TypeOK, GenerationType, Onward
<1>5. QED BY <1>1, <1>2, <1>3, <1>4, Ended

-----------------------------------------------------------------------------
(* Commands, recovery and the process. *)

\* What changes the generations only keeps the invariant's parts about the work.
LEMMA Bystanders ==
  ASSUME IInv, Onward, turnOf' = turnOf, UNCHANGED <<work, genOf, cancelled>>,
         recovery' \in {"TURN", "DONE"} => recovery \in {"TURN", "DONE"}
  PROVE  Custody' /\ ActiveGenerationIsExecuted'
<1>1. Custody'
  <2> SUFFICES ASSUME NEW u \in Turns
               PROVE  /\ genOf[u] # 0 <=> work[u] \in Holding
                      /\ genOf[u] # 0 => turnOf[genOf[u]] = u /\ generation'[genOf[u]] # "UNUSED"
                      /\ work[u] \in {"ADMITTED", "REFUSED", "PUBLISHING"} => generation'[genOf[u]] # "ACTIVE"
                      /\ work[u] = "PUBLISHING" => genOf[u] \notin cancelled
    BY DEF Custody
  <2>1. work[u] \in {"ADMITTED", "REFUSED", "PUBLISHING"} => genOf[u] # 0
    BY DEF IInv, Custody, Holding, Registered, Executing
  <2>2. QED BY <2>1, HeldGeneration DEF IInv, Custody, Onward
<1>2. ActiveGenerationIsExecuted'
  BY DEF IInv, ActiveGenerationIsExecuted, Onward
<1>3. QED BY <1>1, <1>2

\* A cancellation signals executions, never a publication.
LEMMA CancelKeeps ==
  ASSUME IInv, NEW T \in SUBSET Turns, \A u \in T : work[u] \in Holding, CancelGeneration(T)
  PROVE  /\ cancelled' \in SUBSET Generations /\ cancels' \in SUBSET Generations
         /\ \A t \in Turns : work[t] = "PUBLISHING" => genOf[t] \notin cancelled'
<1>1. \A u \in T : genOf[u] \in Generations
  BY HeldGeneration
<1>2. cancelled' \in SUBSET Generations /\ cancels' \in SUBSET Generations
  BY <1>1 DEF CancelGeneration, IInv, TypeOK
<1>3. ASSUME NEW t \in Turns, work[t] = "PUBLISHING", NEW u \in T, work[u] \in Executing
      PROVE  genOf[t] # genOf[u]
  <2>1. t # u /\ genOf[t] # 0
    BY <1>3 DEF IInv, Custody, Executing, Holding, Registered
  <2>2. QED BY <2>1, OneOwner
<1>4. QED BY <1>2, <1>3 DEF CancelGeneration, IInv, Custody

\* Statuses that orchestrate is given, and their superseded executions.
LEMMA SupersededHold == ASSUME NEW status PROVE \A u \in Superseded(status) : u \in Turns /\ work[u] \in Holding
BY DEF Superseded, Holding

LEMMA OrchestrateKeeps ==
  ASSUME IInv, NEW t \in Turns, NEW l, NEW status, Orchestrate(t, l, status),
         Onward, turnOf' = turnOf
  PROVE  WorkType' /\ Custody' /\ UNCHANGED genOf /\ \A u \in Turns : work[u] # "IDLE" => work'[u] = work[u]
<1>1. CASE UNCHANGED workVars
  <2>1. Custody'
    <3> SUFFICES ASSUME NEW u \in Turns
                 PROVE  /\ genOf[u] # 0 <=> work[u] \in Holding
                        /\ genOf[u] # 0 => turnOf[genOf[u]] = u /\ generation'[genOf[u]] # "UNUSED"
                        /\ work[u] \in {"ADMITTED", "REFUSED", "PUBLISHING"} => generation'[genOf[u]] # "ACTIVE"
                        /\ work[u] = "PUBLISHING" => genOf[u] \notin cancelled
      BY <1>1 DEF Custody, workVars
    <3>1. work[u] \in {"ADMITTED", "REFUSED", "PUBLISHING"} => genOf[u] # 0
      BY DEF IInv, Custody, Holding, Registered, Executing
    <3>2. QED BY <3>1, HeldGeneration DEF IInv, Custody, Onward
  <2>2. QED BY <1>1, <2>1 DEF IInv, TypeOK, WorkType, workVars
<1>2. CASE ~UNCHANGED workVars
  <2>1. /\ work[t] = "IDLE" /\ UNCHANGED <<genOf, ended>>
        /\ requested' = [u \in Turns |-> IF u = t THEN FALSE ELSE requested[u] \/ work[u] # "IDLE"]
        /\ CancelGeneration(Superseded(status))
        /\ epochAt' = [epochAt EXCEPT ![t] = epoch]
    BY <1>2 DEF Orchestrate
  <2>2. PICK step \in {"ANALYZING", "IDLE"} : work' = [work EXCEPT ![t] = step]
    BY <1>2 DEF Orchestrate
  <2>3. /\ cancelled' \in SUBSET Generations /\ cancels' \in SUBSET Generations
        /\ \A u \in Turns : work[u] = "PUBLISHING" => genOf[u] \notin cancelled'
    <3>1. Superseded(status) \in SUBSET Turns
      BY DEF Superseded
    <3>2. QED BY <2>1, <3>1, CancelKeeps, SupersededHold
  <2>4. WorkType'
    <3>1. \A u \in Turns : (requested[u] \/ work[u] # "IDLE") \in BOOLEAN
      OBVIOUS
    <3>2. requested' \in [Turns -> BOOLEAN]
      BY <2>1, <3>1
    <3>3. step \in Steps
      BY DEF Steps
    <3>4. QED BY <2>1, <2>2, <2>3, <3>2, <3>3 DEF IInv, TypeOK, WorkType
  <2>5. /\ work'[t] = step /\ \A u \in Turns : u # t => work'[u] = work[u]
    BY <2>2 DEF IInv, TypeOK
  <2>6. Custody'
    <3> SUFFICES ASSUME NEW u \in Turns
                 PROVE  /\ genOf[u] # 0 <=> work'[u] \in Holding
                        /\ genOf[u] # 0 => turnOf[genOf[u]] = u /\ generation'[genOf[u]] # "UNUSED"
                        /\ work'[u] \in {"ADMITTED", "REFUSED", "PUBLISHING"} => generation'[genOf[u]] # "ACTIVE"
                        /\ work'[u] = "PUBLISHING" => genOf[u] \notin cancelled'
      BY <2>1 DEF Custody
    <3>1. CASE u = t
      <4>1. work[u] \notin Holding /\ step \notin Holding
        BY <2>1, <3>1 DEF Holding, Registered, Executing
      <4>2. QED BY <2>5, <3>1, <4>1, HeldGeneration
    <3>2. CASE u # t
      <4>1. work[u] \in {"ADMITTED", "REFUSED", "PUBLISHING"} => genOf[u] # 0
        BY DEF IInv, Custody, Holding, Registered, Executing
      <4>2. QED BY <2>3, <2>5, <3>2, <4>1, HeldGeneration DEF IInv, Custody, Onward
    <3>3. QED BY <3>1, <3>2
  <2>7. QED BY <2>1, <2>4, <2>5, <2>6
<1>3. QED BY <1>1, <1>2

\* The work goes on as it was, or begins: an active generation is still executed.
LEMMA StillExecuted ==
  ASSUME IInv, Onward, UNCHANGED genOf, \A u \in Turns : work[u] # "IDLE" => work'[u] = work[u],
         recovery' \in {"TURN", "DONE"} => recovery \in {"TURN", "DONE"}
  PROVE  ActiveGenerationIsExecuted'
BY DEF IInv, ActiveGenerationIsExecuted, Onward

\* Withdrawing generations of the session, the work left as it is.
LEMMA CancelStep == ASSUME IInv, NEW g \in Generations, Cancel(g) PROVE IInv'
<1>1. /\ Withdraw({g}) /\ UNCHANGED sessionFrame /\ UNCHANGED frame
      /\ UNCHANGED <<work, requested, epochAt, genOf, cancelled, ended>>
      /\ cancels' \in SUBSET Generations
  BY DEF Cancel, IInv, TypeOK
<1>2. GenerationType' /\ Onward
  BY <1>1, WithdrawKeeps DEF IInv, GenerationType
<1>3. Custody' /\ ActiveGenerationIsExecuted'
  BY <1>1, <1>2, Bystanders DEF sessionFrame, frame
<1>4. TypeOK' /\ EpochBound'
  BY <1>1, <1>2 DEF IInv, TypeOK, EpochBound, GenerationType, sessionFrame, frame
<1>5. QED BY <1>3, <1>4 DEF IInv

LEMMA ShowKeeps == ASSUME IInv, NEW g \in Generations, Show(g) PROVE IInv'
<1>1. /\ UNCHANGED sessionFrame /\ UNCHANGED frame /\ UNCHANGED workVars /\ generation' = generation
      /\ output' \in [Generations -> {"NONE", "QUEUED", "SHOWN", "CANCELLED"}]
  BY DEF Show, IInv, TypeOK
<1>2. Onward
  BY <1>1 DEF Onward
<1>3. Custody' /\ ActiveGenerationIsExecuted'
  BY <1>1, <1>2, Bystanders DEF sessionFrame, frame, workVars
<1>4. TypeOK' /\ EpochBound'
  BY <1>1 DEF IInv, TypeOK, EpochBound, sessionFrame, frame, workVars
<1>5. QED BY <1>3, <1>4 DEF IInv

\* A step that changes neither the session nor the work.
LEMMA IdleKeeps ==
  ASSUME IInv, UNCHANGED sessionVars, UNCHANGED workVars,
         phase' \in {"UP", "CLOSING", "STOPPING", "STOPPED", "DOWN"},
         recovery' \in {"NONE", "CLEANING", "TURN", "DONE"},
         requests' \in SUBSET (0 .. MaxTurns),
         left' \in [changes : 0 .. MaxChanges, resends : 0 .. MaxResends,
                    crashes : 0 .. MaxCrashes, stops : 0 .. MaxStops, all : 0 .. MaxDisturbances],
         left'.changes <= left.changes,
         recovery' \in {"TURN", "DONE"} => recovery \in {"TURN", "DONE"}
  PROVE  IInv'
<1>1. Custody' /\ ActiveGenerationIsExecuted'
  BY SameGenerations, Bystanders DEF sessionVars, workVars
<1>2. TypeOK'
  BY DEF IInv, TypeOK, sessionVars, workVars
<1>3. EpochBound'
  <2>1. left.changes \in Nat /\ left'.changes \in Nat /\ epoch \in Nat
    BY OrchestrationAssumption DEF IInv, TypeOK
  <2>2. QED BY <2>1, OrchestrationAssumption DEF IInv, EpochBound, sessionVars
<1>4. QED BY <1>1, <1>2, <1>3 DEF IInv

\* What a disturbance leaves of the bounds.
LEMMA SpendType ==
  ASSUME TypeOK, NEW what \in {"changes", "resends", "crashes", "stops"}, Spend(what)
  PROVE  /\ left' \in [changes : 0 .. MaxChanges, resends : 0 .. MaxResends,
                       crashes : 0 .. MaxCrashes, stops : 0 .. MaxStops, all : 0 .. MaxDisturbances]
         /\ left'.changes = IF what = "changes" THEN left.changes - 1 ELSE left.changes
<1>1. /\ left.changes \in 0 .. MaxChanges /\ left.resends \in 0 .. MaxResends
      /\ left.crashes \in 0 .. MaxCrashes /\ left.stops \in 0 .. MaxStops
      /\ left.all \in 0 .. MaxDisturbances /\ left.all > 0
      /\ left = [changes |-> left.changes, resends |-> left.resends, crashes |-> left.crashes,
                 stops |-> left.stops, all |-> left.all]
  BY DEF Spend, TypeOK
<1>2. CASE what = "changes"
  <2>1. left' = [changes |-> left.changes - 1, resends |-> left.resends,
                       crashes |-> left.crashes, stops |-> left.stops, all |-> left.all - 1] /\ left.changes > 0
    BY <1>1, <1>2 DEF Spend
  <2>2. QED BY <1>1, <1>2, <2>1, OrchestrationAssumption
<1>3. CASE what = "resends"
  <2>1. left' = [changes |-> left.changes, resends |-> left.resends - 1,
                       crashes |-> left.crashes, stops |-> left.stops, all |-> left.all - 1] /\ left.resends > 0
    BY <1>1, <1>3 DEF Spend
  <2>2. QED BY <1>1, <1>3, <2>1, OrchestrationAssumption
<1>4. CASE what = "crashes"
  <2>1. left' = [changes |-> left.changes, resends |-> left.resends,
                       crashes |-> left.crashes - 1, stops |-> left.stops, all |-> left.all - 1] /\ left.crashes > 0
    BY <1>1, <1>4 DEF Spend
  <2>2. QED BY <1>1, <1>4, <2>1, OrchestrationAssumption
<1>5. CASE what = "stops"
  <2>1. left' = [changes |-> left.changes, resends |-> left.resends,
                       crashes |-> left.crashes, stops |-> left.stops - 1, all |-> left.all - 1] /\ left.stops > 0
    BY <1>1, <1>5 DEF Spend
  <2>2. QED BY <1>1, <1>5, <2>1, OrchestrationAssumption
<1>6. QED BY <1>2, <1>3, <1>4, <1>5

LEMMA SendKeeps == ASSUME IInv, NEW t \in 0 .. MaxTurns, Send(t) PROVE IInv'
<1>1. /\ UNCHANGED sessionVars /\ UNCHANGED workVars /\ UNCHANGED <<phase, recovery>>
      /\ requests' \in SUBSET (0 .. MaxTurns)
  BY DEF Send, IInv, TypeOK
<1>2. UNCHANGED left \/ Spend("resends")
  BY DEF Send
<1>3. /\ left' \in [changes : 0 .. MaxChanges, resends : 0 .. MaxResends,
                     crashes : 0 .. MaxCrashes, stops : 0 .. MaxStops, all : 0 .. MaxDisturbances]
      /\ left'.changes <= left.changes
  BY <1>2, SpendType DEF IInv, TypeOK
<1>4. phase' \in {"UP", "CLOSING", "STOPPING", "STOPPED", "DOWN"} /\ recovery' \in {"NONE", "CLEANING", "TURN", "DONE"}
  BY <1>1 DEF IInv, TypeOK
<1>5. QED BY <1>1, <1>3, <1>4, IdleKeeps

LEMMA CommitInputKeeps == ASSUME IInv, CommitInput PROVE IInv'
<1>1. /\ UNCHANGED <<active, epoch, turnOf, phase, recovery, left>>
      /\ requests' \in SUBSET (0 .. MaxTurns)
  BY DEF CommitInput, IInv, TypeOK
<1>2. CASE active /\ latest < MaxTurns
  <2>1. /\ latest' = latest + 1 /\ Withdraw(Live) /\ Orchestrate(latest + 1, latest + 1, generation')
    BY <1>2 DEF CommitInput
  <2>2. latest + 1 \in Turns /\ latest' \in 0 .. MaxTurns
    BY <1>2, <2>1, OrchestrationAssumption DEF IInv, TypeOK, Turns
  <2>3. GenerationType' /\ Onward
    BY <2>1, WithdrawKeeps DEF IInv, GenerationType, Live
  <2>4. WorkType' /\ Custody' /\ UNCHANGED genOf /\ \A u \in Turns : work[u] # "IDLE" => work'[u] = work[u]
    BY <1>1, <2>1, <2>2, <2>3, OrchestrateKeeps
  <2>5. ActiveGenerationIsExecuted'
    BY <1>1, <2>3, <2>4, StillExecuted
  <2>6. TypeOK' /\ EpochBound'
    BY <1>1, <2>2, <2>3, <2>4 DEF IInv, TypeOK, EpochBound, WorkType, GenerationType
  <2>7. QED BY <2>4, <2>5, <2>6 DEF IInv
<1>3. CASE ~(active /\ latest < MaxTurns)
  <2>1. UNCHANGED sessionVars /\ UNCHANGED workVars
    BY <1>1, <1>3 DEF CommitInput, sessionVars
  <2>2. /\ phase' \in {"UP", "CLOSING", "STOPPING", "STOPPED", "DOWN"}
        /\ recovery' \in {"NONE", "CLEANING", "TURN", "DONE"}
        /\ left' \in [changes : 0 .. MaxChanges, resends : 0 .. MaxResends,
                       crashes : 0 .. MaxCrashes, stops : 0 .. MaxStops, all : 0 .. MaxDisturbances]
        /\ left'.changes <= left.changes
    BY <1>1 DEF IInv, TypeOK
  <2>3. QED BY <1>1, <2>1, <2>2, IdleKeeps
<1>4. QED BY <1>2, <1>3

\* The orchestration of t in a session that stays as it is.
LEMMA OrchestrateStep ==
  ASSUME IInv, NEW t \in Turns, Orchestrate(t, latest, generation), UNCHANGED sessionVars,
         UNCHANGED <<phase, left>>, requests' \in SUBSET (0 .. MaxTurns),
         recovery' \in {"TURN", "DONE"},
         recovery \in {"TURN", "DONE"} \/ \A g \in Generations : generation[g] # "ACTIVE"
  PROVE  IInv'
<1>1. GenerationType' /\ Onward /\ generation' = generation /\ turnOf' = turnOf
  BY SameGenerations DEF sessionVars
<1>2. WorkType' /\ Custody' /\ UNCHANGED genOf /\ \A u \in Turns : work[u] # "IDLE" => work'[u] = work[u]
  BY <1>1, OrchestrateKeeps
<1>3. ActiveGenerationIsExecuted'
  BY <1>1, <1>2 DEF IInv, ActiveGenerationIsExecuted
<1>4. TypeOK' /\ EpochBound'
  BY <1>2 DEF IInv, TypeOK, EpochBound, WorkType, sessionVars
<1>5. QED BY <1>2, <1>3, <1>4 DEF IInv

LEMMA ReplayCommitKeeps == ASSUME IInv, NEW t \in Turns, ReplayCommit(t) PROVE IInv'
<1>1. /\ Orchestrate(t, latest, generation) /\ UNCHANGED sessionVars /\ UNCHANGED <<phase, recovery, left>>
      /\ recovery = "DONE" /\ requests' \in SUBSET (0 .. MaxTurns)
  BY DEF ReplayCommit, IInv, TypeOK
<1>2. QED BY <1>1, OrchestrateStep

LEMMA ChangeKeeps == ASSUME IInv, NEW moves \in BOOLEAN, Change(moves) PROVE IInv'
<1>1. /\ Withdraw(Live) /\ Spend("changes") /\ epoch' = (IF moves THEN epoch + 1 ELSE epoch)
      /\ UNCHANGED <<latest, active, turnOf, phase, recovery, requests, workVars>>
  BY DEF Change
<1>2. GenerationType' /\ Onward
  BY <1>1, WithdrawKeeps DEF IInv, GenerationType, Live
<1>3. /\ left' \in [changes : 0 .. MaxChanges, resends : 0 .. MaxResends,
                     crashes : 0 .. MaxCrashes, stops : 0 .. MaxStops, all : 0 .. MaxDisturbances]
      /\ left'.changes = left.changes - 1
  BY <1>1, SpendType DEF IInv
<1>4. epoch' \in 0 .. MaxChanges /\ EpochBound'
  <2>1. left.changes \in Nat /\ left'.changes \in Nat /\ epoch \in Nat
    BY <1>3 DEF IInv, TypeOK
  <2>2. QED BY <1>1, <1>3, <2>1, OrchestrationAssumption DEF IInv, EpochBound
<1>5. Custody' /\ ActiveGenerationIsExecuted'
  BY <1>1, <1>2, Bystanders DEF workVars
<1>6. TypeOK'
  BY <1>1, <1>2, <1>3, <1>4 DEF IInv, TypeOK, GenerationType, workVars
<1>7. QED BY <1>4, <1>5, <1>6 DEF IInv

\* A command or the shutdown that signals executions, the steps left as they are.
LEMMA SignalKeeps ==
  ASSUME IInv, NEW T \in SUBSET Turns, \A u \in T : work[u] \in Holding, CancelGeneration(T),
         Onward, turnOf' = turnOf, UNCHANGED <<work, genOf>>,
         recovery' \in {"TURN", "DONE"} => recovery \in {"TURN", "DONE"}
  PROVE  /\ Custody' /\ ActiveGenerationIsExecuted'
         /\ cancelled' \in SUBSET Generations /\ cancels' \in SUBSET Generations
<1>1. /\ cancelled' \in SUBSET Generations /\ cancels' \in SUBSET Generations
      /\ \A t \in Turns : work[t] = "PUBLISHING" => genOf[t] \notin cancelled'
  BY CancelKeeps
<1>2. Custody'
  <2> SUFFICES ASSUME NEW u \in Turns
               PROVE  /\ genOf[u] # 0 <=> work[u] \in Holding
                      /\ genOf[u] # 0 => turnOf[genOf[u]] = u /\ generation'[genOf[u]] # "UNUSED"
                      /\ work[u] \in {"ADMITTED", "REFUSED", "PUBLISHING"} => generation'[genOf[u]] # "ACTIVE"
                      /\ work[u] = "PUBLISHING" => genOf[u] \notin cancelled'
    BY DEF Custody
  <2>1. work[u] \in {"ADMITTED", "REFUSED", "PUBLISHING"} => genOf[u] # 0
    BY DEF IInv, Custody, Holding, Registered, Executing
  <2>2. QED BY <1>1, <2>1, HeldGeneration DEF IInv, Custody, Onward
<1>3. ActiveGenerationIsExecuted'
  BY StillExecuted
<1>4. QED BY <1>1, <1>2, <1>3

LEMMA EndSessionKeeps == ASSUME IInv, EndSession PROVE IInv'
<1>1. /\ Withdraw(Live) /\ CancelGeneration(Superseded(generation'))
      /\ requested' = [t \in Turns |-> requested[t] \/ work[t] # "IDLE"] /\ active' = FALSE
      /\ UNCHANGED <<latest, epoch, turnOf, frame, work, epochAt, genOf, ended>>
  BY DEF EndSession
<1>2. GenerationType' /\ Onward
  BY <1>1, WithdrawKeeps DEF IInv, GenerationType, Live
<1>3. Superseded(generation') \in SUBSET Turns
  BY DEF Superseded
<1>4. /\ Custody' /\ ActiveGenerationIsExecuted'
      /\ cancelled' \in SUBSET Generations /\ cancels' \in SUBSET Generations
  BY <1>1, <1>2, <1>3, SupersededHold, SignalKeeps DEF frame
<1>5. TypeOK'
  <2>1. requested' \in [Turns -> BOOLEAN]
    BY <1>1 DEF IInv, TypeOK
  <2>2. QED BY <1>1, <1>2, <1>4, <2>1 DEF IInv, TypeOK, GenerationType, frame
<1>6. EpochBound'
  BY <1>1 DEF IInv, EpochBound, frame
<1>7. QED BY <1>4, <1>5, <1>6 DEF IInv

LEMMA RecoveryKeeps == ASSUME IInv, BeginRecovery \/ Recovering PROVE IInv'
<1>1. CASE BeginRecovery
  <2>1. UNCHANGED sessionVars /\ UNCHANGED workVars /\ UNCHANGED <<phase, requests, left>> /\ recovery' = "CLEANING"
    BY <1>1 DEF BeginRecovery
  <2>2. QED BY <2>1, IdleKeeps DEF IInv, TypeOK
<1>2. CASE RecoverTurn
  <2>1. /\ UNCHANGED sessionVars /\ UNCHANGED <<phase, requests, left>>
        /\ \A g \in Generations : generation[g] # "ACTIVE"
    BY <1>2 DEF RecoverTurn, Stranded
  <2>2. CASE latest # 0 /\ recovery' = "TURN" /\ Orchestrate(latest, latest, generation)
    <3>1. latest \in Turns /\ requests' \in SUBSET (0 .. MaxTurns)
      BY <2>1, <2>2, OrchestrationAssumption DEF IInv, TypeOK, Turns
    <3>2. QED BY <2>1, <2>2, <3>1, OrchestrateStep
  <2>3. CASE recovery' = "DONE" /\ UNCHANGED workVars
    <3>1. TypeOK' /\ EpochBound'
      BY <2>1, <2>3 DEF IInv, TypeOK, EpochBound, sessionVars, workVars
    <3>2. Custody'
      BY <2>1, <2>3 DEF IInv, Custody, sessionVars, workVars
    <3>3. ActiveGenerationIsExecuted'
      BY <2>1 DEF ActiveGenerationIsExecuted, sessionVars
    <3>4. QED BY <3>1, <3>2, <3>3 DEF IInv
  <2>4. QED BY <1>2, <2>2, <2>3 DEF RecoverTurn
<1>3. CASE FinishRecovery
  <2>1. /\ UNCHANGED sessionVars /\ UNCHANGED workVars /\ UNCHANGED <<phase, requests, left>>
        /\ recovery = "TURN" /\ recovery' \in {"DONE", "NONE"}
    BY <1>3 DEF FinishRecovery
  <2>2. QED BY <2>1, IdleKeeps DEF IInv, TypeOK
<1>4. ASSUME NEW g \in Generations, CleanUp(g) PROVE IInv'
  <2>1. Withdraw({g}) /\ UNCHANGED sessionFrame /\ UNCHANGED frame /\ UNCHANGED workVars
    BY <1>4 DEF CleanUp
  <2>2. GenerationType' /\ Onward
    BY <2>1, WithdrawKeeps DEF IInv, GenerationType
  <2>3. Custody' /\ ActiveGenerationIsExecuted'
    BY <2>1, <2>2, Bystanders DEF sessionFrame, frame, workVars
  <2>4. TypeOK' /\ EpochBound'
    BY <2>1, <2>2 DEF IInv, TypeOK, EpochBound, GenerationType, sessionFrame, frame, workVars
  <2>5. QED BY <2>3, <2>4 DEF IInv
<1>5. QED BY <1>1, <1>2, <1>3, <1>4 DEF Recovering

LEMMA ProcessKeeps ==
  ASSUME IInv, Stop \/ RequestCancellationForShutdown \/ Stopped \/ Start \/ Crash \/ Boot
  PROVE  IInv'
<1>1. CASE Stop
  <2>1. /\ UNCHANGED sessionVars /\ UNCHANGED workVars /\ UNCHANGED <<recovery, requests>>
        /\ phase' = "CLOSING" /\ Spend("stops")
    BY <1>1 DEF Stop
  <2>2. /\ left' \in [changes : 0 .. MaxChanges, resends : 0 .. MaxResends,
                       crashes : 0 .. MaxCrashes, stops : 0 .. MaxStops, all : 0 .. MaxDisturbances]
        /\ left'.changes <= left.changes
    BY <2>1, SpendType DEF IInv, TypeOK
  <2>3. recovery' \in {"NONE", "CLEANING", "TURN", "DONE"} /\ requests' \in SUBSET (0 .. MaxTurns)
    BY <2>1 DEF IInv, TypeOK
  <2>4. QED BY <2>1, <2>2, <2>3, IdleKeeps
<1>2. CASE RequestCancellationForShutdown
  <2>1. /\ CancelGeneration({t \in Turns : work[t] \in Registered})
        /\ requested' = [t \in Turns |-> requested[t] \/ work[t] # "IDLE"] /\ phase' = "STOPPING"
        /\ UNCHANGED <<sessionVars, recovery, requests, work, epochAt, genOf, ended, left>>
    BY <1>2 DEF RequestCancellationForShutdown
  <2>2. \A u \in {t \in Turns : work[t] \in Registered} : work[u] \in Holding
    BY DEF Holding
  <2>3. /\ Custody' /\ ActiveGenerationIsExecuted'
        /\ cancelled' \in SUBSET Generations /\ cancels' \in SUBSET Generations
    <3>1. {t \in Turns : work[t] \in Registered} \in SUBSET Turns
      OBVIOUS
    <3>2. Onward /\ turnOf' = turnOf
      BY <2>1, SameGenerations DEF sessionVars
    <3>3. QED BY <2>1, <2>2, <3>1, <3>2, SignalKeeps
  <2>4. requested' \in [Turns -> BOOLEAN]
    BY <2>1 DEF IInv, TypeOK
  <2>5. TypeOK' /\ EpochBound'
    BY <2>1, <2>3, <2>4 DEF IInv, TypeOK, EpochBound, sessionVars
  <2>6. QED BY <2>3, <2>5 DEF IInv
<1>3. CASE Stopped \/ Start \/ Boot
  <2>1. /\ UNCHANGED sessionVars /\ UNCHANGED workVars /\ UNCHANGED <<requests, left>>
        /\ phase' \in {"STOPPED", "UP"} /\ recovery' \in {recovery, "NONE"}
    BY <1>3 DEF Stopped, Start, Boot
  <2>2. QED BY <2>1, IdleKeeps DEF IInv, TypeOK
<1>4. CASE Crash
  <2>1. /\ UNCHANGED sessionVars /\ Spend("crashes") /\ phase' = "DOWN" /\ recovery' = "NONE" /\ requests' = {}
        /\ work' = [t \in Turns |-> "IDLE"] /\ requested' = [t \in Turns |-> FALSE]
        /\ epochAt' = [t \in Turns |-> 0] /\ genOf' = [t \in Turns |-> 0]
        /\ cancelled' = {} /\ cancels' = {} /\ ended' = [t \in Turns |-> "NEVER"]
    BY <1>4 DEF Crash
  <2>2. /\ left' \in [changes : 0 .. MaxChanges, resends : 0 .. MaxResends,
                       crashes : 0 .. MaxCrashes, stops : 0 .. MaxStops, all : 0 .. MaxDisturbances]
        /\ left'.changes = left.changes
    BY <2>1, SpendType DEF IInv
  <2>3. TypeOK'
    BY <2>1, <2>2, OrchestrationAssumption DEF IInv, TypeOK, sessionVars, Steps
  <2>4. Custody'
    BY <2>1 DEF Custody, Holding, Registered, Executing
  <2>5. EpochBound' /\ ActiveGenerationIsExecuted'
    BY <2>1, <2>2 DEF IInv, EpochBound, ActiveGenerationIsExecuted, sessionVars
  <2>6. QED BY <2>3, <2>4, <2>5 DEF IInv
<1>5. QED BY <1>1, <1>2, <1>3, <1>4

-----------------------------------------------------------------------------
(* The theorems. *)

LEMMA InitInductive == Init => IInv
<1> SUFFICES ASSUME Init PROVE IInv
  OBVIOUS
<1>1. TypeOK
  BY OrchestrationAssumption DEF Init, TypeOK, Steps
<1>2. Custody
  BY DEF Init, Custody, Holding, Registered, Executing
<1>3. EpochBound /\ ActiveGenerationIsExecuted
  BY OrchestrationAssumption DEF Init, EpochBound, ActiveGenerationIsExecuted
<1>4. QED BY <1>1, <1>2, <1>3 DEF IInv

LEMMA InductiveStep == IInv /\ [Next]_vars => IInv'
<1> SUFFICES ASSUME IInv, [Next]_vars PROVE IInv'
  OBVIOUS
<1>1. CASE Provider
  BY <1>1, ResolutionKeeps, ExecutionKeeps DEF Provider
<1>2. ASSUME NEW t \in Turns, Proceed(t) PROVE IInv'
  BY <1>2, AnalyzedKeeps, SelectActionKeeps, ResolutionKeeps, StartGenerationKeeps, RegisterKeeps,
     ExecutionKeeps, AdmitProposalKeeps, ConcludeKeeps, FailKeeps, FinishCancellationKeeps, PublishedKeeps
     DEF Proceed
<1>3. ASSUME NEW g \in Generations, Cancel(g) \/ Show(g) PROVE IInv'
  BY <1>3, CancelStep, ShowKeeps
<1>4. ASSUME NEW t \in 0 .. MaxTurns, Send(t) PROVE IInv'
  BY <1>4, SendKeeps
<1>5. CASE Handle
  BY <1>5, CommitInputKeeps, ReplayCommitKeeps DEF Handle
<1>6. ASSUME NEW moves \in BOOLEAN, Change(moves) PROVE IInv'
  BY <1>6, ChangeKeeps
<1>7. CASE EndSession \/ BeginRecovery \/ Recovering
  BY <1>7, EndSessionKeeps, RecoveryKeeps
<1>8. CASE Stop \/ RequestCancellationForShutdown \/ Stopped \/ Start \/ Crash \/ Boot
  BY <1>8, ProcessKeeps
<1>9. CASE UNCHANGED vars
  <2>1. UNCHANGED sessionVars /\ UNCHANGED workVars /\ UNCHANGED <<phase, recovery, requests, left>>
    BY <1>9 DEF vars
  <2>2. QED BY <2>1, IdleKeeps DEF IInv, TypeOK
<1>10. QED BY <1>1, <1>2, <1>3, <1>4, <1>5, <1>6, <1>7, <1>8, <1>9 DEF Next

LEMMA Inductive == Spec => []IInv
BY InitInductive, InductiveStep, PTL DEF Spec

\* Every variable of the orchestration holds a value of its kind; in particular
\* whatever is cancelled is a generation (turn-orchestrator.ts:34-70).
THEOREM OrchestrationTypeCorrect == Spec => []TypeOK
<1>1. IInv => TypeOK
  BY DEF IInv
<1>2. QED BY Inductive, <1>1, PTL

\* In a process that has recovered its session, no failure, cancellation or
\* shutdown leaves a generation ACTIVE that nothing executes.
THEOREM NoOrphanedGeneration == Spec => []ActiveGenerationIsExecuted
<1>1. IInv => ActiveGenerationIsExecuted
  BY DEF IInv
<1>2. QED BY Inductive, <1>1, PTL

\* What ends leaves nothing alive and nothing queued, when it was cancelled.
LeavesNothing(t) ==
    genOf[t] \in cancelled /\ genOf'[t] # genOf[t] /\ phase' # "DOWN" =>
        generation'[genOf[t]] \notin LiveStatus /\ output'[genOf[t]] # "QUEUED"

\* The step of one orchestration leaves the generations of the others to them.
LEMMA OthersKeepTheirs ==
  ASSUME TypeOK, NEW t \in Turns, NEW u \in Turns, u # t,
         (\E how : End(t, how)) \/ (\E step : Goto(t, step)) \/ Register(t) \/ StartGeneration(t)
  PROVE  genOf'[u] = genOf[u]
BY DEF TypeOK, End, Goto, Register, StartGeneration

LEMMA ProceedLeavesNothing ==
  ASSUME IInv, NEW t \in Turns, Proceed(t) \/ Resolved(t) \/ Opened(t) \/ Streamed(t), genOf[t] \in cancelled
  PROVE  LeavesNothing(t)
<1>1. genOf[t] \in Generations /\ genOf[t] # 0
  <2>1. genOf[t] \in 0 .. MaxGenerations /\ cancelled \subseteq Generations /\ MaxGenerations \in Nat
    BY OrchestrationAssumption DEF IInv, TypeOK
  <2>2. genOf[t] \in Generations
    BY <2>1
  <2>3. QED BY <2>1, <2>2 DEF Generations
<1>2. work[t] \in Holding
  BY <1>1 DEF IInv, Custody
<1>3. CASE Analyzed(t) \/ SelectAction(t) \/ Resolved(t) \/ CancelResolution(t) \/ StartGeneration(t)
  <2>1. work[t] \in {"ANALYZING", "SELECTING", "RESOLVING", "STARTING"}
    BY <1>3 DEF Analyzed, SelectAction, Resolved, CancelResolution, StartGeneration
  <2>2. QED BY <1>2, <2>1 DEF Holding, Registered, Executing
<1>4. CASE Register(t) \/ Compile(t) \/ Opened(t) \/ Streamed(t) \/ CancelExecution(t) \/ AdmitProposal(t)
  <2>1. genOf' = genOf
    BY <1>4 DEF Register, Compile, Opened, Streamed, CancelExecution, AdmitProposal, Goto
  <2>2. QED BY <2>1 DEF LeavesNothing
<1>5. CASE Conclude(t)
  <2>1. Goto(t, "CANCELLING")
    BY <1>5 DEF Conclude, Cancelled
  <2>2. QED BY <2>1 DEF Goto, LeavesNothing
<1>6. CASE Fail(t) \/ FinishCancellation(t)
  <2>1. work[t] \in Executing /\ Withdraw({genOf[t]}) /\ UNCHANGED sessionFrame
    BY <1>6 DEF Fail, FinishCancellation, Failed, Executing
  <2>2. QED BY <2>1, WithdrawOwn DEF LeavesNothing
<1>7. CASE Published(t)
  BY <1>7 DEF Published, IInv, Custody
<1>8. QED BY <1>3, <1>4, <1>5, <1>6, <1>7 DEF Proceed

LEMMA StepLeavesNothing ==
  ASSUME IInv, [Next]_vars, NEW u \in Turns
  PROVE  LeavesNothing(u)
<1>1. ASSUME NEW t \in Turns, Proceed(t) \/ Resolved(t) \/ Opened(t) \/ Streamed(t) PROVE LeavesNothing(u)
  <2>1. CASE u = t
    BY <1>1, <2>1, ProceedLeavesNothing DEF LeavesNothing
  <2>2. CASE u # t
    <3>1. (\E how : End(t, how)) \/ (\E step : Goto(t, step)) \/ Register(t) \/ StartGeneration(t)
      BY <1>1 DEF Proceed, Analyzed, SelectAction, Resolved, CancelResolution, Compile, Opened, Streamed,
         CancelExecution, AdmitProposal, Conclude, Fail, FinishCancellation, Published
    <3>2. genOf'[u] = genOf[u]
      BY <2>2, <3>1, OthersKeepTheirs DEF IInv
    <3>3. QED BY <3>2 DEF LeavesNothing
  <2>3. QED BY <2>1, <2>2
<1>2. CASE Crash
  BY <1>2 DEF Crash, LeavesNothing
<1>3. CASE genOf' = genOf
  BY <1>3 DEF LeavesNothing
<1>4. ASSUME NEW t \in Turns, NEW l, NEW status, Orchestrate(t, l, status) PROVE genOf' = genOf
  BY <1>4 DEF Orchestrate, workVars
<1>5. CASE Handle \/ EndSession \/ BeginRecovery \/ Recovering
  <2>1. latest + 1 \in Turns \/ ~(latest < MaxTurns)
    BY OrchestrationAssumption DEF IInv, TypeOK, Turns
  <2>2. latest # 0 => latest \in Turns
    BY OrchestrationAssumption DEF IInv, TypeOK, Turns
  <2>3. CASE CommitInput
    BY <1>4, <2>1, <2>3, <1>3 DEF CommitInput, workVars
  <2>4. ASSUME NEW t \in Turns, ReplayCommit(t) PROVE LeavesNothing(u)
    BY <1>4, <2>4, <1>3 DEF ReplayCommit
  <2>5. CASE RecoverTurn
    BY <1>4, <2>2, <2>5, <1>3 DEF RecoverTurn, workVars
  <2>6. CASE EndSession \/ BeginRecovery \/ FinishRecovery \/ \E g \in Generations : CleanUp(g)
    BY <2>6, <1>3 DEF EndSession, BeginRecovery, FinishRecovery, CleanUp, workVars
  <2>7. QED BY <1>5, <2>3, <2>4, <2>5, <2>6 DEF Handle, Recovering
<1>6. CASE \/ \E g \in Generations : Cancel(g) \/ Show(g)
           \/ \E t \in 0 .. MaxTurns : Send(t)
           \/ \E moves \in BOOLEAN : Change(moves)
           \/ Stop \/ RequestCancellationForShutdown \/ Stopped \/ Start \/ Boot \/ UNCHANGED vars
  <2>1. genOf' = genOf
    BY <1>6 DEF Cancel, Show, Send, Change, Stop, RequestCancellationForShutdown, Stopped, Start, Boot, vars, workVars
  <2>2. QED BY <2>1, <1>3
<1>7. QED BY <1>1, <1>2, <1>5, <1>6 DEF Next, Provider

\* However a cancellation races the provider and the admission of its proposal,
\* the execution leaves no live generation and no queued answer.
THEOREM CancelledLeavesNothing == Spec => CancelledExecutionLeavesNothing
<1>1. IInv /\ [Next]_vars => [\A t \in Turns : genOf[t] \in cancelled /\ genOf'[t] # genOf[t] /\ phase' # "DOWN" =>
                                 /\ generation'[genOf[t]] \notin LiveStatus
                                 /\ output'[genOf[t]] # "QUEUED"]_vars
  BY StepLeavesNothing DEF LeavesNothing
<1>2. QED BY Inductive, <1>1, PTL DEF Spec, CancelledExecutionLeavesNothing
-----------------------------------------------------------------------------
(* No turn is answered twice. *)

\* What a client has been shown, or may still be.
Given(g) == output[g] \in {"QUEUED", "SHOWN"}

\* An answer is given by an admitted proposal only.
GivenAfterVerdict == \A g \in Generations : generation[g] \in {"UNUSED", "ACTIVE"} => output[g] = "NONE"

\* No work and no generation is of a turn that is not committed yet, and a
\* request names a committed turn only when a commit was sent again.
Committed ==
    /\ \A g \in Generations : turnOf[g] <= latest
    /\ \A t \in Turns : work[t] # "IDLE" => t <= latest
    /\ left.resends = MaxResends => requests \subseteq {0}

\* While a turn is worked on, nothing but the generation in hand has answered it.
OnlyInHand ==
    left.resends = MaxResends =>
        \A t \in Turns : work[t] # "IDLE" =>
            \A g \in Generations : turnOf[g] = t /\ Given(g) => g = genOf[t]

TwiceInv == GivenAfterVerdict /\ Committed /\ OnlyInHand /\ NoTurnIsAnsweredTwice

\* A step that gives no answer, starts no generation and takes up no turn.
LEMMA NothingGiven ==
  ASSUME IInv, TwiceInv, UNCHANGED turnOf, latest' = latest \/ latest' = latest + 1,
         \A g \in Generations : Given(g)' => Given(g),
         GivenAfterVerdict',
         left'.resends = MaxResends => left.resends = MaxResends /\ requests' \subseteq {0},
         \A t \in Turns : work'[t] # "IDLE" => work[t] # "IDLE" /\ genOf'[t] = genOf[t]
  PROVE  TwiceInv'
<1>1. latest \in Nat /\ \A g \in Generations : turnOf[g] \in Nat
  BY OrchestrationAssumption DEF IInv, TypeOK
<1>2. Committed'
  BY <1>1, OrchestrationAssumption DEF TwiceInv, Committed, Turns
<1>3. OnlyInHand'
  BY DEF TwiceInv, OnlyInHand
<1>4. NoTurnIsAnsweredTwice'
  BY DEF TwiceInv, NoTurnIsAnsweredTwice, Given
<1>5. QED BY <1>2, <1>3, <1>4 DEF TwiceInv

\* The statuses and outputs that a withdrawal leaves.
LEMMA WithdrawGives ==
  ASSUME TypeOK, TwiceInv, NEW G \in SUBSET Generations, Withdraw(G)
  PROVE  /\ \A g \in Generations : Given(g)' => Given(g)
         /\ GivenAfterVerdict'
BY DEF Withdraw, Given, TwiceInv, GivenAfterVerdict, Live, LiveStatus, TypeOK

\* A queued answer that is shown was given before.
LEMMA ShowGives ==
  ASSUME TypeOK, TwiceInv, NEW g \in Generations, UNCHANGED generation,
         UNCHANGED output \/ (Deliverable(g) /\ output' = [output EXCEPT ![g] = "SHOWN"])
  PROVE  /\ \A h \in Generations : Given(h)' => Given(h)
         /\ GivenAfterVerdict'
BY DEF Deliverable, Given, TwiceInv, GivenAfterVerdict, TypeOK

\* A session that does not change gives nothing.
LEMMA SameGiven ==
  ASSUME TwiceInv, UNCHANGED <<generation, output>>
  PROVE  (\A g \in Generations : Given(g)' => Given(g)) /\ GivenAfterVerdict'
BY DEF Given, TwiceInv, GivenAfterVerdict

\* Orchestrations end, or go on with the generation they have.
LEMMA SameHands ==
  ASSUME IInv, NEW t \in Turns, work[t] # "IDLE",
         (\E how : End(t, how)) \/ (\E step : Goto(t, step)) \/ Register(t)
  PROVE  \A u \in Turns : work'[u] # "IDLE" => work[u] # "IDLE" /\ genOf'[u] = genOf[u]
BY DEF End, Goto, Register, IInv, TypeOK

\* Orchestrate takes up at most its own turn, and only if it is the latest.
LEMMA OrchestrateBegins ==
  ASSUME IInv, NEW t \in Turns, NEW l, NEW status, Orchestrate(t, l, status)
  PROVE  /\ UNCHANGED <<genOf, ended>>
         /\ \A u \in Turns : \/ work'[u] = work[u]
                             \/ u = t /\ t = l /\ work[u] = "IDLE" /\ work'[u] = "ANALYZING"
<1>1. CASE UNCHANGED workVars
  BY <1>1 DEF workVars
<1>2. CASE ~UNCHANGED workVars
  BY <1>2 DEF Orchestrate, IInv, TypeOK
<1>3. QED BY <1>1, <1>2

LEMMA StartGenerationGives == ASSUME IInv, TwiceInv, NEW t \in Turns, StartGeneration(t) PROVE TwiceInv'
<1>1. work[t] = "STARTING" /\ UNCHANGED <<latest, requests, left>>
  BY DEF StartGeneration, frame
<1>2. CASE End(t, "STALE") /\ UNCHANGED <<generation, turnOf, output>>
  BY <1>1, <1>2, SameHands, SameGiven, NothingGiven DEF TwiceInv, Committed
<1>3. ASSUME NEW g \in Generations, generation[g] = "UNUSED", t = latest,
             generation' = [generation EXCEPT ![g] = "ACTIVE"], turnOf' = [turnOf EXCEPT ![g] = t],
             genOf' = [genOf EXCEPT ![t] = g], work' = [work EXCEPT ![t] = "STARTED"],
             UNCHANGED output
      PROVE  TwiceInv'
  <2>1. output[g] = "NONE" /\ ~Given(g)
    BY <1>3 DEF TwiceInv, GivenAfterVerdict, Given
  <2>2. GivenAfterVerdict'
    BY <1>3, <2>1 DEF IInv, TypeOK, TwiceInv, GivenAfterVerdict
  <2>3. latest \in Nat
    BY OrchestrationAssumption DEF IInv, TypeOK
  <2>4. /\ \A h \in Generations \ {g} : turnOf'[h] = turnOf[h]
        /\ turnOf'[g] = t /\ genOf'[t] = g
        /\ \A u \in Turns \ {t} : work'[u] = work[u] /\ genOf'[u] = genOf[u]
    BY <1>3 DEF IInv, TypeOK
  <2>5. Committed'
    BY <1>1, <1>3, <2>3, <2>4 DEF TwiceInv, Committed
  <2>6. left.resends = MaxResends => \A h \in Generations : turnOf[h] = t /\ Given(h) => FALSE
    <3>1. genOf[t] = 0
      BY <1>1, HeldGeneration DEF Holding, Registered, Executing
    <3>2. \A h \in Generations : h # 0
      BY OrchestrationAssumption DEF Generations
    <3>3. QED BY <1>1, <3>1, <3>2 DEF TwiceInv, OnlyInHand
  <2>7. \A h \in Generations : Given(h)' <=> Given(h)
    BY <1>3 DEF Given
  <2>8. OnlyInHand'
    BY <1>1, <2>1, <2>4, <2>6, <2>7 DEF TwiceInv, OnlyInHand
  <2>9. NoTurnIsAnsweredTwice'
    BY <1>1, <1>3, <2>1, <2>4 DEF TwiceInv, NoTurnIsAnsweredTwice, Given
  <2>10. QED BY <2>2, <2>5, <2>8, <2>9 DEF TwiceInv
<1>4. QED BY <1>2, <1>3 DEF StartGeneration

\* The verdict: the one step that gives an answer.
LEMMA AdmitProposalGives == ASSUME IInv, TwiceInv, NEW t \in Turns, AdmitProposal(t) PROVE TwiceInv'
<1> DEFINE g == genOf[t]
<1>1. /\ work[t] = "ADMITTING" /\ UNCHANGED <<latest, turnOf, requests, left>>
      /\ \E step : Goto(t, step)
  BY DEF AdmitProposal, sessionFrame, frame
<1>2. g \in Generations /\ turnOf[g] = t
  <2>1. work[t] \in Holding
    BY <1>1 DEF Holding, Registered, Executing
  <2>2. g \in Generations /\ g # 0
    BY <2>1, HeldGeneration, OrchestrationAssumption DEF Generations
  <2>3. QED BY <2>2 DEF IInv, Custody
<1>3. \A u \in Turns : work'[u] # "IDLE" => work[u] # "IDLE" /\ genOf'[u] = genOf[u]
  BY <1>1, SameHands
<1>4. CASE UNCHANGED output /\ (UNCHANGED generation
             \/ \E verdict \in {"REJECTED", "SUPERSEDED"} : generation' = [generation EXCEPT ![g] = verdict])
  <2>1. GivenAfterVerdict' /\ \A h \in Generations : Given(h)' => Given(h)
    BY <1>2, <1>4 DEF IInv, TypeOK, TwiceInv, GivenAfterVerdict, Given
  <2>2. QED BY <1>1, <1>3, <2>1, NothingGiven DEF TwiceInv, Committed
<1>5. CASE /\ generation[g] = "ACTIVE"
           /\ generation' = [generation EXCEPT ![g] = "VALIDATED"]
           /\ output' = [output EXCEPT ![g] = "QUEUED"]
  <2>1. GivenAfterVerdict'
    BY <1>2, <1>5 DEF IInv, TypeOK, TwiceInv, GivenAfterVerdict
  <2>2. Committed'
    BY <1>1, <1>3 DEF TwiceInv, Committed
  <2>3. \A h \in Generations : Given(h)' => Given(h) \/ h = g
    BY <1>2, <1>5 DEF Given, IInv, TypeOK
  <2>4. left.resends = MaxResends => \A h \in Generations : turnOf[h] = t /\ Given(h) => h = g
    BY <1>1 DEF TwiceInv, OnlyInHand
  <2>5. OnlyInHand'
    BY <1>1, <1>2, <1>3, <2>3 DEF TwiceInv, OnlyInHand
  <2>6. NoTurnIsAnsweredTwice'
    <3> SUFFICES ASSUME left.resends = MaxResends, NEW h \in Generations, NEW k \in Generations,
                        turnOf[h] = turnOf[k], turnOf[h] # 0, Given(h)', Given(k)'
                 PROVE  h = k
      BY <1>1 DEF NoTurnIsAnsweredTwice, Given
    <3>1. CASE h = g \/ k = g
      BY <1>2, <2>3, <2>4, <3>1
    <3>2. CASE h # g /\ k # g
      <4>1. Given(h) /\ Given(k)
        BY <2>3, <3>2
      <4>2. QED BY <4>1 DEF TwiceInv, NoTurnIsAnsweredTwice, Given
    <3>3. QED BY <3>1, <3>2
  <2>7. QED BY <2>1, <2>2, <2>5, <2>6 DEF TwiceInv
<1>6. QED BY <1>4, <1>5 DEF AdmitProposal

LEMMA ProceedGives == ASSUME IInv, TwiceInv, NEW t \in Turns, Proceed(t) \/ Resolved(t) \/ Opened(t) \/ Streamed(t)
                      PROVE  TwiceInv'
<1>1. left.resends = MaxResends => requests \subseteq {0}
  BY DEF TwiceInv, Committed
<1>2. CASE \/ Analyzed(t) \/ SelectAction(t) \/ Resolved(t) \/ CancelResolution(t) \/ Register(t)
           \/ Compile(t) \/ Opened(t) \/ Streamed(t) \/ CancelExecution(t) \/ Conclude(t)
  <2>1. UNCHANGED sessionVars /\ UNCHANGED frame /\ work[t] # "IDLE"
    BY <1>2 DEF Analyzed, SelectAction, Resolved, CancelResolution, Register, Compile, Opened,
       Streamed, CancelExecution, Conclude
  <2>2. (\E how : End(t, how)) \/ (\E step : Goto(t, step)) \/ Register(t)
    BY <1>2 DEF Analyzed, SelectAction, Resolved, CancelResolution, Compile, Opened, Streamed,
       CancelExecution, Conclude
  <2>3. QED BY <1>1, <2>1, <2>2, SameHands, SameGiven, NothingGiven DEF sessionVars, frame
<1>3. CASE Fail(t) \/ FinishCancellation(t)
  <2>1. /\ work[t] # "IDLE" /\ work[t] \in Executing /\ Withdraw({genOf[t]})
        /\ UNCHANGED sessionFrame /\ UNCHANGED frame
        /\ (\E how : End(t, how)) \/ (\E step : Goto(t, step))
    BY <1>3 DEF Fail, FinishCancellation, Failed, Executing
  <2>2. {genOf[t]} \in SUBSET Generations
    BY <2>1, WithdrawOwn
  <2>3. QED BY <1>1, <2>1, <2>2, SameHands, WithdrawGives, NothingGiven DEF sessionFrame, frame, IInv
<1>4. CASE Published(t)
  <2>1. /\ work[t] = "PUBLISHING" /\ UNCHANGED sessionFrame /\ UNCHANGED frame /\ UNCHANGED generation
        /\ \E how : End(t, how)
        /\ UNCHANGED output \/ (Deliverable(genOf[t]) /\ output' = [output EXCEPT ![genOf[t]] = "SHOWN"])
    BY <1>4 DEF Published
  <2>2. genOf[t] \in Generations
    BY <2>1, HeldGeneration, ExecutionSteps
  <2>3. QED BY <1>1, <2>1, <2>2, SameHands, ShowGives, NothingGiven DEF sessionFrame, frame, IInv
<1>5. QED BY <1>2, <1>3, <1>4, StartGenerationGives, AdmitProposalGives DEF Proceed

\* A new commit takes up a turn that nothing has answered.
LEMMA CommitInputGives == ASSUME IInv, TwiceInv, CommitInput PROVE TwiceInv'
<1>1. /\ UNCHANGED <<turnOf, left>> /\ requests' \subseteq requests
      /\ left.resends = MaxResends => requests \subseteq {0}
  BY DEF CommitInput, TwiceInv, Committed
<1>2. CASE active /\ latest < MaxTurns
  <2>1. /\ latest' = latest + 1 /\ Withdraw(Live) /\ Orchestrate(latest + 1, latest + 1, generation')
    BY <1>2 DEF CommitInput
  <2>2. latest + 1 \in Turns /\ latest \in Nat
    BY <1>2, OrchestrationAssumption DEF IInv, TypeOK, Turns
  <2>3. GivenAfterVerdict' /\ \A g \in Generations : Given(g)' => Given(g)
    BY <2>1, WithdrawGives DEF IInv, Live
  <2>4. /\ UNCHANGED genOf
        /\ \A u \in Turns : work'[u] = work[u] \/ u = latest + 1
    BY <2>1, <2>2, OrchestrateBegins
  <2>5. \A g \in Generations : turnOf[g] \in Nat /\ turnOf[g] <= latest
    BY OrchestrationAssumption DEF IInv, TypeOK, TwiceInv, Committed
  <2>6. Committed'
    BY <1>1, <2>1, <2>2, <2>4, <2>5 DEF TwiceInv, Committed, Turns
  <2>7. OnlyInHand'
    <3>1. \A g \in Generations : turnOf[g] # latest + 1
      BY <2>2, <2>5
    <3>2. QED BY <1>1, <2>3, <2>4, <3>1 DEF TwiceInv, OnlyInHand
  <2>8. NoTurnIsAnsweredTwice'
    BY <1>1, <2>3 DEF TwiceInv, NoTurnIsAnsweredTwice, Given
  <2>9. QED BY <2>3, <2>6, <2>7, <2>8 DEF TwiceInv
<1>3. CASE ~(active /\ latest < MaxTurns)
  <2>1. UNCHANGED <<latest, generation, output>> /\ UNCHANGED workVars
    BY <1>3 DEF CommitInput
  <2>2. QED BY <1>1, <2>1, SameGiven, NothingGiven DEF workVars
<1>4. QED BY <1>2, <1>3

\* Outside a commit, a turn is taken up by a commit sent again, or by the recovery,
\* which asks first whether it has an answer.
LEMMA TakenUpGives ==
  ASSUME IInv, TwiceInv, NEW t \in Turns, Orchestrate(t, latest, generation),
         UNCHANGED sessionVars, UNCHANGED left, requests' \subseteq requests,
         left.resends = MaxResends => ~Answered(t)
  PROVE  TwiceInv'
<1>1. /\ UNCHANGED genOf
      /\ \A u \in Turns : work'[u] = work[u] \/ (u = t /\ t = latest)
  BY OrchestrateBegins
<1>2. UNCHANGED <<latest, turnOf, generation, output>>
  BY DEF sessionVars
<1>3. GivenAfterVerdict' /\ Committed' /\ NoTurnIsAnsweredTwice'
  <2>1. latest \in Nat
    BY OrchestrationAssumption DEF IInv, TypeOK
  <2>2. QED BY <1>1, <1>2, <2>1 DEF TwiceInv, GivenAfterVerdict, Committed, NoTurnIsAnsweredTwice
<1>4. OnlyInHand'
  <2>1. left.resends = MaxResends => \A g \in Generations : ~(turnOf[g] = t /\ Given(g))
    BY DEF Answered, Given
  <2>2. \A g \in Generations : Given(g)' <=> Given(g)
    BY <1>2 DEF Given
  <2>3. QED BY <1>1, <1>2, <2>1, <2>2 DEF TwiceInv, OnlyInHand
<1>5. QED BY <1>3, <1>4 DEF TwiceInv

\* What is spent of a bound is not given back.
LEMMA SpendTakes ==
  ASSUME TypeOK, NEW what \in {"changes", "resends", "crashes", "stops"}, Spend(what)
  PROVE  /\ left'.changes <= left.changes /\ left'.resends <= left.resends /\ left'.stops <= left.stops
         /\ left'[what] < left[what]
         /\ \A w \in {"changes", "resends", "crashes", "stops"} \ {what} : left'[w] = left[w]
<1>1. /\ left.changes \in Nat /\ left.resends \in Nat /\ left.crashes \in Nat /\ left.stops \in Nat
      /\ left = [changes |-> left.changes, resends |-> left.resends, crashes |-> left.crashes,
                 stops |-> left.stops, all |-> left.all]
  BY OrchestrationAssumption DEF TypeOK
<1>2. CASE what = "changes"
  <2>1. left' = [changes |-> left.changes - 1, resends |-> left.resends,
                 crashes |-> left.crashes, stops |-> left.stops, all |-> left.all - 1]
    BY <1>1, <1>2 DEF Spend
  <2>2. QED BY <1>1, <1>2, <2>1
<1>3. CASE what = "resends"
  <2>1. left' = [changes |-> left.changes, resends |-> left.resends - 1,
                 crashes |-> left.crashes, stops |-> left.stops, all |-> left.all - 1]
    BY <1>1, <1>3 DEF Spend
  <2>2. QED BY <1>1, <1>3, <2>1
<1>4. CASE what = "crashes"
  <2>1. left' = [changes |-> left.changes, resends |-> left.resends,
                 crashes |-> left.crashes - 1, stops |-> left.stops, all |-> left.all - 1]
    BY <1>1, <1>4 DEF Spend
  <2>2. QED BY <1>1, <1>4, <2>1
<1>5. CASE what = "stops"
  <2>1. left' = [changes |-> left.changes, resends |-> left.resends,
                 crashes |-> left.crashes, stops |-> left.stops - 1, all |-> left.all - 1]
    BY <1>1, <1>5 DEF Spend
  <2>2. QED BY <1>1, <1>5, <2>1
<1>6. QED BY <1>2, <1>3, <1>4, <1>5

LEMMA TwiceStep == IInv /\ TwiceInv /\ [Next]_vars => TwiceInv'
<1> SUFFICES ASSUME IInv, TwiceInv, [Next]_vars PROVE TwiceInv'
  OBVIOUS
<1>1. /\ left.resends \in Nat /\ left.resends <= MaxResends /\ MaxResends \in Nat
      /\ left.resends = MaxResends => requests \subseteq {0}
  BY OrchestrationAssumption DEF IInv, TypeOK, TwiceInv, Committed
<1>2. ASSUME UNCHANGED <<work, genOf>>, UNCHANGED sessionVars,
             left' = left \/ (\E what \in {"changes", "resends", "crashes", "stops"} : Spend(what)),
             left'.resends = MaxResends => requests' \subseteq requests
      PROVE  TwiceInv'
  <2>1. left'.resends = MaxResends => left.resends = MaxResends
    <3>1. CASE left' = left
      BY <3>1
    <3>2. ASSUME NEW what \in {"changes", "resends", "crashes", "stops"}, Spend(what)
          PROVE  left'.resends <= left.resends /\ left'.resends \in Nat
      BY <3>2, SpendTakes, SpendType, OrchestrationAssumption DEF IInv
    <3>3. QED BY <1>1, <1>2, <3>1, <3>2
  <2>2. QED BY <1>1, <1>2, <2>1, SameGiven, NothingGiven DEF sessionVars
<1>3. CASE Provider \/ \E t \in Turns : Proceed(t)
  BY <1>3, ProceedGives DEF Provider
<1>4. ASSUME NEW g \in Generations, Cancel(g) \/ CleanUp(g) PROVE TwiceInv'
  <2>1. /\ Withdraw({g}) /\ UNCHANGED sessionFrame /\ UNCHANGED frame /\ UNCHANGED <<work, genOf>>
    BY <1>4 DEF Cancel, CleanUp, workVars
  <2>2. QED BY <1>1, <2>1, WithdrawGives, NothingGiven DEF sessionFrame, frame, IInv
<1>5. ASSUME NEW g \in Generations, Show(g) PROVE TwiceInv'
  BY <1>1, <1>5, ShowGives, NothingGiven DEF Show, sessionFrame, frame, workVars, IInv
<1>6. ASSUME NEW t \in 0 .. MaxTurns, Send(t) PROVE TwiceInv'
  <2>1. UNCHANGED sessionVars /\ UNCHANGED <<work, genOf>> /\ requests' = requests \cup {t}
        /\ ((t = 0 /\ UNCHANGED left) \/ Spend("resends"))
    BY <1>6 DEF Send, workVars
  <2>2. left'.resends = MaxResends => t = 0 /\ left' = left
    <3>1. CASE Spend("resends")
      <4>1. left'.resends < left.resends /\ left'.resends \in Nat
        BY <3>1, SpendTakes, SpendType, OrchestrationAssumption DEF IInv
      <4>2. QED BY <1>1, <4>1
    <3>2. QED BY <2>1, <3>1
  <2>3. left'.resends = MaxResends => left.resends = MaxResends /\ requests' \subseteq {0}
    BY <1>1, <2>1, <2>2
  <2>4. QED BY <2>1, <2>3, SameGiven, NothingGiven DEF sessionVars
<1>7. ASSUME NEW t \in Turns, ReplayCommit(t) PROVE TwiceInv'
  <2>1. left.resends # MaxResends
    BY <1>1, <1>7, OrchestrationAssumption DEF ReplayCommit, Turns
  <2>2. QED BY <1>7, <2>1, TakenUpGives DEF ReplayCommit
<1>8. ASSUME NEW moves \in BOOLEAN, Change(moves) PROVE TwiceInv'
  <2>1. /\ Withdraw(Live) /\ UNCHANGED <<latest, turnOf, requests>> /\ UNCHANGED <<work, genOf>>
        /\ left'.resends = left.resends
    BY <1>8, SpendTakes DEF Change, workVars, IInv
  <2>2. QED BY <1>1, <2>1, WithdrawGives, NothingGiven DEF Live, IInv
<1>9. CASE EndSession
  <2>1. Withdraw(Live) /\ UNCHANGED <<latest, turnOf, requests, left>> /\ UNCHANGED <<work, genOf>>
    BY <1>9 DEF EndSession, frame
  <2>2. QED BY <1>1, <2>1, WithdrawGives, NothingGiven DEF Live, IInv
<1>10. CASE RecoverTurn
  <2>1. CASE latest # 0 /\ ~Answered(latest) /\ Orchestrate(latest, latest, generation)
    <3>1. latest \in Turns
      BY <2>1, OrchestrationAssumption DEF IInv, TypeOK, Turns
    <3>2. QED BY <1>10, <2>1, <3>1, TakenUpGives DEF RecoverTurn
  <2>2. CASE UNCHANGED workVars
    BY <1>2, <1>10, <2>2 DEF RecoverTurn, workVars
  <2>3. QED BY <1>10, <2>1, <2>2 DEF RecoverTurn
<1>11. CASE Crash
  <2>1. UNCHANGED sessionVars /\ requests' = {} /\ work' = [t \in Turns |-> "IDLE"]
        /\ left'.resends = left.resends
    BY <1>11, SpendTakes DEF Crash, IInv
  <2>2. QED BY <2>1, SameGiven, NothingGiven DEF sessionVars
<1>12. CASE \/ BeginRecovery \/ FinishRecovery \/ Stop \/ RequestCancellationForShutdown
            \/ Stopped \/ Start \/ Boot \/ UNCHANGED vars
  BY <1>2, <1>12 DEF BeginRecovery, FinishRecovery, Stop, RequestCancellationForShutdown, Stopped,
     Start, Boot, vars, workVars
<1>13. QED
  BY <1>3, <1>4, <1>5, <1>6, <1>7, <1>8, <1>9, <1>10, <1>11, <1>12, CommitInputGives
     DEF Next, Handle, Recovering

LEMMA Twice == Spec => []TwiceInv
<1>1. Init => TwiceInv
  BY OrchestrationAssumption DEF Init, TwiceInv, GivenAfterVerdict, Committed, OnlyInHand,
     NoTurnIsAnsweredTwice
<1>2. QED BY <1>1, Inductive, TwiceStep, PTL DEF Spec

\* However crashes, failures, recoveries and stops interleave with the provider, two
\* generations never both answer one turn, as long as no commit is sent again
\* (turn-orchestrator.ts:178-260; recoverPendingTurns looks at what was delivered).
THEOREM TurnsAnsweredOnce == Spec => []NoTurnIsAnsweredTwice
<1>1. TwiceInv => NoTurnIsAnsweredTwice
  BY DEF TwiceInv
<1>2. QED BY <1>1, Twice, PTL

-----------------------------------------------------------------------------
(* No turn is stranded. *)

\* Nothing but crashes has disturbed the session: it is up or down, its epoch has
\* not moved, and nothing is in flight before it is recovered, or before its first
\* turn is committed.
Calm ==
    /\ phase \in {"UP", "DOWN"} /\ (phase = "DOWN" => recovery = "NONE")
    /\ epoch = 0 /\ \A t \in Turns : epochAt[t] = 0
    /\ recovery \in {"NONE", "CLEANING"} => \A t \in Turns : work[t] = "IDLE"
    /\ latest = 0 => cancelled \cup cancels = {}

Unstarted == {"ANALYZING", "SELECTING", "RESOLVING", "STARTING"}
Unjudged == {"STARTED", "COMPILING", "OPENING", "STREAMING", "ADMITTING"}

\* A generation that some turn other than t has started.
Foreign(g, t) == turnOf[g] # t /\ generation[g] # "UNUSED"

\* Nobody cancels the work on turn t, and its generation is alive until it is
\* judged, and then until it has been published.
Unhindered(t) ==
    /\ work[t] # "IDLE" => ~requested[t]
    /\ work[t] # "CANCELLING"
    /\ \A g \in cancelled \cup cancels : Foreign(g, t)
    /\ work[t] \in Unstarted => \A g \in Generations : turnOf[g] = t => generation[g] \notin LiveStatus
    /\ work[t] \in Unjudged => generation[genOf[t]] = "ACTIVE"
    /\ work[t] \in {"ADMITTED", "PUBLISHING"} => generation[genOf[t]] = "VALIDATED"

LeftOnPurpose == {"WAIT", "FAILED", "RETRYABLE", "REJECTED"}

\* Work on turn t that has ended has answered it, or left it on purpose.
EndedWell(t) ==
    recovery \in {"TURN", "DONE"} /\ work[t] = "IDLE" /\ ~Answered(t) => ended[t] \in LeftOnPurpose

StrandInv ==
    Undisturbed => /\ Calm
                   /\ active => \A t \in Turns : t = latest => Unhindered(t) /\ EndedWell(t)

LEMMA StrandGives == TypeOK /\ StrandInv => NoTurnIsStranded
<1> SUFFICES ASSUME TypeOK, StrandInv, Ready, Undisturbed, active, latest # 0,
                    work[latest] = "IDLE", ~Answered(latest)
             PROVE  ended[latest] \in LeftOnPurpose
  BY DEF NoTurnIsStranded, LeftOnPurpose
<1>1. latest \in Turns
  BY OrchestrationAssumption DEF TypeOK, Turns
<1>2. QED BY <1>1 DEF StrandInv, EndedWell, Ready

\* The generation in hand is one, of the turn it is held for.
LEMMA InHand ==
  ASSUME IInv, NEW t \in Turns, work[t] \in Holding
  PROVE  genOf[t] \in Generations /\ turnOf[genOf[t]] = t
<1>1. genOf[t] \in Generations /\ genOf[t] # 0
  BY HeldGeneration, OrchestrationAssumption DEF Generations
<1>2. QED BY <1>1 DEF IInv, Custody

\* Turn t as it was: neither its work nor its generations are touched.
LEMMA TurnStays ==
  ASSUME IInv, NEW t \in Turns, Unhindered(t), EndedWell(t),
         work'[t] = work[t], requested'[t] = requested[t], genOf'[t] = genOf[t], ended'[t] = ended[t],
         \A g \in Generations : turnOf'[g] = t <=> turnOf[g] = t,
         \A g \in Generations : turnOf[g] = t => generation'[g] = generation[g] /\ (Given(g)' <=> Given(g)),
         cancelled' \cup cancels' \subseteq Generations,
         \A g \in cancelled' \cup cancels' : g \in cancelled \cup cancels \/ Foreign(g, t),
         Onward,
         recovery' \in {"TURN", "DONE"} => recovery \in {"TURN", "DONE"}
  PROVE  Unhindered(t)' /\ EndedWell(t)'
<1>1. work[t] \in Unjudged \cup {"ADMITTED", "PUBLISHING"} => genOf[t] \in Generations /\ turnOf[genOf[t]] = t
  BY InHand DEF Unjudged, Holding, Registered, Executing
<1>2. Unhindered(t)'
  <2>1. \A g \in cancelled' \cup cancels' : Foreign(g, t)'
    BY DEF Unhindered, Foreign, Onward
  <2>2. QED BY <1>1, <2>1 DEF Unhindered
<1>3. Answered(t)' <=> Answered(t)
  BY DEF Answered, Given
<1>4. EndedWell(t)'
  BY <1>3 DEF EndedWell
<1>5. QED BY <1>2, <1>4

\* What is signalled stays another turn's.
LEMMA ForeignStays ==
  ASSUME NEW t, Unhindered(t), cancelled \cup cancels \subseteq Generations, UNCHANGED turnOf, Onward
  PROVE  \A g \in cancelled \cup cancels : Foreign(g, t)'
BY DEF Unhindered, Foreign, Onward

\* The work on turn t goes on.
LEMMA TurnGoes ==
  ASSUME IInv, NEW t \in Turns, Unhindered(t), work[t] # "IDLE",
         NEW step \in Steps \ {"IDLE", "CANCELLING"}, Goto(t, step), UNCHANGED turnOf, Onward,
         step \in Unstarted => \A g \in Generations : turnOf[g] = t => generation'[g] \notin LiveStatus,
         step \in Unjudged => generation'[genOf[t]] = "ACTIVE",
         step \in {"ADMITTED", "PUBLISHING"} => generation'[genOf[t]] = "VALIDATED"
  PROVE  Unhindered(t)' /\ EndedWell(t)'
<1>1. work'[t] = step /\ UNCHANGED <<requested, genOf, cancelled, cancels>>
  BY DEF Goto, IInv, TypeOK
<1>2. \A g \in cancelled \cup cancels : Foreign(g, t)'
  BY ForeignStays DEF IInv, TypeOK
<1>3. QED BY <1>1, <1>2 DEF Unhindered, EndedWell

\* The work on turn t ends.
LEMMA TurnEnds ==
  ASSUME IInv, NEW t \in Turns, Unhindered(t), NEW how, End(t, how), UNCHANGED turnOf, Onward,
         how \in LeftOnPurpose \/ Answered(t)'
  PROVE  Unhindered(t)' /\ EndedWell(t)'
<1>1. /\ work'[t] = "IDLE" /\ ended'[t] = how
      /\ cancelled' \subseteq cancelled /\ UNCHANGED <<requested, cancels>>
  BY DEF End, IInv, TypeOK
<1>2. Unhindered(t)'
  <2>1. \A g \in cancelled \cup cancels : Foreign(g, t)'
    BY ForeignStays DEF IInv, TypeOK
  <2>2. QED BY <1>1, <2>1 DEF Unhindered, Unstarted, Unjudged
<1>3. QED BY <1>1, <1>2 DEF EndedWell

\* Nothing is in flight, and the session is still to be recovered.
LEMMA TurnWaits ==
  ASSUME IInv, NEW t \in Turns, Unhindered(t), work'[t] = "IDLE", UNCHANGED turnOf, Onward,
         cancelled' \subseteq cancelled, cancels' \subseteq cancels, recovery' \in {"NONE", "CLEANING"}
  PROVE  Unhindered(t)' /\ EndedWell(t)'
<1>1. \A g \in cancelled \cup cancels : Foreign(g, t)'
  BY ForeignStays DEF IInv, TypeOK
<1>2. QED BY <1>1 DEF Unhindered, EndedWell, Unstarted, Unjudged

-----------------------------------------------------------------------------
\* Statuses only go on, whatever an orchestration does.
LEMMA ProceedOnward ==
  ASSUME IInv, NEW t \in Turns, Proceed(t) \/ Resolved(t) \/ Opened(t) \/ Streamed(t)
  PROVE  Onward \/ StartGeneration(t)
<1>1. CASE generation' = generation
  BY <1>1 DEF Onward
<1>2. CASE Fail(t) \/ FinishCancellation(t)
  <2>1. work[t] \in Executing /\ Withdraw({genOf[t]}) /\ UNCHANGED sessionFrame
    BY <1>2 DEF Fail, FinishCancellation, Failed, Executing
  <2>2. QED BY <2>1, WithdrawOwn
<1>3. CASE AdmitProposal(t)
  <2>1. work[t] = "ADMITTING"
    BY <1>3 DEF AdmitProposal
  <2>2. genOf[t] \in Generations
    BY <2>1, InHand DEF Holding, Registered, Executing
  <2>3. QED BY <1>3, <2>2 DEF AdmitProposal, Onward, IInv, TypeOK
<1>4. QED
  BY <1>1, <1>2, <1>3 DEF Proceed, Analyzed, SelectAction, Resolved, CancelResolution, Register,
     Compile, Opened, Streamed, CancelExecution, Conclude, Published, sessionVars

\* Steps of the orchestration leave the calm as it is.
LEMMA ProceedCalm ==
  ASSUME IInv, TwiceInv, Calm, NEW t \in Turns, Proceed(t) \/ Resolved(t) \/ Opened(t) \/ Streamed(t)
  PROVE  Calm' /\ UNCHANGED <<latest, active>>
<1>1. UNCHANGED <<latest, active, phase, recovery, epoch, epochAt>> /\ work[t] # "IDLE"
  BY DEF Proceed, Analyzed, SelectAction, Resolved, CancelResolution, StartGeneration, Register,
     Compile, Opened, Streamed, CancelExecution, AdmitProposal, Conclude, Fail, Failed,
     FinishCancellation, Published, End, Goto, frame, sessionVars, sessionFrame
<1>2. recovery \notin {"NONE", "CLEANING"}
  BY <1>1 DEF Calm
<1>3. latest # 0
  BY <1>1, OrchestrationAssumption DEF TwiceInv, Committed, Turns
<1>4. QED BY <1>1, <1>2, <1>3 DEF Calm

\* The latest turn's own step, in an active session that nothing has disturbed.
LEMMA LatestProceeds ==
  ASSUME IInv, Calm, active, NEW t \in Turns, t = latest, Unhindered(t), EndedWell(t),
         Proceed(t) \/ Resolved(t) \/ Opened(t) \/ Streamed(t)
  PROVE  Unhindered(t)' /\ EndedWell(t)'
<1>1. work[t] # "IDLE" => ~requested[t] /\ epochAt[t] = epoch
  BY DEF Unhindered, Calm
<1>2. work[t] \in Holding => /\ genOf[t] \in Generations /\ turnOf[genOf[t]] = t
                             /\ genOf[t] \notin cancelled
  BY InHand DEF Unhindered, Foreign
<1>3. CASE Analyzed(t) \/ SelectAction(t) \/ Resolved(t)
  <2>1. work[t] \in Unstarted /\ UNCHANGED sessionVars /\ Onward
    BY <1>3, SameGenerations DEF Analyzed, SelectAction, Resolved, Unstarted
  <2>2. CASE End(t, "WAIT") \/ End(t, "RETRYABLE")
    <3>1. "WAIT" \in LeftOnPurpose /\ "RETRYABLE" \in LeftOnPurpose
      BY DEF LeftOnPurpose
    <3>2. UNCHANGED turnOf
      BY <2>1 DEF sessionVars
    <3>3. QED BY <2>1, <2>2, <3>1, <3>2, TurnEnds
  <2>3. ASSUME NEW step \in {"SELECTING", "RESOLVING", "STARTING"}, Goto(t, step)
        PROVE  Unhindered(t)' /\ EndedWell(t)'
    <3>1. step \in Steps \ {"IDLE", "CANCELLING"} /\ work[t] # "IDLE"
          /\ step \notin Unjudged /\ step \notin {"ADMITTED", "PUBLISHING"}
      BY <2>1 DEF Steps, Unstarted, Unjudged
    <3>2. \A g \in Generations : turnOf[g] = t => generation'[g] \notin LiveStatus
      BY <2>1 DEF Unhindered, sessionVars
    <3>3. UNCHANGED turnOf
      BY <2>1 DEF sessionVars
    <3>4. QED BY <2>1, <2>3, <3>1, <3>2, <3>3, TurnGoes
  <2>4. QED BY <1>1, <1>3, <2>1, <2>2, <2>3 DEF Analyzed, SelectAction, Resolved, Unstarted
<1>4. CASE CancelResolution(t)
  BY <1>1, <1>4 DEF CancelResolution
<1>5. CASE StartGeneration(t)
  <2>1. work[t] = "STARTING" /\ \A g \in Live : turnOf[g] # t
    BY <1>5 DEF StartGeneration, Unhindered, Unstarted, Live
  <2>2. PICK g \in Generations :
          /\ generation[g] = "UNUSED"
          /\ generation' = [generation EXCEPT ![g] = "ACTIVE"] /\ turnOf' = [turnOf EXCEPT ![g] = t]
          /\ genOf' = [genOf EXCEPT ![t] = g] /\ work' = [work EXCEPT ![t] = "STARTED"]
          /\ UNCHANGED <<requested, cancelled, cancels>>
    BY <1>5, <2>1 DEF StartGeneration
  <2>3. /\ work'[t] = "STARTED" /\ genOf'[t] = g /\ generation'[g] = "ACTIVE"
        /\ \A h \in Generations \ {g} : turnOf'[h] = turnOf[h]
    BY <2>2 DEF IInv, TypeOK
  <2>4. ASSUME NEW h \in cancelled \cup cancels PROVE Foreign(h, t)'
    <3>1. h \in Generations /\ Foreign(h, t)
      BY DEF Unhindered, IInv, TypeOK
    <3>2. h # g
      BY <2>2, <3>1 DEF Foreign
    <3>3. QED BY <2>2, <2>3, <3>1, <3>2 DEF Foreign, IInv, TypeOK
  <2>5. QED BY <1>1, <2>1, <2>2, <2>3, <2>4 DEF Unhindered, EndedWell, Unstarted, Unjudged
<1>6. CASE Register(t)
  <2>1. /\ work[t] = "STARTED" /\ generation[genOf[t]] = "ACTIVE" /\ ~requested[t]
    BY <1>1, <1>6 DEF Register, Unhindered, Unjudged
  <2>2. /\ work'[t] = "COMPILING"
        /\ UNCHANGED <<requested, genOf, cancelled, cancels>> /\ UNCHANGED sessionVars
    BY <1>6, <2>1 DEF Register, LiveStatus, IInv, TypeOK
  <2>3. \A g \in cancelled \cup cancels : Foreign(g, t)'
    BY <2>2, ForeignStays, SameGenerations DEF sessionVars, IInv, TypeOK
  <2>4. QED BY <2>1, <2>2, <2>3 DEF Unhindered, EndedWell, Unstarted, Unjudged, sessionVars
<1>7. CASE Compile(t) \/ Opened(t) \/ Streamed(t) \/ CancelExecution(t)
  <2>1. work[t] \in Unjudged /\ work[t] \in Executing /\ UNCHANGED sessionVars /\ Onward
    BY <1>7, SameGenerations DEF Compile, Opened, Streamed, CancelExecution, Unjudged, Executing
  <2>2. genOf[t] \notin cancelled
    BY <1>2, <2>1, ExecutionSteps
  <2>3. PICK step \in {"OPENING", "STREAMING", "ADMITTING", "UNCOMPILED", "UNOPENED", "BROKEN"} : Goto(t, step)
    BY <1>7, <2>2 DEF Compile, Opened, Streamed, CancelExecution, Cancelled
  <2>4. step \in Steps \ {"IDLE", "CANCELLING"} /\ work[t] # "IDLE"
        /\ step \notin Unstarted /\ step \notin {"ADMITTED", "PUBLISHING"}
    BY <2>1 DEF Steps, Registered, Executing, Unstarted
  <2>5. generation'[genOf[t]] = "ACTIVE"
    BY <2>1 DEF Unhindered, sessionVars
  <2>6. QED BY <2>1, <2>3, <2>4, <2>5, TurnGoes DEF sessionVars
<1>8. CASE AdmitProposal(t)
  <2>1. /\ work[t] = "ADMITTING" /\ genOf[t] \in Generations /\ UNCHANGED turnOf
        /\ generation[genOf[t]] = "ACTIVE"
    BY <1>2, <1>8 DEF AdmitProposal, sessionFrame, Holding, Registered, Executing, Unhindered, Unjudged
  <2>2. Onward
    BY <1>8, <2>1, ProceedOnward DEF Proceed, StartGeneration
  <2>3. PICK step \in {"ADMITTED", "REFUSED", "UNADMITTED"} :
          Goto(t, step) /\ (step = "ADMITTED" => generation' = [generation EXCEPT ![genOf[t]] = "VALIDATED"])
    BY <1>8 DEF AdmitProposal, Goto, IInv, TypeOK
  <2>4. step \in Steps \ {"IDLE", "CANCELLING"} /\ step \notin Unstarted /\ step \notin Unjudged
        /\ step # "PUBLISHING"
    BY DEF Steps, Registered, Executing, Unstarted, Unjudged
  <2>5. step = "ADMITTED" => generation'[genOf[t]] = "VALIDATED"
    BY <2>1, <2>3 DEF IInv, TypeOK
  <2>6. QED BY <2>1, <2>2, <2>3, <2>4, <2>5, TurnGoes
<1>9. CASE Conclude(t)
  <2>1. work[t] \in {"ADMITTED", "REFUSED"} /\ UNCHANGED sessionVars /\ Onward /\ genOf[t] \notin cancelled
    BY <1>2, <1>9, SameGenerations DEF Conclude, Holding, Registered, Executing
  <2>2. CASE work[t] = "ADMITTED" /\ Goto(t, "PUBLISHING")
    <3>1. "PUBLISHING" \in Steps \ {"IDLE", "CANCELLING"} /\ "PUBLISHING" \notin Unstarted
          /\ "PUBLISHING" \notin Unjudged /\ generation'[genOf[t]] = "VALIDATED"
      BY <2>1, <2>2 DEF Steps, Registered, Unstarted, Unjudged, Unhindered, sessionVars
    <3>2. QED BY <2>1, <2>2, <3>1, TurnGoes DEF sessionVars
  <2>3. CASE End(t, "REJECTED")
    BY <2>1, <2>3, TurnEnds DEF LeftOnPurpose, sessionVars
  <2>4. QED BY <1>9, <2>1, <2>2, <2>3 DEF Conclude, Cancelled
<1>10. CASE Fail(t)
  <2>1. work[t] \in Executing /\ UNCHANGED turnOf /\ Onward
    BY <1>10, ProceedOnward DEF Fail, Failed, Executing, sessionFrame, Proceed, StartGeneration
  <2>2. genOf[t] \notin cancelled
    BY <1>2, <2>1, ExecutionSteps
  <2>3. End(t, FailedAt(t)) /\ FailedAt(t) \in LeftOnPurpose
    BY <1>10, <2>2 DEF Fail, Cancelled, FailedAt, LeftOnPurpose
  <2>4. QED BY <2>1, <2>3, TurnEnds
<1>11. CASE FinishCancellation(t)
  BY <1>11 DEF FinishCancellation, Unhindered
<1>12. CASE Published(t)
  <2>1. /\ work[t] = "PUBLISHING" /\ UNCHANGED <<turnOf, generation>> /\ \E how : End(t, how)
    BY <1>12 DEF Published, sessionFrame
  <2>2. /\ genOf[t] \in Generations /\ turnOf[genOf[t]] = t
        /\ generation[genOf[t]] = "VALIDATED" /\ Onward
    BY <1>2, <2>1, ExecutionSteps DEF Unhindered, Onward
  <2>3. Answered(t)'
    BY <2>1, <2>2 DEF Answered
  <2>4. QED BY <2>1, <2>2, <2>3, TurnEnds
<1>13. QED
  BY <1>3, <1>4, <1>5, <1>6, <1>7, <1>8, <1>9, <1>10, <1>11, <1>12 DEF Proceed


\* A step of another turn's orchestration touches only that turn's generation.
LEMMA OtherProceeds ==
  ASSUME IInv, NEW l \in Turns, l = latest, Unhindered(l), EndedWell(l), NEW t \in Turns, t # l,
         Proceed(t) \/ Resolved(t) \/ Opened(t) \/ Streamed(t)
  PROVE  Unhindered(l)' /\ EndedWell(l)'
<1>1. /\ UNCHANGED <<turnOf, recovery>>
      /\ work'[l] = work[l] /\ requested'[l] = requested[l] /\ genOf'[l] = genOf[l] /\ ended'[l] = ended[l]
  <2>1. CASE StartGeneration(t)
    BY <2>1 DEF StartGeneration, End, frame, IInv, TypeOK
  <2>2. CASE Register(t)
    BY <2>2 DEF Register, sessionVars, frame, IInv, TypeOK
  <2>3. CASE Published(t)
    BY <2>3 DEF Published, End, sessionFrame, frame, IInv, TypeOK
  <2>4. CASE (\E how : End(t, how)) \/ (\E step : Goto(t, step))
    <3>1. UNCHANGED <<turnOf, recovery>> \/ StartGeneration(t)
      BY DEF Proceed, Analyzed, SelectAction, Resolved, CancelResolution, Register, Compile, Opened,
         Streamed, CancelExecution, AdmitProposal, Conclude, Fail, FinishCancellation, Published,
         sessionVars, sessionFrame, frame
    <3>2. QED BY <2>1, <2>4, <3>1 DEF End, Goto, IInv, TypeOK
  <2>5. QED
    BY <2>1, <2>2, <2>3, <2>4 DEF Proceed, Analyzed, SelectAction, Resolved, CancelResolution, Compile,
       Opened, Streamed, CancelExecution, AdmitProposal, Conclude, Fail, FinishCancellation
<1>2. genOf[t] # 0 => genOf[t] \in Generations /\ turnOf[genOf[t]] # l /\ generation[genOf[t]] # "UNUSED"
  BY HeldGeneration DEF IInv, Custody
<1>3. work[t] \in Holding => genOf[t] # 0
  BY DEF IInv, Custody
<1>4. Onward
  <2>1. CASE StartGeneration(t)
    BY <2>1 DEF StartGeneration, Onward
  <2>2. QED BY <2>1, ProceedOnward
<1>5. \A g \in Generations : turnOf[g] = l => generation'[g] = generation[g] /\ (Given(g)' <=> Given(g))
  <2>1. CASE UNCHANGED <<generation, output>>
    BY <2>1 DEF Given
  <2>2. CASE Fail(t) \/ FinishCancellation(t)
    <3>1. work[t] \in Holding /\ Withdraw({genOf[t]})
      BY <2>2, ExecutionSteps DEF Fail, FinishCancellation, Failed, Executing
    <3>2. QED BY <1>2, <1>3, <3>1 DEF Withdraw, Given
  <2>3. CASE AdmitProposal(t)
    <3>1. work[t] \in Holding
      BY <2>3, ExecutionSteps DEF AdmitProposal, Executing
    <3>2. QED BY <1>2, <1>3, <2>3, <3>1 DEF AdmitProposal, Given, IInv, TypeOK
  <2>4. CASE Published(t)
    <3>1. work[t] \in Holding /\ UNCHANGED generation
      BY <2>4, ExecutionSteps DEF Published
    <3>2. QED BY <1>2, <1>3, <2>4, <3>1 DEF Published, Given, IInv, TypeOK
  <2>5. QED
    BY <2>1, <2>2, <2>3, <2>4 DEF Proceed, Analyzed, SelectAction, Resolved, CancelResolution,
       StartGeneration, Register, Compile, Opened, Streamed, CancelExecution, Conclude, sessionVars
<1>6. cancelled' \cup cancels' \subseteq cancelled \cup cancels \cup {genOf[t]}
  BY DEF Proceed, Analyzed, SelectAction, Resolved, CancelResolution, StartGeneration, Register,
     Compile, Opened, Streamed, CancelExecution, AdmitProposal, Conclude, Fail, FinishCancellation,
     Published, End, Goto
<1>7. genOf[t] = 0 => cancelled' \cup cancels' \subseteq cancelled \cup cancels
  <2>1. CASE Register(t)
    BY <1>3, <2>1 DEF Register, Holding
  <2>2. CASE ~Register(t)
    BY <2>2 DEF Proceed, Analyzed, SelectAction, Resolved, CancelResolution, StartGeneration,
       Compile, Opened, Streamed, CancelExecution, AdmitProposal, Conclude, Fail, FinishCancellation,
       Published, End, Goto
  <2>3. QED BY <2>1, <2>2
<1>8. /\ cancelled' \cup cancels' \subseteq Generations
      /\ \A g \in cancelled' \cup cancels' : g \in cancelled \cup cancels \/ Foreign(g, l)
  BY <1>2, <1>6, <1>7 DEF IInv, TypeOK, Foreign
<1>9. QED BY <1>1, <1>4, <1>5, <1>8, TurnStays

-----------------------------------------------------------------------------
\* A withdrawal of a generation of another turn, or an answer that is shown, leaves
\* the latest turn as it was.
LEMMA OutsideStays ==
  ASSUME IInv, NEW l \in Turns, Unhindered(l), EndedWell(l), NEW g \in Generations, Cancel(g) \/ Show(g)
  PROVE  Unhindered(l)' /\ EndedWell(l)'
<1>1. /\ UNCHANGED <<turnOf, recovery, work, requested, genOf, ended>>
      /\ cancelled' \cup cancels' \subseteq cancelled \cup cancels
      /\ cancelled \cup cancels \subseteq Generations
  BY DEF Cancel, Show, sessionFrame, frame, workVars, IInv, TypeOK
<1>2. Onward
  BY WithdrawKeeps DEF Cancel, Show, Onward, IInv
<1>3. \A h \in Generations : turnOf[h] = l => generation'[h] = generation[h] /\ (Given(h)' <=> Given(h))
  <2>1. CASE Cancel(g)
    <3>1. turnOf[g] # l /\ Withdraw({g})
      BY <2>1 DEF Cancel, Unhindered, Foreign
    <3>2. QED BY <3>1 DEF Withdraw, Given
  <2>2. CASE Show(g)
    BY <2>2 DEF Show, Deliverable, Given, IInv, TypeOK
  <2>3. QED BY <2>1, <2>2
<1>4. QED BY <1>1, <1>2, <1>3, TurnStays

\* A new commit: nothing is of the new turn yet, and what is cancelled is older.
LEMMA CommitInputUnhindered ==
  ASSUME IInv, TwiceInv, Calm, active, CommitInput, \A t \in Turns : t = latest => Unhindered(t) /\ EndedWell(t)
  PROVE  Calm' /\ \A t \in Turns : t = latest' => Unhindered(t)' /\ EndedWell(t)'
<1>1. recovery = "DONE" /\ phase = "UP" /\ UNCHANGED <<active, epoch, turnOf, phase, recovery>>
  BY DEF CommitInput, Calm
<1>2. CASE latest < MaxTurns
  <2> SUFFICES ASSUME NEW l \in Turns, l = latest + 1
               PROVE  Calm' /\ \A t \in Turns : t = latest' => Unhindered(t)' /\ EndedWell(t)'
    <3>1. latest + 1 \in Turns
      BY <1>2, OrchestrationAssumption DEF IInv, TypeOK, Turns
    <3>2. QED BY <3>1
  <2>1. latest' = l /\ Withdraw(Live) /\ Orchestrate(l, l, generation')
    BY <1>2 DEF CommitInput
  <2>2. l \in Turns /\ latest \in Nat
    BY OrchestrationAssumption DEF IInv, TypeOK
  <2>3. \A g \in Generations : turnOf[g] \in Nat /\ turnOf[g] <= latest
    BY OrchestrationAssumption DEF IInv, TypeOK, TwiceInv, Committed
  <2>4. work[l] = "IDLE"
    BY <2>2 DEF TwiceInv, Committed
  <2>5. /\ work' = [work EXCEPT ![l] = "ANALYZING"] /\ requested'[l] = FALSE
        /\ epochAt' = [epochAt EXCEPT ![l] = epoch] /\ CancelGeneration(Superseded(generation'))
    <3>1. AcceptingWork /\ \A g \in Generations : turnOf[g] # l
      BY <1>1, <2>2, <2>3 DEF AcceptingWork
    <3>2. QED BY <2>1, <2>2, <2>4, <3>1 DEF Orchestrate
  <2>6. Onward
    BY <2>1, WithdrawKeeps DEF IInv, Live
  <2>7. Calm'
    BY <1>1, <2>1, <2>2, <2>5 DEF Calm, IInv, TypeOK
  <2>8. ASSUME NEW g \in cancelled' \cup cancels' PROVE Foreign(g, l)'
    <3>1. CASE g \in cancelled \cup cancels
      <4>1. latest \in Turns
        BY <2>2, <3>1, OrchestrationAssumption DEF Calm, IInv, TypeOK, Turns
      <4>2. generation[g] # "UNUSED" /\ g \in Generations
        BY <3>1, <4>1 DEF Unhindered, Foreign, IInv, TypeOK
      <4>3. QED BY <1>1, <2>2, <2>3, <2>6, <4>2 DEF Foreign, Onward
    <3>2. ASSUME NEW u \in Superseded(generation'), g = genOf[u] PROVE Foreign(g, l)'
      <4>1. u \in Turns /\ work[u] \in Holding
        BY SupersededHold
      <4>2. g \in Generations /\ generation[g] # "UNUSED"
        BY <3>2, <4>1, HeldGeneration DEF IInv, Custody
      <4>3. QED BY <1>1, <2>2, <2>3, <2>6, <4>2 DEF Foreign, Onward
    <3>3. QED BY <2>5, <3>1, <3>2 DEF CancelGeneration
  <2>9. Unhindered(l)' /\ EndedWell(l)'
    <3>1. work'[l] = "ANALYZING"
      BY <2>2, <2>5 DEF IInv, TypeOK
    <3>2. \A g \in Generations : turnOf'[g] # l
      BY <1>1, <2>2, <2>3
    <3>3. QED BY <2>5, <2>8, <3>1, <3>2 DEF Unhindered, EndedWell, Unstarted, Unjudged
  <2>10. QED BY <2>1, <2>7, <2>9
<1>3. CASE ~(latest < MaxTurns)
  <2>1. UNCHANGED <<latest, generation, output>> /\ UNCHANGED workVars
    BY <1>3 DEF CommitInput
  <2>2. UNCHANGED <<work, requested, epochAt, genOf, cancelled, cancels, ended>>
    BY <2>1 DEF workVars
  <2>3. Calm'
    BY <1>1, <2>1, <2>2 DEF Calm
  <2>4. Onward /\ \A g \in Generations : Given(g)' <=> Given(g)
    BY <2>1 DEF Onward, Given
  <2>5. cancelled' \cup cancels' \subseteq Generations
    BY <2>2 DEF IInv, TypeOK
  <2>6. QED BY <1>1, <2>1, <2>2, <2>3, <2>4, <2>5, TurnStays
<1>4. QED BY <1>2, <1>3

\* The recovery takes up the latest turn, unless it has an answer.
LEMMA RecoverTurnUnhindered ==
  ASSUME IInv, Calm, RecoverTurn, active => \A t \in Turns : t = latest => Unhindered(t) /\ EndedWell(t)
  PROVE  Calm' /\ (active => \A t \in Turns : t = latest => Unhindered(t)' /\ EndedWell(t)')
<1>1. /\ recovery = "CLEANING" /\ phase = "UP" /\ UNCHANGED sessionVars /\ UNCHANGED phase
      /\ \A t \in Turns : work[t] = "IDLE"
      /\ \A g \in Generations : generation[g] # "ACTIVE"
  BY DEF RecoverTurn, Calm, Stranded
<1>2. UNCHANGED <<latest, epoch, turnOf, generation, output>> /\ Onward
  BY <1>1, SameGenerations DEF sessionVars
<1>3. CASE active /\ latest # 0 /\ ~Answered(latest)
  <2> DEFINE l == latest
  <2>1. recovery' = "TURN" /\ Orchestrate(l, l, generation) /\ l \in Turns
    BY <1>3, OrchestrationAssumption DEF RecoverTurn, IInv, TypeOK, Turns
  <2>2. \A g \in Generations : turnOf[g] = l => generation[g] # "VALIDATED"
    BY <1>3 DEF Answered
  <2>3. /\ work' = [work EXCEPT ![l] = "ANALYZING"] /\ requested'[l] = FALSE
        /\ epochAt' = [epochAt EXCEPT ![l] = epoch]
        /\ CancelGeneration({})
    <3>1. AcceptingWork /\ Superseded(generation) = {}
      BY <1>1 DEF AcceptingWork, Superseded, Registered, Executing
    <3>2. QED BY <1>1, <2>1, <2>2, <3>1 DEF Orchestrate
  <2>4. UNCHANGED <<cancelled, cancels>>
    BY <2>3 DEF CancelGeneration
  <2>5. Calm'
    BY <1>1, <1>2, <2>1, <2>3, <2>4 DEF Calm, IInv, TypeOK
  <2>6. ASSUME NEW t \in Turns, t = l PROVE Unhindered(t)' /\ EndedWell(t)'
    <3>1. work'[t] = "ANALYZING" /\ ~requested'[t]
      BY <2>1, <2>3, <2>6 DEF IInv, TypeOK
    <3>2. \A g \in Generations : turnOf'[g] = t => generation'[g] \notin LiveStatus
      BY <1>1, <1>2, <2>2, <2>6 DEF LiveStatus
    <3>3. \A g \in cancelled' \cup cancels' : Foreign(g, t)'
      BY <1>2, <1>3, <2>4, <2>6, ForeignStays DEF IInv, TypeOK
    <3>4. QED BY <3>1, <3>2, <3>3 DEF Unhindered, EndedWell, Unstarted, Unjudged
  <2>7. QED BY <2>5, <2>6
<1>4. CASE ~(active /\ latest # 0 /\ ~Answered(latest))
  <2>1. recovery' = "DONE" /\ UNCHANGED workVars
    BY <1>4 DEF RecoverTurn
  <2>2. UNCHANGED <<work, requested, epochAt, genOf, cancelled, cancels, ended>>
    BY <2>1 DEF workVars
  <2>3. Calm'
    BY <1>1, <1>2, <2>1, <2>2 DEF Calm
  <2>4. ASSUME active, NEW t \in Turns, t = latest PROVE Unhindered(t)' /\ EndedWell(t)'
    <3>1. Answered(t)
      BY <1>4, <2>4, OrchestrationAssumption DEF Turns
    <3>2. Answered(t)'
      BY <1>2, <3>1 DEF Answered
    <3>3. \A g \in cancelled' \cup cancels' : Foreign(g, t)'
      BY <1>2, <2>2, <2>4, ForeignStays DEF IInv, TypeOK
    <3>4. work'[t] = "IDLE"
      BY <1>1, <2>2
    <3>5. QED BY <3>2, <3>3, <3>4 DEF Unhindered, EndedWell, Unstarted, Unjudged
  <2>5. QED BY <2>3, <2>4
<1>5. QED BY <1>3, <1>4

LEMMA StrandStep == IInv /\ TwiceInv /\ StrandInv /\ [Next]_vars => StrandInv'
<1> SUFFICES ASSUME IInv, TwiceInv, StrandInv, [Next]_vars, Undisturbed'
             PROVE  Calm' /\ (active' => \A t \in Turns : t = latest' => Unhindered(t)' /\ EndedWell(t)')
  BY DEF StrandInv
<1>1. ASSUME NEW what \in {"changes", "resends", "stops"}, Spend(what) PROVE FALSE
  <2>1. left'[what] < left[what] /\ left'[what] \in Nat /\ left[what] \in Nat
    BY <1>1, SpendTakes, SpendType, OrchestrationAssumption DEF IInv, TypeOK
  <2>2. left.changes <= MaxChanges /\ left.resends <= MaxResends /\ left.stops <= MaxStops
    BY OrchestrationAssumption DEF IInv, TypeOK
  <2>3. QED BY <2>1, <2>2, OrchestrationAssumption DEF Undisturbed
<1>2. left' = left \/ Spend("crashes")
  BY <1>1 DEF Next, Provider, Proceed, Analyzed, SelectAction, Resolved, CancelResolution, StartGeneration,
     Register, Compile, Opened, Streamed, CancelExecution, AdmitProposal, Conclude, Fail,
     FinishCancellation, Published, frame, Cancel, Show, Send, Change, Handle, CommitInput,
     ReplayCommit, EndSession, BeginRecovery, Recovering, RecoverTurn, FinishRecovery, CleanUp, Stop,
     RequestCancellationForShutdown, Stopped, Start, Crash, Boot, vars
<1>3. Undisturbed
  BY <1>2, SpendTakes DEF Undisturbed, IInv
<1>4. Calm /\ (active => \A t \in Turns : t = latest => Unhindered(t) /\ EndedWell(t))
  BY <1>3 DEF StrandInv
<1>5. phase \in {"UP", "DOWN"} /\ (phase = "DOWN" => recovery = "NONE")
  BY <1>4 DEF Calm
<1>6. ASSUME NEW t \in Turns, Proceed(t) \/ Resolved(t) \/ Opened(t) \/ Streamed(t)
      PROVE  Calm' /\ (active' => \A l \in Turns : l = latest' => Unhindered(l)' /\ EndedWell(l)')
  <2>1. Calm' /\ UNCHANGED <<latest, active>>
    BY <1>4, <1>6, ProceedCalm
  <2>2. ASSUME active, NEW l \in Turns, l = latest PROVE Unhindered(l)' /\ EndedWell(l)'
    BY <1>4, <1>6, <2>2, LatestProceeds, OtherProceeds
  <2>3. QED BY <2>1, <2>2
<1>7. ASSUME NEW g \in Generations, Cancel(g) \/ Show(g)
      PROVE  Calm' /\ (active' => \A t \in Turns : t = latest' => Unhindered(t)' /\ EndedWell(t)')
  <2>1. /\ UNCHANGED <<phase, recovery, latest, active, epoch, epochAt, work>>
        /\ cancelled' \cup cancels' \subseteq cancelled \cup cancels
    BY <1>7 DEF Cancel, Show, sessionFrame, frame, workVars
  <2>2. Calm'
    BY <1>4, <2>1 DEF Calm
  <2>3. QED BY <1>4, <1>7, <2>1, <2>2, OutsideStays
<1>8. ASSUME UNCHANGED <<sessionVars, workVars>>, UNCHANGED <<phase, recovery>> \/ FinishRecovery
      PROVE  Calm' /\ (active' => \A t \in Turns : t = latest' => Unhindered(t)' /\ EndedWell(t)')
  <2>1. /\ UNCHANGED <<latest, active, epoch, generation, turnOf, output, phase>>
        /\ UNCHANGED <<work, requested, epochAt, genOf, cancelled, cancels, ended>>
        /\ recovery' = recovery \/ (recovery = "TURN" /\ recovery' = "DONE")
    BY <1>5, <1>8 DEF sessionVars, workVars, FinishRecovery, AcceptingWork
  <2>2. Calm'
    BY <1>4, <2>1 DEF Calm
  <2>3. Onward /\ \A g \in Generations : Given(g)' <=> Given(g)
    BY <2>1 DEF Onward, Given
  <2>4. cancelled' \cup cancels' \subseteq Generations
    BY <2>1 DEF IInv, TypeOK
  <2>5. QED BY <1>4, <2>1, <2>2, <2>3, <2>4, TurnStays
<1>9. ASSUME BeginRecovery \/ (\E g \in Generations : CleanUp(g)) \/ Crash \/ Boot
      PROVE  Calm' /\ (active' => \A t \in Turns : t = latest' => Unhindered(t)' /\ EndedWell(t)')
  <2>1. /\ UNCHANGED <<latest, active, epoch, turnOf>>
        /\ recovery' \in {"NONE", "CLEANING"} /\ phase' \in {"UP", "DOWN"}
        /\ phase' = "DOWN" => recovery' = "NONE"
        /\ cancelled' \subseteq cancelled /\ cancels' \subseteq cancels
    BY <1>5, <1>9 DEF BeginRecovery, CleanUp, Crash, Boot, Serving, sessionVars, sessionFrame, frame, workVars
  <2>2. \A t \in Turns : work'[t] = "IDLE" /\ epochAt'[t] = 0
    BY <1>4, <1>5, <1>9 DEF Calm, BeginRecovery, CleanUp, Crash, Boot, frame, workVars
  <2>3. Onward
    BY <1>9, SameGenerations, WithdrawKeeps DEF BeginRecovery, CleanUp, Crash, Boot, IInv, Stranded
  <2>4. Calm'
    BY <1>4, <2>1, <2>2 DEF Calm
  <2>5. QED BY <1>4, <2>1, <2>2, <2>3, <2>4, TurnWaits
<1>10. CASE CommitInput
  <2>1. CASE active
    BY <1>4, <1>10, <2>1, CommitInputUnhindered
  <2>2. CASE ~active
    <3>1. UNCHANGED <<latest, active, epoch, phase, recovery>> /\ UNCHANGED workVars
      BY <1>10, <2>2 DEF CommitInput
    <3>2. QED BY <1>4, <2>2, <3>1 DEF Calm, workVars
  <2>3. QED BY <2>1, <2>2
<1>11. CASE EndSession
  <2>1. /\ active' = FALSE /\ UNCHANGED <<latest, epoch, phase, recovery, work, epochAt>>
        /\ CancelGeneration(Superseded(generation'))
    BY <1>11 DEF EndSession, frame
  <2>2. latest = 0 => cancelled' \cup cancels' = {}
    <3>1. latest = 0 => \A t \in Turns : work[t] = "IDLE"
      BY OrchestrationAssumption DEF TwiceInv, Committed, Turns
    <3>2. latest = 0 => Superseded(generation') = {}
      BY <3>1 DEF Superseded, Registered, Executing
    <3>3. QED BY <1>4, <2>1, <3>2 DEF CancelGeneration, Calm
  <2>3. QED BY <1>4, <2>1, <2>2 DEF Calm
<1>12. CASE RecoverTurn
  <2>1. UNCHANGED <<latest, active>>
    BY <1>12 DEF RecoverTurn, sessionVars
  <2>2. QED BY <1>4, <1>12, <2>1, RecoverTurnUnhindered
<1>13. ASSUME NEW t \in 0 .. MaxTurns, Send(t) PROVE UNCHANGED <<sessionVars, workVars>> /\ UNCHANGED <<phase, recovery>>
  BY <1>13 DEF Send
<1>14. ASSUME NEW t \in Turns PROVE ~ReplayCommit(t)
  BY <1>3, OrchestrationAssumption DEF ReplayCommit, Undisturbed, TwiceInv, Committed, Turns
<1>15. ASSUME NEW moves \in BOOLEAN PROVE ~Change(moves)
  BY <1>1 DEF Change
<1>16. ~(Stop \/ RequestCancellationForShutdown \/ Stopped \/ Start)
  BY <1>1, <1>5 DEF Stop, RequestCancellationForShutdown, Stopped, Start
<1>17. CASE FinishRecovery \/ UNCHANGED vars
  BY <1>8, <1>17 DEF FinishRecovery, vars
<1>18. QED
  BY <1>6, <1>7, <1>8, <1>9, <1>10, <1>11, <1>12, <1>13, <1>14, <1>15, <1>16, <1>17
     DEF Next, Provider, Handle, Recovering

\* In a session that only crashes have disturbed, the latest turn is answered, is
\* being worked on, or was left on purpose: no interleaving of crashes, recoveries,
\* newer commits and withdrawn generations leaves it behind
\* (turn-orchestrator.ts:178-260).
THEOREM LatestTurnNotStranded == Spec => []NoTurnIsStranded
<1>1. Init => StrandInv
  BY OrchestrationAssumption DEF Init, StrandInv, Calm, Turns
<1>2. Spec => []StrandInv
  BY <1>1, Inductive, Twice, StrandStep, PTL DEF Spec
<1>3. IInv /\ StrandInv => NoTurnIsStranded
  BY StrandGives DEF IInv
<1>4. QED BY <1>2, <1>3, Inductive, PTL


-----------------------------------------------------------------------------
(* SupervisedProcess: the inductive invariant. *)

\* No run has this module at its root, so what its theorems need of the constants
\* is a premise of theirs and no ASSUME of the module: one of the two platforms,
\* and a None that is no version and no way to end.
ProcessAssumption ==
    /\ Platform \in {"posix", "win32"}
    /\ MaxReplacements \in Nat /\ MaxDrains \in Nat
    /\ None \notin Nat \cup Errors \cup {"OK"}

Records ==
    [stage : Stages, aborted : BOOLEAN, why : Errors \cup {None}, failure : Errors \cup {"OK"},
     cleanup : {"none", "running", "ended"}, root : {"none", "alive", "exited", "signalled"},
     descendants : BOOLEAN, image : Versions \cup {None}, directories : BOOLEAN, outcome : Errors \cup {"OK", None}]

Reasons == {"EXECUTION_CANCELLED", "EXECUTION_TIMEOUT"}

\* The outcomes that promise that the child has left no process.
Proven == {"OK", "EXECUTION_TIMEOUT", "EXECUTION_CANCELLED", "OUTPUT_LIMIT_EXCEEDED", "EXECUTABLE_UNSAFE"}

Early == {"idle", "inspecting", "joining", "hashing", "rechecking", "isolating"}

\* The child was given its input and nothing has been held against it since.
Fed(x) == \/ x.stage \in {"writing", "waiting", "residual"}
          \/ x.stage = "removing" /\ x.failure = "OK"
          \/ x.outcome = "OK"

\* The child of an execution x: no descendants without a root, and the end of a root takes its job with it.
TreeInv(x) ==
    /\ x.root = "none" => ~x.descendants
    /\ Platform = "win32" /\ x.root # "alive" => ~x.descendants

\* Before the spawn there is none, and before that no directory.
ChildInv(x) ==
    /\ TreeInv(x)
    /\ x.stage \in Early => ~x.directories
    /\ x.stage \in Early \cup {"launching"} => x.root = "none"

\* Its end: what is to be reported was proven, and nothing is left behind but by a runner that is closed (bad).
EndInv(x, bad) ==
    /\ x.stage # "settled" => x.outcome = None
    /\ x.aborted => x.why \in Reasons
    /\ x.stage \in {"failing", "terminating"} => x.failure # "OK"
    /\ x.stage = "removing" /\ x.failure \in Proven => Gone(x)
    /\ x.outcome \in Proven => Gone(x)
    /\ x.stage \in {"removing", "settled"} => (bad = TRUE \/ x.root # "alive")
    /\ x.stage = "settled" => (bad = TRUE \/ ~x.directories)

\* Its program: the version it was spawned from is not older than the pinned one (pin), nor newer than the last
\* there was (ver); where the comparison after the spawn found the pinned one, it is the pinned one.
ProgramInv(x, pin, ver) ==
    /\ x.stage \in {"isolating", "launching"} => pin # None
    /\ x.image # None => pin # None /\ pin <= x.image /\ x.image <= ver
    /\ x.stage \in {"verifying", "writing", "waiting", "residual"} => x.image # None
    /\ Platform = "posix" /\ Fed(x) => pin # None /\ x.image = pin

Sound(x, bad, pin, ver) == x \in Records /\ ChildInv(x) /\ EndInv(x, bad) /\ ProgramInv(x, pin, ver)

\* A version is on disk once: the newest or none.
Files == /\ file # None => file = versions
         /\ pinned # None => pinned <= versions

\* Who is on the way while the runner drains, or is closed, knows it, and the drain waits for it.
StopKnown == drain.on \/ compromised => \A e \in Executions : Admitted(execution[e]) => execution[e].aborted
Awaited == drain.on => \A e \in Executions : Admitted(execution[e]) => e \in drain.awaits

ProcessInv ==
    /\ ProcessTypeOK /\ Files /\ StopKnown /\ Awaited
    /\ \A e \in Executions : Sound(execution[e], compromised, pinned, versions)

\* What NoStartAfterStop says of a step.
StartsOnlyOpen ==
    \A e \in Executions : execution[e].root = "none" /\ execution'[e].root # "none" => ~drain.on /\ ~compromised

-----------------------------------------------------------------------------
(* The functions of an execution. *)

LEMMA NoneIsNoError ==
  ASSUME ProcessAssumption
  PROVE  None \notin Errors /\ None # "OK" /\ None \notin Proven /\ Proven \subseteq Errors \cup {"OK"}
BY DEF ProcessAssumption, Proven, Errors

LEMMA Fields ==
  ASSUME NEW x \in Records
  PROVE  x = [stage |-> x.stage, aborted |-> x.aborted, why |-> x.why, failure |-> x.failure, cleanup |-> x.cleanup,
              root |-> x.root, descendants |-> x.descendants, image |-> x.image, directories |-> x.directories,
              outcome |-> x.outcome]
BY DEF Records

LEMMA FieldTypes ==
  ASSUME NEW x \in Records
  PROVE  /\ x.stage \in Stages /\ x.aborted \in BOOLEAN
         /\ x.why \in Errors \cup {None} /\ x.failure \in Errors \cup {"OK"}
         /\ x.cleanup \in {"none", "running", "ended"} /\ x.root \in {"none", "alive", "exited", "signalled"}
         /\ x.descendants \in BOOLEAN /\ x.image \in Versions \cup {None} /\ x.directories \in BOOLEAN
         /\ x.outcome \in Errors \cup {"OK", None}
BY DEF Records

\* What it takes to end with this result, and to settle with it.
MayEnd(x, result, pin, ver) ==
    /\ x \in Records /\ TreeInv(x) /\ ProgramInv(x, pin, ver)
    /\ x.aborted => x.why \in Reasons
    /\ result \in Errors \cup {"OK"}
    /\ result \in Proven => Gone(x)
    /\ Platform = "posix" /\ result = "OK" => pin # None /\ x.image = pin

MaySettle(x, result, bad, pin, ver) ==
    /\ MayEnd(x, result, pin, ver)
    /\ bad = TRUE \/ (x.root # "alive" /\ ~x.directories)

LEMMA SettledKeeps ==
  ASSUME ProcessAssumption, NEW bad, NEW b, NEW pin, NEW ver, NEW x, NEW result, MaySettle(x, result, bad, pin, ver)
  PROVE  /\ Sound(Settled(x, result, b), bad, pin, ver)
         /\ ~Admitted(Settled(x, result, b))
         /\ Settled(x, result, b).root = x.root
<1> DEFINE y == Settled(x, result, b)
<1>0. /\ x \in Records /\ TreeInv(x) /\ ProgramInv(x, pin, ver)
      /\ x.aborted => x.why \in Reasons
      /\ bad = TRUE \/ (x.root # "alive" /\ ~x.directories)
      /\ result \in Errors \cup {"OK"}
      /\ result \in Proven => Gone(x)
      /\ Platform = "posix" /\ result = "OK" => pin # None /\ x.image = pin
  <2>1. MayEnd(x, result, pin, ver) /\ (bad = TRUE \/ (x.root # "alive" /\ ~x.directories))
    BY DEF MaySettle
  <2> QED BY <2>1 DEF MayEnd
<1>1. /\ y = [stage |-> "settled", aborted |-> FALSE, why |-> None, failure |-> "OK", cleanup |-> x.cleanup,
              root |-> x.root, descendants |-> x.descendants, image |-> x.image, directories |-> x.directories,
              outcome |-> Outcome(x, result, b)]
  <2>1. y = [x EXCEPT !.stage = "settled", !.outcome = Outcome(x, result, b),
                      !.aborted = FALSE, !.why = None, !.failure = "OK"]
    BY DEF Settled
  <2> HIDE DEF y
  <2>2. x = [stage |-> x.stage, aborted |-> x.aborted, why |-> x.why, failure |-> x.failure, cleanup |-> x.cleanup,
             root |-> x.root, descendants |-> x.descendants, image |-> x.image, directories |-> x.directories,
             outcome |-> x.outcome]
    BY <1>0, Fields
  <2> QED BY <2>1, <2>2
<1>2. /\ Outcome(x, result, b) \in Errors \cup {"OK"}
      /\ Outcome(x, result, b) \in Proven => result \in Proven
      /\ Outcome(x, result, b) = "OK" => result = "OK"
  BY <1>0 DEF Outcome, Errors, Reasons, Proven
<1> HIDE DEF y
<1>3. y \in Records
  BY <1>0, <1>1, <1>2, FieldTypes DEF Records, Stages
<1>4. ChildInv(y)
  BY <1>0, <1>1 DEF TreeInv, ChildInv, Early
<1>5. EndInv(y, bad)
  <2>1. Gone(x) => Gone(y)
    BY <1>1 DEF Gone
  <2> QED BY <1>0, <1>1, <1>2, <2>1, NoneIsNoError DEF EndInv
<1>6. ProgramInv(y, pin, ver)
  BY <1>0, <1>1, <1>2 DEF ProgramInv, Fed
<1> QED BY <1>1, <1>3, <1>4, <1>5, <1>6 DEF Sound, y, Admitted

\* The operation has ended: the directories are next.
LEMMA FinishedKeeps ==
  ASSUME ProcessAssumption, NEW bad, NEW pin, NEW ver, NEW x, NEW result, MayEnd(x, result, pin, ver), x.outcome = None,
         bad = TRUE \/ x.root # "alive"
  PROVE  Sound([x EXCEPT !.stage = "removing", !.failure = result], bad, pin, ver)
<1> DEFINE y == [x EXCEPT !.stage = "removing", !.failure = result]
<1>1. /\ x \in Records /\ TreeInv(x) /\ ProgramInv(x, pin, ver)
      /\ x.aborted => x.why \in Reasons
      /\ result \in Errors \cup {"OK"}
      /\ result \in Proven => Gone(x)
      /\ Platform = "posix" /\ result = "OK" => pin # None /\ x.image = pin
  BY DEF MayEnd
<1>2. y = [stage |-> "removing", aborted |-> x.aborted, why |-> x.why, failure |-> result, cleanup |-> x.cleanup,
           root |-> x.root, descendants |-> x.descendants, image |-> x.image, directories |-> x.directories,
           outcome |-> x.outcome]
  <2>1. y = [x EXCEPT !.stage = "removing", !.failure = result]
    OBVIOUS
  <2> HIDE DEF y
  <2>2. x = [stage |-> x.stage, aborted |-> x.aborted, why |-> x.why, failure |-> x.failure, cleanup |-> x.cleanup,
             root |-> x.root, descendants |-> x.descendants, image |-> x.image, directories |-> x.directories,
             outcome |-> x.outcome]
    BY <1>1, Fields
  <2> QED BY <2>1, <2>2
<1> HIDE DEF y
<1>3. y \in Records
  BY <1>1, <1>2, FieldTypes DEF Records, Stages
<1>4. ChildInv(y)
  BY <1>1, <1>2 DEF TreeInv, ChildInv, Early
<1>5. EndInv(y, bad)
  <2>1. Gone(x) => Gone(y)
    BY <1>2 DEF Gone
  <2> QED BY <1>1, <1>2, <2>1, NoneIsNoError DEF EndInv
<1>6. ProgramInv(y, pin, ver)
  BY <1>1, <1>2, NoneIsNoError DEF ProgramInv, Fed
<1> QED BY <1>3, <1>4, <1>5, <1>6 DEF Sound, y

\* An execution between two steps goes on to the next, whatever its child did.
Follows(x, stage, pin) ==
    \/ x.stage \in Early /\ stage \in {"inspecting", "joining", "hashing", "rechecking"}
    \/ x.stage \in Early /\ stage = "isolating" /\ pin # None
    \/ x.stage = "verifying" /\ stage = "writing" /\ (Platform = "posix" => pin # None /\ x.image = pin)
    \/ x.stage = "writing" /\ stage = "waiting"
    \/ x.stage = "waiting" /\ stage = "residual"

LEMMA ContinueKeeps ==
  ASSUME ProcessAssumption, NEW bad, NEW pin, NEW ver, NEW x, NEW stage, Sound(x, bad, pin, ver), Follows(x, stage, pin)
  PROVE  LET y == [x EXCEPT !.stage = stage]
         IN /\ Sound(y, bad, pin, ver)
            /\ y.aborted = x.aborted /\ y.root = x.root
<1> DEFINE y == [x EXCEPT !.stage = stage]
<1>1. /\ x \in Records /\ ChildInv(x) /\ EndInv(x, bad) /\ ProgramInv(x, pin, ver)
  BY DEF Sound
<1>2. y = [stage |-> stage, aborted |-> x.aborted, why |-> x.why, failure |-> x.failure, cleanup |-> x.cleanup,
           root |-> x.root, descendants |-> x.descendants, image |-> x.image, directories |-> x.directories,
           outcome |-> x.outcome]
  <2>1. y = [x EXCEPT !.stage = stage]
    OBVIOUS
  <2> HIDE DEF y
  <2>2. x = [stage |-> x.stage, aborted |-> x.aborted, why |-> x.why, failure |-> x.failure, cleanup |-> x.cleanup,
             root |-> x.root, descendants |-> x.descendants, image |-> x.image, directories |-> x.directories,
             outcome |-> x.outcome]
    BY <1>1, Fields
  <2> QED BY <2>1, <2>2
<1> HIDE DEF y
<1>3. /\ x.stage \notin {"settled", "removing"} /\ x.outcome = None
      /\ stage \in {"inspecting", "joining", "hashing", "rechecking", "isolating", "writing", "waiting", "residual"}
  BY <1>1 DEF Follows, Early, EndInv
<1>4. y \in Records
  BY <1>1, <1>2, <1>3, FieldTypes DEF Records, Stages
<1>5. ChildInv(y)
  BY <1>1, <1>2 DEF TreeInv, ChildInv, Early, Follows
<1>6. EndInv(y, bad)
  BY <1>1, <1>2, <1>3, NoneIsNoError DEF EndInv
<1>7. ProgramInv(y, pin, ver)
  BY <1>1, <1>2, <1>3, NoneIsNoError DEF ProgramInv, Fed, Follows, Early
<1> QED BY <1>2, <1>4, <1>5, <1>6, <1>7 DEF Sound, y

LEMMA CleanupKeeps ==
  ASSUME ProcessAssumption, NEW bad, NEW pin, NEW ver, NEW x, NEW failure \in Errors, Sound(x, bad, pin, ver),
         x.stage \in {"verifying", "writing", "waiting"}
  PROVE  LET y == RequestCleanup(x, failure)
         IN /\ Sound(y, bad, pin, ver)
            /\ y.stage = "failing" /\ y.aborted = x.aborted /\ y.root = x.root /\ y.descendants = x.descendants
<1> DEFINE y == RequestCleanup(x, failure)
<1>1. /\ x \in Records /\ ChildInv(x) /\ EndInv(x, bad) /\ ProgramInv(x, pin, ver) /\ failure # "OK"
  BY DEF Sound, Errors
<1>2. y = [stage |-> "failing", aborted |-> x.aborted, why |-> x.why, failure |-> failure,
           cleanup |-> IF x.cleanup = "none" THEN "running" ELSE x.cleanup,
           root |-> x.root, descendants |-> x.descendants, image |-> x.image, directories |-> x.directories,
           outcome |-> x.outcome]
  <2>1. y = [x EXCEPT !.stage = "failing", !.failure = failure,
                      !.cleanup = IF x.cleanup = "none" THEN "running" ELSE x.cleanup]
    BY DEF RequestCleanup
  <2> HIDE DEF y
  <2>2. x = [stage |-> x.stage, aborted |-> x.aborted, why |-> x.why, failure |-> x.failure, cleanup |-> x.cleanup,
             root |-> x.root, descendants |-> x.descendants, image |-> x.image, directories |-> x.directories,
             outcome |-> x.outcome]
    BY <1>1, Fields
  <2> QED BY <2>1, <2>2
<1> HIDE DEF y
<1>3. x.outcome = None
  BY <1>1 DEF EndInv
<1>4. y \in Records
  BY <1>1, <1>2, FieldTypes DEF Records, Stages
<1>5. ChildInv(y)
  BY <1>1, <1>2 DEF TreeInv, ChildInv, Early
<1>6. EndInv(y, bad)
  BY <1>1, <1>2, <1>3, NoneIsNoError DEF EndInv
<1>7. ProgramInv(y, pin, ver)
  BY <1>1, <1>2, <1>3, NoneIsNoError DEF ProgramInv, Fed
<1> QED BY <1>2, <1>4, <1>5, <1>6, <1>7 DEF Sound, y

\* A stop keeps an execution sound, and it knows of it.
LEMMA AbortKeeps ==
  ASSUME ProcessAssumption, NEW bad, NEW b, NEW pin, NEW ver, NEW x, NEW why \in Reasons,
         Sound(x, bad, pin, ver)
  PROVE  LET y == Abort(x, why, b)
         IN /\ Sound(y, bad, pin, ver)
            /\ Admitted(y) => Admitted(x) /\ y.aborted
            /\ y.root = x.root
<1> DEFINE a == [x EXCEPT !.aborted = TRUE, !.why = why]
           y == Abort(x, why, b)
<1>1. /\ x \in Records /\ ChildInv(x) /\ EndInv(x, bad) /\ ProgramInv(x, pin, ver)
  BY DEF Sound
<1>2. /\ a \in Records /\ ChildInv(a) /\ EndInv(a, bad) /\ ProgramInv(a, pin, ver)
      /\ a.stage = x.stage /\ a.root = x.root /\ a.aborted /\ a.why \in Reasons /\ a.directories = x.directories
      /\ Gone(a) <=> Gone(x)
  <2>1. a = [x EXCEPT !.aborted = TRUE, !.why = why]
    OBVIOUS
  <2>2. x = [stage |-> x.stage, aborted |-> x.aborted, why |-> x.why, failure |-> x.failure, cleanup |-> x.cleanup,
             root |-> x.root, descendants |-> x.descendants, image |-> x.image, directories |-> x.directories,
             outcome |-> x.outcome]
    BY <1>1, Fields
  <2>3. a = [stage |-> x.stage, aborted |-> TRUE, why |-> why, failure |-> x.failure, cleanup |-> x.cleanup,
             root |-> x.root, descendants |-> x.descendants, image |-> x.image, directories |-> x.directories,
             outcome |-> x.outcome]
    <3> HIDE DEF a
    <3> QED BY <2>1, <2>2
  <2> HIDE DEF a
  <2>4. a \in Records
    BY <1>1, <2>3, FieldTypes DEF Records, Reasons, Errors
  <2>5. ChildInv(a)
    BY <1>1, <2>3 DEF TreeInv, ChildInv
  <2>6. Gone(a) <=> Gone(x)
    BY <2>3 DEF Gone
  <2>7. EndInv(a, bad)
    BY <1>1, <2>3, <2>6 DEF EndInv
  <2>8. ProgramInv(a, pin, ver)
    BY <1>1, <2>3 DEF ProgramInv, Fed
  <2> QED BY <2>3, <2>4, <2>5, <2>6, <2>7, <2>8
<1>3. CASE ~Admitted(x) \/ x.aborted
  <2>1. y = x
    BY <1>3 DEF Abort
  <2> QED BY <1>3, <2>1
<1>4. CASE Admitted(x) /\ ~x.aborted /\ x.stage \in {"joining", "hashing"}
  <2>1. y = Settled(a, "EXECUTION_CANCELLED", b)
    BY <1>4 DEF Abort
  <2>2. a.root = "none" /\ ~a.directories /\ Gone(a)
    BY <1>2, <1>4 DEF TreeInv, ChildInv, Early, Gone
  <2> HIDE DEF y, a
  <2>3. /\ "EXECUTION_CANCELLED" \in Errors \cup {"OK"} /\ "EXECUTION_CANCELLED" # "OK"
        /\ a.root # "alive"
    BY <2>2 DEF Errors
  <2>4. /\ Sound(Settled(a, "EXECUTION_CANCELLED", b), bad, pin, ver)
        /\ ~Admitted(Settled(a, "EXECUTION_CANCELLED", b))
        /\ Settled(a, "EXECUTION_CANCELLED", b).root = a.root
    <3>1. MaySettle(a, "EXECUTION_CANCELLED", bad, pin, ver)
      BY <1>2, <2>2, <2>3 DEF MaySettle, MayEnd, ChildInv
    <3> QED BY <3>1, SettledKeeps
  <2> QED BY <1>2, <2>1, <2>4 DEF y
<1>5. CASE Admitted(x) /\ ~x.aborted /\ x.stage \in {"verifying", "writing", "waiting"}
  <2>1. y = RequestCleanup(a, "EXECUTION_CANCELLED")
    BY <1>5 DEF Abort
  <2> HIDE DEF a
  <2>2. Sound(a, bad, pin, ver) /\ "EXECUTION_CANCELLED" \in Errors /\ a.stage \in {"verifying", "writing", "waiting"}
    BY <1>2, <1>5 DEF Sound, Errors
  <2> QED BY <1>2, <1>5, <2>1, <2>2, CleanupKeeps
<1>6. CASE Admitted(x) /\ ~x.aborted /\ x.stage \notin {"joining", "hashing", "verifying", "writing", "waiting"}
  <2>1. y = a
    BY <1>6 DEF Abort
  <2> QED BY <1>2, <1>6, <2>1 DEF Sound
<1> QED BY <1>3, <1>4, <1>5, <1>6

\* A closed runner asks for less; a new version on disk, and the first pinned one, change nothing.
LEMMA SoundGrows ==
  ASSUME ProcessAssumption, NEW bad, NEW pin, NEW ver, NEW x, Sound(x, bad, pin, ver)
  PROVE  /\ \A closed : closed = TRUE => Sound(x, closed, pin, ver)
         /\ pin = None => \A p : Sound(x, bad, p, ver)
         /\ ver \in Nat => Sound(x, bad, pin, ver + 1)
<1>1. /\ x \in Records /\ ChildInv(x) /\ EndInv(x, bad) /\ ProgramInv(x, pin, ver)
  BY DEF Sound
<1>2. ASSUME NEW closed, closed = TRUE PROVE EndInv(x, closed)
  BY <1>1, <1>2 DEF EndInv
<1>3. ASSUME pin = None, NEW p PROVE ProgramInv(x, p, ver)
  BY <1>1, <1>3, NoneIsNoError DEF ProgramInv, Fed
<1>4. ver \in Nat => ProgramInv(x, pin, ver + 1)
  <2>1. x.image # None => x.image \in Nat
    BY <1>1, FieldTypes DEF Versions, ProcessAssumption
  <2> QED BY <1>1, <2>1 DEF ProgramInv
<1> QED BY <1>1, <1>2, <1>3, <1>4 DEF Sound

-----------------------------------------------------------------------------
(* The steps of an execution. *)

Frame == UNCHANGED <<file, versions, drain, drains>>

\* What an execution e may become.
MayBecome(e, x, bad) ==
    /\ Sound(x, bad, pinned, versions)
    /\ Admitted(x) => Admitted(execution[e]) \/ ~drain.on
    /\ Admitted(x) /\ (drain.on \/ compromised) => x.aborted
    /\ execution[e].root = "none" /\ x.root # "none" => ~drain.on /\ ~compromised

LEMMA TypesGive ==
  ASSUME ProcessInv
  PROVE  /\ file \in Versions \cup {None} /\ versions \in Versions /\ pinned \in Versions \cup {None}
         /\ hash \in {"none", "hashing", "aborted", "done"} /\ compromised \in BOOLEAN
         /\ drain \in [on : BOOLEAN, awaits : SUBSET Executions, hash : BOOLEAN] /\ drains \in 0 .. MaxDrains
         /\ execution \in [Executions -> Records]
         /\ Files /\ StopKnown /\ Awaited
         /\ \A e \in Executions : Sound(execution[e], compromised, pinned, versions)
BY DEF ProcessInv, ProcessTypeOK, Records

\* What makes up the invariant after a step.
LEMMA InvComposedAnew ==
  ASSUME ProcessAssumption, ProcessInv, Frame, pinned' \in Versions \cup {None}, pinned' # None => pinned' <= versions,
         hash' \in {"none", "hashing", "aborted", "done"}, compromised' \in BOOLEAN,
         execution' = [f \in Executions |-> execution'[f]],
         \A f \in Executions : Sound(execution'[f], compromised', pinned', versions),
         drain.on \/ compromised' => \A f \in Executions : Admitted(execution'[f]) => execution'[f].aborted,
         drain.on => \A f \in Executions : Admitted(execution'[f]) => Admitted(execution[f])
  PROVE  ProcessInv'
<1>1. ProcessTypeOK'
  <2>1. \A f \in Executions : execution'[f] \in Records
    BY DEF Sound
  <2>2. execution' \in [Executions -> Records]
    BY <2>1
  <2> QED BY <2>2, TypesGive DEF ProcessTypeOK, Frame, Records, Versions
<1>2. Files' /\ StopKnown' /\ Awaited'
  BY TypesGive DEF Files, StopKnown, Awaited, Frame
<1>3. \A f \in Executions : Sound(execution'[f], compromised', pinned', versions')
  BY DEF Frame
<1>4. (\A f \in Executions : Sound(execution[f], compromised, pinned, versions))'
  BY <1>3
<1> QED BY <1>1, <1>2, <1>4 DEF ProcessInv

LEMMA InvComposed ==
  ASSUME ProcessAssumption, ProcessInv, Frame, pinned' = pinned,
         hash' \in {"none", "hashing", "aborted", "done"}, compromised' \in BOOLEAN,
         execution' = [f \in Executions |-> execution'[f]],
         \A f \in Executions : Sound(execution'[f], compromised', pinned, versions),
         drain.on \/ compromised' => \A f \in Executions : Admitted(execution'[f]) => execution'[f].aborted,
         drain.on => \A f \in Executions : Admitted(execution'[f]) => Admitted(execution[f])
  PROVE  ProcessInv'
<1>1. \A f \in Executions : Sound(execution'[f], compromised', pinned', versions)
  OBVIOUS
<1>2. pinned' \in Versions \cup {None} /\ (pinned' # None => pinned' <= versions)
  BY TypesGive DEF Files
<1> QED BY <1>1, <1>2, InvComposedAnew

LEMMA BecomeStep ==
  ASSUME ProcessAssumption, ProcessInv, NEW e \in Executions, NEW x, Become(e, x), Frame, pinned' = pinned,
         MayBecome(e, x, compromised)
  PROVE  ProcessInv' /\ StartsOnlyOpen
<1>1. /\ execution' = [execution EXCEPT ![e] = x] /\ compromised' = compromised /\ hash' = hash
      /\ execution \in [Executions -> Records]
  BY TypesGive DEF Become
<1>2. /\ execution'[e] = x
      /\ \A f \in Executions : f # e => execution'[f] = execution[f]
      /\ execution' = [f \in Executions |-> execution'[f]]
  BY <1>1
<1>3. \A f \in Executions : Sound(execution'[f], compromised', pinned, versions)
  BY <1>1, <1>2, TypesGive DEF MayBecome
<1>4. drain.on \/ compromised' => \A f \in Executions : Admitted(execution'[f]) => execution'[f].aborted
  BY <1>1, <1>2, TypesGive DEF MayBecome, StopKnown
<1>5. drain.on => \A f \in Executions : Admitted(execution'[f]) => Admitted(execution[f])
  BY <1>1, <1>2, TypesGive DEF MayBecome
<1>6. ProcessInv'
  BY <1>1, <1>2, <1>3, <1>4, <1>5, TypesGive, InvComposed
<1> QED BY <1>2, <1>6 DEF StartsOnlyOpen, MayBecome

LEMMA QuarantineStep ==
  ASSUME ProcessAssumption, ProcessInv, NEW e \in Executions, NEW x, Quarantine(e, x), Frame, pinned' = pinned,
         Sound(x, compromised', pinned, versions), Admitted(x) => Admitted(execution[e]),
         execution[e].root = "none" => x.root = "none"
  PROVE  ProcessInv' /\ StartsOnlyOpen
<1> DEFINE g == [f \in Executions |-> IF f = e THEN x ELSE execution[f]]
<1>1. /\ compromised' = TRUE
      /\ execution' = [f \in Executions |-> Abort(g[f], "EXECUTION_CANCELLED", compromised')]
      /\ hash' \in {"none", "hashing", "aborted", "done"}
  BY TypesGive DEF Quarantine, AbortHash
<1>0. \A f \in Executions : g[f] = IF f = e THEN x ELSE execution[f]
  OBVIOUS
<1> HIDE DEF g
<1>2. \A f \in Executions : Sound(g[f], compromised', pinned, versions)
  BY <1>1, <1>0, TypesGive, SoundGrows
<1>3. /\ \A f \in Executions : execution'[f] = Abort(g[f], "EXECUTION_CANCELLED", compromised')
      /\ execution' = [f \in Executions |-> execution'[f]]
  BY <1>1
<1>4. \A f \in Executions : /\ Sound(execution'[f], compromised', pinned, versions)
                            /\ Admitted(execution'[f]) => Admitted(g[f]) /\ execution'[f].aborted
                            /\ execution'[f].root = g[f].root
  <2>1. "EXECUTION_CANCELLED" \in Reasons
    BY DEF Reasons
  <2> QED BY <1>2, <1>3, <2>1, AbortKeeps
<1>5. \A f \in Executions : Admitted(g[f]) => Admitted(execution[f])
  BY <1>0
<1>6. \A f \in Executions : execution[f].root = "none" => g[f].root = "none"
  BY <1>0
<1>7. ProcessInv'
  BY <1>1, <1>3, <1>4, <1>5, TypesGive, InvComposed
<1> QED BY <1>4, <1>6, <1>7 DEF StartsOnlyOpen

\* An operation ends before there are directories to remove.
LEMMA SettleStep ==
  ASSUME ProcessAssumption, ProcessInv, NEW e \in Executions, NEW x, NEW result, NEW b,
         Become(e, Settled(x, result, b)),
         Frame, pinned' = pinned, MaySettle(x, result, compromised, pinned, versions),
         execution[e].root = "none" => x.root = "none"
  PROVE  ProcessInv' /\ StartsOnlyOpen
<1>1. /\ Sound(Settled(x, result, b), compromised, pinned, versions)
      /\ ~Admitted(Settled(x, result, b))
      /\ Settled(x, result, b).root = x.root
  BY SettledKeeps
<1>2. MayBecome(e, Settled(x, result, b), compromised)
  BY <1>1 DEF MayBecome
<1> QED BY <1>2, BecomeStep

LEMMA FinishStep ==
  ASSUME ProcessAssumption, ProcessInv, NEW e \in Executions, NEW x, NEW result, Finish(e, x, result),
         Frame, pinned' = pinned, Admitted(execution[e]), x.aborted = execution[e].aborted, x.outcome = None,
         MayEnd(x, result, pinned, versions),
         result = "PROCESS_TREE_CLEANUP_FAILED" \/ compromised = TRUE \/ x.root # "alive",
         execution[e].root = "none" => x.root = "none"
  PROVE  ProcessInv' /\ StartsOnlyOpen
<1> DEFINE y == [x EXCEPT !.stage = "removing", !.failure = result]
<1>1. x \in Records
  BY DEF MayEnd
<1>2. y.root = x.root /\ y.aborted = x.aborted /\ Admitted(execution[e])
  BY <1>1 DEF Records
<1>3. CASE result = "PROCESS_TREE_CLEANUP_FAILED"
  <2>1. Quarantine(e, y)
    BY <1>3 DEF Finish
  <2>2. compromised' = TRUE
    BY <2>1 DEF Quarantine
  <2>3. Sound(y, compromised', pinned, versions)
    BY <2>2, FinishedKeeps
  <2> HIDE DEF y
  <2> QED BY <1>2, <2>1, <2>3, QuarantineStep
<1>4. CASE result # "PROCESS_TREE_CLEANUP_FAILED"
  <2>1. Sound(y, compromised, pinned, versions)
    BY <1>4, FinishedKeeps
  <2>2. Become(e, y)
    BY <1>4 DEF Finish
  <2> HIDE DEF y
  <2>3. MayBecome(e, y, compromised)
    BY <1>2, <2>1, TypesGive DEF MayBecome, StopKnown
  <2> QED BY <2>2, <2>3, BecomeStep
<1> QED BY <1>3, <1>4

\* A child that is terminated again, in the catch.
LEMMA TerminatingKeeps ==
  ASSUME ProcessAssumption, NEW bad, NEW pin, NEW ver, NEW x, NEW failure \in Errors, Sound(x, bad, pin, ver),
         x.outcome = None
  PROVE  Sound([x EXCEPT !.stage = "terminating", !.failure = failure], bad, pin, ver)
<1> DEFINE y == [x EXCEPT !.stage = "terminating", !.failure = failure]
<1>1. /\ x \in Records /\ ChildInv(x) /\ EndInv(x, bad) /\ ProgramInv(x, pin, ver) /\ failure # "OK"
  BY DEF Sound, Errors
<1>2. y = [stage |-> "terminating", aborted |-> x.aborted, why |-> x.why, failure |-> failure, cleanup |-> x.cleanup,
           root |-> x.root, descendants |-> x.descendants, image |-> x.image, directories |-> x.directories,
           outcome |-> x.outcome]
  <2>1. y = [x EXCEPT !.stage = "terminating", !.failure = failure]
    OBVIOUS
  <2> HIDE DEF y
  <2>2. x = [stage |-> x.stage, aborted |-> x.aborted, why |-> x.why, failure |-> x.failure, cleanup |-> x.cleanup,
             root |-> x.root, descendants |-> x.descendants, image |-> x.image, directories |-> x.directories,
             outcome |-> x.outcome]
    BY <1>1, Fields
  <2> QED BY <2>1, <2>2
<1> HIDE DEF y
<1>3. y \in Records
  BY <1>1, <1>2, FieldTypes DEF Records, Stages
<1>4. ChildInv(y)
  BY <1>1, <1>2 DEF TreeInv, ChildInv, Early
<1>5. EndInv(y, bad)
  BY <1>1, <1>2, NoneIsNoError DEF EndInv
<1>6. ProgramInv(y, pin, ver)
  BY <1>1, <1>2, NoneIsNoError DEF ProgramInv, Fed
<1> QED BY <1>3, <1>4, <1>5, <1>6 DEF Sound, y

\* The catch: of a root that is not alive only what was proven is reported as proven.
LEMMA ThrowStep ==
  ASSUME ProcessAssumption, ProcessInv, NEW e \in Executions, NEW x, NEW failure \in Errors, Throw(e, x, failure),
         Frame, pinned' = pinned, Admitted(execution[e]), x.aborted = execution[e].aborted, x.root = execution[e].root,
         x.stage # "settled", Sound(x, compromised, pinned, versions), failure \in Proven => Gone(x)
  PROVE  ProcessInv' /\ StartsOnlyOpen
<1>1. x \in Records /\ x.outcome = None
  BY DEF Sound, EndInv
<1>2. CASE x.root = "alive"
  <2> DEFINE y == [x EXCEPT !.stage = "terminating", !.failure = failure]
  <2>1. Become(e, y)
    BY <1>2 DEF Throw
  <2>2. Sound(y, compromised, pinned, versions) /\ y.aborted = x.aborted /\ y.root = x.root
    <3>1. Sound(y, compromised, pinned, versions)
      BY <1>1, TerminatingKeeps
    <3>2. y.aborted = x.aborted /\ y.root = x.root
      BY <1>1 DEF Records
    <3> QED BY <3>1, <3>2
  <2> HIDE DEF y
  <2>3. MayBecome(e, y, compromised)
    BY <2>2, TypesGive DEF MayBecome, StopKnown
  <2> QED BY <2>1, <2>3, BecomeStep
<1>3. CASE x.root # "alive"
  <2>1. Finish(e, x, failure)
    BY <1>3 DEF Throw
  <2>2. MayEnd(x, failure, pinned, versions)
    BY <1>1 DEF MayEnd, Sound, ChildInv, EndInv, Errors
  <2> QED BY <1>1, <1>3, <2>1, <2>2, FinishStep
<1> QED BY <1>2, <1>3

\* All is ready for a spawn.
ReadyToSpawn(x, pin, ver) ==
    /\ x \in Records /\ TreeInv(x) /\ ProgramInv(x, pin, ver)
    /\ x.root = "none" /\ x.outcome = None /\ pin # None /\ x.stage \in {"isolating", "launching"}
    /\ x.aborted => x.why \in Reasons

LEMMA ReadyEnds ==
  ASSUME NEW pin, NEW ver, NEW x, ReadyToSpawn(x, pin, ver), NEW result \in Errors
  PROVE  MayEnd(x, result, pin, ver)
BY DEF ReadyToSpawn, MayEnd, TreeInv, Gone, Errors

\* Only an execution that was not stopped spawns, so the runner is open.
LEMMA SpawnStep ==
  ASSUME ProcessAssumption, ProcessInv, NEW e \in Executions, NEW x, Spawn(e, x), Frame, pinned' = pinned,
         Admitted(execution[e]), ~execution[e].aborted, x.aborted = execution[e].aborted,
         ReadyToSpawn(x, pinned, versions)
  PROVE  ProcessInv' /\ StartsOnlyOpen
<1>1. CASE file = None
  <2>1. Finish(e, x, "SPAWN_FAILED")
    BY <1>1 DEF Spawn
  <2>2. "SPAWN_FAILED" \in Errors
    BY DEF Errors
  <2>3. x.outcome = None /\ x.root = "none"
    BY DEF ReadyToSpawn
  <2>4. MayEnd(x, "SPAWN_FAILED", pinned, versions)
    BY <2>2, ReadyEnds
  <2> QED BY <2>1, <2>2, <2>3, <2>4, FinishStep
<1>2. CASE file # None
  <2> DEFINE y == [x EXCEPT !.stage = "verifying", !.root = "alive", !.image = file]
  <2>1. Become(e, y)
    BY <1>2 DEF Spawn
  <2>2. /\ x \in Records /\ TreeInv(x) /\ ProgramInv(x, pinned, versions)
        /\ x.root = "none" /\ x.outcome = None /\ pinned # None
        /\ x.aborted => x.why \in Reasons
    BY DEF ReadyToSpawn
  <2>3. y = [stage |-> "verifying", aborted |-> x.aborted, why |-> x.why, failure |-> x.failure, cleanup |-> x.cleanup,
             root |-> "alive", descendants |-> x.descendants, image |-> file, directories |-> x.directories,
             outcome |-> x.outcome]
    <3>1. y = [x EXCEPT !.stage = "verifying", !.root = "alive", !.image = file]
      OBVIOUS
    <3> HIDE DEF y
    <3>2. x = [stage |-> x.stage, aborted |-> x.aborted, why |-> x.why, failure |-> x.failure, cleanup |-> x.cleanup,
               root |-> x.root, descendants |-> x.descendants, image |-> x.image, directories |-> x.directories,
               outcome |-> x.outcome]
      BY <2>2, Fields
    <3> QED BY <3>1, <3>2
  <2> HIDE DEF y
  <2>4. y \in Records
    BY <2>2, <2>3, FieldTypes, TypesGive DEF Records, Stages
  <2>5. ChildInv(y)
    BY <2>2, <2>3 DEF TreeInv, ChildInv, Early
  <2>6. EndInv(y, compromised)
    BY <2>2, <2>3, NoneIsNoError DEF EndInv
  <2>7. ProgramInv(y, pinned, versions)
    <3>1. pinned <= file /\ file <= versions /\ file # None
      BY <1>2, <2>2, TypesGive DEF Files, Versions, ProcessAssumption
    <3> QED BY <2>2, <2>3, <3>1, NoneIsNoError DEF ProgramInv, Fed
  <2>8. ~drain.on /\ ~compromised
    BY TypesGive DEF StopKnown
  <2>9. MayBecome(e, y, compromised)
    BY <2>3, <2>4, <2>5, <2>6, <2>7, <2>8 DEF MayBecome, Sound
  <2> QED BY <2>1, <2>9, BecomeStep
<1> QED BY <1>1, <1>2

LEMMA ContinueStep ==
  ASSUME ProcessAssumption, ProcessInv, NEW e \in Executions, NEW stage, Continue(e, stage), Frame, pinned' = pinned,
         Admitted(execution[e]), Follows(execution[e], stage, pinned)
  PROVE  ProcessInv' /\ StartsOnlyOpen
<1> DEFINE x == execution[e]
           y == [x EXCEPT !.stage = stage]
<1>1. Become(e, y)
  BY DEF Continue
<1>2. Sound(x, compromised, pinned, versions)
  BY TypesGive
<1> HIDE DEF x
<1>3. Sound(y, compromised, pinned, versions) /\ y.aborted = x.aborted /\ y.root = x.root
  BY <1>2, ContinueKeeps DEF x
<1> HIDE DEF y
<1>4. MayBecome(e, y, compromised)
  BY <1>3, TypesGive DEF MayBecome, StopKnown, x
<1> QED BY <1>1, <1>4, BecomeStep

\* An execution without a child settles with any error.
LEMMA EarlySettles ==
  ASSUME NEW bad, NEW pin, NEW ver, NEW x, Sound(x, bad, pin, ver), x.stage \in Early, NEW result \in Errors
  PROVE  MaySettle(x, result, bad, pin, ver)
<1>1. x.root = "none" /\ ~x.descendants /\ ~x.directories
  BY DEF Sound, ChildInv, TreeInv
<1> QED BY <1>1 DEF MaySettle, MayEnd, Sound, ChildInv, EndInv, Gone, Errors

LEMMA EarlySettle ==
  ASSUME ProcessAssumption, ProcessInv, NEW e \in Executions, NEW result \in Errors, Settle(e, result),
         Frame, pinned' = pinned, execution[e].stage \in Early
  PROVE  ProcessInv' /\ StartsOnlyOpen
<1>1. MaySettle(execution[e], result, compromised, pinned, versions)
  BY TypesGive, EarlySettles
<1>2. Become(e, Settled(execution[e], result, compromised))
  BY DEF Settle
<1> QED BY <1>1, <1>2, SettleStep

-----------------------------------------------------------------------------
(* The actions of an execution. *)

LEMMA StepOfExecute ==
  ASSUME ProcessAssumption, ProcessInv, NEW e \in Executions, Execute(e)
  PROVE  ProcessInv' /\ StartsOnlyOpen
<1> DEFINE x == execution[e]
<1>1. /\ Frame /\ pinned' = pinned /\ x.stage = "idle" /\ x.stage \in Early
      /\ x \in Records /\ Sound(x, compromised, pinned, versions)
  BY TypesGive DEF Execute, Frame, Early
<1>2. ASSUME NEW result \in Errors, NEW b, Become(e, Settled(x, result, b))
      PROVE  ProcessInv' /\ StartsOnlyOpen
  <2>1. MaySettle(x, result, compromised, pinned, versions)
    BY <1>1, EarlySettles
  <2> QED BY <1>1, <1>2, <2>1, SettleStep
<1>3. {"PROCESS_TREE_CLEANUP_FAILED", "EXECUTION_CANCELLED", "CAPACITY_EXCEEDED"} \subseteq Errors
  BY DEF Errors
<1>4. CASE compromised \/ drain.on
  <2>1. \E result \in Errors, b \in BOOLEAN : Become(e, Settled(x, result, b))
    BY <1>3, <1>4 DEF Execute
  <2> QED BY <1>2, <2>1
<1>5. CASE ~compromised /\ ~drain.on /\ Cardinality(Active) >= MaxActive
  <2>1. \E result \in Errors, b \in BOOLEAN : Become(e, Settled(x, result, b))
    BY <1>3, <1>5 DEF Execute
  <2> QED BY <1>2, <2>1
<1>6. CASE ~compromised /\ ~drain.on /\ ~(Cardinality(Active) >= MaxActive)
  <2> DEFINE y == [x EXCEPT !.stage = "inspecting"]
  <2>1. Become(e, y)
    BY <1>6 DEF Execute
  <2>2. Follows(x, "inspecting", pinned)
    BY <1>1 DEF Follows
  <2>3. Sound(y, compromised, pinned, versions) /\ y.root = x.root
    BY <1>1, <2>2, ContinueKeeps
  <2> HIDE DEF y
  <2>4. MayBecome(e, y, compromised)
    BY <1>6, <2>3 DEF MayBecome
  <2> QED BY <1>1, <2>1, <2>4, BecomeStep
<1> QED BY <1>4, <1>5, <1>6

LEMMA StepOfInterrupt ==
  ASSUME ProcessAssumption, ProcessInv, NEW e \in Executions, NEW why \in Reasons, Interrupt(e, why)
  PROVE  ProcessInv' /\ StartsOnlyOpen
<1> DEFINE y == Abort(execution[e], why, compromised)
<1>1. Frame /\ pinned' = pinned /\ Become(e, y)
  BY DEF Interrupt, Frame
<1>2. /\ Sound(y, compromised, pinned, versions)
      /\ Admitted(y) => Admitted(execution[e]) /\ y.aborted
      /\ y.root = execution[e].root
  BY TypesGive, AbortKeeps
<1> HIDE DEF y
<1>3. MayBecome(e, y, compromised)
  BY <1>2 DEF MayBecome
<1> QED BY <1>1, <1>3, BecomeStep

LEMMA StepOfRecheck ==
  ASSUME ProcessAssumption, ProcessInv, NEW e \in Executions, Recheck(e)
  PROVE  ProcessInv' /\ StartsOnlyOpen
<1>1. /\ Frame /\ pinned' = pinned /\ execution[e].stage = "rechecking" /\ execution[e].stage \in Early
      /\ Admitted(execution[e])
  BY DEF Recheck, Frame, Early, Admitted
<1>2. {"EXECUTABLE_UNAVAILABLE", "EXECUTABLE_UNSAFE", "EXECUTION_CANCELLED"} \subseteq Errors
  BY DEF Errors
<1>3. CASE \E result \in Errors : Settle(e, result)
  BY <1>1, <1>3, EarlySettle
<1>4. CASE file = pinned /\ file # None /\ Continue(e, "isolating")
  <2>1. Follows(execution[e], "isolating", pinned)
    BY <1>1, <1>4 DEF Follows
  <2> QED BY <1>1, <1>4, <2>1, ContinueStep
<1> QED BY <1>2, <1>3, <1>4 DEF Recheck

LEMMA IsolatedIsReady ==
  ASSUME ProcessAssumption, NEW bad, NEW pin, NEW ver, NEW x, Sound(x, bad, pin, ver), x.stage = "isolating"
  PROVE  LET y == [x EXCEPT !.directories = TRUE]
         IN ReadyToSpawn(y, pin, ver) /\ y.aborted = x.aborted /\ y.stage = "isolating"
<1> DEFINE y == [x EXCEPT !.directories = TRUE]
<1>1. /\ x \in Records /\ ChildInv(x) /\ EndInv(x, bad) /\ ProgramInv(x, pin, ver)
  BY DEF Sound
<1>2. y = [stage |-> x.stage, aborted |-> x.aborted, why |-> x.why, failure |-> x.failure, cleanup |-> x.cleanup,
           root |-> x.root, descendants |-> x.descendants, image |-> x.image, directories |-> TRUE,
           outcome |-> x.outcome]
  <2>1. y = [x EXCEPT !.directories = TRUE]
    OBVIOUS
  <2> HIDE DEF y
  <2>2. x = [stage |-> x.stage, aborted |-> x.aborted, why |-> x.why, failure |-> x.failure, cleanup |-> x.cleanup,
             root |-> x.root, descendants |-> x.descendants, image |-> x.image, directories |-> x.directories,
             outcome |-> x.outcome]
    BY <1>1, Fields
  <2> QED BY <2>1, <2>2
<1> HIDE DEF y
<1>3. y \in Records
  BY <1>1, <1>2, FieldTypes DEF Records
<1>4. TreeInv(y) /\ y.root = "none" /\ y.outcome = None /\ pin # None /\ (y.aborted => y.why \in Reasons)
  BY <1>1, <1>2 DEF TreeInv, ChildInv, EndInv, ProgramInv, Early
<1>5. ProgramInv(y, pin, ver)
  BY <1>1, <1>2 DEF ProgramInv, Fed
<1> QED BY <1>2, <1>3, <1>4, <1>5 DEF ReadyToSpawn, y

LEMMA StepOfIsolationFails ==
  ASSUME ProcessAssumption, ProcessInv, NEW e \in Executions, IsolationFails(e)
  PROVE  ProcessInv' /\ StartsOnlyOpen
<1> DEFINE x == [execution[e] EXCEPT !.directories = TRUE]
           y == Settled(x, "PROCESS_TREE_CLEANUP_FAILED", TRUE)
<1>1. /\ Frame /\ pinned' = pinned /\ execution[e].stage = "isolating" /\ execution[e].stage \in Early
  BY DEF IsolationFails, Frame, Early
<1>2. "INVALID_DEFINITION" \in Errors /\ "PROCESS_TREE_CLEANUP_FAILED" \in Errors
  BY DEF Errors
<1>3. CASE Settle(e, "INVALID_DEFINITION")
  BY <1>1, <1>2, <1>3, EarlySettle
<1>4. CASE Quarantine(e, y)
  <2>1. ReadyToSpawn(x, pinned, versions)
    BY <1>1, TypesGive, IsolatedIsReady
  <2>2. compromised' = TRUE
    BY <1>4 DEF Quarantine
  <2> HIDE DEF x
  <2>3. MaySettle(x, "PROCESS_TREE_CLEANUP_FAILED", compromised', pinned, versions)
    BY <1>2, <2>1, <2>2, ReadyEnds DEF MaySettle
  <2>4. Sound(y, compromised', pinned, versions) /\ ~Admitted(y) /\ y.root = x.root
    <3>1. y = Settled(x, "PROCESS_TREE_CLEANUP_FAILED", compromised')
      BY <2>2
    <3> HIDE DEF y
    <3> QED BY <2>3, <3>1, SettledKeeps
  <2>5. x.root = "none"
    BY <2>1 DEF ReadyToSpawn
  <2> HIDE DEF y
  <2> QED BY <1>1, <1>4, <2>4, <2>5, QuarantineStep
<1> QED BY <1>3, <1>4 DEF IsolationFails

LEMMA LaunchingKeeps ==
  ASSUME ProcessAssumption, NEW bad, NEW pin, NEW ver, NEW x, ReadyToSpawn(x, pin, ver)
  PROVE  LET y == [x EXCEPT !.stage = "launching"]
         IN Sound(y, bad, pin, ver) /\ y.aborted = x.aborted /\ y.root = "none"
<1> DEFINE y == [x EXCEPT !.stage = "launching"]
<1>1. /\ x \in Records /\ TreeInv(x) /\ ProgramInv(x, pin, ver)
      /\ x.root = "none" /\ x.outcome = None /\ pin # None
      /\ x.aborted => x.why \in Reasons
  BY DEF ReadyToSpawn
<1>2. y = [stage |-> "launching", aborted |-> x.aborted, why |-> x.why, failure |-> x.failure, cleanup |-> x.cleanup,
           root |-> x.root, descendants |-> x.descendants, image |-> x.image, directories |-> x.directories,
           outcome |-> x.outcome]
  <2>1. y = [x EXCEPT !.stage = "launching"]
    OBVIOUS
  <2> HIDE DEF y
  <2>2. x = [stage |-> x.stage, aborted |-> x.aborted, why |-> x.why, failure |-> x.failure, cleanup |-> x.cleanup,
             root |-> x.root, descendants |-> x.descendants, image |-> x.image, directories |-> x.directories,
             outcome |-> x.outcome]
    BY <1>1, Fields
  <2> QED BY <2>1, <2>2
<1> HIDE DEF y
<1>3. y \in Records
  BY <1>1, <1>2, FieldTypes DEF Records, Stages
<1>4. ChildInv(y)
  BY <1>1, <1>2 DEF TreeInv, ChildInv, Early
<1>5. EndInv(y, bad)
  BY <1>1, <1>2, NoneIsNoError DEF EndInv
<1>6. ProgramInv(y, pin, ver)
  BY <1>1, <1>2, NoneIsNoError DEF ProgramInv, Fed
<1> QED BY <1>1, <1>2, <1>3, <1>4, <1>5, <1>6 DEF Sound, y

LEMMA ReadyFinish ==
  ASSUME ProcessAssumption, ProcessInv, NEW e \in Executions, NEW x, NEW result \in Errors, Finish(e, x, result),
         Frame, pinned' = pinned, Admitted(execution[e]), x.aborted = execution[e].aborted,
         ReadyToSpawn(x, pinned, versions)
  PROVE  ProcessInv' /\ StartsOnlyOpen
<1>1. MayEnd(x, result, pinned, versions)
  BY ReadyEnds
<1>2. x.outcome = None /\ x.root = "none"
  BY DEF ReadyToSpawn
<1> QED BY <1>1, <1>2, FinishStep

LEMMA StepOfIsolate ==
  ASSUME ProcessAssumption, ProcessInv, NEW e \in Executions, Isolate(e)
  PROVE  ProcessInv' /\ StartsOnlyOpen
<1> DEFINE x == [execution[e] EXCEPT !.directories = TRUE]
<1>1. /\ Frame /\ pinned' = pinned /\ execution[e].stage = "isolating" /\ Admitted(execution[e])
  BY DEF Isolate, Frame, Admitted
<1>2. ReadyToSpawn(x, pinned, versions) /\ x.aborted = execution[e].aborted
  BY <1>1, TypesGive, IsolatedIsReady
<1>3. \/ x.aborted /\ Finish(e, x, "EXECUTION_CANCELLED")
      \/ ~x.aborted /\ Spawn(e, x)
      \/ Become(e, [x EXCEPT !.stage = "launching"])
  BY DEF Isolate
<1> HIDE DEF x
<1>4. CASE Finish(e, x, "EXECUTION_CANCELLED")
  <2>1. "EXECUTION_CANCELLED" \in Errors
    BY DEF Errors
  <2> QED BY <1>1, <1>2, <1>4, <2>1, ReadyFinish
<1>5. CASE ~x.aborted /\ Spawn(e, x)
  BY <1>1, <1>2, <1>5, SpawnStep
<1>6. CASE Become(e, [x EXCEPT !.stage = "launching"])
  <2> DEFINE y == [x EXCEPT !.stage = "launching"]
  <2>1. Sound(y, compromised, pinned, versions) /\ y.aborted = x.aborted /\ y.root = "none"
    BY <1>2, LaunchingKeeps
  <2>2. Become(e, y)
    BY <1>6
  <2> HIDE DEF y
  <2>3. MayBecome(e, y, compromised)
    BY <1>1, <1>2, <2>1, TypesGive DEF MayBecome, StopKnown
  <2> QED BY <1>1, <2>2, <2>3, BecomeStep
<1> QED BY <1>3, <1>4, <1>5, <1>6

LEMMA StepOfLaunch ==
  ASSUME ProcessAssumption, ProcessInv, NEW e \in Executions, Launch(e)
  PROVE  ProcessInv' /\ StartsOnlyOpen
<1>1. /\ Frame /\ pinned' = pinned /\ execution[e].stage = "launching" /\ Admitted(execution[e])
  BY DEF Launch, Frame, Admitted
<1>2. ReadyToSpawn(execution[e], pinned, versions)
  <2>1. Sound(execution[e], compromised, pinned, versions)
    BY TypesGive
  <2> QED BY <1>1, <2>1 DEF ReadyToSpawn, Sound, ChildInv, EndInv, ProgramInv
<1>3. {"EXECUTION_CANCELLED", "EXECUTABLE_UNSAFE"} \subseteq Errors
  BY DEF Errors
<1>4. CASE \E result \in Errors : Finish(e, execution[e], result)
  BY <1>1, <1>2, <1>4, ReadyFinish
<1>5. CASE ~execution[e].aborted /\ Spawn(e, execution[e])
  BY <1>1, <1>2, <1>5, SpawnStep
<1> QED BY <1>3, <1>4, <1>5 DEF Launch

\* A termination is asked for.
LEMMA CleanupStep ==
  ASSUME ProcessAssumption, ProcessInv, NEW e \in Executions, NEW failure \in Errors,
         Become(e, RequestCleanup(execution[e], failure)), Frame, pinned' = pinned,
         execution[e].stage \in {"verifying", "writing", "waiting"}
  PROVE  ProcessInv' /\ StartsOnlyOpen
<1> DEFINE y == RequestCleanup(execution[e], failure)
<1>1. Become(e, y) /\ Admitted(execution[e])
  BY DEF Admitted
<1>2. /\ Sound(y, compromised, pinned, versions)
      /\ y.aborted = execution[e].aborted /\ y.root = execution[e].root
  BY TypesGive, CleanupKeeps
<1> HIDE DEF y
<1>3. MayBecome(e, y, compromised)
  BY <1>1, <1>2, TypesGive DEF MayBecome, StopKnown
<1> QED BY <1>1, <1>3, BecomeStep

LEMMA StepOfOverflow ==
  ASSUME ProcessAssumption, ProcessInv, NEW e \in Executions, Overflow(e)
  PROVE  ProcessInv' /\ StartsOnlyOpen
<1>1. "OUTPUT_LIMIT_EXCEEDED" \in Errors
  BY DEF Errors
<1> QED BY <1>1, CleanupStep DEF Overflow, Frame

\* On POSIX the executable after the spawn is the one that was spawned: a version is on disk once.
LEMMA StepOfVerify ==
  ASSUME ProcessAssumption, ProcessInv, NEW e \in Executions, Verify(e)
  PROVE  ProcessInv' /\ StartsOnlyOpen
<1>1. /\ Frame /\ pinned' = pinned /\ execution[e].stage = "verifying" /\ Admitted(execution[e])
      /\ Sound(execution[e], compromised, pinned, versions)
  BY TypesGive DEF Verify, Frame, Admitted
<1>2. CASE Throw(e, execution[e], "EXECUTABLE_UNAVAILABLE")
  <2>1. "EXECUTABLE_UNAVAILABLE" \in Errors \ Proven
    BY DEF Errors, Proven
  <2> QED BY <1>1, <1>2, <2>1, ThrowStep
<1>3. CASE Become(e, RequestCleanup(execution[e], "EXECUTABLE_UNSAFE"))
  <2>1. "EXECUTABLE_UNSAFE" \in Errors
    BY DEF Errors
  <2> QED BY <1>1, <1>3, <2>1, CleanupStep
<1>4. CASE Continue(e, "writing") /\ (Platform = "posix" => file = pinned /\ file # None)
  <2>1. Platform = "posix" => pinned # None /\ execution[e].image = pinned
    <3>1. /\ execution[e].image # None /\ pinned <= execution[e].image /\ execution[e].image <= versions
          /\ execution[e].image \in Versions \cup {None}
      BY <1>1, FieldTypes DEF Sound, ProgramInv
    <3>2. file # None => file = versions
      BY TypesGive DEF Files
    <3>3. execution[e].image \in Nat /\ versions \in Nat
      BY <3>1, TypesGive DEF Versions
    <3> QED BY <1>4, <3>1, <3>2, <3>3
  <2>2. Follows(execution[e], "writing", pinned)
    BY <1>1, <2>1 DEF Follows
  <2> QED BY <1>1, <1>4, <2>2, ContinueStep
<1> QED BY <1>2, <1>3, <1>4 DEF Verify

LEMMA StepOfWriteStdin ==
  ASSUME ProcessAssumption, ProcessInv, NEW e \in Executions, WriteStdin(e)
  PROVE  ProcessInv' /\ StartsOnlyOpen
<1>1. /\ Frame /\ pinned' = pinned /\ execution[e].stage = "writing" /\ Admitted(execution[e])
      /\ Continue(e, "waiting")
  BY DEF WriteStdin, Frame, Admitted
<1>2. Follows(execution[e], "waiting", pinned)
  BY <1>1 DEF Follows
<1> QED BY <1>1, <1>2, ContinueStep

LEMMA StepOfStdinFails ==
  ASSUME ProcessAssumption, ProcessInv, NEW e \in Executions, StdinFails(e)
  PROVE  ProcessInv' /\ StartsOnlyOpen
<1> DEFINE y == RequestCleanup(execution[e], "SPAWN_FAILED")
<1>1. /\ Frame /\ pinned' = pinned /\ execution[e].stage \in {"verifying", "writing", "waiting"}
      /\ Admitted(execution[e]) /\ Sound(execution[e], compromised, pinned, versions)
      /\ Throw(e, y, "SPAWN_FAILED")
  BY TypesGive DEF StdinFails, Frame, Admitted
<1>2. "SPAWN_FAILED" \in Errors /\ "SPAWN_FAILED" \notin Proven
  BY DEF Errors, Proven
<1>3. /\ Sound(y, compromised, pinned, versions) /\ y.stage = "failing"
      /\ y.aborted = execution[e].aborted /\ y.root = execution[e].root
  BY <1>1, <1>2, CleanupKeeps
<1> HIDE DEF y
<1> QED BY <1>1, <1>2, <1>3, ThrowStep

\* The tree has ended by itself: the outcome is OK but for a root that was killed.
LEMMA ExitStep ==
  ASSUME ProcessAssumption, ProcessInv, NEW e \in Executions, Frame, pinned' = pinned,
         execution[e].stage \in {"waiting", "residual"},
         NEW result \in {"OK", "PROCESS_TREE_CLEANUP_FAILED"}, Finish(e, execution[e], result),
         result = "OK" => Gone(execution[e])
  PROVE  ProcessInv' /\ StartsOnlyOpen
<1>1. Sound(execution[e], compromised, pinned, versions) /\ Admitted(execution[e])
  BY TypesGive DEF Admitted
<1>2. execution[e].outcome = None
  BY <1>1 DEF Sound, EndInv
<1>3. MayEnd(execution[e], result, pinned, versions)
  BY <1>1 DEF MayEnd, Sound, ChildInv, EndInv, ProgramInv, Fed, Errors, Proven
<1>4. result = "PROCESS_TREE_CLEANUP_FAILED" \/ execution[e].root # "alive"
  BY DEF Gone
<1> QED BY <1>1, <1>2, <1>3, <1>4, FinishStep

LEMMA StepOfClose ==
  ASSUME ProcessAssumption, ProcessInv, NEW e \in Executions, Close(e)
  PROVE  ProcessInv' /\ StartsOnlyOpen
<1>1. /\ Frame /\ pinned' = pinned /\ execution[e].stage = "waiting" /\ Admitted(execution[e])
  BY DEF Close, Frame, Admitted
<1>2. CASE Gone(execution[e])
  <2>1. \E result \in {"OK", "PROCESS_TREE_CLEANUP_FAILED"} : Finish(e, execution[e], result)
    BY <1>2 DEF Close, Exited
  <2> QED BY <1>1, <1>2, <2>1, ExitStep
<1>3. CASE ~Gone(execution[e])
  <2>1. Continue(e, "residual") /\ Follows(execution[e], "residual", pinned)
    BY <1>1, <1>3 DEF Close, Follows
  <2> QED BY <1>1, <2>1, ContinueStep
<1> QED BY <1>2, <1>3

LEMMA StepOfResidualEnds ==
  ASSUME ProcessAssumption, ProcessInv, NEW e \in Executions, ResidualEnds(e)
  PROVE  ProcessInv' /\ StartsOnlyOpen
<1>1. /\ Frame /\ pinned' = pinned /\ execution[e].stage = "residual"
  BY DEF ResidualEnds, Frame
<1>2. \E result \in {"OK", "PROCESS_TREE_CLEANUP_FAILED"} :
        Finish(e, execution[e], result) /\ (result = "OK" => Gone(execution[e]))
  BY DEF ResidualEnds, Exited
<1> QED BY <1>1, <1>2, ExitStep

LEMMA CleanupEndedKeeps ==
  ASSUME ProcessAssumption, NEW bad, NEW pin, NEW ver, NEW x, Sound(x, bad, pin, ver)
  PROVE  LET y == [x EXCEPT !.cleanup = "ended"]
         IN /\ Sound(y, bad, pin, ver)
            /\ y.stage = x.stage /\ y.aborted = x.aborted /\ y.root = x.root /\ y.outcome = x.outcome
            /\ y.failure = x.failure /\ (Gone(x) => Gone(y))
<1> DEFINE y == [x EXCEPT !.cleanup = "ended"]
<1>1. /\ x \in Records /\ ChildInv(x) /\ EndInv(x, bad) /\ ProgramInv(x, pin, ver)
  BY DEF Sound
<1>2. y = [stage |-> x.stage, aborted |-> x.aborted, why |-> x.why, failure |-> x.failure, cleanup |-> "ended",
           root |-> x.root, descendants |-> x.descendants, image |-> x.image, directories |-> x.directories,
           outcome |-> x.outcome]
  <2>1. y = [x EXCEPT !.cleanup = "ended"]
    OBVIOUS
  <2> HIDE DEF y
  <2>2. x = [stage |-> x.stage, aborted |-> x.aborted, why |-> x.why, failure |-> x.failure, cleanup |-> x.cleanup,
             root |-> x.root, descendants |-> x.descendants, image |-> x.image, directories |-> x.directories,
             outcome |-> x.outcome]
    BY <1>1, Fields
  <2> QED BY <2>1, <2>2
<1> HIDE DEF y
<1>3. y \in Records
  BY <1>1, <1>2, FieldTypes DEF Records
<1>4. ChildInv(y)
  BY <1>1, <1>2 DEF TreeInv, ChildInv
<1>5. EndInv(y, bad)
  <2>1. Gone(x) => Gone(y)
    BY <1>2 DEF Gone
  <2> QED BY <1>1, <1>2, <2>1 DEF EndInv
<1>6. ProgramInv(y, pin, ver)
  BY <1>1, <1>2 DEF ProgramInv, Fed
<1> QED BY <1>2, <1>3, <1>4, <1>5, <1>6 DEF Sound, Gone, y

\* What the child does by itself.
LEMMA RootExitedKeeps ==
  ASSUME ProcessAssumption, NEW bad, NEW pin, NEW ver, NEW x, Sound(x, bad, pin, ver),
         x.root = "alive", NEW how \in {"exited", "signalled"}, NEW d \in BOOLEAN,
          d => x.descendants /\ Platform = "posix"
  PROVE  Sound([x EXCEPT !.root = how, !.descendants = d], bad, pin, ver)
<1> DEFINE y == [x EXCEPT !.root = how, !.descendants = d]
<1>1. /\ x \in Records /\ ChildInv(x) /\ EndInv(x, bad) /\ ProgramInv(x, pin, ver)
  BY DEF Sound
<1>2. y = [stage |-> x.stage, aborted |-> x.aborted, why |-> x.why, failure |-> x.failure, cleanup |-> x.cleanup,
           root |-> how, descendants |-> d, image |-> x.image, directories |-> x.directories,
           outcome |-> x.outcome]
  <2>1. y = [x EXCEPT !.root = how, !.descendants = d]
    OBVIOUS
  <2> HIDE DEF y
  <2>2. x = [stage |-> x.stage, aborted |-> x.aborted, why |-> x.why, failure |-> x.failure, cleanup |-> x.cleanup,
             root |-> x.root, descendants |-> x.descendants, image |-> x.image, directories |-> x.directories,
             outcome |-> x.outcome]
    BY <1>1, Fields
  <2> QED BY <2>1, <2>2
<1> HIDE DEF y
<1>3. y \in Records
  BY <1>1, <1>2, FieldTypes DEF Records
<1>4. ChildInv(y)
  BY <1>1, <1>2, ProcessAssumption DEF ProcessAssumption, TreeInv, ChildInv, Early
<1>5. EndInv(y, bad)
  <2>1. Gone(x) => Gone(y)
    BY <1>2 DEF Gone
  <2> QED BY <1>1, <1>2, <2>1 DEF EndInv
<1>6. ProgramInv(y, pin, ver)
  BY <1>1, <1>2 DEF ProgramInv, Fed
<1> QED BY <1>3, <1>4, <1>5, <1>6 DEF Sound, y

LEMMA DescendantKeeps ==
  ASSUME ProcessAssumption, NEW bad, NEW pin, NEW ver, NEW x, Sound(x, bad, pin, ver),
         NEW d \in BOOLEAN, x.root = "alive" \/ ~d
  PROVE  LET y == [x EXCEPT !.descendants = d]
         IN /\ Sound(y, bad, pin, ver)
            /\ y.stage = x.stage /\ y.aborted = x.aborted /\ y.root = x.root
<1> DEFINE y == [x EXCEPT !.descendants = d]
<1>1. /\ x \in Records /\ ChildInv(x) /\ EndInv(x, bad) /\ ProgramInv(x, pin, ver)
  BY DEF Sound
<1>2. y = [stage |-> x.stage, aborted |-> x.aborted, why |-> x.why, failure |-> x.failure, cleanup |-> x.cleanup,
           root |-> x.root, descendants |-> d, image |-> x.image, directories |-> x.directories,
           outcome |-> x.outcome]
  <2>1. y = [x EXCEPT !.descendants = d]
    OBVIOUS
  <2> HIDE DEF y
  <2>2. x = [stage |-> x.stage, aborted |-> x.aborted, why |-> x.why, failure |-> x.failure, cleanup |-> x.cleanup,
             root |-> x.root, descendants |-> x.descendants, image |-> x.image, directories |-> x.directories,
             outcome |-> x.outcome]
    BY <1>1, Fields
  <2> QED BY <2>1, <2>2
<1> HIDE DEF y
<1>3. y \in Records
  BY <1>1, <1>2, FieldTypes DEF Records
<1>4. ChildInv(y)
  BY <1>1, <1>2 DEF TreeInv, ChildInv
<1>5. EndInv(y, bad)
  <2>1. Gone(x) => Gone(y)
    BY <1>2 DEF Gone
  <2> QED BY <1>1, <1>2, <2>1 DEF EndInv
<1>6. ProgramInv(y, pin, ver)
  BY <1>1, <1>2 DEF ProgramInv, Fed
<1> QED BY <1>2, <1>3, <1>4, <1>5, <1>6 DEF Sound, y

LEMMA StepOfCleanupEnds ==
  ASSUME ProcessAssumption, ProcessInv, NEW e \in Executions, CleanupEnds(e)
  PROVE  ProcessInv' /\ StartsOnlyOpen
<1> DEFINE x == [execution[e] EXCEPT !.cleanup = "ended"]
<1>1. /\ Frame /\ pinned' = pinned /\ Sound(execution[e], compromised, pinned, versions)
  BY TypesGive DEF CleanupEnds, Frame
<1>2. /\ Sound(x, compromised, pinned, versions) /\ x.stage = execution[e].stage /\ x.aborted = execution[e].aborted
      /\ x.root = execution[e].root /\ x.failure = execution[e].failure /\ (Gone(execution[e]) => Gone(x))
  BY <1>1, CleanupEndedKeeps
<1>3. PICK verdict \in Verdicts(execution[e]) :
        IF x.stage = "failing"
        THEN Throw(e, x, IF verdict = "verified" THEN x.failure ELSE "PROCESS_TREE_CLEANUP_FAILED")
        ELSE Become(e, x)
  BY DEF CleanupEnds
<1> HIDE DEF x
<1>4. CASE x.stage = "failing"
  <2> DEFINE failure == IF verdict = "verified" THEN x.failure ELSE "PROCESS_TREE_CLEANUP_FAILED"
  <2>1. Throw(e, x, failure)
    BY <1>3, <1>4
  <2>2. failure \in Errors
    BY <1>2, <1>4, FieldTypes DEF Sound, EndInv, Errors
  <2>3. failure \in Proven => Gone(x)
    BY <1>2 DEF Verdicts, Proven
  <2> HIDE DEF failure
  <2>4. Admitted(execution[e])
    BY <1>2, <1>4 DEF Admitted
  <2> QED BY <1>1, <1>2, <1>4, <2>1, <2>2, <2>3, <2>4, ThrowStep
<1>5. CASE x.stage # "failing"
  <2>1. Become(e, x)
    BY <1>3, <1>5
  <2>2. MayBecome(e, x, compromised)
    BY <1>2, TypesGive DEF MayBecome, StopKnown, Admitted
  <2> QED BY <1>1, <2>1, <2>2, BecomeStep
<1> QED BY <1>4, <1>5

LEMMA StepOfTerminationEnds ==
  ASSUME ProcessAssumption, ProcessInv, NEW e \in Executions, TerminationEnds(e)
  PROVE  ProcessInv' /\ StartsOnlyOpen
<1> DEFINE x == execution[e]
<1>1. /\ Frame /\ pinned' = pinned /\ Sound(x, compromised, pinned, versions)
      /\ x.stage = "terminating" /\ Admitted(x)
  BY TypesGive DEF TerminationEnds, Frame, Admitted
<1>2. PICK verdict \in Verdicts(x) :
        Finish(e, x, IF verdict = "verified" THEN x.failure ELSE "PROCESS_TREE_CLEANUP_FAILED")
  BY DEF TerminationEnds
<1> DEFINE result == IF verdict = "verified" THEN x.failure ELSE "PROCESS_TREE_CLEANUP_FAILED"
<1>3. /\ result \in Errors
      /\ result \in Proven => Gone(x)
      /\ result = "PROCESS_TREE_CLEANUP_FAILED" \/ x.root # "alive"
  BY <1>1, FieldTypes DEF Sound, EndInv, Errors, Verdicts, Proven, Gone
<1>4. Finish(e, x, result)
  BY <1>2
<1> HIDE DEF result
<1>5. MayEnd(x, result, pinned, versions) /\ x.outcome = None
  BY <1>1, <1>3 DEF MayEnd, Sound, ChildInv, EndInv, Errors
<1> QED BY <1>1, <1>3, <1>4, <1>5, FinishStep

LEMMA StepOfRemove ==
  ASSUME ProcessAssumption, ProcessInv, NEW e \in Executions, Remove(e)
  PROVE  ProcessInv' /\ StartsOnlyOpen
<1> DEFINE x == execution[e]
           y == [x EXCEPT !.directories = FALSE]
<1>1. /\ x \in Records /\ ChildInv(x) /\ EndInv(x, compromised) /\ ProgramInv(x, pinned, versions)
      /\ Frame /\ pinned' = pinned /\ x.stage = "removing"
      /\ Become(e, Settled(y, x.failure, compromised))
  BY TypesGive DEF Sound, Remove, Frame
<1> HIDE DEF x
<1>2. y = [stage |-> x.stage, aborted |-> x.aborted, why |-> x.why, failure |-> x.failure, cleanup |-> x.cleanup,
           root |-> x.root, descendants |-> x.descendants, image |-> x.image, directories |-> FALSE,
           outcome |-> x.outcome]
  <2>1. y = [x EXCEPT !.directories = FALSE]
    OBVIOUS
  <2> HIDE DEF y
  <2>2. x = [stage |-> x.stage, aborted |-> x.aborted, why |-> x.why, failure |-> x.failure, cleanup |-> x.cleanup,
             root |-> x.root, descendants |-> x.descendants, image |-> x.image, directories |-> x.directories,
             outcome |-> x.outcome]
    BY <1>1, Fields
  <2> QED BY <2>1, <2>2
<1> HIDE DEF y
<1>3. y \in Records
  BY <1>1, <1>2, FieldTypes DEF Records
<1>4. TreeInv(y) /\ (Gone(x) => Gone(y)) /\ y.root = x.root
  BY <1>1, <1>2 DEF TreeInv, ChildInv, Gone
<1>5. ProgramInv(y, pinned, versions)
  BY <1>1, <1>2 DEF ProgramInv, Fed
<1>6. /\ x.failure \in Errors \cup {"OK"}
      /\ x.failure \in Proven => Gone(y)
      /\ Platform = "posix" /\ x.failure = "OK" => pinned # None /\ y.image = pinned
      /\ y.aborted => y.why \in Reasons
      /\ compromised = TRUE \/ (y.root # "alive" /\ ~y.directories)
  BY <1>1, <1>2, <1>4, FieldTypes DEF EndInv, ProgramInv, Fed
<1>7. MaySettle(y, x.failure, compromised, pinned, versions)
  BY <1>3, <1>4, <1>5, <1>6 DEF MaySettle, MayEnd
<1>8. execution[e].root = "none" => y.root = "none"
  BY <1>4 DEF x
<1> QED BY <1>1, <1>7, <1>8, SettleStep

LEMMA StepOfRemovalFails ==
  ASSUME ProcessAssumption, ProcessInv, NEW e \in Executions, RemovalFails(e)
  PROVE  ProcessInv' /\ StartsOnlyOpen
<1> DEFINE x == execution[e]
           y == Settled(x, "PROCESS_TREE_CLEANUP_FAILED", TRUE)
<1>1. /\ Frame /\ pinned' = pinned /\ x.stage = "removing" /\ Quarantine(e, y)
      /\ Sound(x, compromised, pinned, versions)
  BY TypesGive DEF RemovalFails, Frame
<1>2. compromised' = TRUE
  BY <1>1 DEF Quarantine
<1>3. MayEnd(x, "PROCESS_TREE_CLEANUP_FAILED", pinned, versions)
  BY <1>1 DEF MayEnd, Sound, ChildInv, EndInv, Errors, Proven
<1> HIDE DEF x
<1>4. MaySettle(x, "PROCESS_TREE_CLEANUP_FAILED", compromised', pinned, versions)
  BY <1>2, <1>3 DEF MaySettle
<1>5. Sound(y, compromised', pinned, versions) /\ ~Admitted(y) /\ y.root = x.root
  <2>1. y = Settled(x, "PROCESS_TREE_CLEANUP_FAILED", compromised')
    BY <1>2
  <2> HIDE DEF y
  <2> QED BY <1>4, <2>1, SettledKeeps
<1> HIDE DEF y
<1>6. execution[e].root = "none" => y.root = "none"
  BY <1>5 DEF x
<1> QED BY <1>1, <1>5, <1>6, QuarantineStep

\* What the child does is no step of the runner.
LEMMA LiveStep ==
  ASSUME ProcessAssumption, ProcessInv, NEW e \in Executions, NEW y, Tree(e, y),
         Sound(y, compromised, pinned, versions), y.stage = execution[e].stage, y.aborted = execution[e].aborted,
         execution[e].root = "none" => y.root = "none"
  PROVE  ProcessInv' /\ StartsOnlyOpen
<1>1. MayBecome(e, y, compromised)
  BY TypesGive DEF MayBecome, StopKnown, Admitted
<1>2. Frame /\ pinned' = pinned /\ Become(e, y)
  BY DEF Tree, Frame, Become
<1> QED BY <1>1, <1>2, BecomeStep

LEMMA StepOfTree ==
  ASSUME ProcessAssumption, ProcessInv, NEW e \in Executions,
         RootExits(e) \/ DescendantStarts(e) \/ DescendantsExit(e)
  PROVE  ProcessInv' /\ StartsOnlyOpen
<1> DEFINE x == execution[e]
<1>1. Sound(x, compromised, pinned, versions)
  BY TypesGive
<1>2. CASE RootExits(e)
  <2>1. x.root = "alive"
    BY <1>2 DEF RootExits
  <2>2. PICK how \in {"exited", "signalled"}, d \in BOOLEAN :
          /\ Tree(e, [x EXCEPT !.root = how, !.descendants = d])
          /\ d => x.descendants /\ Platform = "posix"
    <3>1. PICK how \in {"exited", "signalled"} :
            Tree(e, [x EXCEPT !.root = how, !.descendants = @ /\ Platform = "posix"])
      BY <1>2 DEF RootExits
    <3>2. (x.descendants /\ Platform = "posix") \in BOOLEAN
      OBVIOUS
    <3> QED BY <3>1, <3>2
  <2> DEFINE y == [x EXCEPT !.root = how, !.descendants = d]
  <2>3. Sound(y, compromised, pinned, versions) /\ y.stage = x.stage /\ y.aborted = x.aborted
    <3>1. Sound(y, compromised, pinned, versions)
      BY <1>1, <2>1, <2>2, RootExitedKeeps
    <3>2. y.stage = x.stage /\ y.aborted = x.aborted
      BY <1>1 DEF Sound, Records
    <3> QED BY <3>1, <3>2
  <2>4. Tree(e, y)
    BY <2>2
  <2> HIDE DEF y
  <2> QED BY <2>1, <2>3, <2>4, LiveStep
<1>3. CASE DescendantStarts(e) \/ DescendantsExit(e)
  <2>1. PICK d \in BOOLEAN : Tree(e, [x EXCEPT !.descendants = d]) /\ (x.root = "alive" \/ ~d)
    BY <1>3 DEF DescendantStarts, DescendantsExit
  <2> DEFINE y == [x EXCEPT !.descendants = d]
  <2>2. Sound(y, compromised, pinned, versions) /\ y.stage = x.stage /\ y.aborted = x.aborted /\ y.root = x.root
    BY <1>1, <2>1, DescendantKeeps
  <2>3. Tree(e, y)
    BY <2>1
  <2> HIDE DEF y
  <2> QED BY <2>2, <2>3, LiveStep
<1> QED BY <1>2, <1>3

-----------------------------------------------------------------------------
(* The steps of all: the executable, its identity, the drain. *)

\* The first identity that is pinned is the one on disk, and stays.
LEMMA PinStep ==
  ASSUME ProcessAssumption, ProcessInv, NEW e \in Executions, Frame, file # None, pinned \in {None, file},
         pinned' = file, NEW x, execution' = [execution EXCEPT ![e] = x], compromised' = compromised,
         hash' \in {"none", "hashing", "aborted", "done"}, MayBecome(e, x, compromised)
  PROVE  ProcessInv' /\ StartsOnlyOpen
<1>1. /\ execution'[e] = x
      /\ \A f \in Executions : f # e => execution'[f] = execution[f]
      /\ execution' = [f \in Executions |-> execution'[f]]
  BY TypesGive
<1>2. \A f \in Executions : Sound(execution'[f], compromised, pinned, versions)
  BY <1>1, TypesGive DEF MayBecome
<1>3. \A f \in Executions : Sound(execution'[f], compromised', pinned', versions)
  BY <1>2, SoundGrows
<1>4. drain.on \/ compromised' => \A f \in Executions : Admitted(execution'[f]) => execution'[f].aborted
  BY <1>1, TypesGive DEF MayBecome, StopKnown
<1>5. drain.on => \A f \in Executions : Admitted(execution'[f]) => Admitted(execution[f])
  BY <1>1, TypesGive DEF MayBecome
<1>6. pinned' \in Versions \cup {None} /\ (pinned' # None => pinned' <= versions) /\ compromised' \in BOOLEAN
  BY TypesGive DEF Files, Versions
<1>7. ProcessInv'
  BY <1>1, <1>3, <1>4, <1>5, <1>6, InvComposedAnew
<1> QED BY <1>1, <1>7 DEF StartsOnlyOpen, MayBecome

LEMMA EarlyBecomes ==
  ASSUME ProcessAssumption, ProcessInv, NEW e \in Executions, execution[e].stage = "inspecting"
  PROVE  /\ \A stage \in {"joining", "hashing", "rechecking"} :
               MayBecome(e, [execution[e] EXCEPT !.stage = stage], compromised)
         /\ \A result \in Errors : MayBecome(e, Settled(execution[e], result, compromised), compromised)
<1> DEFINE x == execution[e]
<1>1. Sound(x, compromised, pinned, versions) /\ x.stage \in Early /\ Admitted(x)
  BY TypesGive DEF Early, Admitted
<1>2. ASSUME NEW stage \in {"joining", "hashing", "rechecking"}
      PROVE  MayBecome(e, [x EXCEPT !.stage = stage], compromised)
  <2> DEFINE y == [x EXCEPT !.stage = stage]
  <2>1. Follows(x, stage, pinned)
    BY <1>1 DEF Follows
  <2>2. Sound(y, compromised, pinned, versions) /\ y.aborted = x.aborted /\ y.root = x.root
    BY <1>1, <2>1, ContinueKeeps
  <2> HIDE DEF y
  <2>3. MayBecome(e, y, compromised)
    BY <1>1, <2>2, TypesGive DEF MayBecome, StopKnown
  <2> QED BY <2>3 DEF y
<1>3. ASSUME NEW result \in Errors
      PROVE  MayBecome(e, Settled(x, result, compromised), compromised)
  <2> DEFINE y == Settled(x, result, compromised)
  <2>1. MaySettle(x, result, compromised, pinned, versions)
    BY <1>1, EarlySettles
  <2>2. Sound(y, compromised, pinned, versions) /\ ~Admitted(y) /\ y.root = x.root
    BY <2>1, SettledKeeps
  <2> HIDE DEF y
  <2>3. MayBecome(e, y, compromised)
    BY <2>2 DEF MayBecome
  <2> QED BY <2>3 DEF y
<1> QED BY <1>2, <1>3

LEMMA StepOfInspect ==
  ASSUME ProcessAssumption, ProcessInv, NEW e \in Executions, Inspect(e)
  PROVE  ProcessInv' /\ StartsOnlyOpen
<1> DEFINE x == execution[e]
<1>1. Frame /\ x.stage = "inspecting" /\ x.stage \in Early /\ Admitted(x)
  BY DEF Inspect, Frame, Early, Admitted
<1>2. {"EXECUTABLE_UNAVAILABLE", "EXECUTABLE_UNSAFE", "EXECUTION_CANCELLED"} \subseteq Errors
  BY DEF Errors
<1>3. CASE pinned' = pinned /\ \E result \in Errors : Settle(e, result)
  BY <1>1, <1>3, EarlySettle
<1>4. CASE pinned' = pinned /\ Continue(e, "joining")
  <2>1. Follows(x, "joining", pinned)
    BY <1>1 DEF Follows
  <2> QED BY <1>1, <1>4, <2>1, ContinueStep
<1>5. CASE /\ file # None /\ pinned \in {None, file} /\ pinned' = file
           /\ \/ Continue(e, "rechecking")
              \/ /\ hash' \in {hash, "hashing"} /\ compromised' = compromised
                 /\ \/ execution' = [execution EXCEPT ![e] = [x EXCEPT !.stage = "hashing"]]
                    \/ execution' = [execution EXCEPT ![e] = Settled(x, "EXECUTION_CANCELLED", compromised)]
  <2>1. PICK y : execution' = [execution EXCEPT ![e] = y] /\ MayBecome(e, y, compromised)
    BY <1>1, <1>2, <1>5, EarlyBecomes DEF Continue, Become
  <2>2. compromised' = compromised /\ hash' \in {"none", "hashing", "aborted", "done"}
    BY <1>5, TypesGive DEF Continue, Become
  <2> QED BY <1>1, <1>5, <2>1, <2>2, PinStep
<1>6. CASE file # None /\ PinOrCompare(e)
  <2>1. CASE pinned \notin {None, file}
    BY <1>2, <1>3, <1>6, <2>1 DEF PinOrCompare
  <2>2. CASE pinned \in {None, file} /\ hash = "done"
    BY <1>5, <1>6, <2>2 DEF PinOrCompare
  <2>3. CASE pinned \in {None, file} /\ hash # "done"
    <3>1. /\ pinned' = file /\ compromised' = compromised /\ hash' \in {hash, "hashing"}
          /\ execution' = [execution EXCEPT ![e] =
                             IF x.aborted THEN Settled(x, "EXECUTION_CANCELLED", compromised)
                                          ELSE [x EXCEPT !.stage = "hashing"]]
      BY <1>6, <2>3, TypesGive DEF PinOrCompare
    <3> QED BY <1>5, <1>6, <2>3, <3>1
  <2> QED BY <2>1, <2>2, <2>3
<1> QED BY <1>2, <1>3, <1>4, <1>6 DEF Inspect

LEMMA StepOfHashEnds ==
  ASSUME ProcessAssumption, ProcessInv, HashEnds
  PROVE  ProcessInv' /\ StartsOnlyOpen
<1>1. /\ Frame /\ pinned' = pinned /\ compromised' = compromised
      /\ hash' \in {"none", "hashing", "aborted", "done"}
  BY DEF HashEnds, Frame
<1>2. \A f \in Executions :
        \/ execution'[f] = execution[f]
        \/ /\ execution[f].stage \in {"hashing", "joining"}
           /\ \/ \E stage \in {"rechecking", "inspecting"} : execution'[f] = [execution[f] EXCEPT !.stage = stage]
              \/ execution'[f] = Settled(execution[f], "EXECUTABLE_UNSAFE", compromised)
  BY DEF HashEnds
<1>3. execution' = [f \in Executions |-> execution'[f]]
  BY DEF HashEnds
<1>4. ASSUME NEW f \in Executions
      PROVE  /\ Sound(execution'[f], compromised, pinned, versions)
             /\ Admitted(execution'[f]) => Admitted(execution[f]) /\ execution'[f].aborted = execution[f].aborted
             /\ execution'[f].root = execution[f].root
  <2> DEFINE x == execution[f]
             y == execution'[f]
  <2>1. Sound(x, compromised, pinned, versions)
    BY TypesGive
  <2>2. CASE y = x
    BY <2>1, <2>2
  <2>3. ASSUME NEW stage \in {"rechecking", "inspecting"}, x.stage \in {"hashing", "joining"},
               y = [x EXCEPT !.stage = stage]
        PROVE  Sound(y, compromised, pinned, versions) /\ Admitted(x) /\ y.aborted = x.aborted /\ y.root = x.root
    <3> DEFINE z == [x EXCEPT !.stage = stage]
    <3>1. Follows(x, stage, pinned) /\ Admitted(x)
      BY <2>3 DEF Follows, Early, Admitted
    <3>2. Sound(z, compromised, pinned, versions) /\ z.aborted = x.aborted /\ z.root = x.root
      BY <2>1, <3>1, ContinueKeeps
    <3>3. y = z
      BY <2>3
    <3> HIDE DEF x, y, z
    <3> QED BY <3>1, <3>2, <3>3
  <2>4. CASE x.stage \in {"hashing", "joining"} /\ y = Settled(x, "EXECUTABLE_UNSAFE", compromised)
    <3>1. "EXECUTABLE_UNSAFE" \in Errors /\ x.stage \in Early
      BY <2>4 DEF Errors, Early
    <3>2. MaySettle(x, "EXECUTABLE_UNSAFE", compromised, pinned, versions)
      BY <2>1, <3>1, EarlySettles
    <3> HIDE DEF x, y
    <3> QED BY <2>4, <3>2, SettledKeeps DEF x, y
  <2> QED BY <1>2, <2>2, <2>3, <2>4
<1>5. ProcessInv'
  BY <1>1, <1>3, <1>4, TypesGive, InvComposed DEF StopKnown
<1> QED BY <1>4, <1>5 DEF StartsOnlyOpen

\* Whoever is on the way when a drain begins is told, and waited for.
LEMMA StepOfDrain ==
  ASSUME ProcessAssumption, ProcessInv, Drain
  PROVE  ProcessInv' /\ StartsOnlyOpen
<1>1. /\ UNCHANGED <<file, versions, pinned, compromised>>
      /\ drains' = drains + 1 /\ drains < MaxDrains
      /\ execution' = [f \in Executions |-> Abort(execution[f], "EXECUTION_CANCELLED", compromised)]
      /\ drain' = [on |-> TRUE, awaits |-> Active, hash |-> hash \in {"hashing", "aborted"}]
      /\ hash' \in {"none", "hashing", "aborted", "done"}
  BY TypesGive DEF Drain, AbortHash
<1>2. /\ \A f \in Executions : execution'[f] = Abort(execution[f], "EXECUTION_CANCELLED", compromised)
      /\ execution' = [f \in Executions |-> execution'[f]]
  BY <1>1
<1>3. \A f \in Executions : /\ Sound(execution'[f], compromised, pinned, versions)
                            /\ Admitted(execution'[f]) => Admitted(execution[f]) /\ execution'[f].aborted
                            /\ execution'[f].root = execution[f].root
  <2>1. "EXECUTION_CANCELLED" \in Reasons
    BY DEF Reasons
  <2> QED BY <1>2, <2>1, TypesGive, AbortKeeps
<1>4. ProcessTypeOK'
  <2>1. execution' \in [Executions -> Records]
    BY <1>2, <1>3 DEF Sound
  <2>2. drain' \in [on : BOOLEAN, awaits : SUBSET Executions, hash : BOOLEAN]
    BY <1>1 DEF Active
  <2>3. drains' \in 0 .. MaxDrains
    BY <1>1, TypesGive DEF ProcessAssumption
  <2> QED BY <1>1, <2>1, <2>2, <2>3, TypesGive DEF ProcessTypeOK, Records, Versions
<1>5. Files' /\ StopKnown'
  BY <1>1, <1>3, TypesGive DEF Files, StopKnown
<1>6. Awaited'
  BY <1>1, <1>3 DEF Awaited, Active
<1>7. (\A f \in Executions : Sound(execution[f], compromised, pinned, versions))'
  BY <1>1, <1>3
<1> QED BY <1>3, <1>4, <1>5, <1>6, <1>7 DEF ProcessInv, StartsOnlyOpen

LEMMA StepOfDrainEnd ==
  ASSUME ProcessAssumption, ProcessInv, DrainEnds \/ DrainTimesOut
  PROVE  ProcessInv' /\ StartsOnlyOpen
<1>1. /\ UNCHANGED <<file, versions, pinned, hash, execution, drains>> /\ drain' = NoDrain /\ drain.on
      /\ compromised' = compromised \/ compromised' = TRUE
  BY DEF DrainEnds, DrainTimesOut
<1>2. ProcessTypeOK'
  BY <1>1, TypesGive DEF ProcessTypeOK, NoDrain, Records, Versions
<1>3. Files' /\ StopKnown' /\ Awaited'
  BY <1>1, TypesGive DEF Files, StopKnown, Awaited, NoDrain
<1>4. \A f \in Executions : Sound(execution[f], compromised', pinned, versions)
  BY <1>1, TypesGive, SoundGrows
<1>5. (\A f \in Executions : Sound(execution[f], compromised, pinned, versions))'
  BY <1>1, <1>4
<1> QED BY <1>1, <1>2, <1>3, <1>5 DEF ProcessInv, StartsOnlyOpen

LEMMA StepOfReplace ==
  ASSUME ProcessAssumption, ProcessInv, Replace
  PROVE  ProcessInv' /\ StartsOnlyOpen
<1>1. /\ versions < MaxReplacements /\ versions' = versions + 1 /\ file' \in {versions + 1, None}
      /\ UNCHANGED <<pinned, hash, execution, compromised, drain, drains>>
      /\ versions \in Nat /\ pinned \in Nat \cup {None}
  BY TypesGive DEF Replace, Versions
<1>2. ProcessTypeOK'
  <2>1. versions' \in Versions /\ file' \in Versions \cup {None}
    BY <1>1 DEF Versions, ProcessAssumption
  <2> QED BY <1>1, <2>1, TypesGive DEF ProcessTypeOK, Records, Versions
<1>3. Files' /\ StopKnown' /\ Awaited'
  BY <1>1, TypesGive DEF Files, StopKnown, Awaited
<1>4. \A f \in Executions : Sound(execution[f], compromised, pinned, versions + 1)
  BY <1>1, TypesGive, SoundGrows
<1>5. (\A f \in Executions : Sound(execution[f], compromised, pinned, versions))'
  BY <1>1, <1>4
<1> QED BY <1>1, <1>2, <1>3, <1>5 DEF ProcessInv, StartsOnlyOpen

-----------------------------------------------------------------------------
(* Theorems of SupervisedProcess. *)

LEMMA ProcessInit_Inv ==
  ASSUME ProcessAssumption, ProcessInit
  PROVE  ProcessInv
<1>1. /\ file \in {0, None} /\ versions = 0 /\ pinned \in {file, None} /\ hash \in {"done", "none"}
      /\ execution = [e \in Executions |-> Idle] /\ compromised = FALSE /\ drain = NoDrain /\ drains = 0
  BY DEF ProcessInit
<1>2. 0 \in Versions /\ 0 \in 0 .. MaxDrains
  BY DEF Versions, ProcessAssumption
<1>3. Idle \in Records
  BY DEF Idle, Records, Stages
<1>4. Sound(Idle, compromised, pinned, versions)
  <2>1. ChildInv(Idle)
    BY DEF ChildInv, TreeInv, Idle
  <2>2. EndInv(Idle, compromised)
    BY NoneIsNoError DEF EndInv, Idle
  <2>3. ProgramInv(Idle, pinned, versions)
    BY NoneIsNoError DEF ProgramInv, Idle, Fed
  <2> QED BY <1>3, <2>1, <2>2, <2>3 DEF Sound
<1>5. ProcessTypeOK
  <2>1. execution \in [Executions -> Records]
    BY <1>1, <1>3
  <2>2. drain \in [on : BOOLEAN, awaits : SUBSET Executions, hash : BOOLEAN] /\ compromised \in BOOLEAN
    BY <1>1 DEF NoDrain
  <2>3. file \in Versions \cup {None} /\ versions \in Versions /\ pinned \in Versions \cup {None}
        /\ hash \in {"none", "hashing", "aborted", "done"} /\ drains \in 0 .. MaxDrains
    BY <1>1, <1>2
  <2> QED BY <2>1, <2>2, <2>3 DEF ProcessTypeOK, Records
<1>6. Files /\ StopKnown /\ Awaited
  BY <1>1, <1>2 DEF Files, StopKnown, Awaited, NoDrain
<1>7. \A e \in Executions : execution[e] = Idle
  BY <1>1
<1> HIDE DEF Idle
<1> QED BY <1>4, <1>5, <1>6, <1>7 DEF ProcessInv

LEMMA ProcessStep ==
  ASSUME ProcessAssumption, ProcessInv, [ProcessNext]_processVars
  PROVE  ProcessInv' /\ StartsOnlyOpen
<1>1. CASE UNCHANGED processVars
  <2>1. UNCHANGED <<file, versions, pinned, hash, execution, compromised, drain, drains>>
    BY <1>1 DEF processVars
  <2>2. ProcessTypeOK' /\ Files' /\ StopKnown' /\ Awaited'
    BY <2>1, TypesGive DEF ProcessTypeOK, Files, StopKnown, Awaited, Records, Versions
  <2>3. (\A f \in Executions : Sound(execution[f], compromised, pinned, versions))'
    BY <2>1, TypesGive
  <2> QED BY <2>1, <2>2, <2>3 DEF ProcessInv, StartsOnlyOpen
<1>2. {"EXECUTION_CANCELLED", "EXECUTION_TIMEOUT"} \subseteq Reasons
  BY DEF Reasons
<1>3. ASSUME NEW e \in Executions,
             Execute(e) \/ CancelCall(e) \/ Deadline(e) \/ Inspect(e) \/ Recheck(e) \/ Isolate(e)
               \/ IsolationFails(e) \/ Launch(e)
      PROVE  ProcessInv' /\ StartsOnlyOpen
  BY <1>2, <1>3, StepOfExecute, StepOfInterrupt, StepOfInspect, StepOfRecheck, StepOfIsolate, StepOfIsolationFails,
     StepOfLaunch DEF CancelCall, Deadline
<1>4. ASSUME NEW e \in Executions,
             Verify(e) \/ WriteStdin(e) \/ StdinFails(e) \/ Overflow(e) \/ Close(e) \/ ResidualEnds(e)
      PROVE  ProcessInv' /\ StartsOnlyOpen
  BY <1>4, StepOfVerify, StepOfWriteStdin, StepOfStdinFails, StepOfOverflow, StepOfClose, StepOfResidualEnds
<1>5. ASSUME NEW e \in Executions,
             CleanupEnds(e) \/ TerminationEnds(e) \/ Remove(e) \/ RemovalFails(e)
               \/ RootExits(e) \/ DescendantStarts(e) \/ DescendantsExit(e)
      PROVE  ProcessInv' /\ StartsOnlyOpen
  BY <1>5, StepOfCleanupEnds, StepOfTerminationEnds, StepOfRemove, StepOfRemovalFails, StepOfTree
<1>6. CASE HashEnds \/ Drain \/ DrainEnds \/ DrainTimesOut \/ Replace
  BY <1>6, StepOfHashEnds, StepOfDrain, StepOfDrainEnd, StepOfReplace
<1> QED BY <1>1, <1>3, <1>4, <1>5, <1>6 DEF ProcessNext

LEMMA ProcessInductive ==
  ASSUME ProcessAssumption
  PROVE  ProcessSpec => []ProcessInv /\ [][StartsOnlyOpen]_processVars
<1>1. ProcessInit => ProcessInv
  BY ProcessInit_Inv
<1>2. ProcessInv /\ [ProcessNext]_processVars => ProcessInv' /\ StartsOnlyOpen
  BY ProcessStep
<1> QED BY <1>1, <1>2, PTL DEF ProcessSpec

\* The type invariant holds on both platforms, for any number of executions, replacements and drains.
THEOREM ProcessTypeCorrect ==
  ASSUME ProcessAssumption
  PROVE  ProcessSpec => []ProcessTypeOK
<1>1. ProcessInv => ProcessTypeOK
  BY TypesGive DEF ProcessInv
<1> QED BY <1>1, ProcessInductive, PTL

\* What an execution reports of its child is true: after a normal end, a deadline, a cancellation, too much output
\* or a replaced executable no process of it is left, on either platform (runChild, supervised-process.ts:632-835).
THEOREM OutcomesAreProven ==
  ASSUME ProcessAssumption
  PROVE  ProcessSpec => []OutcomeIsProven
<1>1. ProcessInv => OutcomeIsProven
  BY DEF ProcessInv, Sound, EndInv, OutcomeIsProven, Proven
<1> QED BY <1>1, ProcessInductive, PTL

\* On Windows, where the job ends with its root, an execution that is over has left no process, or the runner is
\* closed.  On POSIX one may be left after a failed write (the finding at supervised-process.ts:800).
THEOREM JobsAreContained ==
  ASSUME ProcessAssumption, Platform = "win32"
  PROVE  ProcessSpec => []TreesAreContained
<1>1. ProcessInv => TreesAreContained
  BY TypesGive DEF Sound, EndInv, ChildInv, TreeInv, Gone, TreesAreContained
<1> QED BY <1>1, ProcessInductive, PTL

\* On POSIX the request is written to no other version of the executable than the pinned one, however often it is
\* replaced and at whatever moment (executeSnapshot and runChild, supervised-process.ts:410-505, 724-758).
THEOREM OnlyPinnedIsFed ==
  ASSUME ProcessAssumption, Platform = "posix"
  PROVE  ProcessSpec => []InputOnlyToPinned
<1>1. ProcessInv => InputOnlyToPinned
  BY DEF ProcessInv, Sound, ProgramInv, Fed, InputOnlyToPinned
<1> QED BY <1>1, ProcessInductive, PTL

\* An execution that is over has left no directory, or the runner is closed (cleanupIsolationOrQuarantine).
THEOREM NoDirectoryIsLeft ==
  ASSUME ProcessAssumption
  PROVE  ProcessSpec => []DirectoriesAreRemoved
<1>1. ProcessInv => DirectoriesAreRemoved
  BY TypesGive DEF Sound, EndInv, DirectoriesAreRemoved
<1> QED BY <1>1, ProcessInductive, PTL

\* Nothing is spawned during a drain, nor after a quarantine, by whatever was on its way (supervised-process.ts:260-408).
THEOREM StoppedStartsNothing ==
  ASSUME ProcessAssumption
  PROVE  ProcessSpec => NoStartAfterStop
BY ProcessInductive, PTL DEF NoStartAfterStop, StartsOnlyOpen

\* On Windows a drain that succeeds has left no execution on its way, no process and no directory.
THEOREM DrainLeavesNothing ==
  ASSUME ProcessAssumption, Platform = "win32"
  PROVE  ProcessSpec => DrainMeansQuiet
<1> DEFINE Quiet == drain.on /\ ~drain'.on /\ ~compromised'
                      => \A e \in Executions : e \notin Active /\ Gone(execution[e]) /\ ~execution[e].directories
<1>1. ASSUME ProcessInv, [ProcessNext]_processVars, drain.on, ~drain'.on, ~compromised', NEW e \in Executions
      PROVE  e \notin Active /\ Gone(execution[e]) /\ ~execution[e].directories
  <2>1. DrainEnds /\ ~compromised
    <3>1. drain' # drain
      BY <1>1
    <3>2. ASSUME NEW f \in Executions
          PROVE  ~(Execute(f) \/ CancelCall(f) \/ Deadline(f) \/ Inspect(f) \/ Recheck(f) \/ Isolate(f)
                   \/ IsolationFails(f) \/ Launch(f) \/ Verify(f) \/ WriteStdin(f) \/ StdinFails(f) \/ Overflow(f))
      BY <3>1 DEF Execute, CancelCall, Deadline, Interrupt, Inspect, Recheck, Isolate, IsolationFails, Launch,
                  Verify, WriteStdin, StdinFails, Overflow
    <3>3. ASSUME NEW f \in Executions
          PROVE  ~(Close(f) \/ ResidualEnds(f) \/ CleanupEnds(f) \/ TerminationEnds(f) \/ Remove(f) \/ RemovalFails(f)
                   \/ RootExits(f) \/ DescendantStarts(f) \/ DescendantsExit(f))
      BY <3>1 DEF Close, ResidualEnds, CleanupEnds, TerminationEnds, Remove, RemovalFails, RootExits, DescendantStarts,
                  DescendantsExit, Tree
    <3>4. ~HashEnds /\ ~Replace /\ ~UNCHANGED processVars
      BY <3>1 DEF HashEnds, Replace, processVars
    <3>5. ~Drain /\ ~DrainTimesOut
      BY <1>1 DEF Drain, DrainTimesOut
    <3>6. DrainEnds
      BY <1>1, <3>2, <3>3, <3>4, <3>5 DEF ProcessNext
    <3> QED BY <1>1, <3>6 DEF DrainEnds
  <2>2. e \notin Active
    BY <1>1, <2>1, TypesGive DEF DrainEnds, Awaited, Active
  <2>3. Sound(execution[e], compromised, pinned, versions) /\ execution[e].stage \in {"idle", "settled"}
    BY <1>1, <2>2, TypesGive DEF Active, Admitted
  <2>4. Gone(execution[e]) /\ ~execution[e].directories
    BY <2>1, <2>3 DEF Sound, EndInv, ChildInv, TreeInv, Gone, Early
  <2> QED BY <2>2, <2>4
<1>2. ProcessInv /\ [ProcessNext]_processVars => Quiet
  BY <1>1
<1>3. ProcessSpec => [][ProcessNext]_processVars
  BY PTL DEF ProcessSpec
<1> QED BY <1>2, <1>3, ProcessInductive, PTL DEF DrainMeansQuiet
=============================================================================
