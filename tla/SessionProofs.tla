---------------------------- MODULE SessionProofs ----------------------------
(***************************************************************************)
(* Theorems about the session and its board.  InterviewSession, the state  *)
(* and the commands of a session, for every set of episodes, utterances,   *)
(* generations, atoms and disclosures and every bound; BoardSync, the      *)
(* student's canvas against the server's board, for any shapes and bounds, *)
(* whatever edits, mounts of the editor and drains overlap.  The two share *)
(* nothing, and each half of this module speaks of one.                    *)
(***************************************************************************)
EXTENDS InterviewSession, BoardSync, FiniteSetTheorems, TLAPS

-----------------------------------------------------------------------------
(* InterviewSession *)

\* The two shapes a command gives to the output variables keep their types.
LEMMA InvalidateType ==
  ASSUME TypeOK, NEW G \in SUBSET Generations, NEW A \in SUBSET Atoms,
         Invalidate(G, A)
  PROVE  /\ generation' \in [Generations -> GenerationStatus]
         /\ delivery' \in [Atoms -> DeliveryStatus]
         /\ ledger' \in SUBSET Disclosures
<1>1. generation' \in [Generations -> GenerationStatus]
  BY DEF Invalidate, TypeOK, GenerationStatus
<1>2. \A a \in Atoms : Withdrawn(delivery[a]) \in DeliveryStatus
  BY DEF Withdrawn, TypeOK, DeliveryStatus
<1>3. delivery' \in [Atoms -> DeliveryStatus]
  BY <1>2 DEF Invalidate, TypeOK
<1>4. ledger' \in SUBSET Disclosures
  BY DEF Invalidate, TypeOK
<1>5. QED BY <1>1, <1>3, <1>4

LEMMA LiveSubset == /\ Live \in SUBSET Generations
                    /\ \A G : AtomsOf(G) \in SUBSET Atoms
BY DEF Live, AtomsOf

LEMMA PolicyInvalidationType ==
  ASSUME TypeOK, InvalidateUndeliveredPolicyOutput \/ TerminalInvalidation
  PROVE  /\ generation' \in [Generations -> GenerationStatus]
         /\ delivery' \in [Atoms -> DeliveryStatus]
         /\ ledger' \in SUBSET Disclosures
BY InvalidateType, LiveSubset DEF InvalidateUndeliveredPolicyOutput, TerminalInvalidation

LEMMA TypeInit == Init => TypeOK
BY NoneIsNoValue DEF Init, TypeOK, SessionStatus, GenerationStatus, DeliveryStatus

\* Every command keeps every variable in its type.
LEMMA TypeStep == TypeOK /\ [Next]_vars => TypeOK'
<1> SUFFICES ASSUME TypeOK, [Next]_vars PROVE TypeOK'
  OBVIOUS
<1> USE DEF inputVars, revVars, genVars, atomVars, outputVars, deliveryFrame
<1>1. CASE Lifecycle
  BY <1>1, PolicyInvalidationType
     DEF Lifecycle, StartSession, CompleteSession, ArchiveSession, TypeOK, SessionStatus
<1>2. CASE CandidateInput
  <2>1. CASE CommitBoard
    <3>1. hasInput' \in [Episodes -> BOOLEAN]
      BY <2>1 DEF CommitBoard, TypeOK
    <3>2. QED BY <2>1, <3>1, PolicyInvalidationType DEF CommitBoard, TypeOK
  <2>2. CASE CorrectTranscript \/ ChangeEvidence
    BY <2>2, PolicyInvalidationType DEF CorrectTranscript, ChangeEvidence, TypeOK
  <2>3. ASSUME NEW e \in Episodes,
               CommitInput(e) \/ AppendInput(e) \/ CommitInputEpisode(e)
        PROVE  TypeOK'
    BY <2>3, PolicyInvalidationType
       DEF CommitInput, AppendInput, CommitInputEpisode, TypeOK
  <2>4. ASSUME NEW u \in Utterances, BeginUtterance(u) \/ DiscardUtterance(u)
        PROVE  TypeOK'
    BY <2>4, InvalidateType, LiveSubset DEF BeginUtterance, DiscardUtterance, TypeOK
  <2>5. ASSUME NEW u \in Utterances, NEW e \in Episodes, FinalizeUtterance(u, e)
        PROVE  TypeOK'
    BY <2>5 DEF FinalizeUtterance, TypeOK
  <2>6. QED BY <1>2, <2>1, <2>2, <2>3, <2>4, <2>5 DEF CandidateInput
<1>3. CASE Generating
  <2>1. ASSUME NEW e \in Episodes, NEW r \in Requests, SelectAction(e, r)
        PROVE  TypeOK'
    BY <2>1 DEF SelectAction, TypeOK
  <2>2. ASSUME NEW e \in Episodes, NEW g \in Generations, StartGeneration(e, g)
        PROVE  TypeOK'
    BY <2>2 DEF StartGeneration, TypeOK, GenerationStatus, Basis
  <2>3. ASSUME NEW g \in Generations,
               \/ RejectProposal(g) \/ RejectStaleProposal(g)
               \/ AdmitFormalInterpretation(g)
        PROVE  TypeOK'
    BY <2>3 DEF RejectProposal, RejectStaleProposal, AdmitFormalInterpretation,
                TypeOK, GenerationStatus
  <2>4. ASSUME NEW g \in Generations, SupersedeGeneration(g)
        PROVE  TypeOK'
    BY <2>4, InvalidateType, LiveSubset DEF SupersedeGeneration, TypeOK
  <2>5. ASSUME NEW g \in Generations, NEW S \in SUBSET Atoms, AcceptProposal(g, S)
        PROVE  TypeOK'
    <3>1. PICK text \in SUBSET S, told \in [S -> SUBSET Disclosures] :
            /\ medium' = [a \in Atoms |-> IF a \in text THEN "TEXT"
                            ELSE IF a \in S THEN "WHITEBOARD" ELSE medium[a]]
            /\ reveals' = [a \in Atoms |-> IF a \in S THEN told[a] ELSE reveals[a]]
      BY <2>5 DEF AcceptProposal
    <3>2. /\ medium' \in [Atoms -> {"TEXT", "AUDIO", "WHITEBOARD", "NONE"}]
          /\ reveals' \in [Atoms -> SUBSET Disclosures]
      BY <3>1 DEF TypeOK
    <3>3. /\ generation' \in [Generations -> GenerationStatus]
          /\ delivery' \in [Atoms -> DeliveryStatus]
          /\ source' \in [Atoms -> Generations \cup {None}]
      BY <2>5 DEF AcceptProposal, TypeOK, GenerationStatus, DeliveryStatus
    <3>4. QED BY <2>5, <3>2, <3>3 DEF AcceptProposal, TypeOK
  <2>6. ASSUME NEW t \in Atoms, NEW a \in Atoms, QueueAudio(t, a)
        PROVE  TypeOK'
    BY <2>6 DEF QueueAudio, TypeOK, DeliveryStatus
  <2>7. QED BY <1>3, <2>1, <2>2, <2>3, <2>4, <2>5, <2>6 DEF Generating
<1>4. CASE Delivering
  BY <1>4 DEF Delivering, StartDelivery, AcknowledgeExposed, AcknowledgeCompleted,
              CancelBeforeExposure, AcknowledgeNotExposed, MarkPossiblyExposed,
              Disclose, TypeOK, DeliveryStatus
<1>5. CASE UNCHANGED vars
  BY <1>5 DEF vars, TypeOK
<1>6. QED BY <1>1, <1>2, <1>3, <1>4, <1>5 DEF Next

\* Every variable of the session stays in its type.
THEOREM TypeCorrect == Spec => []TypeOK
<1>1. QED BY TypeInit, TypeStep, PTL DEF Spec
-----------------------------------------------------------------------------
(* The inductive invariant.  The properties the runs check are inductive    *)
(* together once atoms and generations are known to have a provenance.      *)

Provenance ==
  /\ \A a \in Atoms : /\ delivery[a] # "UNUSED" => source[a] \in Generations
                      /\ delivery[a] = "UNUSED" => medium[a] = "NONE"
  /\ \A g \in Generations : generation[g] # "UNUSED" => basis[g] \in Basis

IInv ==
  /\ TypeOK /\ Provenance
  /\ LedgerIsWhatWasDisclosed
  /\ PendingOutputIsValidated
  /\ LiveGenerationIsCurrent
  /\ OneLiveGeneration
  /\ TerminalSessionIsQuiet

\* Superseding G and withdrawing A, which holds the atoms of G, keeps the
\* invariants about output.
LEMMA InvalidateKeeps ==
  ASSUME IInv, NEW G \in SUBSET Live, NEW A \in SUBSET Atoms, AtomsOf(G) \subseteq A,
         Invalidate(G, A), UNCHANGED <<source, medium, reveals, basis>>
  PROVE  /\ Provenance'
         /\ LedgerIsWhatWasDisclosed'
         /\ PendingOutputIsValidated'
         /\ Live' = Live \ G
<1> USE DEF IInv
<1>1. \A a \in Atoms : delivery'[a] = IF a \in A THEN Withdrawn(delivery[a])
                                               ELSE delivery[a]
  BY DEF Invalidate
<1>2. \A g \in Generations : generation'[g] = IF g \in G THEN "SUPERSEDED"
                                                      ELSE generation[g]
  BY DEF Invalidate
<1>3. Provenance'
  BY <1>1, <1>2 DEF Provenance, Withdrawn, Live, Nonterminal
<1>4. Live' = Live \ G
  BY <1>2 DEF Live, Nonterminal
<1>5. PendingOutputIsValidated'
  <2> SUFFICES ASSUME NEW a \in Atoms, delivery'[a] \in {"QUEUED", "DELIVERING"}
               PROVE  generation'[source'[a]] = "VALIDATED"
    BY DEF PendingOutputIsValidated
  <2>1. a \notin A /\ delivery'[a] = delivery[a]
    BY <1>1 DEF Withdrawn
  <2>2. source[a] \in Generations /\ source[a] \notin G
    BY <2>1 DEF Provenance, AtomsOf
  <2>3. generation[source[a]] = "VALIDATED"
    BY <2>1 DEF PendingOutputIsValidated
  <2>4. QED BY <1>2, <2>2, <2>3
<1>6. LedgerIsWhatWasDisclosed'
  <2>1. \A a \in Atoms : delivery'[a] \in Disclosed <=>
          delivery[a] \in Disclosed \/ (a \in A /\ delivery[a] = "DELIVERING")
    BY <1>1 DEF Withdrawn, Disclosed
  <2>2. ledger' = ledger \cup
          UNION {reveals[a] : a \in {b \in A : delivery[b] = "DELIVERING"}}
    BY DEF Invalidate
  <2>3. QED BY <2>1, <2>2 DEF LedgerIsWhatWasDisclosed
<1>7. QED BY <1>3, <1>4, <1>5, <1>6
\* After the invalidations that spare no generation nothing is pending at all.
LEMMA NothingPending ==
  ASSUME IInv, InvalidateUndeliveredPolicyOutput \/ TerminalInvalidation,
         UNCHANGED <<source, medium, reveals, basis>>
  PROVE  /\ Provenance' /\ LedgerIsWhatWasDisclosed' /\ PendingOutputIsValidated'
         /\ LiveGenerationIsCurrent' /\ OneLiveGeneration'
         /\ Live' = {}
         /\ \A a \in Atoms : delivery'[a] \notin {"QUEUED", "DELIVERING"}
<1>1. \/ Invalidate(Live, AtomsOf(Live))
      \/ Invalidate(Live, Atoms)
  BY DEF InvalidateUndeliveredPolicyOutput, TerminalInvalidation
<1>2. /\ Provenance' /\ LedgerIsWhatWasDisclosed' /\ PendingOutputIsValidated'
      /\ Live' = Live \ Live
  BY <1>1, InvalidateKeeps, LiveSubset
<1>3. Live' = {}
  BY <1>2
<1>4. LiveGenerationIsCurrent' /\ OneLiveGeneration'
  BY <1>3 DEF LiveGenerationIsCurrent, OneLiveGeneration
<1>5. ASSUME NEW a \in Atoms, delivery'[a] \in {"QUEUED", "DELIVERING"}
      PROVE  FALSE
  <2>1. source'[a] \in Generations /\ generation'[source'[a]] = "VALIDATED"
    BY <1>2, <1>5 DEF Provenance, PendingOutputIsValidated
  <2>2. source'[a] \in Live'
    BY <2>1 DEF Live, Nonterminal
  <2>3. QED BY <2>2, <1>3
<1>6. QED BY <1>2, <1>3, <1>4, <1>5

LEMMA LifecycleKeeps == IInv /\ Lifecycle => IInv'
<1> SUFFICES ASSUME IInv, Lifecycle PROVE IInv'
  OBVIOUS
<1> USE DEF inputVars, revVars, genVars, atomVars, outputVars
<1>1. TypeOK'
  BY TypeStep DEF IInv, Next
<1>2. CASE StartSession
  BY <1>1, <1>2 DEF StartSession, IInv, Provenance, LedgerIsWhatWasDisclosed,
     PendingOutputIsValidated, LiveGenerationIsCurrent, OneLiveGeneration, Live,
     TerminalSessionIsQuiet
<1>3. CASE CompleteSession \/ ArchiveSession
  <2>1. TerminalInvalidation /\ UNCHANGED <<source, medium, reveals, basis, episode>>
    BY <1>3 DEF CompleteSession, ArchiveSession
  <2>2. NoActiveEpisode'
    BY <1>3, <2>1 DEF CompleteSession, ArchiveSession, NoActiveEpisode
  <2>3. TerminalSessionIsQuiet'
    BY <2>1, <2>2, NothingPending DEF TerminalSessionIsQuiet
  <2>4. QED BY <1>1, <2>1, <2>3, NothingPending DEF IInv
<1>4. QED BY <1>2, <1>3 DEF Lifecycle

LEMMA CandidateInputKeeps == IInv /\ CandidateInput => IInv'
<1> SUFFICES ASSUME IInv, CandidateInput PROVE IInv'
  OBVIOUS
<1> USE DEF inputVars, revVars, genVars, atomVars, outputVars
<1>1. TypeOK'
  BY TypeStep DEF IInv, Next
\* Input to an active session that withdraws all output.
<1>2. ASSUME session' = "ACTIVE",
             InvalidateUndeliveredPolicyOutput \/ TerminalInvalidation,
             UNCHANGED <<source, medium, reveals, basis>>
      PROVE  IInv'
  BY <1>1, <1>2, NothingPending DEF IInv, TerminalSessionIsQuiet
<1>3. CASE CommitBoard \/ CorrectTranscript
  BY <1>2, <1>3 DEF CommitBoard, CorrectTranscript
<1>4. CASE ChangeEvidence
  <2>1. /\ InvalidateUndeliveredPolicyOutput
        /\ UNCHANGED <<source, medium, reveals, basis, session, episode>>
    BY <1>4 DEF ChangeEvidence
  <2>2. TerminalSessionIsQuiet'
    BY <2>1, NothingPending DEF TerminalSessionIsQuiet, NoActiveEpisode, IInv
  <2>3. QED BY <1>1, <2>1, <2>2, NothingPending DEF IInv
<1>5. ASSUME NEW e \in Episodes,
             CommitInput(e) \/ AppendInput(e) \/ CommitInputEpisode(e)
      PROVE  IInv'
  BY <1>2, <1>5 DEF CommitInput, AppendInput, CommitInputEpisode
<1>6. ASSUME NEW u \in Utterances, BeginUtterance(u)
      PROVE  IInv'
  BY <1>2, <1>6 DEF BeginUtterance, TerminalInvalidation
\* The two commands that leave output as it is.
<1>7. ASSUME NEW u \in Utterances, DiscardUtterance(u)
      PROVE  IInv'
  BY <1>1, <1>7 DEF DiscardUtterance, IInv, Provenance, LedgerIsWhatWasDisclosed,
     PendingOutputIsValidated, LiveGenerationIsCurrent, OneLiveGeneration, Live,
     TerminalSessionIsQuiet, NoActiveEpisode
<1>8. ASSUME NEW u \in Utterances, NEW e \in Episodes, FinalizeUtterance(u, e)
      PROVE  IInv'
  BY <1>1, <1>8 DEF FinalizeUtterance, IInv, Provenance, LedgerIsWhatWasDisclosed,
     PendingOutputIsValidated, LiveGenerationIsCurrent, OneLiveGeneration, Live,
     TerminalSessionIsQuiet
<1>9. QED BY <1>3, <1>4, <1>5, <1>6, <1>7, <1>8 DEF CandidateInput
\* A generation that ends without output, or is superseded with its own.
LEMMA GenerationEnds ==
  ASSUME IInv, NEW g \in Generations,
         \/ RejectProposal(g) \/ RejectStaleProposal(g)
         \/ AdmitFormalInterpretation(g) \/ SupersedeGeneration(g)
  PROVE  IInv'
<1> USE DEF inputVars, revVars, genVars, atomVars, outputVars
<1>1. TypeOK'
  BY TypeStep DEF IInv, Next, Generating
<1>2. UNCHANGED <<session, episode, lastTurn, contextEpoch, boardRevision, basis,
                  source, medium, reveals>>
  BY DEF RejectProposal, RejectStaleProposal, AdmitFormalInterpretation,
         SupersedeGeneration
<1>3. Provenance' /\ LedgerIsWhatWasDisclosed' /\ PendingOutputIsValidated'
      /\ Live' \subseteq Live
  <2>1. CASE SupersedeGeneration(g)
    BY <1>2, <2>1, InvalidateKeeps, LiveSubset DEF SupersedeGeneration
  <2>2. CASE RejectProposal(g) \/ RejectStaleProposal(g) \/ AdmitFormalInterpretation(g)
    <3>1. /\ generation[g] = "ACTIVE" /\ UNCHANGED <<delivery, ledger>>
          /\ \E st \in {"REJECTED", "SUPERSEDED", "PROPOSAL_RECEIVED"} :
               generation' = [generation EXCEPT ![g] = st]
      BY <2>2 DEF RejectProposal, RejectStaleProposal, AdmitFormalInterpretation
    <3>2. Live' \subseteq Live
      BY <3>1 DEF Live, Nonterminal, IInv, TypeOK
    <3>3. Provenance' /\ LedgerIsWhatWasDisclosed' /\ PendingOutputIsValidated'
      BY <1>2, <3>1 DEF IInv, TypeOK, Provenance, LedgerIsWhatWasDisclosed,
                       PendingOutputIsValidated
    <3>4. QED BY <3>2, <3>3
  <2>3. QED BY <2>1, <2>2
<1>4. LiveGenerationIsCurrent' /\ OneLiveGeneration'
  BY <1>2, <1>3 DEF IInv, LiveGenerationIsCurrent, OneLiveGeneration
<1>5. g \in Live
  BY DEF RejectProposal, RejectStaleProposal, AdmitFormalInterpretation,
         SupersedeGeneration, Live, Nonterminal
<1>6. TerminalSessionIsQuiet'
  BY <1>2, <1>5 DEF IInv, TerminalSessionIsQuiet
<1>7. QED BY <1>1, <1>3, <1>4, <1>6 DEF IInv

LEMMA GeneratingKeeps == IInv /\ Generating => IInv'
<1> SUFFICES ASSUME IInv, Generating PROVE IInv'
  OBVIOUS
<1> USE DEF inputVars, revVars, genVars, atomVars, outputVars
<1>1. TypeOK'
  BY TypeStep DEF IInv, Next
<1>2. ASSUME NEW e \in Episodes, NEW r \in Requests, SelectAction(e, r)
      PROVE  IInv'
  BY <1>1, <1>2 DEF SelectAction, IInv, Provenance, LedgerIsWhatWasDisclosed,
     PendingOutputIsValidated, LiveGenerationIsCurrent, OneLiveGeneration, Live,
     TerminalSessionIsQuiet
<1>3. ASSUME NEW e \in Episodes, NEW g \in Generations, StartGeneration(e, g)
      PROVE  IInv'
  <2>1. /\ session = "ACTIVE" /\ session' = session /\ lastTurn = e /\ generation[g] = "UNUSED"
        /\ generation' = [generation EXCEPT ![g] = "ACTIVE"]
        /\ basis' = [basis EXCEPT ![g] =
                 [epoch |-> contextEpoch, turn |-> e,
                  transcript |-> transcriptRevision, board |-> boardRevision]]
        /\ UNCHANGED <<delivery, ledger, source, medium, reveals, lastTurn,
                       contextEpoch, boardRevision>>
    BY <1>3 DEF StartGeneration
  \* The turn's own generations are over, and there are no others.
  <2>2. Live = {}
    BY <1>3 DEF StartGeneration, IInv, LiveGenerationIsCurrent
  <2>3. Live' = {g}
    BY <2>1, <2>2 DEF Live, Nonterminal, IInv, TypeOK
  <2>4. LiveGenerationIsCurrent' /\ OneLiveGeneration'
    BY <2>1, <2>3 DEF LiveGenerationIsCurrent, OneLiveGeneration, IInv, TypeOK
  <2>5. Provenance'
    BY <1>1, <2>1 DEF Provenance, IInv, TypeOK, Basis
  <2>6. PendingOutputIsValidated' /\ LedgerIsWhatWasDisclosed' /\ TerminalSessionIsQuiet'
    BY <2>1 DEF PendingOutputIsValidated, LedgerIsWhatWasDisclosed,
                TerminalSessionIsQuiet, Provenance, IInv, TypeOK
  <2>7. QED BY <1>1, <2>4, <2>5, <2>6 DEF IInv
<1>4. ASSUME NEW g \in Generations, NEW S \in SUBSET Atoms, AcceptProposal(g, S)
      PROVE  IInv'
  <2>1. /\ generation[g] = "ACTIVE" /\ \A a \in S : delivery[a] = "UNUSED"
        /\ generation' = [generation EXCEPT ![g] = "VALIDATED"]
        /\ delivery' = [a \in Atoms |-> IF a \in S THEN "QUEUED" ELSE delivery[a]]
        /\ source' = [a \in Atoms |-> IF a \in S THEN g ELSE source[a]]
        /\ UNCHANGED <<ledger, session, episode, lastTurn, contextEpoch, boardRevision, basis>>
    BY <1>4 DEF AcceptProposal
  <2>2. /\ \A a \in Atoms \ S : medium'[a] = medium[a] /\ reveals'[a] = reveals[a]
    BY <1>4 DEF AcceptProposal
  <2>3. Live' = Live /\ Live # {}
    BY <2>1 DEF Live, Nonterminal, IInv, TypeOK
  <2>4. LiveGenerationIsCurrent' /\ OneLiveGeneration' /\ TerminalSessionIsQuiet'
    BY <2>1, <2>3 DEF IInv, LiveGenerationIsCurrent, OneLiveGeneration,
                      TerminalSessionIsQuiet
  <2>5. Provenance'
    BY <2>1, <2>2 DEF IInv, TypeOK, Provenance
  <2>6. PendingOutputIsValidated'
    BY <2>1 DEF IInv, TypeOK, Provenance, PendingOutputIsValidated
  <2>7. LedgerIsWhatWasDisclosed'
    <3>1. \A a \in Atoms : delivery'[a] \in Disclosed <=> delivery[a] \in Disclosed
      BY <2>1 DEF Disclosed
    <3>2. \A a \in Atoms : delivery[a] \in Disclosed => reveals'[a] = reveals[a]
      BY <2>1, <2>2 DEF Disclosed
    <3>3. QED BY <2>1, <3>1, <3>2 DEF LedgerIsWhatWasDisclosed, IInv
  <2>8. QED BY <1>1, <2>4, <2>5, <2>6, <2>7 DEF IInv
<1>5. ASSUME NEW t \in Atoms, NEW a \in Atoms, QueueAudio(t, a)
      PROVE  IInv'
  <2>1. /\ session = "ACTIVE" /\ delivery[t] # "UNUSED" /\ delivery[a] = "UNUSED"
        /\ generation[source[t]] = "VALIDATED"
        /\ delivery' = [delivery EXCEPT ![a] = "QUEUED"]
        /\ source' = [source EXCEPT ![a] = source[t]]
        /\ reveals' = [reveals EXCEPT ![a] = reveals[t]]
        /\ medium' = [medium EXCEPT ![a] = "AUDIO"]
        /\ UNCHANGED <<session, generation, ledger, lastTurn, contextEpoch, boardRevision, basis>>
    BY <1>5 DEF QueueAudio, SpeakableText, SpeechAuthorized
  <2>2. LiveGenerationIsCurrent' /\ OneLiveGeneration' /\ TerminalSessionIsQuiet'
    BY <2>1 DEF IInv, LiveGenerationIsCurrent, OneLiveGeneration, TerminalSessionIsQuiet,
                Live
  <2>3. Provenance' /\ PendingOutputIsValidated'
    BY <2>1 DEF IInv, TypeOK, Provenance, PendingOutputIsValidated
  <2>4. LedgerIsWhatWasDisclosed'
    <3>1. \A b \in Atoms : delivery'[b] \in Disclosed <=> delivery[b] \in Disclosed
      BY <2>1 DEF Disclosed, IInv, TypeOK
    <3>2. \A b \in Atoms : delivery[b] \in Disclosed => reveals'[b] = reveals[b]
      BY <2>1 DEF Disclosed, IInv, TypeOK
    <3>3. QED BY <2>1, <3>1, <3>2 DEF LedgerIsWhatWasDisclosed, IInv
  <2>5. QED BY <1>1, <2>2, <2>3, <2>4 DEF IInv
<1>6. QED BY <1>2, <1>3, <1>4, <1>5, GenerationEnds DEF Generating
LEMMA DeliveringKeeps == IInv /\ Delivering => IInv'
<1> SUFFICES ASSUME IInv, NEW a \in Atoms,
                    \/ StartDelivery(a) \/ AcknowledgeExposed(a)
                    \/ AcknowledgeCompleted(a) \/ CancelBeforeExposure(a)
                    \/ AcknowledgeNotExposed(a) \/ MarkPossiblyExposed(a)
             PROVE  IInv'
  BY DEF Delivering
<1> USE DEF inputVars, revVars, genVars, atomVars, outputVars, deliveryFrame
<1>1. TypeOK'
  BY TypeStep DEF IInv, Next, Delivering
<1>2. /\ UNCHANGED <<session, episode, lastTurn, contextEpoch, boardRevision, basis,
                     source, medium, reveals, generation>>
      /\ delivery[a] # "UNUSED"
      /\ \E st \in {"DELIVERING", "EXPOSED", "COMPLETED", "CANCELLED", "POSSIBLY_EXPOSED"} :
            /\ delivery' = [delivery EXCEPT ![a] = st]
            /\ st = "DELIVERING" => delivery[a] = "QUEUED"
            /\ st # "DELIVERING" /\ st # "CANCELLED" => /\ ledger' = ledger \cup reveals[a]
                                                       /\ st \in Disclosed
            /\ st = "CANCELLED" \/ st = "DELIVERING" => /\ ledger' = ledger
                                                       /\ delivery[a] \notin Disclosed
  BY DEF StartDelivery, CanStart, AcknowledgeExposed, AcknowledgeCompleted, Disclose,
         CancelBeforeExposure, AcknowledgeNotExposed, MarkPossiblyExposed, Disclosed
<1>3. PICK st \in {"DELIVERING", "EXPOSED", "COMPLETED", "CANCELLED", "POSSIBLY_EXPOSED"} :
        /\ delivery' = [delivery EXCEPT ![a] = st]
        /\ st = "DELIVERING" => delivery[a] = "QUEUED"
        /\ st # "DELIVERING" /\ st # "CANCELLED" => /\ ledger' = ledger \cup reveals[a]
                                                   /\ st \in Disclosed
        /\ st = "CANCELLED" \/ st = "DELIVERING" => /\ ledger' = ledger
                                                   /\ delivery[a] \notin Disclosed
  BY <1>2
<1>4. Live' = Live /\ LiveGenerationIsCurrent' /\ OneLiveGeneration'
  BY <1>2 DEF Live, LiveGenerationIsCurrent, OneLiveGeneration, IInv
<1>5. Provenance'
  BY <1>2, <1>3 DEF Provenance, IInv, TypeOK
<1>6. PendingOutputIsValidated' /\ TerminalSessionIsQuiet'
  BY <1>2, <1>3, <1>4 DEF PendingOutputIsValidated, TerminalSessionIsQuiet,
     NoActiveEpisode, IInv, TypeOK
<1>7. LedgerIsWhatWasDisclosed'
  <2>1. CASE st \in {"DELIVERING", "CANCELLED"}
    <3>1. \A b \in Atoms : delivery'[b] \in Disclosed <=> delivery[b] \in Disclosed
      BY <1>3, <2>1 DEF Disclosed, IInv, TypeOK
    <3>2. QED BY <1>2, <1>3, <2>1, <3>1 DEF LedgerIsWhatWasDisclosed, IInv
  <2>2. CASE st \notin {"DELIVERING", "CANCELLED"}
    <3>1. \A b \in Atoms : delivery'[b] \in Disclosed <=> delivery[b] \in Disclosed \/ b = a
      BY <1>3, <2>2 DEF IInv, TypeOK
    <3>2. QED BY <1>2, <1>3, <2>2, <3>1 DEF LedgerIsWhatWasDisclosed, IInv
  <2>3. QED BY <2>1, <2>2
<1>8. QED BY <1>1, <1>4, <1>5, <1>6, <1>7 DEF IInv

LEMMA IInvInit == Init => IInv
BY TypeInit DEF Init, IInv, Provenance, LedgerIsWhatWasDisclosed, PendingOutputIsValidated,
   LiveGenerationIsCurrent, OneLiveGeneration, Live, Nonterminal, TerminalSessionIsQuiet,
   Disclosed

LEMMA IInvStep == IInv /\ [Next]_vars => IInv'
<1> SUFFICES ASSUME IInv, [Next]_vars PROVE IInv'
  OBVIOUS
<1>1. CASE Next
  BY <1>1, LifecycleKeeps, CandidateInputKeeps, GeneratingKeeps, DeliveringKeeps DEF Next
<1>2. CASE UNCHANGED vars
  BY <1>2 DEF vars, inputVars, revVars, genVars, atomVars, outputVars, IInv, TypeOK,
     Provenance, LedgerIsWhatWasDisclosed, PendingOutputIsValidated,
     LiveGenerationIsCurrent, OneLiveGeneration, Live, TerminalSessionIsQuiet,
     NoActiveEpisode
<1>3. QED BY <1>1, <1>2

LEMMA Invariance == Spec => []IInv
<1>1. QED BY IInvInit, IInvStep, PTL DEF Spec

\* The disclosure ledger is exactly what the delivered atoms reveal.
THEOREM LedgerCorrect == Spec => []LedgerIsWhatWasDisclosed
<1>1. IInv => LedgerIsWhatWasDisclosed
  BY DEF IInv
<1>2. QED BY <1>1, Invariance, PTL

\* Output that can still reach the candidate is always output of a generation
\* nothing has superseded.
THEOREM PendingCorrect == Spec => []PendingOutputIsValidated
<1>1. IInv => PendingOutputIsValidated
  BY DEF IInv
<1>2. QED BY <1>1, Invariance, PTL

\* Two generations are never alive together, and the one that is alive was
\* started from the latest turn, board and epoch.
THEOREM OneCurrentGeneration == Spec => []LiveGenerationIsTheCurrentOne
<1>1. IInv => LiveGenerationIsTheCurrentOne
  BY DEF IInv, LiveGenerationIsTheCurrentOne
<1>2. QED BY <1>1, Invariance, PTL

\* Completing or archiving a session leaves nothing in preparation.
THEOREM TerminalQuiet == Spec => []TerminalSessionIsQuiet
<1>1. IInv => TerminalSessionIsQuiet
  BY DEF IInv
<1>2. QED BY <1>1, Invariance, PTL
-----------------------------------------------------------------------------
(* Steps.  What a command may do to the deliveries, in the session's terms. *)

NewlyDisclosed == {a \in Atoms : delivery[a] \notin Disclosed /\ delivery'[a] \in Disclosed}

MovesDeliveries ==
  /\ \A a \in Atoms : \/ delivery'[a] = delivery[a]
                      \/ delivery[a] = "UNUSED" /\ delivery'[a] = "QUEUED"
                      \/ delivery[a] = "QUEUED" /\ delivery'[a] = "CANCELLED"
                      \/ /\ delivery[a] = "QUEUED" /\ delivery'[a] = "DELIVERING"
                         /\ CanStart(a) /\ UNCHANGED <<generation, source>>
                      \/ delivery[a] = "DELIVERING" /\ delivery'[a] \in Disclosed \cup {"CANCELLED"}
                      \/ delivery[a] \in Disclosed /\ delivery'[a] \in Disclosed
  /\ \A a \in Atoms : delivery[a] # "UNUSED" => reveals'[a] = reveals[a]
  /\ ledger' = ledger \cup UNION {reveals[a] : a \in NewlyDisclosed}

LEMMA InvalidateMoves ==
  ASSUME TypeOK, NEW G, NEW A \in SUBSET Atoms, Invalidate(G, A), UNCHANGED reveals
  PROVE  MovesDeliveries
<1>1. \A a \in Atoms : delivery'[a] = IF a \in A THEN Withdrawn(delivery[a])
                                               ELSE delivery[a]
  BY DEF Invalidate
<1>2. NewlyDisclosed = {b \in A : delivery[b] = "DELIVERING"}
  BY <1>1 DEF NewlyDisclosed, Withdrawn, Disclosed
<1>3. ledger' = ledger \cup UNION {reveals[a] : a \in NewlyDisclosed}
  BY <1>2 DEF Invalidate
<1>4. QED BY <1>1, <1>3 DEF MovesDeliveries, Withdrawn, Disclosed

LEMMA StepMoves == IInv /\ [Next]_vars => MovesDeliveries
<1> SUFFICES ASSUME IInv, [Next]_vars PROVE MovesDeliveries
  OBVIOUS
<1> USE DEF inputVars, revVars, genVars, atomVars, outputVars, deliveryFrame
<1>1. ASSUME UNCHANGED <<delivery, ledger, reveals>>
      PROVE  MovesDeliveries
  BY <1>1 DEF MovesDeliveries, NewlyDisclosed
<1>2. ASSUME InvalidateUndeliveredPolicyOutput \/ TerminalInvalidation, UNCHANGED reveals
      PROVE  MovesDeliveries
  BY <1>2, InvalidateMoves, LiveSubset
     DEF InvalidateUndeliveredPolicyOutput, TerminalInvalidation, IInv
<1>3. CASE Lifecycle
  BY <1>3, <1>1, <1>2 DEF Lifecycle, StartSession, CompleteSession, ArchiveSession
<1>4. CASE CandidateInput
  <2>1. CASE CommitBoard \/ CorrectTranscript \/ ChangeEvidence
    BY <1>2, <2>1 DEF CommitBoard, CorrectTranscript, ChangeEvidence
  <2>2. ASSUME NEW e \in Episodes,
               CommitInput(e) \/ AppendInput(e) \/ CommitInputEpisode(e)
        PROVE  MovesDeliveries
    BY <1>2, <2>2 DEF CommitInput, AppendInput, CommitInputEpisode
  <2>3. ASSUME NEW u \in Utterances, BeginUtterance(u) \/ DiscardUtterance(u)
        PROVE  MovesDeliveries
    BY <1>1, <1>2, <2>3 DEF BeginUtterance, DiscardUtterance, TerminalInvalidation
  <2>4. ASSUME NEW u \in Utterances, NEW e \in Episodes, FinalizeUtterance(u, e)
        PROVE  MovesDeliveries
    BY <1>1, <2>4 DEF FinalizeUtterance
  <2>5. QED BY <1>4, <2>1, <2>2, <2>3, <2>4 DEF CandidateInput
<1>5. CASE Generating
  <2>1. ASSUME NEW e \in Episodes, NEW r \in Requests, SelectAction(e, r)
        PROVE  MovesDeliveries
    BY <1>1, <2>1 DEF SelectAction
  <2>2. ASSUME NEW e \in Episodes, NEW g \in Generations, StartGeneration(e, g)
        PROVE  MovesDeliveries
    BY <1>1, <2>2 DEF StartGeneration
  <2>3. ASSUME NEW g \in Generations,
               RejectProposal(g) \/ RejectStaleProposal(g) \/ AdmitFormalInterpretation(g)
        PROVE  MovesDeliveries
    BY <1>1, <2>3 DEF RejectProposal, RejectStaleProposal, AdmitFormalInterpretation
  <2>4. ASSUME NEW g \in Generations, SupersedeGeneration(g)
        PROVE  MovesDeliveries
    BY <2>4, InvalidateMoves, LiveSubset DEF SupersedeGeneration, IInv
  <2>5. ASSUME NEW g \in Generations, NEW S \in SUBSET Atoms, AcceptProposal(g, S)
        PROVE  MovesDeliveries
    BY <2>5 DEF AcceptProposal, MovesDeliveries, NewlyDisclosed, Disclosed
  <2>6. ASSUME NEW t \in Atoms, NEW a \in Atoms, QueueAudio(t, a)
        PROVE  MovesDeliveries
    BY <2>6 DEF QueueAudio, MovesDeliveries, NewlyDisclosed, Disclosed, IInv, TypeOK
  <2>7. QED BY <1>5, <2>1, <2>2, <2>3, <2>4, <2>5, <2>6 DEF Generating
<1>6. CASE Delivering
  <2> SUFFICES ASSUME NEW a \in Atoms,
                      \/ StartDelivery(a) \/ AcknowledgeExposed(a)
                      \/ AcknowledgeCompleted(a) \/ CancelBeforeExposure(a)
                      \/ AcknowledgeNotExposed(a) \/ MarkPossiblyExposed(a)
               PROVE  MovesDeliveries
    BY <1>6 DEF Delivering
  <2>1. CASE StartDelivery(a) \/ CancelBeforeExposure(a) \/ AcknowledgeNotExposed(a)
    BY <2>1 DEF StartDelivery, CanStart, CancelBeforeExposure, AcknowledgeNotExposed,
       MovesDeliveries, NewlyDisclosed, Disclosed, IInv, TypeOK
  <2>2. CASE AcknowledgeExposed(a) \/ AcknowledgeCompleted(a) \/ MarkPossiblyExposed(a)
    <3>1. PICK st \in Disclosed : /\ delivery' = [delivery EXCEPT ![a] = st]
                                 /\ ledger' = ledger \cup reveals[a]
                                 /\ delivery[a] \in Disclosed \cup {"DELIVERING"}
                                 /\ UNCHANGED reveals
      BY <2>2 DEF AcknowledgeExposed, AcknowledgeCompleted, MarkPossiblyExposed, Disclose,
                  Disclosed
    <3>2. NewlyDisclosed = IF delivery[a] \in Disclosed THEN {} ELSE {a}
      BY <3>1 DEF NewlyDisclosed, IInv, TypeOK
    <3>3. delivery[a] \in Disclosed => reveals[a] \subseteq ledger
      BY DEF IInv, LedgerIsWhatWasDisclosed
    <3>4. ledger' = ledger \cup UNION {reveals[b] : b \in NewlyDisclosed}
      BY <3>1, <3>2, <3>3
    <3>5. QED BY <3>1, <3>4 DEF MovesDeliveries, IInv, TypeOK, Disclosed
  <2>3. QED BY <2>1, <2>2
<1>7. CASE UNCHANGED vars
  BY <1>1, <1>7 DEF vars
<1>8. QED BY <1>3, <1>4, <1>5, <1>6, <1>7 DEF Next
\* What was disclosed, or cancelled, remains so.
THEOREM DisclosureFinal == Spec => DisclosureIsFinal
<1>1. MovesDeliveries =>
        \A a \in Atoms : \A S \in {Disclosed, {"CANCELLED"}} :
          delivery[a] \in S => delivery'[a] \in S
  BY DEF MovesDeliveries, Disclosed
<1>2. QED BY <1>1, Invariance, StepMoves, PTL DEF Spec, DisclosureIsFinal

\* Delivery begins only for current output of a validated generation.
THEOREM StartsCurrent == Spec => StartsOnlyCurrentOutput
<1>1. IInv /\ MovesDeliveries =>
        \A a \in Atoms :
          delivery[a] # "DELIVERING" /\ delivery'[a] = "DELIVERING" =>
            /\ generation'[source[a]] = "VALIDATED"
            /\ Compatible(source[a])
            /\ session \notin {"COMPLETED", "ARCHIVED"}
  <2> SUFFICES ASSUME IInv, MovesDeliveries, NEW a \in Atoms,
                      delivery[a] # "DELIVERING", delivery'[a] = "DELIVERING"
               PROVE  /\ generation'[source[a]] = "VALIDATED"
                      /\ Compatible(source[a])
                      /\ session \notin {"COMPLETED", "ARCHIVED"}
    OBVIOUS
  <2>1. delivery[a] = "QUEUED" /\ CanStart(a) /\ UNCHANGED generation
    BY DEF MovesDeliveries, Disclosed
  <2>2. QED BY <2>1 DEF CanStart, IInv, PendingOutputIsValidated, TerminalSessionIsQuiet
<1>2. QED BY <1>1, Invariance, StepMoves, PTL DEF Spec, StartsOnlyCurrentOutput

LEMMA ExposureInit == Init => Exposure!Init
BY DEF Init, Exposure!Init, Phase, Disclosed

\* One command is one step, or a stutter, of the exposure ledger.
LEMMA ExposureStep == IInv /\ IInv' /\ MovesDeliveries => Exposure!Step
<1> SUFFICES ASSUME IInv, IInv', MovesDeliveries PROVE Exposure!Step
  OBVIOUS
<1> DEFINE P == [a \in Atoms |-> Phase(delivery[a])]
<1>1. /\ \A a \in Atoms : P[a] = Phase(delivery[a])
      /\ \A a \in Atoms : P'[a] = Phase(delivery'[a])
  OBVIOUS
<1>2. \A s \in DeliveryStatus :
        /\ Phase(s) \in {"ABSENT", "WAITING", "UNDER_WAY", "DISCLOSED", "WITHDRAWN"}
        /\ Phase(s) = "ABSENT" <=> s = "UNUSED"
        /\ Phase(s) = "DISCLOSED" <=> s \in Disclosed
  BY DEF DeliveryStatus, Phase, Disclosed
<1>3. \A a \in Atoms : delivery[a] \in DeliveryStatus /\ delivery'[a] \in DeliveryStatus
  BY DEF IInv, TypeOK
<1>4. \A a \in Atoms : Exposure!MayBecome(P[a], P'[a])
  <2> SUFFICES ASSUME NEW a \in Atoms
               PROVE  Exposure!MayBecome(Phase(delivery[a]), Phase(delivery'[a]))
    BY <1>1
  <2>1. CASE delivery'[a] = delivery[a]
    BY <2>1 DEF Exposure!MayBecome
  <2>2. CASE delivery'[a] # delivery[a]
    BY <2>2 DEF MovesDeliveries, Exposure!MayBecome, Phase, Disclosed
  <2>3. QED BY <2>1, <2>2
<1>5. P' \in [Atoms -> {"ABSENT", "WAITING", "UNDER_WAY", "DISCLOSED", "WITHDRAWN"}]
  BY <1>2, <1>3
<1>6. reveals' \in [Atoms -> SUBSET Disclosures]
  BY DEF IInv, TypeOK
<1>7. \A a \in Atoms : P[a] # "ABSENT" => reveals'[a] = reveals[a]
  BY <1>1, <1>2, <1>3 DEF MovesDeliveries
<1>8. NewlyDisclosed = {b \in Atoms : P[b] # "DISCLOSED" /\ P'[b] = "DISCLOSED"}
  BY <1>1, <1>2, <1>3 DEF NewlyDisclosed
<1>9. ledger' = ledger \cup UNION {reveals[a] : a \in
                 {b \in Atoms : P[b] # "DISCLOSED" /\ P'[b] = "DISCLOSED"}}
  BY <1>8 DEF MovesDeliveries
<1>10. QED BY <1>4, <1>5, <1>6, <1>7, <1>9 DEF Exposure!Step

\* A session implements the exposure ledger.
THEOREM SessionImplementsExposure == Spec => ImplementsExposureLedger
<1>1. QED
  BY Invariance, StepMoves, ExposureInit, ExposureStep, PTL
  DEF Spec, ImplementsExposureLedger, Exposure!Spec

-----------------------------------------------------------------------------
(* BoardSync *)

\* From its start to its decision a synchronize compares what it captured.
Early(k) == sync[k].at \in {"READING", "READ", "COMPARING"}

\* Synchronize k may still be called.
ToCome(k) == k + left.visits + (IF phase = "WAITING" THEN 1 ELSE 0) > MaxVisits + 1

\* The edits and the uploads to come have a RequestId that was never used.
Supply ==
  /\ \A i \in 1 .. MaxEdits : i + left.edits > MaxEdits => entry[i].result = "UNUSED"
  /\ \A k \in Syncs : Early(k) \/ ToCome(k) => entry[MaxEdits + k].result = "UNUSED"
  /\ \A k \in Syncs : Early(k) => ~ToCome(k)

\* The board is changed by the mutations that were committed, and by other windows.
Committed == {i \in Ids : processed[i].committed}

Counted == Len(history) <= 1 + Cardinality(Committed) + (MaxForeign - left.foreign)

\* Of two edits, i was made first.
Before(i, j) == i \in 1 .. MaxEdits /\ j \in 1 .. MaxEdits /\ i < j

\* Queue q holds the mutations that are pending in entries es, each once and the edits in their
\* order, and of all but the first nothing was sent.
Queues(q, es) ==
  /\ \A p, r \in DOMAIN q : q[p] = q[r] => p = r
  /\ \A i \in Ids : es[i].result = "PENDING" <=> \E p \in DOMAIN q : q[p] = i
  /\ \A p, r \in DOMAIN q : Before(q[p], q[r]) => p < r
  /\ \A p \in DOMAIN q : p # 1 => es[q[p]].attempts = 0
  /\ \A i \in Ids : es[i].result = "UNUSED" => es[i].attempts = 0

\* Once an edit was sent, none before it is pending.
InOrder(es) == \A i, j \in Ids : Before(i, j) /\ es[j].attempts > 0 => es[i].result # "PENDING"

QueueInv == Queues(pending, entry) /\ InOrder(entry)

\* There is a drain while anything is queued.  What it awaits is the head of the queue, unless it lost
\* its epoch, or a synchronize has resolved the mutation meanwhile.
DrainInv ==
  /\ pending # <<>> => Draining
  /\ status \in {"UNINITIALIZED", "UNSYNCHRONIZED"} => pending = <<>>
  /\ call.reply # "NONE" => Draining
  /\ Draining =>
       /\ entry[call.id].attempts > 0 /\ call.epoch <= epoch
       /\ entry[call.id].result = "PENDING" => call.id = Head(pending)
       /\ ~Stale => entry[call.id].result \in {"PENDING", "MATCHED"} /\ status \in {"SYNCED", "PENDING"}
       /\ \A j \in Ids : Before(call.id, j) => entry[j].attempts = 0
       /\ call.base + 1 \in DOMAIN history
       /\ call.reply = "OK" => /\ processed[call.id].committed
                               /\ call.rev = processed[call.id].rev /\ call.base = processed[call.id].base

\* What a synchronize was told was the board.
SyncInv ==
  \A k \in Syncs : sync[k].at \in {"READ", "COMPARING"} =>
    sync[k].rev + 1 \in DOMAIN history /\ sync[k].remote = history[sync[k].rev + 1]

\* A request on its way was sent by a drain, on a revision there was, and what the drain awaits is what it sent.
NetInv ==
  \A m \in net : /\ m.attempt > 0 /\ m.attempt <= entry[m.id].attempts
                 /\ m.base + 1 \in DOMAIN history
                 /\ m.id = call.id /\ m.attempt = call.attempt => m.base = call.base

OneOp(ops) == \A o1, o2 \in ops : o1.shape = o2.shape => o1 = o2

OneOpEach == \A i \in Ids : OneOp(entry[i].ops)

\* ops take the contents before to the contents after.
Leads(ops, before, after) ==
  \A s \in Shapes :
    IF \E o \in ops : o.shape = s
      THEN \A o \in ops : o.shape = s => o.from = before[s] /\ o.to = after[s]
      ELSE after[s] = before[s]

\* What was committed is in the history, where its outcome says, and the edits in their order.
ServerInv ==
  /\ board = history[Len(history)]
  /\ \A i \in Committed :
       /\ processed[i].rev \in 1 .. Len(history) - 1
       /\ processed[i].base = processed[i].rev - 1
       /\ Leads(entry[i].ops, history[processed[i].rev], history[processed[i].rev + 1])
  /\ \A i \in Ids : processed[i].base # Unknown => entry[i].attempts > 0
  /\ \A i, j \in Committed : Before(i, j) => processed[i].rev < processed[j].rev

\* A request for an edit comes too late for the board once an edit made after it was committed.
LateInv == \A m \in net : \A j \in Committed : Before(m.id, j) => m.base < processed[j].rev

\* The mutations of queue q take the board at revision r of history h to the contents c.
Chain(h, r, q, es, c) ==
  /\ r + 1 \in DOMAIN h
  /\ \E view \in [0 .. Len(q) -> Contents] :
       /\ view[0] = h[r + 1] /\ view[Len(q)] = c
       /\ \A p \in DOMAIN q : Leads(es[q[p]].ops, view[p - 1], view[p])

\* The authority is a revision of the board; and unless something led astray, the canvas is that revision
\* and what the queue will make of it, of which the head was sent on just that revision.
CanvasInv ==
  status \in {"SYNCED", "PENDING"} =>
    /\ authority + 1 \in DOMAIN history
    /\ ~astray => /\ Chain(history, authority, pending, entry, canvas)
                  /\ pending # <<>> /\ call.id = Head(pending) => call.base = authority

\* Every edit leaves room for the contents the bound allows.
RoomInv == \A s \in Shapes : /\ canvas[s] + left.edits <= MaxEdits + 1
                             /\ deleted[s] + left.edits <= MaxEdits + 1

KeptInv ==
  /\ \A i \in Ids : entry[i].result = "ACKNOWLEDGED" => processed[i].committed
  /\ \A i \in Ids : entry[i].result = "FORGOTTEN" => \E j \in Ids : entry[j].result = "MATCHED"

BoardInv ==
  /\ BoardTypeOK /\ Supply /\ Counted /\ QueueInv /\ DrainInv /\ SyncInv /\ NetInv
  /\ OneOpEach /\ ServerInv /\ LateInv /\ CanvasInv /\ RoomInv /\ KeptInv

-----------------------------------------------------------------------------
(* Numbers, entries and what the drain sends. *)

LEMMA Sizes ==
  /\ MaxEdits \in Nat /\ MaxForeign \in Nat /\ MaxVisits \in Nat /\ MaxPending \in Nat
  /\ IsFiniteSet(Ids) /\ Cardinality(Ids) = MaxEdits + MaxVisits + 1
  /\ 0 \notin Ids /\ Unknown \in Revs /\ Unknown \in Nat
<1>1. MaxEdits \in Nat /\ MaxForeign \in Nat /\ MaxVisits \in Nat /\ MaxPending \in Nat
  BY BoundsAssumption
<1>2. IsFiniteSet(Ids) /\ Cardinality(Ids) = MaxEdits + MaxVisits + 1
  <2>1. 1 \in Int /\ MaxEdits + MaxVisits + 1 \in Int /\ MaxEdits + MaxVisits + 1 >= 1
    BY <1>1
  <2> QED BY <1>1, <2>1, FS_Interval DEF Ids
<1> QED BY <1>1, <1>2 DEF Ids, Unknown, Revs

LEMMA IdsAreNumbers ==
  /\ \A i \in Ids : i \in Nat /\ i # 0
  /\ \A i \in 1 .. MaxEdits : i \in Ids
  /\ \A k \in Syncs : MaxEdits + k \in Ids /\ MaxEdits + k \notin 1 .. MaxEdits
BY Sizes DEF Ids, Syncs

LEMMA OneLess ==
  ASSUME NEW n \in Nat, NEW x \in 0 .. n, x > 0
  PROVE  x - 1 \in 0 .. n /\ x - 1 \in Nat /\ x - 1 < x
OBVIOUS

LEMMA EmptyValues ==
  /\ [s \in Shapes |-> 0] \in Contents
  /\ NoSync \in SyncCall /\ NoCall \in Commit /\ NoEntry \in Entry
BY Sizes DEF Contents, NoSync, SyncCall, NoCall, Commit, NoEntry, Entry, Results, Revs

LEMMA SettledFacts ==
  ASSUME NEW es \in [Ids -> Entry], NEW ids, NEW result \in Results
  PROVE  /\ Settled(es, ids, result) \in [Ids -> Entry]
         /\ \A i \in Ids :
              /\ Settled(es, ids, result)[i].ops = es[i].ops
              /\ Settled(es, ids, result)[i].attempts = es[i].attempts
              /\ Settled(es, ids, result)[i].result =
                   IF i \in ids /\ es[i].result = "PENDING" THEN result ELSE es[i].result
<1>1. \A i \in Ids : es[i] \in Entry
  OBVIOUS
<1>2. \A i \in Ids : [es[i] EXCEPT !.result = result] \in Entry
  BY <1>1 DEF Entry, Results
<1> QED BY <1>1, <1>2 DEF Settled, Entry

LEMMA SendNothing ==
  ASSUME NEW r, NEW e, NEW es, SendHead(<<>>, r, e, es)
  PROVE  call' = NoCall /\ entry' = es /\ UNCHANGED net
BY DEF SendHead

LEMMA SendHeadFacts ==
  ASSUME NEW q \in Seq(Ids), NEW r \in Revs, NEW e \in Nat, NEW es \in [Ids -> Entry],
         q # <<>>, net \subseteq Request, SendHead(q, r, e, es)
  PROVE  /\ Head(q) \in Ids
         /\ call' \in Commit /\ call'.id = Head(q) /\ call'.base = r /\ call'.epoch = e
         /\ call'.attempt = es[Head(q)].attempts + 1 /\ call'.reply = "NONE"
         /\ entry' \in [Ids -> Entry]
         /\ \A i \in Ids : /\ entry'[i].ops = es[i].ops /\ entry'[i].result = es[i].result
                           /\ entry'[i].attempts = IF i = Head(q) THEN es[i].attempts + 1 ELSE es[i].attempts
         /\ net' = net \cup {[id |-> Head(q), base |-> r, attempt |-> es[Head(q)].attempts + 1]}
         /\ net' \subseteq Request
<1> DEFINE n == es[Head(q)].attempts + 1
<1>1. Head(q) \in Ids
  OBVIOUS
<1>2. n \in Nat /\ es[Head(q)] \in Entry
  BY <1>1 DEF Entry
<1>3. /\ call' = [NoCall EXCEPT !.id = Head(q), !.base = r, !.epoch = e, !.attempt = n]
      /\ entry' = [es EXCEPT ![Head(q)].attempts = n]
      /\ net' = net \cup {[id |-> Head(q), base |-> r, attempt |-> n]}
  BY DEF SendHead
<1>4. call' \in Commit /\ call'.id = Head(q) /\ call'.base = r /\ call'.epoch = e
      /\ call'.attempt = n /\ call'.reply = "NONE"
  <2>1. call' = [id |-> Head(q), base |-> r, epoch |-> e, attempt |-> n, reply |-> "NONE", rev |-> Unknown]
    BY <1>3 DEF NoCall
  <2>2. n \in Nat /\ Unknown \in Revs
    BY <1>2, Sizes
  <2> QED BY <1>1, <2>1, <2>2 DEF Commit
<1>5. entry' \in [Ids -> Entry]
  <2>1. [es[Head(q)] EXCEPT !.attempts = n] \in Entry
    BY <1>2 DEF Entry
  <2> QED BY <1>1, <1>3, <2>1
<1>6. \A i \in Ids : /\ entry'[i].ops = es[i].ops /\ entry'[i].result = es[i].result
                     /\ entry'[i].attempts = IF i = Head(q) THEN es[i].attempts + 1 ELSE es[i].attempts
  BY <1>1, <1>2, <1>3 DEF Entry
<1>7. net' \subseteq Request
  BY <1>1, <1>2, <1>3 DEF Request
<1> QED BY <1>1, <1>3, <1>4, <1>5, <1>6, <1>7

-----------------------------------------------------------------------------
(* Mutations that follow one another. *)

LEMMA LeadsOnce ==
  ASSUME NEW ops, NEW before, NEW a \in Contents, NEW b \in Contents,
         Leads(ops, before, a), Leads(ops, before, b)
  PROVE  a = b
<1>1. \A s \in Shapes : a[s] = b[s]
  BY DEF Leads
<1> QED BY <1>1 DEF Contents

LEMMA ChainStarts ==
  ASSUME NEW h \in Seq(Contents), NEW r, r + 1 \in DOMAIN h, NEW es
  PROVE  Chain(h, r, <<>>, es, h[r + 1])
<1> DEFINE view == [q \in 0 .. 0 |-> h[r + 1]]
<1>1. h[r + 1] \in Contents
  OBVIOUS
<1>2. view \in [0 .. Len(<<>>) -> Contents] /\ view[0] = h[r + 1] /\ view[Len(<<>>)] = h[r + 1]
  BY <1>1
<1>3. \A p \in DOMAIN <<>> : Leads(es[<<>>[p]].ops, view[p - 1], view[p])
  OBVIOUS
<1> HIDE DEF view
<1> QED BY <1>2, <1>3 DEF Chain

LEMMA ChainEnds ==
  ASSUME NEW h, NEW r, NEW es, NEW c, Chain(h, r, <<>>, es, c)
  PROVE  r + 1 \in DOMAIN h /\ c = h[r + 1]
<1>1. Len(<<>>) = 0
  OBVIOUS
<1> QED BY <1>1 DEF Chain

\* The history grows, and the fields of the mutations change, without harm.
LEMMA ChainKeeps ==
  ASSUME NEW h, NEW r, NEW q, NEW es, NEW c, Chain(h, r, q, es, c),
         NEW g, r + 1 \in DOMAIN g, g[r + 1] = h[r + 1],
         NEW fs, \A p \in DOMAIN q : fs[q[p]].ops = es[q[p]].ops
  PROVE  Chain(g, r, q, fs, c)
<1>1. PICK view \in [0 .. Len(q) -> Contents] :
        /\ view[0] = h[r + 1] /\ view[Len(q)] = c
        /\ \A p \in DOMAIN q : Leads(es[q[p]].ops, view[p - 1], view[p])
  BY DEF Chain
<1>2. \A p \in DOMAIN q : Leads(fs[q[p]].ops, view[p - 1], view[p])
  BY <1>1
<1> QED BY <1>1, <1>2 DEF Chain

\* A mutation is queued.
LEMMA ChainGrows ==
  ASSUME NEW h, NEW r, NEW q \in Seq(Ids), NEW es, NEW c, Chain(h, r, q, es, c),
         NEW i \in Ids, NEW d \in Contents, NEW fs,
         \A p \in DOMAIN q : fs[q[p]].ops = es[q[p]].ops,
         Leads(fs[i].ops, c, d)
  PROVE  Chain(h, r, Append(q, i), fs, d)
<1> DEFINE n == Len(q)
           new == Append(q, i)
<1>1. PICK view \in [0 .. n -> Contents] :
        /\ view[0] = h[r + 1] /\ view[n] = c
        /\ \A p \in DOMAIN q : Leads(es[q[p]].ops, view[p - 1], view[p])
  BY DEF Chain
<1> DEFINE longer == [p \in 0 .. n + 1 |-> IF p = n + 1 THEN d ELSE view[p]]
<1>2. n \in Nat /\ Len(new) = n + 1 /\ DOMAIN q = 1 .. n /\ DOMAIN new = 1 .. n + 1
  OBVIOUS
<1>3. \A p \in 1 .. n : new[p] = q[p]
  OBVIOUS
<1>4. new[n + 1] = i
  OBVIOUS
<1>5. longer \in [0 .. Len(new) -> Contents] /\ longer[0] = h[r + 1] /\ longer[Len(new)] = d
  BY <1>1, <1>2
<1>6. ASSUME NEW p \in DOMAIN new PROVE Leads(fs[new[p]].ops, longer[p - 1], longer[p])
  <2>1. CASE p = n + 1
    <3>1. longer[p] = d /\ longer[p - 1] = c
      <4>1. p - 1 = n /\ n \in 0 .. n + 1 /\ n + 1 \in 0 .. n + 1 /\ n # n + 1
        <5> HIDE DEF longer, new, n
        <5> QED BY <1>2, <2>1
      <4>2. longer[n + 1] = d /\ longer[n] = view[n]
        BY <4>1
      <4> QED BY <1>1, <2>1, <4>1, <4>2
    <3> QED BY <1>4, <2>1, <3>1
  <2>2. CASE p \in 1 .. n
    <3>1. longer[p] = view[p] /\ longer[p - 1] = view[p - 1]
      BY <1>2, <2>2
    <3>2. Leads(es[q[p]].ops, view[p - 1], view[p]) /\ fs[new[p]].ops = es[q[p]].ops
      BY <1>1, <1>2, <1>3, <2>2
    <3> QED BY <3>1, <3>2
  <2> QED BY <1>2, <2>1, <2>2
<1> HIDE DEF longer, new
<1>7. r + 1 \in DOMAIN h
  BY DEF Chain
<1>8. Chain(h, r, new, fs, d)
  BY <1>5, <1>6, <1>7 DEF Chain
<1> QED BY <1>8 DEF new

\* The head of the queue is committed.
LEMMA ChainShrinks ==
  ASSUME NEW h \in Seq(Contents), NEW r, NEW q \in Seq(Ids), q # <<>>, NEW es, NEW c, Chain(h, r, q, es, c),
         NEW v, v + 1 \in DOMAIN h, Leads(es[Head(q)].ops, h[r + 1], h[v + 1]),
         NEW fs, \A p \in DOMAIN q : fs[q[p]].ops = es[q[p]].ops
  PROVE  Chain(h, v, Tail(q), fs, c)
<1> DEFINE n == Len(q)
           rest == Tail(q)
<1>1. PICK view \in [0 .. n -> Contents] :
        /\ view[0] = h[r + 1] /\ view[n] = c
        /\ \A p \in DOMAIN q : Leads(es[q[p]].ops, view[p - 1], view[p])
  BY DEF Chain
<1>2. n \in Nat \ {0} /\ Len(rest) = n - 1 /\ DOMAIN q = 1 .. n /\ DOMAIN rest = 1 .. n - 1 /\ Head(q) = q[1]
  OBVIOUS
<1>3. \A p \in 1 .. n - 1 : rest[p] = q[p + 1]
  OBVIOUS
<1>4. view[1] = h[v + 1]
  <2>1. Leads(es[q[1]].ops, view[0], view[1])
    <3>1. 1 \in DOMAIN q /\ 1 - 1 = 0
      BY <1>2
    <3> QED BY <1>1, <3>1
  <2>2. view[1] \in Contents /\ h[v + 1] \in Contents
    BY <1>2
  <2> QED BY <1>1, <1>2, <2>1, <2>2, LeadsOnce
<1> DEFINE shorter == [p \in 0 .. n - 1 |-> view[p + 1]]
<1>5. shorter \in [0 .. Len(rest) -> Contents] /\ shorter[0] = h[v + 1] /\ shorter[Len(rest)] = c
  BY <1>1, <1>2, <1>4
<1>6. ASSUME NEW p \in DOMAIN rest PROVE Leads(fs[rest[p]].ops, shorter[p - 1], shorter[p])
  <2>1. shorter[p] = view[p + 1] /\ shorter[p - 1] = view[p] /\ p + 1 \in DOMAIN q /\ (p + 1) - 1 = p
    BY <1>2
  <2>2. Leads(es[q[p + 1]].ops, view[p], view[p + 1])
    BY <1>1, <2>1
  <2>3. fs[rest[p]].ops = es[q[p + 1]].ops
    BY <1>2, <1>3, <2>1
  <2> QED BY <2>1, <2>2, <2>3
<1> HIDE DEF shorter, rest
<1>7. Chain(h, v, rest, fs, c)
  BY <1>5, <1>6 DEF Chain
<1> QED BY <1>7 DEF rest

-----------------------------------------------------------------------------
(* What a step leaves alone. *)

LEMMA CommittedWasSent ==
  ASSUME BoardTypeOK, ServerInv, NEW i \in Committed
  PROVE  i \in Ids /\ processed[i].base # Unknown /\ entry[i].attempts > 0
<1>1. i \in Ids /\ processed[i].rev \in 1 .. Len(history) - 1 /\ processed[i].base = processed[i].rev - 1
  BY DEF Committed, ServerInv
<1>2. Len(history) \in 1 .. Unknown /\ Unknown \in Nat
  BY Sizes DEF BoardTypeOK
<1>3. processed[i].base # Unknown
  BY <1>1, <1>2
<1> QED BY <1>1, <1>3 DEF ServerInv

LEMMA SentIsUsed ==
  ASSUME BoardTypeOK, QueueInv, NEW i \in Ids, entry[i].attempts > 0
  PROVE  entry[i].result # "UNUSED"
<1>1. entry[i].attempts \in Nat
  BY DEF BoardTypeOK, Entry
<1> QED BY <1>1 DEF QueueInv, Queues

\* A mutation keeps what it does, is acknowledged because it was committed, and
\* forgotten because another was resolved by a synchronize.
EntriesGoOn ==
  \A i \in Ids :
    /\ entry[i].result # "UNUSED" => entry'[i].ops = entry[i].ops
    /\ entry[i].attempts <= entry'[i].attempts
    /\ entry'[i].result = "ACKNOWLEDGED" => entry[i].result = "ACKNOWLEDGED" \/ processed[i].committed
    /\ entry'[i].result = "FORGOTTEN" => \/ entry[i].result = "FORGOTTEN"
                                         \/ \E j \in Ids : entry[j].result = "MATCHED"
    /\ entry[i].result = "MATCHED" => entry'[i].result = "MATCHED"
    /\ OneOp(entry'[i].ops)

Unserved == UNCHANGED <<board, history, processed>>

LEMMA ServerStays ==
  ASSUME BoardInv, BoardTypeOK', EntriesGoOn, Unserved, left'.foreign = left.foreign
  PROVE  ServerInv' /\ KeptInv' /\ OneOpEach' /\ Counted'
<1> USE DEF BoardInv, Unserved
<1>1. Committed' = Committed
  BY DEF Committed
<1>2. \A i \in Committed : i \in Ids /\ entry'[i].ops = entry[i].ops
  BY CommittedWasSent, SentIsUsed DEF EntriesGoOn
<1>3. \A i \in Ids : entry[i].attempts \in Nat /\ entry'[i].attempts \in Nat
  BY DEF BoardTypeOK, Entry
<1>4. \A i \in Ids : entry[i].attempts > 0 => entry'[i].attempts > 0
  BY <1>3 DEF EntriesGoOn
<1>5. ServerInv'
  BY <1>1, <1>2, <1>4 DEF ServerInv
<1>6. KeptInv'
  BY DEF KeptInv, EntriesGoOn
<1>7. OneOpEach' /\ Counted'
  BY <1>1 DEF OneOpEach, Counted, EntriesGoOn
<1> QED BY <1>5, <1>6, <1>7

LEMMA EntriesStay == BoardInv /\ UNCHANGED entry => EntriesGoOn
BY DEF BoardInv, OneOpEach, EntriesGoOn, BoardTypeOK, Entry

\* A step of a synchronize or of the hook that leaves the coordinator's queue alone.
LEMMA HookKeeps ==
  ASSUME BoardInv, BoardTypeOK',
         UNCHANGED <<canvas, deleted, net, status, authority, pending, recent, call, entry, astray>>, Unserved,
         left'.edits = left.edits, left'.foreign = left.foreign,
         epoch' \in {epoch, epoch + 1}
  PROVE  /\ Counted' /\ QueueInv' /\ DrainInv' /\ NetInv' /\ OneOpEach' /\ ServerInv'
         /\ LateInv' /\ CanvasInv' /\ RoomInv' /\ KeptInv'
<1> USE DEF BoardInv, Unserved
<1>1. ServerInv' /\ KeptInv' /\ OneOpEach' /\ Counted'
  BY ServerStays, EntriesStay
<1>2. QueueInv' /\ NetInv' /\ LateInv' /\ CanvasInv' /\ RoomInv'
  BY DEF QueueInv, NetInv, LateInv, Committed, CanvasInv, RoomInv
<1>3. DrainInv'
  <2>1. epoch \in Nat /\ call.epoch \in Nat
    BY DEF BoardTypeOK, Commit
  <2>2. Draining' = Draining /\ (~Stale' /\ Draining => ~Stale)
    BY <2>1 DEF DrainInv, Draining, Stale
  <2>3. Draining => call.epoch <= epoch'
    BY <2>1 DEF DrainInv
  <2> QED BY <2>2, <2>3 DEF DrainInv
<1> QED BY <1>1, <1>2, <1>3

LEMMA SupplyStays ==
  ASSUME BoardTypeOK, Supply,
         \A k \in Syncs : Early(k)' => Early(k) \/ (ToCome(k) /\ ~ToCome(k)'),
         \A i \in Ids : entry[i].result = "UNUSED" => entry'[i].result = "UNUSED",
         left'.edits \in Nat, left'.edits <= left.edits, left'.visits \in Nat,
         left'.visits + (IF phase' = "WAITING" THEN 1 ELSE 0) <= left.visits + (IF phase = "WAITING" THEN 1 ELSE 0)
  PROVE  Supply'
<1>1. left.edits \in Nat /\ left.visits \in Nat /\ MaxEdits \in Nat /\ MaxVisits \in Nat
  BY Sizes DEF BoardTypeOK
<1>2. ASSUME NEW i \in 1 .. MaxEdits, i + left'.edits > MaxEdits PROVE entry'[i].result = "UNUSED"
  <2>1. i + left.edits > MaxEdits /\ i \in Ids
    BY <1>1, <1>2, IdsAreNumbers
  <2> QED BY <2>1 DEF Supply
<1>3. ASSUME NEW k \in Syncs PROVE ToCome(k)' => ToCome(k)
  <2>1. k \in Nat
    BY DEF Syncs
  <2> QED BY <1>1, <2>1 DEF ToCome
<1>4. ASSUME NEW k \in Syncs, Early(k)' \/ ToCome(k)' PROVE entry'[MaxEdits + k].result = "UNUSED"
  <2>1. MaxEdits + k \in Ids /\ (Early(k) \/ ToCome(k))
    BY <1>3, <1>4, IdsAreNumbers
  <2> QED BY <2>1 DEF Supply
<1>5. \A k \in Syncs : Early(k)' => ~ToCome(k)'
  BY <1>3 DEF Supply
<1> QED BY <1>2, <1>4, <1>5 DEF Supply

\* Failing closed and starting afresh: what was pending is rejected, and the drain that may be
\* left behind has lost its epoch.
LEMMA AbandonKeeps ==
  ASSUME BoardInv, BoardTypeOK', NEW ids, Range(pending) \subseteq ids,
         entry' = Settled(entry, ids, "REJECTED"), pending' = <<>>,
         status' \in {"UNSYNCHRONIZED", "UNINITIALIZED"},
         call' = NoCall \/ (call' = call /\ epoch' = epoch + 1),
         Unserved, UNCHANGED net, left'.foreign = left.foreign
  PROVE  /\ Counted' /\ QueueInv' /\ DrainInv' /\ NetInv' /\ OneOpEach' /\ ServerInv'
         /\ LateInv' /\ CanvasInv' /\ KeptInv'
         /\ \A i \in Ids : entry[i].result = "UNUSED" => entry'[i].result = "UNUSED"
<1> USE DEF BoardInv, Unserved
<1>1. \A i \in Ids : /\ entry'[i].ops = entry[i].ops /\ entry'[i].attempts = entry[i].attempts
                     /\ entry'[i].result = IF i \in ids /\ entry[i].result = "PENDING" THEN "REJECTED" ELSE entry[i].result
  <2>1. entry \in [Ids -> Entry] /\ "REJECTED" \in Results
    BY DEF BoardTypeOK, Results
  <2> HIDE DEF BoardInv
  <2> QED BY <2>1, SettledFacts
<1>2. \A i \in Ids : entry[i].result = "PENDING" => i \in ids
  BY DEF QueueInv, Queues, Range
<1>3. \A i \in Ids : entry'[i].result # "PENDING"
  BY <1>1, <1>2
<1>4. EntriesGoOn
  <2>1. \A i \in Ids : entry[i].attempts \in Nat
    BY DEF BoardTypeOK, Entry
  <2> QED BY <1>1, <2>1 DEF EntriesGoOn, OneOpEach
<1>5. ServerInv' /\ KeptInv' /\ OneOpEach' /\ Counted'
  BY <1>4, ServerStays
<1>6. QueueInv'
  <2>1. DOMAIN pending' = {}
    OBVIOUS
  <2>2. \A i \in Ids : entry'[i].result = "UNUSED" => entry'[i].attempts = 0
    BY <1>1 DEF QueueInv, Queues
  <2>3. InOrder(entry')
    BY <1>3 DEF InOrder
  <2>4. Queues(pending', entry')
    BY <1>3, <2>1, <2>2 DEF Queues
  <2> QED BY <2>3, <2>4 DEF QueueInv
<1>7. DrainInv'
  <2>1. epoch \in Nat /\ epoch' \in Nat /\ call \in Commit /\ call.epoch \in Nat
    BY DEF BoardTypeOK, Commit
  <2>2. CASE call' = NoCall
    <3>1. ~Draining' /\ call'.reply = "NONE"
      BY <2>2 DEF NoCall, Draining
    <3> QED BY <3>1 DEF DrainInv
  <2>3. CASE call' = call /\ epoch' = epoch + 1
    <3>1. Draining' = Draining
      BY <2>3 DEF Draining
    <3>2. Draining => Stale' /\ call.epoch <= epoch'
      BY <2>1, <2>3 DEF DrainInv, Stale
    <3>3. Draining => call.id \in Ids
      BY <2>1 DEF Commit, Draining
    <3> QED BY <1>1, <1>3, <2>3, <3>1, <3>2, <3>3 DEF DrainInv
  <2> QED BY <2>2, <2>3
<1>8. NetInv'
  <2>1. \A m \in net : m.id \in Ids /\ m.id # NoCall.id
    BY Sizes DEF BoardTypeOK, Request, NoCall
  <2> QED BY <1>1, <2>1 DEF NetInv
<1>9. CanvasInv' /\ LateInv'
  BY DEF CanvasInv, LateInv, Committed
<1> QED BY <1>1, <1>5, <1>6, <1>7, <1>8, <1>9

-----------------------------------------------------------------------------
(* The drain sends the next of the queue. *)

LEMMA SendNext ==
  ASSUME BoardInv, NEW es \in [Ids -> Entry],
         \A i \in Ids : es[i].attempts = entry[i].attempts,
         Queues(pending', es), InOrder(es), pending' \in Seq(Ids), authority' \in Revs, epoch' \in Nat,
         pending' # <<>> => authority' + 1 \in DOMAIN history /\ status' \in {"SYNCED", "PENDING"},
         UNCHANGED <<history, processed>>,
         SendHead(pending', authority', epoch', es)
  PROVE  /\ entry' \in [Ids -> Entry] /\ call' \in Commit /\ net' \subseteq Request
         /\ \A i \in Ids : /\ entry'[i].ops = es[i].ops /\ entry'[i].result = es[i].result
                           /\ entry[i].attempts <= entry'[i].attempts
         /\ pending' # <<>> => call'.id = Head(pending') /\ call'.base = authority'
         /\ QueueInv' /\ DrainInv' /\ NetInv' /\ LateInv'
<1> USE DEF BoardInv
<1>1. \A i \in Ids : es[i].attempts \in Nat /\ entry[i].attempts \in Nat
  BY DEF BoardTypeOK, Entry
<1>2. net \subseteq Request /\ \A m \in net : m.id \in Ids /\ m.attempt \in Nat
  BY DEF BoardTypeOK, Request
<1>3. Committed' = Committed
  BY DEF Committed
<1>4. CASE pending' = <<>>
  <2>1. call' = NoCall /\ entry' = es /\ UNCHANGED net
    BY <1>4, SendNothing
  <2>2. call' \in Commit /\ ~Draining' /\ call'.reply = "NONE" /\ call'.id = 0
    BY <2>1, EmptyValues DEF NoCall, Draining
  <2>3. QueueInv' /\ DrainInv'
    BY <1>4, <2>1, <2>2 DEF QueueInv, DrainInv
  <2>4. NetInv' /\ LateInv'
    <3>1. \A m \in net : m.id # 0
      BY <1>2, Sizes
    <3> QED BY <1>2, <1>3, <2>1, <2>2, <3>1 DEF NetInv, LateInv
  <2> QED BY <1>1, <1>2, <1>4, <2>1, <2>2, <2>3, <2>4
<1>5. CASE pending' # <<>>
  <2> DEFINE h == Head(pending')
             n == es[h].attempts + 1
             new == [id |-> h, base |-> authority', attempt |-> n]
  <2>1. h \in Ids /\ h = pending'[1] /\ 1 \in DOMAIN pending'
    BY <1>5
  <2>2. /\ call' \in Commit /\ call'.id = h /\ call'.base = authority' /\ call'.epoch = epoch'
        /\ call'.attempt = n /\ call'.reply = "NONE"
        /\ entry' \in [Ids -> Entry]
        /\ \A i \in Ids : /\ entry'[i].ops = es[i].ops /\ entry'[i].result = es[i].result
                          /\ entry'[i].attempts = IF i = h THEN n ELSE es[i].attempts
        /\ net' = net \cup {new}
        /\ net' \subseteq Request
    <3> DEFINE q == pending'
               r == authority'
               e == epoch'
    <3>1. q \in Seq(Ids) /\ r \in Revs /\ e \in Nat /\ SendHead(q, r, e, es) /\ q # <<>> /\ net \subseteq Request
      BY <1>2, <1>5
    <3> HIDE DEF q, r, e
    <3>2. /\ call' \in Commit /\ call'.id = Head(q) /\ call'.base = r /\ call'.epoch = e
          /\ call'.attempt = es[Head(q)].attempts + 1 /\ call'.reply = "NONE"
          /\ entry' \in [Ids -> Entry]
          /\ \A i \in Ids : /\ entry'[i].ops = es[i].ops /\ entry'[i].result = es[i].result
                            /\ entry'[i].attempts = IF i = Head(q) THEN es[i].attempts + 1 ELSE es[i].attempts
          /\ net' = net \cup {[id |-> Head(q), base |-> r, attempt |-> es[Head(q)].attempts + 1]}
          /\ net' \subseteq Request
      BY <3>1, SendHeadFacts
    <3> QED BY <3>2 DEF q, r, e
  <2>3. n \in Nat /\ n > entry[h].attempts /\ n > 0 /\ new.id = h /\ new.attempt = n /\ new.base = authority'
    BY <1>1, <2>1
  <2> HIDE DEF h, n, new
  <2>4. es[h].result = "PENDING"
    BY <2>1 DEF Queues
  <2>5. \A j \in Ids : Before(h, j) => es[j].attempts = 0
    BY <1>1, <2>1, <2>4 DEF InOrder
  <2>6. QueueInv'
    <3>1. ASSUME NEW p \in DOMAIN pending', p # 1 PROVE entry'[pending'[p]].attempts = 0
      <4>1. pending'[p] # h /\ pending'[p] \in Ids
        BY <2>1, <3>1 DEF Queues
      <4> QED BY <2>2, <3>1, <4>1 DEF Queues
    <3>2. \A i \in Ids : entry'[i].result = "UNUSED" => entry'[i].attempts = 0
      BY <2>2, <2>4 DEF Queues
    <3>3. Queues(pending', entry')
      BY <2>2, <3>1, <3>2 DEF Queues
    <3>4. ASSUME NEW i \in Ids, NEW j \in Ids, Before(i, j), entry'[j].attempts > 0
          PROVE  entry'[i].result # "PENDING"
      <4>1. CASE j # h
        BY <2>2, <3>4, <4>1 DEF InOrder
      <4>2. CASE j = h
        <5> SUFFICES ASSUME es[i].result = "PENDING" PROVE FALSE
          BY <2>2
        <5>1. PICK p \in DOMAIN pending' : pending'[p] = i
          BY DEF Queues
        <5>2. p < 1
          BY <2>1, <3>4, <4>2, <5>1 DEF Queues
        <5>3. p \in Nat \ {0}
          BY <5>1
        <5> QED BY <5>2, <5>3
      <4> QED BY <4>1, <4>2
    <3> QED BY <3>3, <3>4 DEF QueueInv, InOrder
  <2>7. DrainInv'
    <3>1. Draining'
      BY <2>1, <2>2, Sizes DEF Draining
    <3>2. entry'[call'.id].attempts > 0 /\ call'.epoch <= epoch' /\ entry'[call'.id].result = "PENDING"
      BY <2>1, <2>2, <2>3, <2>4
    <3>3. \A j \in Ids : Before(call'.id, j) => entry'[j].attempts = 0
      BY <2>2, <2>5 DEF Before
    <3> QED BY <1>5, <2>2, <3>1, <3>2, <3>3 DEF DrainInv, h
  <2>8. NetInv'
    <3> SUFFICES ASSUME NEW m \in net'
                 PROVE  /\ m.attempt > 0 /\ m.attempt <= entry'[m.id].attempts
                        /\ m.base + 1 \in DOMAIN history
                        /\ m.id = call'.id /\ m.attempt = call'.attempt => m.base = call'.base
      BY DEF NetInv
    <3>1. CASE m = new
      BY <1>5, <2>1, <2>2, <2>3, <3>1
    <3>2. CASE m \in net
      <4>1. m.attempt > 0 /\ m.attempt <= entry[m.id].attempts /\ m.base + 1 \in DOMAIN history
        BY <3>2 DEF NetInv
      <4>2. m.id \in Ids /\ m.attempt \in Nat /\ entry[m.id].attempts \in Nat /\ entry'[m.id].attempts \in Nat
        BY <1>1, <1>2, <2>2, <3>2 DEF Entry
      <4>3. m.attempt <= entry'[m.id].attempts
        BY <1>1, <2>2, <2>3, <4>1, <4>2
      <4>4. m.id = h => m.attempt # n
        BY <1>1, <2>1, <2>3, <4>1, <4>2
      <4> QED BY <2>2, <4>1, <4>3, <4>4
    <3> QED BY <2>2, <3>1, <3>2
  <2>9. LateInv'
    <3> SUFFICES ASSUME NEW m \in net', NEW j \in Committed, Before(m.id, j) PROVE m.base < processed[j].rev
      BY <1>3 DEF LateInv
    <3>1. CASE m = new
      <4>1. j \in Ids /\ entry[j].attempts > 0
        BY CommittedWasSent
      <4>2. es[j].attempts = 0
        BY <2>3, <2>5, <3>1, <4>1
      <4> QED BY <4>1, <4>2
    <3>2. CASE m \in net
      BY <3>2 DEF LateInv
    <3> QED BY <2>2, <3>1, <3>2
  <2>10. \A i \in Ids : entry[i].attempts <= entry'[i].attempts
    BY <1>1, <2>2, <2>3
  <2> QED BY <1>5, <2>2, <2>6, <2>7, <2>8, <2>9, <2>10 DEF h
<1> QED BY <1>4, <1>5

\* A mutation that was never used, and was made after every edit in the queue, becomes its last.
LEMMA EnqueueOne ==
  ASSUME BoardInv, NEW i \in Ids, entry[i].result = "UNUSED",
         \A j \in Ids : Before(i, j) => entry[j].result = "UNUSED",
         NEW ops \in SUBSET Op, OneOp(ops), Len(pending) < MaxPending,
         NEW r \in Revs, r + 1 \in DOMAIN history, authority' = r,
         Unserved, Enqueue(i, ops, r)
  PROVE  /\ pending' = Append(pending, i) /\ status' = "PENDING" /\ UNCHANGED <<recent, epoch>>
         /\ pending' \in Seq(Ids) /\ Len(pending') <= MaxPending
         /\ entry' \in [Ids -> Entry] /\ call' \in Commit /\ net' \subseteq Request
         /\ entry'[i].ops = ops
         /\ \A j \in Ids : j # i => entry'[j].ops = entry[j].ops /\ entry'[j].result = entry[j].result
         /\ EntriesGoOn /\ QueueInv' /\ DrainInv' /\ NetInv' /\ LateInv'
         /\ call'.id = Head(pending') => \/ call'.base = r
                                         \/ pending # <<>> /\ call' = call /\ call.id = Head(pending)
<1> USE DEF BoardInv, Unserved
<1> DEFINE queued == [entry EXCEPT ![i] = [ops |-> ops, attempts |-> 0, result |-> "PENDING"]]
<1>1. /\ pending' = Append(pending, i) /\ status' = "PENDING"
      /\ IF Draining THEN entry' = queued /\ UNCHANGED <<call, net>>
                     ELSE SendHead(pending', r, epoch, queued)
      /\ UNCHANGED <<recent, epoch>>
  <2>1. ~(Len(pending) >= MaxPending)
    BY Sizes DEF BoardTypeOK
  <2> QED BY <2>1 DEF Enqueue
<1>2. /\ pending \in Seq(Ids) /\ entry \in [Ids -> Entry] /\ epoch \in Nat /\ call \in Commit /\ net \subseteq Request
      /\ \A j \in Ids : entry[j].attempts \in Nat
  BY DEF BoardTypeOK, Entry
<1>3. /\ pending' \in Seq(Ids) /\ Len(pending') = Len(pending) + 1 /\ pending' # <<>>
      /\ DOMAIN pending' = 1 .. Len(pending) + 1 /\ DOMAIN pending = 1 .. Len(pending) /\ Len(pending) \in Nat
      /\ \A p \in 1 .. Len(pending) : pending'[p] = pending[p]
      /\ pending'[Len(pending) + 1] = i
  BY <1>1, <1>2
<1>4. Len(pending') <= MaxPending
  BY <1>3, Sizes
<1>5. /\ queued \in [Ids -> Entry]
      /\ queued[i].ops = ops /\ queued[i].attempts = 0 /\ queued[i].result = "PENDING"
      /\ \A j \in Ids : j # i => queued[j] = entry[j]
  <2>1. [ops |-> ops, attempts |-> 0, result |-> "PENDING"] \in Entry
    BY DEF Entry, Results
  <2> QED BY <1>2, <2>1
<1> HIDE DEF queued
<1>6. entry[i].attempts = 0 /\ \A j \in Ids : queued[j].attempts = entry[j].attempts
  <2>1. entry[i].attempts = 0
    BY DEF QueueInv, Queues
  <2> QED BY <1>5, <2>1
<1>7. \A p \in DOMAIN pending : pending[p] \in Ids /\ pending[p] # i /\ ~Before(i, pending[p])
  BY <1>2 DEF QueueInv, Queues
<1>8. Queues(pending', queued)
  <2>1. \A p, q \in DOMAIN pending' : pending'[p] = pending'[q] => p = q
    BY <1>3, <1>7 DEF QueueInv, Queues
  <2>2. ASSUME NEW j \in Ids PROVE queued[j].result = "PENDING" <=> \E p \in DOMAIN pending' : pending'[p] = j
    <3>1. CASE j = i
      BY <1>3, <1>5, <3>1
    <3>2. CASE j # i
      BY <1>3, <1>5, <3>2 DEF QueueInv, Queues
    <3> QED BY <3>1, <3>2
  <2>3. ASSUME NEW p \in DOMAIN pending', NEW q \in DOMAIN pending', Before(pending'[p], pending'[q]) PROVE p < q
    <3>1. CASE p = Len(pending) + 1
      <4>1. q = Len(pending) + 1
        BY <1>3, <1>7, <2>3, <3>1
      <4> QED BY <1>3, <2>3, <3>1, <4>1 DEF Before
    <3>2. CASE p \in DOMAIN pending /\ q = Len(pending) + 1
      BY <1>3, <3>2
    <3>3. CASE p \in DOMAIN pending /\ q \in DOMAIN pending
      BY <1>3, <2>3, <3>3 DEF QueueInv, Queues
    <3> QED BY <1>3, <3>1, <3>2, <3>3
  <2>4. ASSUME NEW p \in DOMAIN pending', p # 1 PROVE queued[pending'[p]].attempts = 0
    <3>1. CASE p = Len(pending) + 1
      BY <1>3, <1>5, <3>1
    <3>2. CASE p \in DOMAIN pending
      BY <1>3, <1>5, <1>7, <2>4, <3>2 DEF QueueInv, Queues
    <3> QED BY <1>3, <3>1, <3>2
  <2>5. \A j \in Ids : queued[j].result = "UNUSED" => queued[j].attempts = 0
    BY <1>5 DEF QueueInv, Queues
  <2> QED BY <2>1, <2>2, <2>3, <2>4, <2>5 DEF Queues
<1>9. InOrder(queued)
  <2> SUFFICES ASSUME NEW j \in Ids, NEW k \in Ids, Before(j, k), queued[k].attempts > 0
               PROVE  queued[j].result # "PENDING"
    BY DEF InOrder
  <2>1. entry[k].attempts > 0
    BY <1>6
  <2>2. entry[k].result # "UNUSED"
    BY <2>1, SentIsUsed
  <2>3. j # i
    BY <2>2
  <2> QED BY <1>5, <2>1, <2>3 DEF QueueInv, InOrder
<1>10. CASE Draining
  <2>1. entry' = queued /\ UNCHANGED <<call, net>>
    BY <1>1, <1>10
  <2>2. QueueInv'
    BY <1>8, <1>9, <2>1 DEF QueueInv
  <2>3. call.id \in Ids /\ call.id # i
    <3>1. call.id \in Ids /\ entry[call.id].attempts > 0
      BY <1>2, <1>10 DEF DrainInv, Draining, Commit
    <3> QED BY <1>6, <3>1
  <2>4. Head(pending') = IF pending = <<>> THEN i ELSE Head(pending)
    BY <1>1, <1>2
  <2>5. DrainInv'
    <3>1. entry'[call.id] = entry[call.id]
      BY <1>5, <2>1, <2>3
    <3>2. entry[call.id].result = "PENDING" => pending # <<>>
      <4>1. entry[call.id].result = "PENDING" => \E p \in DOMAIN pending : pending[p] = call.id
        BY <2>3 DEF QueueInv, Queues
      <4> QED BY <4>1
    <3>3. \A j \in Ids : entry'[j].attempts = entry[j].attempts
      BY <1>6, <2>1
    <3>4. Draining' = Draining /\ Stale' = Stale
      BY <1>1, <2>1 DEF Draining, Stale
    <3> QED BY <1>1, <1>10, <2>1, <2>4, <3>1, <3>2, <3>3, <3>4 DEF DrainInv
  <2>6. NetInv' /\ LateInv'
    <3>1. \A m \in net : m.id \in Ids
      BY <1>2 DEF Request
    <3>2. \A j \in Ids : entry'[j].attempts = entry[j].attempts
      BY <1>6, <2>1
    <3>3. NetInv'
      BY <2>1, <3>1, <3>2 DEF NetInv
    <3>4. LateInv'
      BY <2>1 DEF LateInv, Committed
    <3> QED BY <3>3, <3>4
  <2>7. EntriesGoOn
    <3>1. \A j \in Ids : OneOp(entry'[j].ops)
      BY <1>5, <2>1 DEF OneOpEach
    <3>2. \A j \in Ids : entry[j].attempts <= entry'[j].attempts
      BY <1>2, <1>6, <2>1
    <3> QED BY <1>5, <2>1, <3>1, <3>2 DEF EntriesGoOn
  <2>8. call'.id = Head(pending') => pending # <<>> /\ call' = call /\ call.id = Head(pending)
    BY <2>1, <2>3, <2>4
  <2> QED BY <1>1, <1>2, <1>3, <1>4, <1>5, <2>1, <2>2, <2>5, <2>6, <2>7, <2>8
<1>11. CASE ~Draining
  <2>1. SendHead(pending', authority', epoch', queued)
    BY <1>1, <1>11
  <2>2. authority' \in Revs /\ epoch' \in Nat /\ authority' + 1 \in DOMAIN history /\ status' \in {"SYNCED", "PENDING"}
    BY <1>1, <1>2
  <2>3. /\ entry' \in [Ids -> Entry] /\ call' \in Commit /\ net' \subseteq Request
        /\ \A j \in Ids : /\ entry'[j].ops = queued[j].ops /\ entry'[j].result = queued[j].result
                          /\ entry[j].attempts <= entry'[j].attempts
        /\ pending' # <<>> => call'.id = Head(pending') /\ call'.base = authority'
        /\ QueueInv' /\ DrainInv' /\ NetInv' /\ LateInv'
    <3> HIDE DEF BoardInv
    <3> QED BY <1>3, <1>5, <1>6, <1>8, <1>9, <2>1, <2>2, SendNext
  <2>4. EntriesGoOn
    <3>1. OneOp(entry'[i].ops) /\ \A j \in Ids : j # i => OneOp(entry'[j].ops) /\ queued[j] = entry[j]
      BY <1>5, <2>3 DEF OneOpEach
    <3> QED BY <1>5, <2>3, <3>1 DEF EntriesGoOn
  <2> QED BY <1>1, <1>3, <1>4, <1>5, <2>3, <2>4
<1> QED BY <1>10, <1>11

-----------------------------------------------------------------------------
(* The server and the connection. *)

LEMMA CommittedFits ==
  ASSUME NEW S \in SUBSET Ids
  PROVE  IsFiniteSet(S) /\ Cardinality(S) \in Nat /\ Cardinality(S) <= MaxEdits + MaxVisits + 1
<1>1. IsFiniteSet(Ids) /\ Cardinality(Ids) = MaxEdits + MaxVisits + 1
  BY Sizes
<1>2. IsFiniteSet(S) /\ Cardinality(S) <= Cardinality(Ids)
  BY <1>1, FS_Subset, Zenon
<1>3. Cardinality(S) \in Nat
  BY <1>2, FS_CardinalityType, Zenon
<1> QED BY <1>1, <1>2, <1>3

\* The history is long enough for every mutation and for the other windows.
LEMMA HistoryFits ==
  ASSUME NEW S \in SUBSET Ids, NEW n \in Nat \ {0}, NEW f \in 0 .. MaxForeign,
         n <= 1 + Cardinality(S) + (MaxForeign - f)
  PROVE  n \in 1 .. Unknown
<1>1. Cardinality(S) \in Nat /\ Cardinality(S) <= MaxEdits + MaxVisits + 1
  BY CommittedFits
<1> QED BY <1>1, Sizes DEF Unknown

\* What was compared, what the canvas was bound to and what was sent is still in the history.
LEMMA HistoryGrows ==
  ASSUME BoardInv, NEW b \in Contents, history' = history \/ history' = Append(history, b),
         UNCHANGED <<canvas, deleted, sync, phase, coord, entry, astray, left.edits, left.visits>>,
         call'.id = call.id, call'.base = call.base
  PROVE  /\ CanvasInv' /\ SyncInv' /\ RoomInv' /\ Supply'
         /\ history' \in Seq(Contents) /\ Len(history') \in Nat \ {0} /\ Len(history') <= Len(history) + 1
         /\ \A n \in DOMAIN history : n \in DOMAIN history' /\ history'[n] = history[n]
<1>1. history \in Seq(Contents) /\ Len(history) \in Nat \ {0}
  BY Sizes DEF BoardInv, BoardTypeOK
<1>2. /\ history' \in Seq(Contents) /\ Len(history') \in Nat \ {0} /\ Len(history') <= Len(history) + 1
      /\ \A n \in DOMAIN history : n \in DOMAIN history' /\ history'[n] = history[n]
  BY <1>1
<1>3. CanvasInv'
  <2> SUFFICES ASSUME status \in {"SYNCED", "PENDING"}
               PROVE  /\ authority + 1 \in DOMAIN history'
                      /\ ~astray => /\ Chain(history', authority, pending, entry, canvas)
                                    /\ pending # <<>> /\ call'.id = Head(pending) => call'.base = authority
    BY DEF CanvasInv, coord
  <2>1. /\ authority + 1 \in DOMAIN history
        /\ ~astray => /\ Chain(history, authority, pending, entry, canvas)
                      /\ pending # <<>> /\ call.id = Head(pending) => call.base = authority
    BY DEF BoardInv, CanvasInv
  <2>2. Chain(history, authority, pending, entry, canvas) => Chain(history', authority, pending, entry, canvas)
    BY <1>2, <2>1, ChainKeeps
  <2> QED BY <1>2, <2>1, <2>2
<1>4. SyncInv'
  BY <1>2 DEF BoardInv, SyncInv
<1>5. RoomInv' /\ Supply'
  BY DEF BoardInv, RoomInv, Supply, Early, ToCome
<1> QED BY <1>2, <1>3, <1>4, <1>5

LEMMA TransportKeeps ==
  ASSUME BoardInv, TransportFails
  PROVE  BoardInv'
<1> USE DEF BoardInv, TransportFails, server, coord, Unserved
<1>1. /\ call' \in Commit /\ call'.id = call.id /\ call'.base = call.base /\ call'.epoch = call.epoch
      /\ call'.attempt = call.attempt /\ call'.reply = "ERROR"
  BY DEF BoardTypeOK, Commit
<1>2. BoardTypeOK'
  BY <1>1 DEF BoardTypeOK
<1>3. EntriesGoOn
  BY EntriesStay
<1>4. ServerInv' /\ KeptInv' /\ OneOpEach' /\ Counted'
  BY <1>2, <1>3, ServerStays
<1>5. Supply' /\ CanvasInv' /\ RoomInv' /\ SyncInv'
  BY <1>1 DEF Supply, Early, ToCome, CanvasInv, RoomInv, SyncInv
<1>6. QueueInv' /\ NetInv' /\ LateInv'
  BY <1>1 DEF QueueInv, NetInv, LateInv, Committed
<1>7. DrainInv'
  BY <1>1 DEF DrainInv, Draining, Stale
<1> QED BY <1>2, <1>4, <1>5, <1>6, <1>7

LEMMA ForeignKeeps ==
  ASSUME BoardInv, NEW s \in Shapes, Foreign(s)
  PROVE  BoardInv'
<1> USE DEF BoardInv, server, coord
<1>1. /\ left.foreign > 0 /\ left' = [left EXCEPT !.foreign = @ - 1]
      /\ board' = [board EXCEPT ![s] = IF @ = 0 THEN 1 ELSE 0]
      /\ history' = Append(history, board')
      /\ UNCHANGED <<canvas, deleted, processed, net, phase, bootstrap, coord, call, sync, entry, astray>>
  BY DEF Foreign
<1>2. left.foreign \in 0 .. MaxForeign /\ left.edits \in 0 .. MaxEdits /\ left.visits \in 0 .. MaxVisits
  BY DEF BoardTypeOK
<1>3. /\ left'.edits = left.edits /\ left'.visits = left.visits /\ left'.foreign = left.foreign - 1
      /\ left' \in [edits : 0 .. MaxEdits, foreign : 0 .. MaxForeign, visits : 0 .. MaxVisits]
      /\ left'.foreign \in 0 .. MaxForeign
  <2>1. left.foreign - 1 \in 0 .. MaxForeign
    <3>1. MaxForeign \in Nat
      BY Sizes
    <3> QED BY <1>1, <1>2, <3>1, OneLess
  <2>2. left' = [left EXCEPT !.foreign = left.foreign - 1]
    BY <1>1
  <2> QED BY <2>1, <2>2 DEF BoardTypeOK
<1>4. board' \in Contents
  <2>1. 0 \in 0 .. MaxEdits + 1 /\ 1 \in 0 .. MaxEdits + 1
    BY Sizes
  <2> QED BY <1>1, <2>1 DEF BoardTypeOK, Contents
<1>5. /\ CanvasInv' /\ SyncInv' /\ RoomInv' /\ Supply'
      /\ history' \in Seq(Contents) /\ Len(history') \in Nat \ {0} /\ Len(history') <= Len(history) + 1
      /\ \A n \in DOMAIN history : n \in DOMAIN history' /\ history'[n] = history[n]
  BY <1>1, <1>3, <1>4, HistoryGrows
<1>6. Committed' = Committed /\ Committed \in SUBSET Ids
  BY <1>1 DEF Committed
<1>7. Counted'
  <2>1. Cardinality(Committed) \in Nat /\ Len(history) \in Nat
    BY <1>6, CommittedFits DEF BoardTypeOK
  <2>2. MaxForeign \in Nat /\ left.foreign \in Nat
    BY <1>2, Sizes
  <2>3. Len(history) <= 1 + Cardinality(Committed) + (MaxForeign - left.foreign)
    BY DEF Counted
  <2>4. Len(history') <= 1 + Cardinality(Committed) + (MaxForeign - (left.foreign - 1))
    BY <1>5, <2>1, <2>2, <2>3
  <2> QED BY <1>3, <1>6, <2>4 DEF Counted
<1>8. Len(history') \in 1 .. Unknown
  BY <1>3, <1>5, <1>6, <1>7, HistoryFits DEF Counted
<1>9. BoardTypeOK'
  BY <1>1, <1>3, <1>4, <1>5, <1>8 DEF BoardTypeOK
<1>10. /\ QueueInv' /\ NetInv' /\ LateInv' /\ DrainInv' /\ OneOpEach' /\ KeptInv'
  <2>1. QueueInv' /\ OneOpEach' /\ KeptInv' /\ LateInv'
    BY <1>1, <1>6 DEF QueueInv, OneOpEach, KeptInv, LateInv
  <2>2. NetInv' /\ DrainInv'
    BY <1>1, <1>5 DEF NetInv, DrainInv, Draining, Stale
  <2> QED BY <2>1, <2>2
<1>11. ServerInv'
  <2>1. history \in Seq(Contents) /\ Len(history) \in Nat /\ board' \in Contents
    BY <1>4 DEF BoardTypeOK
  <2>2. Len(history') = Len(history) + 1 /\ history'[Len(history) + 1] = board'
        /\ \A n \in 1 .. Len(history) : history'[n] = history[n]
    BY <1>1, <2>1
  <2>3. board' = history'[Len(history')]
    BY <2>2
  <2>4. ASSUME NEW i \in Committed
        PROVE  /\ processed[i].rev \in 1 .. Len(history') - 1 /\ processed[i].base = processed[i].rev - 1
               /\ Leads(entry[i].ops, history'[processed[i].rev], history'[processed[i].rev + 1])
    <3>1. /\ processed[i].rev \in 1 .. Len(history) - 1 /\ processed[i].base = processed[i].rev - 1
          /\ Leads(entry[i].ops, history[processed[i].rev], history[processed[i].rev + 1])
      BY DEF ServerInv
    <3>2. processed[i].rev \in 1 .. Len(history) /\ processed[i].rev + 1 \in 1 .. Len(history)
      BY <2>1, <3>1
    <3> QED BY <2>1, <2>2, <3>1, <3>2
  <2> QED BY <1>1, <1>6, <2>3, <2>4 DEF ServerInv
<1> QED BY <1>5, <1>7, <1>9, <1>10, <1>11

LEMMA OneOfEach ==
  ASSUME BoardTypeOK, NEW ops \in SUBSET Op, OneOp(ops), \A o \in ops : board[o.shape] = o.from
  PROVE  Applied(ops) \in Contents /\ Leads(ops, board, Applied(ops))
<1>1. \A o \in ops : o.shape \in Shapes /\ o.to \in 0 .. MaxEdits + 1
  BY DEF Op
<1>2. \A s \in Shapes : board[s] \in 0 .. MaxEdits + 1
  BY DEF BoardTypeOK, Contents
<1>3. ASSUME NEW s \in Shapes
      PROVE  /\ Applied(ops)[s] \in 0 .. MaxEdits + 1
             /\ IF \E o \in ops : o.shape = s
                THEN \A o \in ops : o.shape = s => o.from = board[s] /\ o.to = Applied(ops)[s]
                ELSE Applied(ops)[s] = board[s]
  <2>1. CASE \E o \in ops : o.shape = s
    <3>1. (CHOOSE o \in ops : o.shape = s) \in ops /\ (CHOOSE o \in ops : o.shape = s).shape = s
      BY <2>1
    <3>2. Applied(ops)[s] = (CHOOSE o \in ops : o.shape = s).to
      BY <2>1 DEF Applied
    <3>3. \A o \in ops : o.shape = s => o = (CHOOSE p \in ops : p.shape = s)
      BY <3>1 DEF OneOp
    <3> QED BY <1>1, <2>1, <3>1, <3>2, <3>3
  <2>2. CASE ~ \E o \in ops : o.shape = s
    BY <1>2, <2>2 DEF Applied
  <2> QED BY <2>1, <2>2
<1>4. Applied(ops) = [s \in Shapes |-> Applied(ops)[s]]
  BY DEF Applied
<1> QED BY <1>3, <1>4 DEF Contents, Leads

LEMMA ServeKeeps ==
  ASSUME BoardInv, NEW m \in net, Serve(m)
  PROVE  BoardInv'
<1> USE DEF BoardInv, server, coord
<1> DEFINE known == processed[m.id].base # Unknown
           good  == Acceptable(entry[m.id].ops, m.base)
           rev   == IF good THEN Revision + 1 ELSE Revision
           out   == IF known THEN processed[m.id]
                             ELSE [base |-> m.base, committed |-> good, rev |-> rev]
           commits == ~known /\ good
<1>1. /\ processed' = [processed EXCEPT ![m.id] = out]
      /\ IF commits
         THEN board' = Applied(entry[m.id].ops) /\ history' = Append(history, board')
         ELSE UNCHANGED <<board, history>>
      /\ \E arrives \in BOOLEAN :
           call' = IF arrives /\ Awaited(m)
                   THEN [call EXCEPT !.rev = out.rev,
                                     !.reply = CASE out.base # m.base -> "ERROR"
                                                 [] out.base = m.base /\ out.committed -> "OK"
                                                 [] OTHER -> "REJECTED"]
                   ELSE call
      /\ net' = {x \in net \ {m} : x.id # m.id \/ Awaited(x)}
      /\ UNCHANGED <<canvas, deleted, phase, bootstrap, coord, sync, entry, astray, left>>
  BY DEF Serve
<1>2. /\ m.id \in Ids /\ m.base \in Revs /\ m.attempt \in Nat /\ entry[m.id] \in Entry /\ OneOp(entry[m.id].ops)
      /\ entry[m.id].ops \in SUBSET Op /\ entry[m.id].attempts > 0
      /\ m.base + 1 \in DOMAIN history
  <2>1. m.id \in Ids /\ m.base \in Revs /\ m.attempt \in Nat
    BY DEF BoardTypeOK, Request
  <2>2. entry[m.id] \in Entry /\ OneOp(entry[m.id].ops) /\ entry[m.id].ops \in SUBSET Op
        /\ entry[m.id].attempts \in Nat
    BY <2>1 DEF BoardTypeOK, OneOpEach, Entry
  <2> QED BY <2>1, <2>2 DEF NetInv
<1>3. history \in Seq(Contents) /\ Len(history) \in 1 .. Unknown /\ Unknown \in Nat /\ Revision = Len(history) - 1
  BY Sizes DEF BoardTypeOK, Revision
<1>4. out \in Outcome /\ processed[m.id] \in Outcome
  <2>1. processed[m.id] \in Outcome
    BY <1>2 DEF BoardTypeOK
  <2>2. rev \in Revs
    BY <1>3 DEF Revs
  <2>3. good \in BOOLEAN
    BY DEF Acceptable, CurrentBase
  <2> HIDE DEF rev, good
  <2> QED BY <1>2, <2>1, <2>2, <2>3 DEF Outcome
<1>5. processed' \in [Ids -> Outcome] /\ processed'[m.id] = out /\ \A i \in Ids : i # m.id => processed'[i] = processed[i]
  <2> HIDE DEF out
  <2> QED BY <1>1, <1>2, <1>4 DEF BoardTypeOK
<1>6. commits => /\ board' \in Contents /\ Leads(entry[m.id].ops, board, board')
                 /\ history' = Append(history, board')
                 /\ m.id \notin Committed /\ m.base = Len(history) - 1
                 /\ out.committed /\ out.rev = Len(history) /\ out.base = m.base
  <2> SUFFICES ASSUME commits
               PROVE  /\ board' \in Contents /\ Leads(entry[m.id].ops, board, board')
                      /\ history' = Append(history, board')
                      /\ m.id \notin Committed /\ m.base = Len(history) - 1
                      /\ out.committed /\ out.rev = Len(history) /\ out.base = m.base
    OBVIOUS
  <2>1. board' = Applied(entry[m.id].ops) /\ history' = Append(history, board')
    BY <1>1
  <2>2. m.base = Revision /\ \A o \in entry[m.id].ops : board[o.shape] = o.from
    BY DEF Acceptable, CurrentBase
  <2>3. board' \in Contents /\ Leads(entry[m.id].ops, board, board')
    BY <1>2, <2>1, <2>2, OneOfEach
  <2>4. m.id \notin Committed
    BY CommittedWasSent
  <2>5. out.committed /\ out.rev = Revision + 1 /\ out.base = m.base
    OBVIOUS
  <2> QED BY <1>3, <2>1, <2>2, <2>3, <2>4, <2>5
<1>7. ~commits => UNCHANGED <<board, history>>
  BY <1>1
<1>8. Committed' = IF commits THEN Committed \cup {m.id} ELSE Committed
  <2>1. ~known => out.committed = good
    OBVIOUS
  <2>2. known => out = processed[m.id]
    OBVIOUS
  <2>3. m.id \in Committed => known
    BY CommittedWasSent
  <2>4. m.id \in Committed' <=> (commits \/ m.id \in Committed)
    <3> HIDE DEF known, good, out
    <3> QED BY <1>2, <1>5, <2>1, <2>2, <2>3 DEF Committed
  <2>5. \A i \in Ids : i # m.id => (i \in Committed' <=> i \in Committed)
    <3> HIDE DEF out
    <3> QED BY <1>5 DEF Committed
  <2>6. Committed \subseteq Ids /\ Committed' \subseteq Ids
    BY DEF Committed
  <2> HIDE DEF commits
  <2> QED BY <1>2, <2>4, <2>5, <2>6
<1> HIDE DEF known, good, rev, commits
<1>9. /\ call' \in Commit /\ call'.id = call.id /\ call'.base = call.base /\ call'.epoch = call.epoch
      /\ call'.attempt = call.attempt
      /\ call'.reply # call.reply \/ call'.rev # call.rev => Awaited(m)
      /\ call'.reply # call.reply /\ call'.reply = "OK" => out.base = m.base /\ out.committed /\ call'.rev = out.rev
  <2>1. PICK arrives \in BOOLEAN :
          call' = IF arrives /\ Awaited(m)
                  THEN [call EXCEPT !.rev = out.rev,
                                    !.reply = CASE out.base # m.base -> "ERROR"
                                                [] out.base = m.base /\ out.committed -> "OK"
                                                [] OTHER -> "REJECTED"]
                  ELSE call
    BY <1>1
  <2> DEFINE answer == CASE out.base # m.base -> "ERROR"
                         [] out.base = m.base /\ out.committed -> "OK"
                         [] OTHER -> "REJECTED"
  <2>2. answer \in {"OK", "REJECTED", "ERROR"} /\ (answer = "OK" => out.base = m.base /\ out.committed)
    <3> HIDE DEF out
    <3> QED OBVIOUS
  <2>3. call \in Commit /\ out.rev \in Revs
    BY <1>4 DEF BoardTypeOK, Outcome
  <2>4. call' = IF arrives /\ Awaited(m) THEN [call EXCEPT !.rev = out.rev, !.reply = answer] ELSE call
    BY <2>1
  <2> HIDE DEF answer, out
  <2>5. CASE arrives /\ Awaited(m)
    BY <2>2, <2>3, <2>4, <2>5 DEF Commit
  <2>6. CASE ~(arrives /\ Awaited(m))
    BY <2>3, <2>4, <2>6
  <2> QED BY <2>5, <2>6
<1> HIDE DEF out
<1>10. net' \subseteq net
  BY <1>1
<1>11. PICK b \in Contents : history' = history \/ history' = Append(history, b)
  BY <1>6, <1>7 DEF BoardTypeOK
<1>12. /\ CanvasInv' /\ SyncInv' /\ RoomInv' /\ Supply'
       /\ history' \in Seq(Contents) /\ Len(history') \in Nat \ {0} /\ Len(history') <= Len(history) + 1
       /\ \A n \in DOMAIN history : n \in DOMAIN history' /\ history'[n] = history[n]
  BY <1>1, <1>9, <1>11, HistoryGrows
<1>13. Counted' /\ Committed' \subseteq Ids
  <2>1. Committed \in SUBSET Ids
    BY DEF Committed
  <2>2. IsFiniteSet(Committed) /\ Cardinality(Committed) \in Nat
    BY <2>1, CommittedFits
  <2>3. Committed' \subseteq Ids
    BY <1>2, <1>8, <2>1
  <2>4. CASE ~commits
    BY <1>1, <1>7, <1>8, <2>3, <2>4 DEF Counted
  <2>5. CASE commits
    <3>1. Cardinality(Committed') = Cardinality(Committed) + 1
      BY <1>6, <1>8, <2>2, <2>5, FS_AddElement
    <3>2. left.foreign \in Nat /\ MaxForeign \in Nat /\ Len(history) \in Nat
      BY <1>3, Sizes DEF BoardTypeOK
    <3> QED BY <1>1, <1>12, <2>2, <2>3, <3>1, <3>2 DEF Counted
  <2> QED BY <2>4, <2>5
<1>14. Len(history') \in 1 .. Unknown
  BY <1>1, <1>12, <1>13, HistoryFits DEF Counted, BoardTypeOK
<1>15. BoardTypeOK'
  <2>1. board' \in Contents
    BY <1>6, <1>7 DEF BoardTypeOK
  <2> QED BY <1>1, <1>5, <1>9, <1>10, <1>12, <1>14, <2>1 DEF BoardTypeOK
<1>20. \A i \in Committed : processed'[i] = processed[i]
  <2> SUFFICES ASSUME NEW i \in Committed PROVE processed'[i] = processed[i]
    OBVIOUS
  <2>1. CASE i = m.id
    <3>1. known
      BY <2>1, CommittedWasSent DEF known
    <3> QED BY <1>5, <2>1, <3>1 DEF out
  <2> QED BY <1>5, <2>1 DEF Committed
<1>16. ServerInv'
  <2>1. board' = history'[Len(history')]
    BY <1>3, <1>6, <1>7 DEF ServerInv
  <2>2. ASSUME NEW i \in Committed'
        PROVE  /\ processed'[i].rev \in 1 .. Len(history') - 1
               /\ processed'[i].base = processed'[i].rev - 1
               /\ Leads(entry'[i].ops, history'[processed'[i].rev], history'[processed'[i].rev + 1])
    <3>1. CASE i \in Committed
      <4>1. processed'[i] = processed[i]
        BY <1>20, <3>1
      <4>2. /\ processed[i].rev \in 1 .. Len(history) - 1 /\ processed[i].base = processed[i].rev - 1
            /\ Leads(entry[i].ops, history[processed[i].rev], history[processed[i].rev + 1])
        BY <3>1 DEF ServerInv
      <4>3. processed[i].rev \in 1 .. Len(history) /\ processed[i].rev + 1 \in 1 .. Len(history)
        BY <1>3, <4>2
      <4>4. \A n \in 1 .. Len(history) : history'[n] = history[n]
        BY <1>3, <1>11
      <4>5. Len(history) <= Len(history')
        BY <1>3, <1>11
      <4>6. processed[i].rev \in 1 .. Len(history') - 1
        BY <1>3, <1>12, <4>2, <4>5
      <4>7. Leads(entry[i].ops, history'[processed[i].rev], history'[processed[i].rev + 1])
        BY <4>2, <4>3, <4>4
      <4> QED BY <1>1, <4>1, <4>2, <4>6, <4>7
    <3>2. CASE i \notin Committed
      <4>1. commits /\ i = m.id
        BY <1>8, <3>2, <2>2
      <4>2. Len(history') = Len(history) + 1 /\ history'[Len(history) + 1] = board' /\ history'[Len(history)] = board
        BY <1>3, <1>6, <4>1 DEF ServerInv
      <4> QED BY <1>1, <1>3, <1>5, <1>6, <4>1, <4>2
    <3> QED BY <3>1, <3>2
  <2>3. \A i \in Ids : processed'[i].base # Unknown => entry'[i].attempts > 0
    BY <1>1, <1>2, <1>5 DEF ServerInv
  <2>4. ASSUME NEW i \in Committed', NEW j \in Committed', Before(i, j)
        PROVE  processed'[i].rev < processed'[j].rev
    <3>1. CASE i \in Committed /\ j \in Committed
      BY <1>20, <2>4, <3>1 DEF ServerInv
    <3>2. CASE i \notin Committed /\ j \in Committed
      <4>1. commits /\ i = m.id
        BY <1>8, <3>2, <2>4
      <4>2. m.base < processed[j].rev /\ processed[j].rev \in 1 .. Len(history) - 1
        BY <2>4, <3>2, <4>1 DEF LateInv, ServerInv
      <4> QED BY <1>3, <1>6, <4>1, <4>2
    <3>3. CASE j \notin Committed
      <4>1. commits /\ j = m.id /\ i # j
        BY <1>8, <3>3, <2>4 DEF Before
      <4>2. i \in Committed
        BY <1>8, <4>1, <2>4
      <4>3. processed'[j].rev = Len(history)
        BY <1>2, <1>5, <1>6, <4>1
      <4>4. processed'[i].rev \in 1 .. Len(history) - 1
        BY <1>20, <4>2 DEF ServerInv
      <4> QED BY <1>3, <4>3, <4>4
    <3> QED BY <3>1, <3>2, <3>3
  <2> QED BY <2>1, <2>2, <2>3, <2>4 DEF ServerInv
<1>17. KeptInv' /\ OneOpEach'
  <2>1. Committed \subseteq Committed'
    BY <1>8
  <2> QED BY <1>1, <2>1 DEF KeptInv, OneOpEach, Committed
<1>18. QueueInv' /\ NetInv' /\ LateInv'
  <2>1. QueueInv' /\ NetInv'
    BY <1>1, <1>9, <1>10, <1>12 DEF QueueInv, NetInv
  <2>2. ASSUME NEW x \in net', NEW j \in Committed', Before(x.id, j) PROVE x.base < processed'[j].rev
    <3>1. x \in net
      BY <1>10
    <3>2. CASE j \in Committed
      BY <1>20, <2>2, <3>1, <3>2 DEF LateInv
    <3>3. CASE j \notin Committed
      <4>1. commits /\ j = m.id
        BY <1>8, <3>3, <2>2
      <4>2. processed'[j].rev = Len(history)
        BY <1>2, <1>5, <1>6, <4>1
      <4>3. x.base + 1 \in DOMAIN history /\ DOMAIN history = 1 .. Len(history) /\ x.base \in Revs
        BY <1>3, <3>1 DEF NetInv, BoardTypeOK, Request
      <4> QED BY <1>3, <4>2, <4>3, Sizes DEF Revs
    <3> QED BY <3>2, <3>3
  <2> QED BY <2>1, <2>2 DEF LateInv
<1>19. DrainInv'
  <2>1. Awaited(m) => call.id = m.id /\ call.reply = "NONE" /\ call.base = m.base
    BY DEF Awaited, NetInv
  <2>2. ASSUME Draining', call'.reply = "OK"
        PROVE  /\ processed'[call'.id].committed
               /\ call'.rev = processed'[call'.id].rev /\ call'.base = processed'[call'.id].base
    <3>1. CASE call'.reply # call.reply
      BY <1>2, <1>5, <1>9, <2>1, <2>2, <3>1
    <3>2. CASE call'.reply = call.reply
      <4>1. call'.rev = call.rev
        BY <1>9, <2>1, <2>2, <3>2
      <4>2. call.id \in Ids
        BY <1>9, <2>2 DEF Draining, BoardTypeOK, Commit
      <4>3. /\ processed[call.id].committed
            /\ call.rev = processed[call.id].rev /\ call.base = processed[call.id].base
        BY <1>9, <2>2, <3>2 DEF Draining, DrainInv
      <4>4. processed'[call.id] = processed[call.id]
        BY <1>20, <4>2, <4>3 DEF Committed
      <4> QED BY <1>9, <4>1, <4>3, <4>4
    <3> QED BY <3>1, <3>2
  <2>3. Draining' = Draining /\ Stale' = Stale
    BY <1>1, <1>9 DEF Draining, Stale
  <2>4. call'.reply # "NONE" => Draining'
    BY <1>2, <1>9, <2>1, Sizes DEF DrainInv, Draining
  <2> QED BY <1>1, <1>9, <1>12, <2>2, <2>3, <2>4 DEF DrainInv
<1> QED BY <1>12, <1>13, <1>15, <1>16, <1>17, <1>18, <1>19

-----------------------------------------------------------------------------
(* The drain. *)

Aside == UNCHANGED <<canvas, deleted, board, history, processed, phase, bootstrap, sync, left>>

\* The board is not concerned, nor a synchronize.
LEMMA AwayFromTheBoard ==
  ASSUME BoardInv, Aside, \A i \in Ids : entry[i].result = "UNUSED" => entry'[i].result = "UNUSED"
  PROVE  SyncInv' /\ Supply' /\ RoomInv'
<1> USE DEF BoardInv, Aside
<1>1. SyncInv' /\ RoomInv'
  BY DEF SyncInv, RoomInv
<1>2. Supply'
  BY SupplyStays DEF BoardTypeOK, Early
<1> QED BY <1>1, <1>2

\* A drain that lost its epoch ends, and what is queued is drained again.
LEMMA StaleDrainEnds ==
  ASSUME BoardInv, Aside, UNCHANGED <<coord, astray>>, SendHead(pending, authority', epoch', entry)
  PROVE  BoardInv'
<1> USE DEF BoardInv, coord, Aside
<1>1. /\ entry' \in [Ids -> Entry] /\ call' \in Commit /\ net' \subseteq Request
      /\ \A i \in Ids : /\ entry'[i].ops = entry[i].ops /\ entry'[i].result = entry[i].result
                        /\ entry[i].attempts <= entry'[i].attempts
      /\ pending' # <<>> => call'.id = Head(pending') /\ call'.base = authority'
      /\ QueueInv' /\ DrainInv' /\ NetInv' /\ LateInv'
  <2>1. /\ entry \in [Ids -> Entry] /\ Queues(pending', entry) /\ InOrder(entry)
        /\ pending' \in Seq(Ids) /\ authority' \in Revs /\ epoch' \in Nat
    BY DEF BoardTypeOK, QueueInv
  <2>2. pending' # <<>> => authority' + 1 \in DOMAIN history /\ status' \in {"SYNCED", "PENDING"}
    BY DEF BoardTypeOK, DrainInv, CanvasInv
  <2> HIDE DEF BoardInv
  <2> QED BY <2>1, <2>2, SendNext
<1>2. BoardTypeOK'
  BY <1>1 DEF BoardTypeOK
<1>3. EntriesGoOn
  BY <1>1 DEF EntriesGoOn, OneOpEach
<1>4. ServerInv' /\ KeptInv' /\ OneOpEach' /\ Counted'
  BY <1>2, <1>3, ServerStays DEF Unserved
<1>5. SyncInv' /\ Supply' /\ RoomInv'
  BY <1>1, AwayFromTheBoard
<1>6. CanvasInv'
  <2> SUFFICES ASSUME status \in {"SYNCED", "PENDING"}
               PROVE  /\ authority + 1 \in DOMAIN history
                      /\ ~astray => /\ Chain(history, authority, pending, entry', canvas)
                                    /\ pending # <<>> /\ call'.id = Head(pending) => call'.base = authority
    BY DEF CanvasInv
  <2>1. authority + 1 \in DOMAIN history /\ (~astray => Chain(history, authority, pending, entry, canvas))
    BY DEF CanvasInv
  <2>2. \A p \in DOMAIN pending : entry'[pending[p]].ops = entry[pending[p]].ops
    BY <1>1 DEF BoardTypeOK
  <2>3. ~astray => Chain(history, authority, pending, entry', canvas)
    BY <2>1, <2>2, ChainKeeps
  <2> QED BY <1>1, <2>1, <2>3
<1> QED BY <1>1, <1>2, <1>4, <1>5, <1>6

\* A drain that fails closed ends.
LEMMA FailedDrainEnds ==
  ASSUME BoardInv, Aside, UNCHANGED astray, authority' \in Revs,
         epoch' = epoch + 1, status' = "UNSYNCHRONIZED", pending' = <<>>, UNCHANGED recent,
         SendHead(<<>>, authority', epoch', Settled(entry, Range(pending), "REJECTED"))
  PROVE  BoardInv'
<1> USE DEF BoardInv, Aside
<1>1. call' = NoCall /\ entry' = Settled(entry, Range(pending), "REJECTED") /\ UNCHANGED net
  BY SendNothing
<1>2. BoardTypeOK'
  <2>1. entry' \in [Ids -> Entry]
    <3>1. entry \in [Ids -> Entry] /\ "REJECTED" \in Results
      BY DEF BoardTypeOK, Results
    <3> QED BY <1>1, <3>1, SettledFacts
  <2>2. <<>> \in Seq(Ids) /\ Len(<<>>) <= MaxPending
    BY Sizes
  <2> QED BY <1>1, <2>1, <2>2, EmptyValues DEF BoardTypeOK
<1>3. /\ Counted' /\ QueueInv' /\ DrainInv' /\ NetInv' /\ OneOpEach' /\ ServerInv'
      /\ LateInv' /\ CanvasInv' /\ KeptInv'
      /\ \A i \in Ids : entry[i].result = "UNUSED" => entry'[i].result = "UNUSED"
  <2> HIDE DEF BoardInv
  <2> QED BY <1>1, <1>2, AbandonKeeps DEF Unserved
<1>4. SyncInv' /\ Supply' /\ RoomInv'
  BY <1>3, AwayFromTheBoard
<1> QED BY <1>2, <1>3, <1>4

\* The same request once more, of the head or of what a synchronize has resolved meanwhile.
LEMMA SendAgainKeeps ==
  ASSUME BoardInv, Draining, Aside, UNCHANGED <<coord, astray>>,
         SendHead(<<call.id>>, call.base, call.epoch, entry)
  PROVE  BoardInv'
<1> USE DEF BoardInv, coord, Aside
<1> DEFINE n == entry[call.id].attempts + 1
           new == [id |-> call.id, base |-> call.base, attempt |-> n]
<1>1. /\ call \in Commit /\ call.id \in Ids /\ call.base \in Revs /\ call.epoch \in Nat /\ entry \in [Ids -> Entry]
      /\ net \subseteq Request /\ \A i \in Ids : entry[i].attempts \in Nat
  BY DEF BoardTypeOK, Commit, Entry, Draining
<1>2. /\ call' \in Commit /\ call'.id = call.id /\ call'.base = call.base /\ call'.epoch = call.epoch
      /\ call'.attempt = n /\ call'.reply = "NONE"
      /\ entry' \in [Ids -> Entry]
      /\ \A i \in Ids : /\ entry'[i].ops = entry[i].ops /\ entry'[i].result = entry[i].result
                        /\ entry'[i].attempts = IF i = call.id THEN n ELSE entry[i].attempts
      /\ net' = net \cup {new}
      /\ net' \subseteq Request
  <2> DEFINE q == <<call.id>>
  <2>1. q \in Seq(Ids) /\ q # <<>> /\ Head(q) = call.id /\ SendHead(q, call.base, call.epoch, entry)
    BY <1>1
  <2> HIDE DEF q
  <2>2. /\ call' \in Commit /\ call'.id = Head(q) /\ call'.base = call.base /\ call'.epoch = call.epoch
        /\ call'.attempt = entry[Head(q)].attempts + 1 /\ call'.reply = "NONE"
        /\ entry' \in [Ids -> Entry]
        /\ \A i \in Ids : /\ entry'[i].ops = entry[i].ops /\ entry'[i].result = entry[i].result
                          /\ entry'[i].attempts = IF i = Head(q) THEN entry[i].attempts + 1 ELSE entry[i].attempts
        /\ net' = net \cup {[id |-> Head(q), base |-> call.base, attempt |-> entry[Head(q)].attempts + 1]}
        /\ net' \subseteq Request
    BY <1>1, <2>1, SendHeadFacts
  <2> QED BY <2>1, <2>2
<1>3. n \in Nat /\ n > entry[call.id].attempts /\ entry[call.id].attempts > 0
      /\ new.id = call.id /\ new.base = call.base /\ new.attempt = n
  BY <1>1 DEF DrainInv
<1> HIDE DEF n, new
<1>4. BoardTypeOK'
  BY <1>2 DEF BoardTypeOK
<1>5. \A i \in Ids : /\ entry[i].attempts <= entry'[i].attempts
                     /\ entry'[i].attempts > 0 <=> entry[i].attempts > 0
  BY <1>1, <1>2, <1>3
<1>6. EntriesGoOn
  BY <1>2, <1>5 DEF EntriesGoOn, OneOpEach
<1>7. ServerInv' /\ KeptInv' /\ OneOpEach' /\ Counted'
  BY <1>4, <1>6, ServerStays DEF Unserved
<1>8. SyncInv' /\ Supply' /\ RoomInv'
  BY <1>2, AwayFromTheBoard
<1>9. \A j \in Ids : Before(call.id, j) => entry[j].attempts = 0
  BY DEF DrainInv
<1>10. QueueInv'
  <2>1. ASSUME NEW p \in DOMAIN pending, p # 1 PROVE entry'[pending[p]].attempts = 0
    <3>1. pending[p] \in Ids /\ entry[pending[p]].attempts = 0
      BY <2>1 DEF BoardTypeOK, QueueInv, Queues
    <3> QED BY <1>2, <1>3, <3>1
  <2>2. \A i \in Ids : entry'[i].result = "UNUSED" => entry'[i].attempts = 0
    BY <1>1, <1>2, <1>3 DEF QueueInv, Queues
  <2>3. Queues(pending', entry')
    BY <1>2, <2>1, <2>2 DEF QueueInv, Queues
  <2>4. InOrder(entry')
    BY <1>2, <1>5 DEF QueueInv, InOrder
  <2> QED BY <2>3, <2>4 DEF QueueInv
<1>11. DrainInv'
  <2>1. Draining' /\ Stale' = Stale
    BY <1>2 DEF Draining, Stale
  <2>2. entry'[call'.id].attempts > 0 /\ entry'[call'.id].result = entry[call.id].result
    BY <1>1, <1>2, <1>3
  <2>3. \A j \in Ids : Before(call'.id, j) => entry'[j].attempts = 0
    BY <1>2, <1>9 DEF Before
  <2> QED BY <1>2, <2>1, <2>2, <2>3 DEF DrainInv
<1>12. NetInv'
  <2> SUFFICES ASSUME NEW m \in net'
               PROVE  /\ m.attempt > 0 /\ m.attempt <= entry'[m.id].attempts
                      /\ m.base + 1 \in DOMAIN history
                      /\ m.id = call'.id /\ m.attempt = call'.attempt => m.base = call'.base
    BY DEF NetInv
  <2>1. CASE m = new
    BY <1>1, <1>2, <1>3, <2>1 DEF DrainInv
  <2>2. CASE m \in net
    <3>1. m.attempt > 0 /\ m.attempt <= entry[m.id].attempts /\ m.base + 1 \in DOMAIN history
      BY <2>2 DEF NetInv
    <3>2. m.id \in Ids /\ m.attempt \in Nat /\ entry'[m.id].attempts \in Nat
      BY <1>1, <1>2, <2>2 DEF Request, Entry
    <3>3. m.attempt <= entry'[m.id].attempts
      BY <1>1, <1>5, <3>1, <3>2
    <3>4. m.id = call.id => m.attempt # n
      BY <1>1, <1>3, <3>1, <3>2
    <3> QED BY <1>2, <3>1, <3>3, <3>4
  <2> QED BY <1>2, <2>1, <2>2
<1>13. LateInv'
  <2> SUFFICES ASSUME NEW m \in net', NEW j \in Committed, Before(m.id, j) PROVE m.base < processed[j].rev
    BY DEF LateInv, Committed
  <2>1. CASE m = new
    <3>1. j \in Ids /\ entry[j].attempts > 0
      BY CommittedWasSent
    <3>2. entry[j].attempts = 0
      BY <1>3, <1>9, <2>1, <3>1
    <3> QED BY <3>1, <3>2
  <2>2. CASE m \in net
    BY <2>2 DEF LateInv
  <2> QED BY <1>2, <2>1, <2>2
<1>14. CanvasInv'
  <2> SUFFICES ASSUME status \in {"SYNCED", "PENDING"}
               PROVE  /\ authority + 1 \in DOMAIN history
                      /\ ~astray => /\ Chain(history, authority, pending, entry', canvas)
                                    /\ pending # <<>> /\ call'.id = Head(pending) => call'.base = authority
    BY DEF CanvasInv
  <2>1. /\ authority + 1 \in DOMAIN history
        /\ ~astray => /\ Chain(history, authority, pending, entry, canvas)
                      /\ pending # <<>> /\ call.id = Head(pending) => call.base = authority
    BY DEF CanvasInv
  <2>2. \A p \in DOMAIN pending : entry'[pending[p]].ops = entry[pending[p]].ops
    BY <1>2 DEF BoardTypeOK
  <2>3. ~astray => Chain(history, authority, pending, entry', canvas)
    BY <2>1, <2>2, ChainKeeps
  <2> QED BY <1>2, <2>1, <2>3
<1> QED BY <1>4, <1>7, <1>8, <1>10, <1>11, <1>12, <1>13, <1>14

LEMMA RetryKeeps ==
  ASSUME BoardInv, RetryOrFail
  PROVE  BoardInv'
<1>1. Aside /\ call.reply = "ERROR" /\ Draining /\ UNCHANGED astray
  BY DEF RetryOrFail, Aside, server, BoardInv, DrainInv
<1>2. CASE UNCHANGED coord /\ Return(pending, entry)
  BY <1>1, <1>2, StaleDrainEnds DEF Return
<1>3. CASE /\ epoch' = epoch + 1 /\ status' = "UNSYNCHRONIZED" /\ pending' = <<>>
           /\ UNCHANGED <<authority, recent>>
           /\ Return(<<>>, Settled(entry, Range(pending), "REJECTED"))
  <2>1. authority' \in Revs
    BY <1>3 DEF BoardInv, BoardTypeOK
  <2> QED BY <1>1, <1>3, <2>1, FailedDrainEnds DEF Return
<1>4. CASE UNCHANGED coord /\ SendHead(<<call.id>>, call.base, call.epoch, entry)
  BY <1>1, <1>4, SendAgainKeeps
<1> QED BY <1>2, <1>3, <1>4 DEF RetryOrFail

\* The head is taken off the queue, settled in one way or another.
LEMMA QueueShrinks ==
  ASSUME NEW q \in Seq(Ids), q # <<>>, NEW es, NEW fs, Queues(q, es), InOrder(es),
         \A i \in Ids : /\ fs[i].attempts = es[i].attempts
                        /\ i # Head(q) => fs[i].result = es[i].result,
         fs[Head(q)].result \notin {"PENDING", "UNUSED"}
  PROVE  Queues(Tail(q), fs) /\ InOrder(fs)
<1> DEFINE rest == Tail(q)
<1>1. /\ DOMAIN q = 1 .. Len(q) /\ Len(q) \in Nat \ {0} /\ Head(q) = q[1] /\ Head(q) \in Ids
      /\ DOMAIN rest = 1 .. Len(q) - 1
      /\ \A p \in 1 .. Len(q) - 1 : rest[p] = q[p + 1]
  OBVIOUS
<1>2. /\ \A p \in DOMAIN rest : p + 1 \in DOMAIN q /\ p + 1 # 1 /\ rest[p] = q[p + 1] /\ p \in Nat
      /\ \A p \in DOMAIN q : p # 1 => p - 1 \in DOMAIN rest /\ rest[p - 1] = q[p]
  BY <1>1
<1> HIDE DEF rest
<1>3. \A p \in DOMAIN rest : rest[p] # Head(q) /\ rest[p] \in Ids
  <2>1. \A p \in DOMAIN q : q[p] \in Ids /\ (p # 1 => q[p] # q[1])
    BY <1>1 DEF Queues
  <2> QED BY <1>1, <1>2, <2>1
<1>4. \A p, r \in DOMAIN rest : rest[p] = rest[r] => p = r
  <2> SUFFICES ASSUME NEW p \in DOMAIN rest, NEW r \in DOMAIN rest, rest[p] = rest[r] PROVE p = r
    OBVIOUS
  <2>1. p + 1 = r + 1 /\ p \in Nat /\ r \in Nat
    BY <1>2 DEF Queues
  <2> QED BY <2>1
<1>5. ASSUME NEW i \in Ids
      PROVE  fs[i].result = "PENDING" <=> \E p \in DOMAIN rest : rest[p] = i
  <2>1. CASE i = Head(q)
    BY <1>3, <2>1
  <2>2. CASE i # Head(q)
    <3>1. fs[i].result = "PENDING" <=> \E p \in DOMAIN q : q[p] = i
      BY <2>2 DEF Queues
    <3>2. ASSUME NEW p \in DOMAIN q, q[p] = i PROVE \E r \in DOMAIN rest : rest[r] = i
      <4>1. p - 1 \in DOMAIN rest /\ rest[p - 1] = i
        BY <1>1, <1>2, <2>2, <3>2
      <4> QED BY <4>1
    <3>3. ASSUME NEW p \in DOMAIN rest, rest[p] = i PROVE \E r \in DOMAIN q : q[r] = i
      <4>1. p + 1 \in DOMAIN q /\ q[p + 1] = i
        BY <1>2, <3>3
      <4> QED BY <4>1
    <3> QED BY <3>1, <3>2, <3>3
  <2> QED BY <2>1, <2>2
<1>6. \A p, r \in DOMAIN rest : Before(rest[p], rest[r]) => p < r
  <2> SUFFICES ASSUME NEW p \in DOMAIN rest, NEW r \in DOMAIN rest, Before(rest[p], rest[r]) PROVE p < r
    OBVIOUS
  <2>1. p + 1 < r + 1 /\ p \in Nat /\ r \in Nat
    BY <1>2 DEF Queues
  <2> QED BY <2>1
<1>7. \A p \in DOMAIN rest : fs[rest[p]].attempts = 0
  BY <1>2, <1>3 DEF Queues
<1>8. \A i \in Ids : fs[i].result = "UNUSED" => fs[i].attempts = 0
  BY DEF Queues
<1>9. InOrder(fs)
  BY DEF InOrder
<1>10. Queues(rest, fs)
  BY <1>4, <1>5, <1>6, <1>7, <1>8 DEF Queues
<1> QED BY <1>9, <1>10 DEF rest

\* A mutation was committed: the first of the queue is taken off it, and the drain goes on with the
\* next, or ends.
LEMMA AcknowledgedKeeps ==
  ASSUME BoardInv, Aside, call.reply = "OK", ~Stale,
         authority' = HeardOf,
         pending' = IF pending = <<>> THEN <<>> ELSE Tail(pending),
         recent' = recent \cup {Fingerprint(call.id, entry[call.id].ops)},
         status' = IF pending' = <<>> THEN "SYNCED" ELSE status,
         astray' = (astray \/ (Overtaken /\ (pending # <<>> \/ HeardOf # authority))),
         UNCHANGED epoch,
         SendHead(pending', authority', epoch', Shifted)
  PROVE  BoardInv'
<1> USE DEF BoardInv, Aside
<1> DEFINE es == Shifted
<1>1. /\ Draining /\ entry \in [Ids -> Entry] /\ call.id \in Ids /\ pending \in Seq(Ids) /\ epoch \in Nat
      /\ history \in Seq(Contents) /\ Len(history) \in 1 .. Unknown /\ Unknown \in Nat
  BY Sizes DEF BoardTypeOK, Commit, DrainInv, Draining
<1>2. /\ entry[call.id].result \in {"PENDING", "MATCHED"} /\ status \in {"SYNCED", "PENDING"}
      /\ entry[call.id].result = "PENDING" => call.id = Head(pending) /\ pending # <<>>
      /\ call.id \in Committed /\ call.rev = processed[call.id].rev /\ call.base = processed[call.id].base
  <2>1. entry[call.id].result = "PENDING" => \E p \in DOMAIN pending : pending[p] = call.id
    BY <1>1 DEF QueueInv, Queues
  <2> QED BY <1>1, <2>1 DEF DrainInv, Committed
<1>3. /\ call.rev \in 1 .. Len(history) - 1 /\ call.base + 1 = call.rev
      /\ Leads(entry[call.id].ops, history[call.base + 1], history[call.rev + 1])
  <2>1. /\ processed[call.id].rev \in 1 .. Len(history) - 1 /\ processed[call.id].base = processed[call.id].rev - 1
        /\ Leads(entry[call.id].ops, history[processed[call.id].rev], history[processed[call.id].rev + 1])
    BY <1>2 DEF ServerInv
  <2>2. call.base + 1 = call.rev
    BY <1>1, <1>2, <2>1
  <2> QED BY <1>2, <2>1, <2>2
<1>4. authority' = call.rev /\ authority' \in Revs /\ authority' + 1 \in DOMAIN history
  BY <1>1, <1>3 DEF HeardOf, Revs
<1>5. pending # <<>> => Head(pending) \in Ids /\ entry[Head(pending)].result = "PENDING"
  <2>1. pending # <<>> => 1 \in DOMAIN pending /\ Head(pending) = pending[1] /\ pending[1] \in Ids
    BY <1>1
  <2> QED BY <2>1 DEF QueueInv, Queues
<1>6. /\ es \in [Ids -> Entry]
      /\ \A i \in Ids : es[i].ops = entry[i].ops /\ es[i].attempts = entry[i].attempts
      /\ \A i \in Ids : es[i].result # entry[i].result =>
           /\ pending # <<>> /\ i = Head(pending)
           /\ \/ es[i].result = "ACKNOWLEDGED" /\ i = call.id
              \/ es[i].result = "FORGOTTEN" /\ entry[call.id].result = "MATCHED"
      /\ pending # <<>> => es[Head(pending)].result \notin {"PENDING", "UNUSED"}
  <2> DEFINE answered == Settled(entry, {call.id}, "ACKNOWLEDGED")
  <2>1. "ACKNOWLEDGED" \in Results /\ "FORGOTTEN" \in Results
    BY DEF Results
  <2>2. /\ answered \in [Ids -> Entry]
        /\ \A i \in Ids : /\ answered[i].ops = entry[i].ops /\ answered[i].attempts = entry[i].attempts
                          /\ answered[i].result = IF i \in {call.id} /\ entry[i].result = "PENDING"
                                                  THEN "ACKNOWLEDGED" ELSE entry[i].result
    <3> HIDE DEF BoardInv
    <3> QED BY <1>1, <2>1, SettledFacts
  <2>3. es = IF Overtaken /\ pending # <<>> THEN Settled(answered, {Head(pending)}, "FORGOTTEN") ELSE answered
    BY DEF Shifted
  <2> HIDE DEF answered, es, BoardInv
  <2>4. CASE ~(Overtaken /\ pending # <<>>)
    <3>1. es = answered
      BY <2>3, <2>4
    <3>2. pending # <<>> => entry[call.id].result = "PENDING" /\ call.id = Head(pending)
      BY <1>2, <2>4 DEF Overtaken
    <3>3. ASSUME NEW i \in Ids, es[i].result # entry[i].result
          PROVE  pending # <<>> /\ i = Head(pending) /\ es[i].result = "ACKNOWLEDGED" /\ i = call.id
      <4>1. i = call.id /\ entry[i].result = "PENDING" /\ es[i].result = "ACKNOWLEDGED"
        BY <2>2, <3>1, <3>3
      <4> QED BY <1>2, <4>1
    <3>4. pending # <<>> => es[Head(pending)].result = "ACKNOWLEDGED"
      BY <1>1, <2>2, <3>1, <3>2
    <3> QED BY <2>2, <3>1, <3>3, <3>4
  <2>5. CASE Overtaken /\ pending # <<>>
    <3>1. /\ es \in [Ids -> Entry]
          /\ \A i \in Ids : /\ es[i].ops = answered[i].ops /\ es[i].attempts = answered[i].attempts
                            /\ es[i].result = IF i \in {Head(pending)} /\ answered[i].result = "PENDING"
                                              THEN "FORGOTTEN" ELSE answered[i].result
      BY <2>1, <2>2, <2>3, <2>5, SettledFacts
    <3>2. entry[call.id].result = "MATCHED"
      BY <1>2, <2>5 DEF Overtaken
    <3>3. \A i \in Ids : answered[i].result = entry[i].result
      BY <2>2, <3>2
    <3> QED BY <1>5, <2>2, <2>5, <3>1, <3>2, <3>3
  <2> QED BY <2>4, <2>5
<1>7. SendHead(pending', authority', epoch', es)
  OBVIOUS
<1> HIDE DEF es
<1>8. Queues(pending', es) /\ InOrder(es) /\ pending' \in Seq(Ids) /\ Len(pending') <= MaxPending
  <2>1. CASE pending = <<>>
    <3>1. \A i \in Ids : es[i].result = entry[i].result /\ es[i].attempts = entry[i].attempts
      BY <1>6, <2>1
    <3>2. pending' = pending /\ pending' \in Seq(Ids) /\ Len(pending') <= MaxPending
      BY <2>1 DEF BoardTypeOK
    <3>3. Queues(pending, es)
      BY <1>1, <3>1 DEF QueueInv, Queues
    <3>4. InOrder(es)
      BY <3>1 DEF QueueInv, InOrder
    <3> QED BY <3>2, <3>3, <3>4
  <2>2. CASE pending # <<>>
    <3>1. \A i \in Ids : /\ es[i].attempts = entry[i].attempts
                         /\ i # Head(pending) => es[i].result = entry[i].result
      BY <1>6
    <3>2. Queues(Tail(pending), es) /\ InOrder(es)
      BY <1>1, <1>6, <2>2, <3>1, QueueShrinks DEF QueueInv
    <3>3. Tail(pending) \in Seq(Ids) /\ Len(Tail(pending)) <= Len(pending)
      BY <1>1, <2>2
    <3>4. Len(Tail(pending)) <= MaxPending
      <4>1. Len(pending) <= MaxPending /\ Len(pending) \in Nat /\ Len(Tail(pending)) \in Nat
        BY <1>1, <3>3 DEF BoardTypeOK
      <4> QED BY <3>3, <4>1, Sizes
    <3> QED BY <2>2, <3>2, <3>3, <3>4
  <2> QED BY <2>1, <2>2
<1>9. /\ entry' \in [Ids -> Entry] /\ call' \in Commit /\ net' \subseteq Request
      /\ \A i \in Ids : /\ entry'[i].ops = es[i].ops /\ entry'[i].result = es[i].result
                        /\ entry[i].attempts <= entry'[i].attempts
      /\ pending' # <<>> => call'.id = Head(pending') /\ call'.base = authority'
      /\ QueueInv' /\ DrainInv' /\ NetInv' /\ LateInv'
  <2>1. pending' # <<>> => status' \in {"SYNCED", "PENDING"}
    BY <1>2
  <2>2. epoch' \in Nat
    BY <1>1
  <2> HIDE DEF BoardInv
  <2> QED BY <1>4, <1>6, <1>7, <1>8, <2>1, <2>2, SendNext
<1>10. \A i \in Ids : /\ entry'[i].ops = entry[i].ops
                      /\ entry[i].result = "UNUSED" => entry'[i].result = "UNUSED"
  BY <1>5, <1>6, <1>9
<1>11. BoardTypeOK'
  <2>1. Fingerprint(call.id, entry[call.id].ops) \in [id : Ids \cup {0}, ops : SUBSET Op]
    <3>1. entry[call.id].ops \in SUBSET Op
      BY <1>1 DEF Entry
    <3> QED BY <1>1, <3>1 DEF Fingerprint
  <2>2. status' \in {"UNINITIALIZED", "SYNCED", "PENDING", "UNSYNCHRONIZED"}
    BY <1>2
  <2>3. astray' \in BOOLEAN
    BY DEF BoardTypeOK
  <2> QED BY <1>4, <1>8, <1>9, <2>1, <2>2, <2>3 DEF BoardTypeOK
<1>12. EntriesGoOn
  <2>1. \A i \in Ids : OneOp(entry'[i].ops)
    BY <1>10 DEF OneOpEach
  <2>2. processed[call.id].committed
    BY <1>2 DEF Committed
  <2>3. \A i \in Ids : entry[i].result = "MATCHED" => es[i].result = "MATCHED"
    BY <1>5, <1>6
  <2> QED BY <1>1, <1>6, <1>9, <1>10, <2>1, <2>2, <2>3 DEF EntriesGoOn
<1>13. ServerInv' /\ KeptInv' /\ OneOpEach' /\ Counted'
  BY <1>11, <1>12, ServerStays DEF Unserved
<1>14. SyncInv' /\ Supply' /\ RoomInv'
  BY <1>10, AwayFromTheBoard
<1>15. CanvasInv'
  <2> SUFFICES ASSUME ~astray' PROVE Chain(history, authority', pending', entry', canvas)
    BY <1>4, <1>9 DEF CanvasInv
  <2>1. /\ ~astray /\ Chain(history, authority, pending, entry, canvas)
        /\ pending # <<>> /\ call.id = Head(pending) => call.base = authority
    BY <1>2 DEF CanvasInv, BoardTypeOK
  <2>2. \A p \in DOMAIN pending : entry'[pending[p]].ops = entry[pending[p]].ops
    BY <1>1, <1>10
  <2>3. CASE Overtaken
    <3>1. pending = <<>> /\ pending' = <<>> /\ authority' = authority
      BY <2>3
    <3>2. authority + 1 \in DOMAIN history
      BY <1>4, <3>1
    <3>3. Chain(history, authority, pending, entry', canvas)
      BY <2>1, <2>2, <3>2, ChainKeeps
    <3> QED BY <3>1, <3>3
  <2>4. CASE ~Overtaken
    <3>1. pending # <<>> /\ call.id = Head(pending) /\ call.base = authority
      BY <1>2, <2>1, <2>4 DEF Overtaken
    <3>2. Leads(entry[Head(pending)].ops, history[authority + 1], history[call.rev + 1])
      BY <1>3, <3>1
    <3>3. call.rev + 1 \in DOMAIN history
      BY <1>4
    <3>4. Chain(history, call.rev, Tail(pending), entry', canvas)
      BY <1>1, <2>1, <2>2, <3>1, <3>2, <3>3, ChainShrinks
    <3> QED BY <1>4, <3>1, <3>4
  <2> QED BY <2>3, <2>4
<1> QED BY <1>9, <1>11, <1>13, <1>14, <1>15

LEMMA AnsweredKeeps ==
  ASSUME BoardInv, Answered
  PROVE  BoardInv'
<1>1. Aside /\ call.reply \in {"OK", "REJECTED"}
  BY DEF Answered, Aside, server
<1>2. CASE UNCHANGED <<coord, astray>> /\ Return(pending, entry)
  BY <1>1, <1>2, StaleDrainEnds DEF Return
<1>3. CASE /\ authority' = HeardOf
           /\ epoch' = epoch + 1 /\ status' = "UNSYNCHRONIZED" /\ pending' = <<>>
           /\ UNCHANGED <<recent, astray>>
           /\ Return(<<>>, Settled(entry, Range(pending), "REJECTED"))
  <2>1. authority' \in Revs
    BY <1>3 DEF HeardOf, BoardInv, BoardTypeOK, Commit
  <2> QED BY <1>1, <1>3, <2>1, FailedDrainEnds DEF Return
<1>4. CASE /\ ~Stale /\ ~Refused
           /\ authority' = HeardOf
           /\ pending' = IF pending = <<>> THEN <<>> ELSE Tail(pending)
           /\ recent' = recent \cup {Fingerprint(call.id, entry[call.id].ops)}
           /\ status' = IF pending' = <<>> THEN "SYNCED" ELSE status
           /\ astray' = (astray \/ (Overtaken /\ (pending # <<>> \/ HeardOf # authority)))
           /\ UNCHANGED epoch
           /\ Return(pending', Shifted)
  <2>1. call.reply = "OK"
    BY <1>1, <1>4 DEF Refused
  <2> QED BY <1>1, <1>4, <2>1, AcknowledgedKeeps DEF Return
<1> QED BY <1>2, <1>3, <1>4 DEF Answered

-----------------------------------------------------------------------------
(* synchronize. *)

Phases == {"START", "ACTIVE", "PAUSED", "WAITING", "RESUMING", "OVER"}

LEMMA FinishFacts ==
  ASSUME BoardInv, UNCHANGED history, NEW k \in Syncs, NEW ok, Finish(k, ok)
  PROVE  /\ sync' \in [Syncs -> SyncCall] /\ SyncInv' /\ phase' \in Phases
         /\ phase' = "WAITING" => phase = "WAITING"
         /\ \A j \in Syncs : Early(j)' => Early(j)
<1> USE DEF BoardInv
<1> DEFINE done == [NoSync EXCEPT !.at = "DONE"]
<1>1. done \in SyncCall /\ done.at = "DONE"
  BY EmptyValues DEF SyncCall, NoSync
<1>2. sync' = [sync EXCEPT ![k] = done]
  BY DEF Finish
<1> HIDE DEF done
<1>3. /\ sync' \in [Syncs -> SyncCall] /\ sync'[k].at = "DONE"
      /\ \A j \in Syncs : j # k => sync'[j] = sync[j]
  BY <1>1, <1>2 DEF BoardTypeOK
<1>4. SyncInv' /\ \A j \in Syncs : Early(j)' => Early(j)
  BY <1>3 DEF SyncInv, Early
<1>5. phase' \in Phases /\ (phase' = "WAITING" => phase = "WAITING")
  <2>1. phase \in Phases
    BY DEF BoardTypeOK, Phases
  <2>2. phase' = phase \/ phase' \in {"ACTIVE", "PAUSED"}
    BY <2>1 DEF Finish, Continued, Phases
  <2> QED BY <2>1, <2>2 DEF Phases
<1> QED BY <1>3, <1>4, <1>5

\* The supply while no edit is made and nothing begins.
LEMMA SupplyOfSync ==
  ASSUME BoardInv, UNCHANGED left, phase' = "WAITING" => phase = "WAITING",
         \A k \in Syncs : Early(k)' => Early(k),
         \A i \in Ids : entry[i].result = "UNUSED" => entry'[i].result = "UNUSED"
  PROVE  Supply'
<1>1. left.edits \in Nat /\ left.visits \in Nat
  BY DEF BoardInv, BoardTypeOK
<1>2. left'.visits + (IF phase' = "WAITING" THEN 1 ELSE 0) <= left.visits + (IF phase = "WAITING" THEN 1 ELSE 0)
  BY <1>1
<1>3. left'.edits \in Nat /\ left'.edits <= left.edits /\ left'.visits \in Nat
  BY <1>1
<1> QED BY <1>2, <1>3, SupplyStays DEF BoardInv

\* What leaves the canvas and the coordinator alone.
Watching == UNCHANGED <<canvas, deleted, board, history, processed, net, coord, call, entry, astray, left>>

LEMMA WatchingKeeps ==
  ASSUME BoardInv, Watching, sync' \in [Syncs -> SyncCall], SyncInv', phase' \in Phases, bootstrap' \in BOOLEAN,
         phase' = "WAITING" => phase = "WAITING", \A j \in Syncs : Early(j)' => Early(j)
  PROVE  BoardInv'
<1> USE DEF Watching, coord
<1>1. BoardTypeOK'
  BY DEF BoardInv, BoardTypeOK, Phases
<1>2. /\ Counted' /\ QueueInv' /\ DrainInv' /\ NetInv' /\ OneOpEach' /\ ServerInv'
      /\ LateInv' /\ CanvasInv' /\ RoomInv' /\ KeptInv'
  BY <1>1, HookKeeps DEF Unserved
<1>3. Supply'
  BY SupplyOfSync
<1> QED BY <1>1, <1>2, <1>3 DEF BoardInv

LEMMA ReadBoardKeeps ==
  ASSUME BoardInv, NEW k \in Syncs, ReadBoard(k)
  PROVE  BoardInv'
<1>1. Watching /\ UNCHANGED bootstrap /\ bootstrap \in BOOLEAN /\ sync[k].at = "READING"
  BY DEF ReadBoard, Watching, server, BoardInv, BoardTypeOK
<1>2. CASE Finish(k, FALSE)
  <2>1. UNCHANGED history
    BY <1>1 DEF Watching
  <2> QED BY <1>1, <1>2, <2>1, FinishFacts, WatchingKeeps
<1>3. CASE UNCHANGED phase /\ sync' = [sync EXCEPT ![k].at = "READ", ![k].remote = board, ![k].rev = Revision]
  <2> DEFINE c == [sync[k] EXCEPT !.at = "READ", !.remote = board, !.rev = Revision]
  <2>1. /\ board \in Contents /\ Revision \in Revs /\ Revision + 1 = Len(history)
        /\ history \in Seq(Contents) /\ Len(history) \in DOMAIN history
    BY Sizes DEF BoardInv, BoardTypeOK, Revision, Revs
  <2>2. sync \in [Syncs -> SyncCall] /\ phase \in Phases
    BY DEF BoardInv, BoardTypeOK, Phases
  <2>3. c \in SyncCall /\ c.at = "READ" /\ c.remote = board /\ c.rev = Revision
    BY <2>1, <2>2 DEF SyncCall
  <2>4. sync' = [sync EXCEPT ![k] = c]
    BY <1>3, <2>2
  <2> HIDE DEF c
  <2>5. sync' \in [Syncs -> SyncCall] /\ sync'[k] = c /\ \A j \in Syncs : j # k => sync'[j] = sync[j]
    BY <2>2, <2>3, <2>4
  <2>6. history[Revision + 1] = board /\ Revision + 1 \in DOMAIN history
    BY <2>1 DEF BoardInv, ServerInv
  <2>7. SyncInv'
    BY <1>1, <2>3, <2>5, <2>6 DEF BoardInv, SyncInv, Watching
  <2>8. \A j \in Syncs : Early(j)' => Early(j)
    BY <1>1, <2>5 DEF Early
  <2> QED BY <1>1, <1>3, <2>2, <2>5, <2>7, <2>8, WatchingKeeps
<1> QED BY <1>2, <1>3 DEF ReadBoard

LEMMA BoardArrivesKeeps ==
  ASSUME BoardInv, NEW k \in Syncs, BoardArrives(k)
  PROVE  BoardInv'
<1>1. Watching /\ UNCHANGED bootstrap /\ bootstrap \in BOOLEAN /\ sync[k].at = "READ"
  BY DEF BoardArrives, Watching, server, BoardInv, BoardTypeOK
<1>2. CASE Finish(k, status = "SYNCED")
  <2>1. UNCHANGED history
    BY <1>1 DEF Watching
  <2> QED BY <1>1, <1>2, <2>1, FinishFacts, WatchingKeeps
<1>3. CASE UNCHANGED phase /\ sync' = [sync EXCEPT ![k].at = "COMPARING", ![k].queued = pending # <<>>]
  <2> DEFINE c == [sync[k] EXCEPT !.at = "COMPARING", !.queued = pending # <<>>]
  <2>1. sync \in [Syncs -> SyncCall] /\ phase \in Phases
    BY DEF BoardInv, BoardTypeOK, Phases
  <2>2. c \in SyncCall /\ c.at = "COMPARING" /\ c.remote = sync[k].remote /\ c.rev = sync[k].rev
    BY <2>1 DEF SyncCall
  <2>3. sync' = [sync EXCEPT ![k] = c]
    BY <1>3, <2>1
  <2> HIDE DEF c
  <2>4. sync' \in [Syncs -> SyncCall] /\ sync'[k] = c /\ \A j \in Syncs : j # k => sync'[j] = sync[j]
    BY <2>1, <2>2, <2>3
  <2>5. SyncInv'
    BY <1>1, <2>2, <2>4 DEF BoardInv, SyncInv, Watching
  <2>6. \A j \in Syncs : Early(j)' => Early(j)
    BY <1>1, <2>4 DEF Early
  <2> QED BY <1>1, <1>3, <2>1, <2>4, <2>5, <2>6, WatchingKeeps
<1> QED BY <1>2, <1>3 DEF BoardArrives

LEMMA BootstrappedKeeps ==
  ASSUME BoardInv, NEW k \in Syncs, Bootstrapped(k)
  PROVE  BoardInv'
<1>1. Watching /\ bootstrap' \in BOOLEAN /\ Finish(k, status = "SYNCED") /\ UNCHANGED history
  BY DEF Bootstrapped, Watching, server
<1> QED BY <1>1, FinishFacts, WatchingKeeps

\* The canvas is the board that was read, and what is queued was evidently committed.
LEMMA MatchKeeps ==
  ASSUME BoardInv, NEW k \in Syncs, sync[k].at = "COMPARING", Matches(k),
         authority' = sync[k].rev, status' = "SYNCED",
         IF sync[k].queued
         THEN /\ pending' = <<>>
              /\ recent' = recent \cup {Fingerprint(i, entry[i].ops) : i \in Range(pending)}
              /\ entry' = Settled(entry, Range(pending), "MATCHED")
         ELSE UNCHANGED <<pending, recent, entry>>,
         astray' = Edited(k), Finish(k, TRUE), bootstrap' = FALSE, UNCHANGED <<epoch, call, net>>,
         UNCHANGED <<canvas, deleted, left>>, Unserved
  PROVE  BoardInv'
<1> USE DEF BoardInv, Unserved
<1>1. /\ entry \in [Ids -> Entry] /\ pending \in Seq(Ids) /\ history \in Seq(Contents)
      /\ \A i \in Ids : entry[i].attempts \in Nat /\ entry[i].ops \in SUBSET Op
  BY DEF BoardTypeOK, Entry
<1>2. /\ sync[k].rev \in Revs /\ sync[k].rev + 1 \in DOMAIN history /\ sync[k].remote = history[sync[k].rev + 1]
  <2>1. sync[k].rev \in Revs
    BY DEF BoardTypeOK, SyncCall
  <2> QED BY <2>1 DEF SyncInv
<1>3. /\ entry' \in [Ids -> Entry]
      /\ \A i \in Ids : /\ entry'[i].ops = entry[i].ops /\ entry'[i].attempts = entry[i].attempts
                        /\ entry'[i].result = IF sync[k].queued /\ entry[i].result = "PENDING"
                                              THEN "MATCHED" ELSE entry[i].result
  <2>1. CASE sync[k].queued
    <3>1. "MATCHED" \in Results /\ entry' = Settled(entry, Range(pending), "MATCHED")
      BY <2>1 DEF Results
    <3>2. \A i \in Ids : entry[i].result = "PENDING" => i \in Range(pending)
      BY DEF QueueInv, Queues, Range
    <3> HIDE DEF BoardInv
    <3>3. /\ entry' \in [Ids -> Entry]
          /\ \A i \in Ids : /\ entry'[i].ops = entry[i].ops /\ entry'[i].attempts = entry[i].attempts
                            /\ entry'[i].result = IF i \in Range(pending) /\ entry[i].result = "PENDING"
                                                  THEN "MATCHED" ELSE entry[i].result
      <4>1. entry \in [Ids -> Entry]
        BY <1>1
      <4> HIDE DEF Unserved
      <4> QED BY <4>1, <3>1, SettledFacts
    <3> QED BY <2>1, <3>2, <3>3
  <2> QED BY <1>1, <2>1
<1>4. /\ sync' \in [Syncs -> SyncCall] /\ SyncInv' /\ phase' \in Phases
      /\ phase' = "WAITING" => phase = "WAITING"
      /\ \A j \in Syncs : Early(j)' => Early(j)
  <2> HIDE DEF BoardInv
  <2> QED BY FinishFacts
<1>5. Supply'
  <2>1. \A i \in Ids : entry[i].result = "UNUSED" => entry'[i].result = "UNUSED"
    BY <1>3
  <2> HIDE DEF BoardInv
  <2> QED BY <1>4, <2>1, SupplyOfSync
<1>6. pending' \in Seq(Ids) /\ Len(pending') <= MaxPending
  <2>1. CASE sync[k].queued
    BY <2>1, Sizes
  <2>2. CASE ~sync[k].queued
    BY <2>2 DEF BoardTypeOK
  <2> QED BY <2>1, <2>2
<1>7. BoardTypeOK'
  <2>1. recent' \subseteq [id : Ids \cup {0}, ops : SUBSET Op]
    <3>1. \A i \in Range(pending) : i \in Ids
      BY <1>1 DEF Range
    <3>2. \A i \in Range(pending) : Fingerprint(i, entry[i].ops) \in [id : Ids \cup {0}, ops : SUBSET Op]
      BY <1>1, <3>1 DEF Fingerprint
    <3>3. recent' = recent \/ recent' = recent \cup {Fingerprint(i, entry[i].ops) : i \in Range(pending)}
      OBVIOUS
    <3> QED BY <3>2, <3>3 DEF BoardTypeOK
  <2>2. astray' \in BOOLEAN
    BY DEF Edited
  <2>3. status' \in {"UNINITIALIZED", "SYNCED", "PENDING", "UNSYNCHRONIZED"} /\ bootstrap' \in BOOLEAN
    OBVIOUS
  <2> QED BY <1>2, <1>3, <1>4, <1>6, <2>1, <2>2, <2>3 DEF BoardTypeOK, Phases
<1>8. EntriesGoOn
  <2>1. \A i \in Ids : OneOp(entry'[i].ops)
    BY <1>3 DEF OneOpEach
  <2> QED BY <1>1, <1>3, <2>1 DEF EntriesGoOn
<1>9. ServerInv' /\ KeptInv' /\ OneOpEach' /\ Counted'
  BY <1>7, <1>8, ServerStays
<1>10. QueueInv'
  <2>1. CASE sync[k].queued
    <3>1. \A i \in Ids : entry'[i].result # "PENDING"
      BY <1>3, <2>1
    <3>2. DOMAIN pending' = {}
      BY <2>1
    <3>3. \A i \in Ids : entry'[i].result = "UNUSED" => entry'[i].attempts = 0
      BY <1>3, <2>1 DEF QueueInv, Queues
    <3>4. Queues(pending', entry')
      BY <3>1, <3>2, <3>3 DEF Queues
    <3>5. InOrder(entry')
      BY <3>1 DEF InOrder
    <3> QED BY <3>4, <3>5 DEF QueueInv
  <2>2. CASE ~sync[k].queued
    BY <2>2 DEF QueueInv
  <2> QED BY <2>1, <2>2
<1>11. DrainInv'
  <2>1. Draining' = Draining /\ Stale' = Stale
    BY DEF Draining, Stale
  <2>2. pending' # <<>> => pending' = pending /\ ~sync[k].queued
    OBVIOUS
  <2>3. ASSUME Draining
        PROVE  /\ entry'[call.id].attempts > 0
               /\ entry'[call.id].result = "PENDING" => call.id = Head(pending')
               /\ ~Stale => entry'[call.id].result \in {"PENDING", "MATCHED"}
               /\ \A j \in Ids : Before(call.id, j) => entry'[j].attempts = 0
    <3>1. call.id \in Ids
      BY <2>3 DEF BoardTypeOK, Commit, Draining
    <3>2. entry'[call.id].attempts > 0 /\ \A j \in Ids : Before(call.id, j) => entry'[j].attempts = 0
      BY <1>3, <2>3, <3>1 DEF DrainInv
    <3>3. entry'[call.id].result = "PENDING" => call.id = Head(pending')
      <4> SUFFICES ASSUME entry'[call.id].result = "PENDING" PROVE call.id = Head(pending')
        OBVIOUS
      <4>1. ~sync[k].queued /\ entry[call.id].result = "PENDING"
        BY <1>3, <3>1
      <4> QED BY <2>3, <4>1 DEF DrainInv
    <3>4. ~Stale => entry'[call.id].result \in {"PENDING", "MATCHED"}
      BY <1>3, <2>3, <3>1 DEF DrainInv
    <3> QED BY <3>2, <3>3, <3>4
  <2> QED BY <2>1, <2>2, <2>3 DEF DrainInv
<1>12. NetInv' /\ LateInv' /\ RoomInv'
  <2>1. \A m \in net : m.id \in Ids
    BY DEF BoardTypeOK, Request
  <2> QED BY <1>3, <2>1 DEF NetInv, LateInv, RoomInv, Committed
<1>13. CanvasInv'
  <2> SUFFICES ASSUME ~astray'
               PROVE  Chain(history, sync[k].rev, pending', entry', canvas) /\ pending' = <<>>
    BY <1>2 DEF CanvasInv
  <2>1. canvas = history[sync[k].rev + 1] /\ pending' = <<>>
    BY <1>2 DEF Edited, Matches
  <2> QED BY <1>1, <1>2, <2>1, ChainStarts
<1> QED BY <1>4, <1>5, <1>7, <1>9, <1>10, <1>11, <1>12, <1>13

\* The canvas is not to be trusted, or the queue is full.
LEMMA DistrustKeeps ==
  ASSUME BoardInv, NEW k \in Syncs, FailClosed, Finish(k, FALSE), authority' \in Revs, astray' \in BOOLEAN,
         UNCHANGED <<call, net, bootstrap, canvas, deleted, left>>, Unserved
  PROVE  BoardInv'
<1> USE DEF Unserved
<1>1. /\ epoch' = epoch + 1 /\ status' = "UNSYNCHRONIZED" /\ pending' = <<>> /\ UNCHANGED recent
      /\ entry' = Settled(entry, Range(pending), "REJECTED")
  BY DEF FailClosed
<1>2. entry' \in [Ids -> Entry]
  <2>1. entry \in [Ids -> Entry] /\ "REJECTED" \in Results
    BY DEF BoardInv, BoardTypeOK, Results
  <2> QED BY <1>1, <2>1, SettledFacts
<1>3. /\ sync' \in [Syncs -> SyncCall] /\ SyncInv' /\ phase' \in Phases
      /\ phase' = "WAITING" => phase = "WAITING"
      /\ \A j \in Syncs : Early(j)' => Early(j)
  BY FinishFacts
<1>4. BoardTypeOK'
  <2>1. <<>> \in Seq(Ids) /\ Len(<<>>) <= MaxPending
    BY Sizes
  <2> QED BY <1>1, <1>2, <1>3, <2>1 DEF BoardInv, BoardTypeOK, Phases
<1>5. /\ Counted' /\ QueueInv' /\ DrainInv' /\ NetInv' /\ OneOpEach' /\ ServerInv'
      /\ LateInv' /\ CanvasInv' /\ KeptInv'
      /\ \A i \in Ids : entry[i].result = "UNUSED" => entry'[i].result = "UNUSED"
  BY <1>1, <1>4, AbandonKeeps
<1>6. Supply'
  BY <1>3, <1>5, SupplyOfSync
<1>7. RoomInv'
  BY DEF BoardInv, RoomInv
<1> QED BY <1>3, <1>4, <1>5, <1>6, <1>7 DEF BoardInv

\* What the board lacks takes it to the canvas.
LEMMA MissingLeads ==
  ASSUME BoardInv, NEW k \in Syncs, SubsetOfLocal(k)
  PROVE  /\ Missing(k) \in SUBSET Op /\ OneOp(Missing(k))
         /\ Leads(Missing(k), sync[k].remote, sync[k].local)
<1> DEFINE ops == Missing(k)
<1>1. \A s \in Shapes : sync[k].local[s] \in 0 .. MaxEdits + 1 /\ sync[k].remote[s] \in {0, sync[k].local[s]}
  BY DEF BoardInv, BoardTypeOK, SyncCall, Contents, SubsetOfLocal
<1>2. \A o \in ops : /\ o.shape \in Shapes /\ o.from = 0 /\ o.to = sync[k].local[o.shape]
                     /\ sync[k].local[o.shape] # 0 /\ sync[k].remote[o.shape] = 0
                     /\ o = [shape |-> o.shape, from |-> 0, to |-> sync[k].local[o.shape]]
  BY DEF Missing
<1>3. ASSUME NEW s \in Shapes, sync[k].local[s] # 0, sync[k].remote[s] = 0
      PROVE  \E o \in ops : o.shape = s
  <2> DEFINE add == [shape |-> s, from |-> 0, to |-> sync[k].local[s]]
  <2>1. add \in ops /\ add.shape = s
    BY <1>3 DEF Missing
  <2> QED BY <2>1
<1> HIDE DEF ops
<1>4. ops \in SUBSET Op
  <2>1. ASSUME NEW o \in ops PROVE o \in Op
    <3>1. 0 \in 0 .. MaxEdits + 1 /\ sync[k].local[o.shape] \in 0 .. MaxEdits + 1 /\ o.shape \in Shapes
      BY <1>1, <1>2, Sizes
    <3> QED BY <1>2, <3>1 DEF Op
  <2> QED BY <2>1
<1>5. OneOp(ops)
  BY <1>2 DEF OneOp
<1>6. Leads(ops, sync[k].remote, sync[k].local)
  BY <1>1, <1>2, <1>3 DEF Leads
<1> QED BY <1>4, <1>5, <1>6 DEF ops

\* The first upload of a session.
LEMMA UploadKeeps ==
  ASSUME BoardInv, NEW k \in Syncs, sync[k].at = "COMPARING", SubsetOfLocal(k), Len(pending) < MaxPending,
         authority' = sync[k].rev, Enqueue(UploadId(k), Missing(k), sync[k].rev),
         astray' = (canvas # sync[k].local \/ pending # <<>>),
         IF pending' = <<>>
         THEN Finish(k, FALSE)
         ELSE /\ sync' = [sync EXCEPT ![k].at = "BOOTSTRAP", ![k].id = Last(pending')]
              /\ UNCHANGED phase,
         UNCHANGED <<bootstrap, canvas, deleted, left>>, Unserved
  PROVE  BoardInv'
<1> DEFINE i == UploadId(k)
<1> USE DEF Unserved
<1>1. i \in Ids /\ entry[i].result = "UNUSED" /\ \A j \in Ids : ~Before(i, j)
  <2>1. i = MaxEdits + k /\ i \in Ids /\ i \notin 1 .. MaxEdits
    BY IdsAreNumbers DEF UploadId
  <2>2. entry[MaxEdits + k].result = "UNUSED"
    BY DEF BoardInv, Supply, Early
  <2> QED BY <2>1, <2>2 DEF Before
<1>2. /\ sync[k].rev \in Revs /\ sync[k].rev + 1 \in DOMAIN history /\ sync[k].remote = history[sync[k].rev + 1]
      /\ sync \in [Syncs -> SyncCall] /\ history \in Seq(Contents) /\ pending \in Seq(Ids) /\ phase \in Phases
  <2>1. sync[k].rev \in Revs /\ sync \in [Syncs -> SyncCall] /\ history \in Seq(Contents)
        /\ pending \in Seq(Ids) /\ phase \in Phases
    BY DEF BoardInv, BoardTypeOK, SyncCall, Phases
  <2> QED BY <2>1 DEF BoardInv, SyncInv
<1>3. Missing(k) \in SUBSET Op /\ OneOp(Missing(k)) /\ Leads(Missing(k), sync[k].remote, sync[k].local)
  BY MissingLeads
<1>4. Enqueue(i, Missing(k), sync[k].rev)
  OBVIOUS
<1> HIDE DEF i
<1>5. /\ pending' = Append(pending, i) /\ status' = "PENDING" /\ UNCHANGED <<recent, epoch>>
      /\ pending' \in Seq(Ids) /\ Len(pending') <= MaxPending
      /\ entry' \in [Ids -> Entry] /\ call' \in Commit /\ net' \subseteq Request
      /\ entry'[i].ops = Missing(k)
      /\ \A j \in Ids : j # i => entry'[j].ops = entry[j].ops /\ entry'[j].result = entry[j].result
      /\ EntriesGoOn /\ QueueInv' /\ DrainInv' /\ NetInv' /\ LateInv'
      /\ call'.id = Head(pending') => \/ call'.base = sync[k].rev
                                      \/ pending # <<>> /\ call' = call /\ call.id = Head(pending)
  BY <1>1, <1>2, <1>3, <1>4, EnqueueOne
<1>6. pending' # <<>> /\ Last(pending') = i
  <2>1. pending' # <<>> /\ Len(pending') = Len(pending) + 1 /\ pending'[Len(pending) + 1] = i
    BY <1>1, <1>2, <1>5
  <2> QED BY <2>1 DEF Last
<1> DEFINE c == [sync[k] EXCEPT !.at = "BOOTSTRAP", !.id = i]
<1>7. UNCHANGED phase /\ sync' = [sync EXCEPT ![k] = c]
  BY <1>2, <1>6
<1>8. c \in SyncCall /\ c.at = "BOOTSTRAP"
  BY <1>1, <1>2 DEF SyncCall
<1> HIDE DEF c
<1>9. sync' \in [Syncs -> SyncCall] /\ sync'[k].at = "BOOTSTRAP" /\ \A j \in Syncs : j # k => sync'[j] = sync[j]
  BY <1>2, <1>7, <1>8
<1>10. SyncInv'
  BY <1>9 DEF BoardInv, SyncInv
<1>11. BoardTypeOK'
  <2>1. astray' \in BOOLEAN
    OBVIOUS
  <2> QED BY <1>2, <1>5, <1>7, <1>9, <2>1 DEF BoardInv, BoardTypeOK, Phases
<1>12. ServerInv' /\ KeptInv' /\ OneOpEach' /\ Counted'
  BY <1>5, <1>11, ServerStays
<1>13. Supply'
  <2>1. left.edits \in Nat /\ left.visits \in Nat /\ MaxEdits \in Nat /\ MaxVisits \in Nat
    BY Sizes DEF BoardInv, BoardTypeOK
  <2>2. \A n \in 1 .. MaxEdits : n \in Ids /\ n # i
    BY IdsAreNumbers DEF i, UploadId
  <2>3. ASSUME NEW n \in 1 .. MaxEdits, n + left'.edits > MaxEdits PROVE entry'[n].result = "UNUSED"
    <3>1. entry[n].result = "UNUSED"
      BY <2>3 DEF BoardInv, Supply
    <3> QED BY <1>5, <2>2, <3>1
  <2>4. \A j \in Syncs : (Early(j)' => j # k /\ Early(j)) /\ (ToCome(j)' <=> ToCome(j))
    BY <1>7, <1>9 DEF Early, ToCome
  <2>5. ~ToCome(k) /\ \A j \in Syncs : Early(j) => ~ToCome(j)
    BY DEF BoardInv, Supply, Early
  <2>6. ASSUME NEW j \in Syncs, Early(j)' \/ ToCome(j)' PROVE entry'[MaxEdits + j].result = "UNUSED"
    <3>1. j # k /\ (Early(j) \/ ToCome(j))
      BY <2>4, <2>5, <2>6
    <3>2. MaxEdits + j \in Ids /\ MaxEdits + j # i
      <4>1. j \in Nat /\ k \in Nat
        BY DEF Syncs
      <4> QED BY <2>1, <3>1, <4>1, IdsAreNumbers DEF i, UploadId
    <3>3. entry[MaxEdits + j].result = "UNUSED"
      BY <3>1 DEF BoardInv, Supply
    <3> QED BY <1>5, <3>2, <3>3
  <2> QED BY <2>3, <2>4, <2>5, <2>6 DEF Supply
<1>14. CanvasInv'
  <2> SUFFICES ASSUME ~astray'
               PROVE  /\ Chain(history, sync[k].rev, pending', entry', canvas)
                      /\ call'.id = Head(pending') => call'.base = sync[k].rev
    BY <1>2 DEF CanvasInv
  <2>1. canvas = sync[k].local /\ pending = <<>> /\ canvas \in Contents
    BY DEF BoardInv, BoardTypeOK
  <2> DEFINE q == <<>>
  <2>2. q \in Seq(Ids) /\ DOMAIN q = {} /\ pending' = Append(q, i)
    BY <1>5, <2>1
  <2>3. Chain(history, sync[k].rev, q, entry, sync[k].remote)
    BY <1>2, ChainStarts
  <2> HIDE DEF q
  <2>4. Leads(entry'[i].ops, sync[k].remote, canvas)
    BY <1>3, <1>5, <2>1
  <2>5. Chain(history, sync[k].rev, Append(q, i), entry', canvas)
    BY <1>1, <2>1, <2>2, <2>3, <2>4, ChainGrows
  <2> QED BY <1>5, <2>1, <2>2, <2>5
<1>15. RoomInv'
  BY DEF BoardInv, RoomInv
<1> QED BY <1>5, <1>10, <1>11, <1>12, <1>13, <1>14, <1>15 DEF BoardInv

LEMMA ComparedKeeps ==
  ASSUME BoardInv, NEW k \in Syncs, Compared(k)
  PROVE  BoardInv'
<1>1. sync[k].at = "COMPARING" /\ UNCHANGED <<canvas, deleted, left>> /\ Unserved
  BY DEF Compared, server, Unserved
<1>2. sync[k].rev \in Revs /\ authority \in Revs /\ astray \in BOOLEAN
  BY DEF BoardInv, BoardTypeOK, SyncCall
<1>3. CASE /\ Matches(k)
           /\ authority' = sync[k].rev /\ status' = "SYNCED"
           /\ IF sync[k].queued
              THEN /\ pending' = <<>>
                   /\ recent' = recent \cup {Fingerprint(i, entry[i].ops) : i \in Range(pending)}
                   /\ entry' = Settled(entry, Range(pending), "MATCHED")
              ELSE UNCHANGED <<pending, recent, entry>>
           /\ astray' = Edited(k)
           /\ Finish(k, TRUE) /\ bootstrap' = FALSE
           /\ UNCHANGED <<epoch, call, net>>
  BY <1>1, <1>3, MatchKeeps
<1>4. CASE FailClosed /\ Finish(k, FALSE) /\ UNCHANGED <<authority, call, net, bootstrap, astray>>
  BY <1>1, <1>2, <1>4, DistrustKeeps
<1>5. CASE /\ SubsetOfLocal(k)
           /\ authority' = sync[k].rev
           /\ Enqueue(UploadId(k), Missing(k), sync[k].rev)
           /\ astray' = (canvas # sync[k].local \/ pending # <<>>)
           /\ IF pending' = <<>>
              THEN Finish(k, FALSE)
              ELSE /\ sync' = [sync EXCEPT ![k].at = "BOOTSTRAP", ![k].id = Last(pending')]
                   /\ UNCHANGED phase
           /\ UNCHANGED bootstrap
  <2>1. CASE Len(pending) < MaxPending
    BY <1>1, <1>5, <2>1, UploadKeeps
  <2>2. CASE ~(Len(pending) < MaxPending)
    <3>1. Len(pending) >= MaxPending
      BY <2>2, Sizes DEF BoardInv, BoardTypeOK
    <3>2. FailClosed /\ UNCHANGED <<call, net>>
      BY <1>5, <3>1 DEF Enqueue
    <3>3. pending' = <<>>
      BY <3>2 DEF FailClosed
    <3>4. Finish(k, FALSE) /\ astray' \in BOOLEAN /\ authority' \in Revs
      BY <1>2, <1>5, <3>3
    <3> QED BY <1>1, <1>5, <3>2, <3>4, DistrustKeeps
  <2> QED BY <2>1, <2>2
<1> QED BY <1>3, <1>4, <1>5 DEF Compared

LEMMA SyncKeeps ==
  ASSUME BoardInv, SyncStep
  PROVE  BoardInv'
BY ReadBoardKeeps, BoardArrivesKeeps, ComparedKeeps, BootstrappedKeeps DEF SyncStep

-----------------------------------------------------------------------------
(* The student edits. *)

LEMMA EditKeeps ==
  ASSUME BoardInv, NEW s \in Shapes, Edit(s)
  PROVE  BoardInv'
<1> USE DEF Unserved
<1>1. /\ status # "UNINITIALIZED" /\ left.edits > 0 /\ left' = [left EXCEPT !.edits = @ - 1]
      /\ Unserved /\ UNCHANGED <<phase, bootstrap, sync>>
  BY DEF Edit, server
<1>2. PICK to \in {0, canvas[s] + 1, deleted[s]} :
        /\ canvas' = [canvas EXCEPT ![s] = to]
        /\ deleted' = [deleted EXCEPT ![s] = IF to = 0 THEN canvas[s] ELSE 0]
        /\ Submit(NextId, {[shape |-> s, from |-> canvas[s], to |-> to]})
  BY DEF Edit
<1>3. /\ MaxEdits \in Nat /\ left.edits \in 1 .. MaxEdits /\ canvas[s] \in 0 .. MaxEdits + 1
      /\ deleted[s] \in 0 .. MaxEdits + 1 /\ left.edits \in Nat
  BY <1>1, Sizes DEF BoardInv, BoardTypeOK, Contents
<1>4. canvas[s] + left.edits <= MaxEdits + 1 /\ deleted[s] + left.edits <= MaxEdits + 1
  BY DEF BoardInv, RoomInv
<1>5. to \in 0 .. MaxEdits + 1 /\ to + left.edits - 1 <= MaxEdits + 1
  BY <1>3, <1>4
<1>6. /\ canvas' \in Contents /\ deleted' \in Contents /\ canvas \in Contents
      /\ canvas'[s] = to /\ deleted'[s] = (IF to = 0 THEN canvas[s] ELSE 0)
      /\ \A x \in Shapes : x # s => canvas'[x] = canvas[x] /\ deleted'[x] = deleted[x]
  <2>1. (IF to = 0 THEN canvas[s] ELSE 0) \in 0 .. MaxEdits + 1
    BY <1>3
  <2> QED BY <1>2, <1>5, <2>1 DEF BoardInv, BoardTypeOK, Contents
<1>7. /\ left'.edits = left.edits - 1 /\ left'.visits = left.visits /\ left'.foreign = left.foreign
      /\ left'.edits \in Nat /\ left'.edits <= left.edits
      /\ left' \in [edits : 0 .. MaxEdits, foreign : 0 .. MaxForeign, visits : 0 .. MaxVisits]
  <2>1. left.edits - 1 \in 0 .. MaxEdits /\ left.edits - 1 \in Nat /\ left.edits - 1 <= left.edits
    BY <1>3
  <2>2. left' = [left EXCEPT !.edits = left.edits - 1]
    BY <1>1
  <2> QED BY <2>1, <2>2 DEF BoardInv, BoardTypeOK
<1> DEFINE op == [shape |-> s, from |-> canvas[s], to |-> to]
           ops == {op}
<1>8. ops \in SUBSET Op /\ OneOp(ops) /\ Leads(ops, canvas, canvas')
  <2>1. op \in Op /\ op.shape = s /\ op.from = canvas[s] /\ op.to = to
    BY <1>3, <1>5 DEF Op
  <2> HIDE DEF op
  <2> QED BY <1>6, <2>1 DEF OneOp, Leads
<1>9. RoomInv'
  <2> SUFFICES ASSUME NEW x \in Shapes
               PROVE  canvas'[x] + left'.edits <= MaxEdits + 1 /\ deleted'[x] + left'.edits <= MaxEdits + 1
    BY DEF RoomInv
  <2>1. CASE x = s
    BY <1>3, <1>4, <1>5, <1>6, <1>7, <2>1
  <2>2. CASE x # s
    <3>1. canvas[x] \in Nat /\ deleted[x] \in Nat
      BY Sizes DEF BoardInv, BoardTypeOK, Contents
    <3>2. canvas[x] + left.edits <= MaxEdits + 1 /\ deleted[x] + left.edits <= MaxEdits + 1
      BY DEF BoardInv, RoomInv
    <3> QED BY <1>3, <1>6, <1>7, <2>2, <3>1, <3>2
  <2> QED BY <2>1, <2>2
<1>10. SyncInv'
  BY <1>1 DEF BoardInv, SyncInv
<1>11. Submit(NextId, ops)
  BY <1>2
<1> HIDE DEF ops, op
<1>12. /\ NextId \in 1 .. MaxEdits /\ NextId \in Ids
       /\ \A j \in 1 .. MaxEdits : j >= NextId <=> j + left.edits > MaxEdits
  <2>1. NextId \in 1 .. MaxEdits /\ \A j \in 1 .. MaxEdits : j >= NextId <=> j + left.edits > MaxEdits
    BY <1>3 DEF NextId
  <2> QED BY <2>1, IdsAreNumbers
<1>13. entry[NextId].result = "UNUSED" /\ \A j \in Ids : Before(NextId, j) => entry[j].result = "UNUSED"
  <2>1. \A j \in 1 .. MaxEdits : j + left.edits > MaxEdits => entry[j].result = "UNUSED"
    BY DEF BoardInv, Supply
  <2>2. \A j \in 1 .. MaxEdits : NextId < j => j >= NextId
    BY <1>12
  <2>3. NextId >= NextId
    BY <1>12
  <2> QED BY <1>12, <2>1, <2>2, <2>3 DEF Before
<1>14. \A k \in Syncs : (Early(k)' <=> Early(k)) /\ (ToCome(k)' <=> ToCome(k))
  BY <1>1, <1>7 DEF Early, ToCome
<1>15. CASE UNCHANGED <<coord, call, net, entry>> /\ astray' \in BOOLEAN /\ (status # "UNSYNCHRONIZED" => astray')
  <2> USE DEF coord
  <2>1. BoardTypeOK'
    BY <1>1, <1>6, <1>7, <1>15 DEF BoardInv, BoardTypeOK
  <2>2. ServerInv' /\ KeptInv' /\ OneOpEach' /\ Counted'
    BY <1>1, <1>7, <1>15, <2>1, EntriesStay, ServerStays
  <2>3. QueueInv' /\ NetInv' /\ LateInv'
    BY <1>1, <1>15 DEF BoardInv, QueueInv, NetInv, LateInv, Committed
  <2>4. DrainInv'
    BY <1>1, <1>15 DEF BoardInv, DrainInv, Draining, Stale
  <2>5. CanvasInv'
    BY <1>1, <1>15 DEF BoardInv, CanvasInv
  <2>6. Supply'
    <3>1. left'.visits \in Nat /\ left'.visits = left.visits
      BY <1>7 DEF BoardInv, BoardTypeOK
    <3> QED BY <1>1, <1>7, <1>14, <1>15, <3>1, SupplyStays DEF BoardInv
  <2> QED BY <1>9, <1>10, <2>1, <2>2, <2>3, <2>4, <2>5, <2>6 DEF BoardInv
<1>16. CASE status # "UNSYNCHRONIZED" /\ Enqueue(NextId, ops, authority) /\ UNCHANGED <<authority, astray>>
            /\ Len(pending) < MaxPending
  <2>1. /\ authority \in Revs /\ authority + 1 \in DOMAIN history /\ pending \in Seq(Ids)
        /\ ~astray => /\ Chain(history, authority, pending, entry, canvas)
                      /\ pending # <<>> /\ call.id = Head(pending) => call.base = authority
    BY <1>1, <1>16 DEF BoardInv, BoardTypeOK, CanvasInv
  <2>2. /\ pending' = Append(pending, NextId) /\ status' = "PENDING" /\ UNCHANGED <<recent, epoch>>
        /\ pending' \in Seq(Ids) /\ Len(pending') <= MaxPending
        /\ entry' \in [Ids -> Entry] /\ call' \in Commit /\ net' \subseteq Request
        /\ entry'[NextId].ops = ops
        /\ \A j \in Ids : j # NextId => entry'[j].ops = entry[j].ops /\ entry'[j].result = entry[j].result
        /\ EntriesGoOn /\ QueueInv' /\ DrainInv' /\ NetInv' /\ LateInv'
        /\ call'.id = Head(pending') => \/ call'.base = authority
                                        \/ pending # <<>> /\ call' = call /\ call.id = Head(pending)
    BY <1>1, <1>8, <1>12, <1>13, <1>16, <2>1, EnqueueOne
  <2>3. BoardTypeOK'
    BY <1>1, <1>6, <1>7, <1>16, <2>2 DEF BoardInv, BoardTypeOK
  <2>4. ServerInv' /\ KeptInv' /\ OneOpEach' /\ Counted'
    BY <1>1, <1>7, <2>2, <2>3, ServerStays
  <2>5. Supply'
    <3>1. ASSUME NEW j \in 1 .. MaxEdits, j + left'.edits > MaxEdits PROVE entry'[j].result = "UNUSED"
      <4>1. j + left.edits > MaxEdits /\ j # NextId /\ j \in Ids
        <5>1. j + left.edits > MaxEdits
          BY <1>3, <1>7, <3>1
        <5>2. j # NextId
          BY <1>3, <1>7, <3>1 DEF NextId
        <5> QED BY <5>1, <5>2, IdsAreNumbers
      <4>2. entry[j].result = "UNUSED"
        BY <4>1 DEF BoardInv, Supply
      <4> QED BY <2>2, <4>1, <4>2
    <3>2. ASSUME NEW k \in Syncs, Early(k)' \/ ToCome(k)' PROVE entry'[MaxEdits + k].result = "UNUSED"
      <4>1. MaxEdits + k \in Ids /\ MaxEdits + k # NextId
        BY <1>12, IdsAreNumbers
      <4>2. entry[MaxEdits + k].result = "UNUSED"
        BY <1>14, <3>2 DEF BoardInv, Supply
      <4> QED BY <2>2, <4>1, <4>2
    <3>3. \A k \in Syncs : Early(k)' => ~ToCome(k)'
      BY <1>14 DEF BoardInv, Supply
    <3> QED BY <3>1, <3>2, <3>3 DEF Supply
  <2>6. CanvasInv'
    <3> SUFFICES ASSUME ~astray
                 PROVE  /\ Chain(history, authority, pending', entry', canvas')
                        /\ pending' # <<>> /\ call'.id = Head(pending') => call'.base = authority
      BY <1>1, <1>16, <2>1 DEF CanvasInv
    <3>1. \A p \in DOMAIN pending : pending[p] \in Ids /\ pending[p] # NextId
      <4>1. \A p \in DOMAIN pending : pending[p] \in Ids /\ entry[pending[p]].result = "PENDING"
        BY <2>1 DEF BoardInv, QueueInv, Queues
      <4> QED BY <1>13, <4>1
    <3>2. \A p \in DOMAIN pending : entry'[pending[p]].ops = entry[pending[p]].ops
      BY <2>2, <3>1
    <3>3. Leads(entry'[NextId].ops, canvas, canvas')
      BY <1>8, <2>2
    <3>4. Chain(history, authority, Append(pending, NextId), entry', canvas')
      BY <1>6, <1>12, <2>1, <3>2, <3>3, ChainGrows
    <3> QED BY <2>1, <2>2, <3>4
  <2> QED BY <1>9, <1>10, <2>2, <2>3, <2>4, <2>5, <2>6 DEF BoardInv
<1>17. CASE status # "UNSYNCHRONIZED" /\ Enqueue(NextId, ops, authority) /\ UNCHANGED <<authority, astray>>
            /\ Len(pending) >= MaxPending
  <2>1. FailClosed /\ UNCHANGED <<call, net>>
    BY <1>17 DEF Enqueue
  <2>2. /\ epoch' = epoch + 1 /\ status' = "UNSYNCHRONIZED" /\ pending' = <<>> /\ UNCHANGED recent
        /\ entry' = Settled(entry, Range(pending), "REJECTED")
    BY <2>1 DEF FailClosed
  <2>3. entry' \in [Ids -> Entry]
    <3>1. entry \in [Ids -> Entry] /\ "REJECTED" \in Results
      BY DEF BoardInv, BoardTypeOK, Results
    <3> QED BY <2>2, <3>1, SettledFacts
  <2>4. BoardTypeOK'
    <3>1. <<>> \in Seq(Ids) /\ Len(<<>>) <= MaxPending
      BY Sizes
    <3> QED BY <1>1, <1>6, <1>7, <1>17, <2>1, <2>2, <2>3, <3>1 DEF BoardInv, BoardTypeOK
  <2>5. /\ Counted' /\ QueueInv' /\ DrainInv' /\ NetInv' /\ OneOpEach' /\ ServerInv'
        /\ LateInv' /\ CanvasInv' /\ KeptInv'
        /\ \A i \in Ids : entry[i].result = "UNUSED" => entry'[i].result = "UNUSED"
    BY <1>1, <1>7, <2>1, <2>2, <2>4, AbandonKeeps
  <2>6. Supply'
    <3>1. left'.visits \in Nat /\ left'.visits = left.visits
      BY <1>7 DEF BoardInv, BoardTypeOK
    <3> QED BY <1>1, <1>7, <1>14, <2>5, <3>1, SupplyStays DEF BoardInv
  <2> QED BY <1>9, <1>10, <2>4, <2>5, <2>6 DEF BoardInv
<1>18. (Len(pending) < MaxPending \/ Len(pending) >= MaxPending) /\ astray \in BOOLEAN
  BY Sizes DEF BoardInv, BoardTypeOK
<1> QED BY <1>11, <1>15, <1>16, <1>17, <1>18 DEF Submit

-----------------------------------------------------------------------------
(* The hook. *)

LEMMA SyncStarts ==
  ASSUME BoardInv, UNCHANGED history, epoch' \in Nat, NEW n \in Syncs, NEW others \in [Syncs -> SyncCall],
         \A k \in Syncs : others[k] = sync[k] \/ others[k].at \in {"UNUSED", "DONE"},
         sync' = [k \in Syncs |-> IF k = n THEN [NoSync EXCEPT !.at = "READING", !.epoch = epoch', !.local = canvas]
                                  ELSE others[k]]
  PROVE  /\ sync' \in [Syncs -> SyncCall] /\ SyncInv'
         /\ \A k \in Syncs : Early(k)' => Early(k) \/ k = n
<1> DEFINE c == [NoSync EXCEPT !.at = "READING", !.epoch = epoch', !.local = canvas]
<1>1. c \in SyncCall /\ c.at = "READING"
  BY EmptyValues DEF SyncCall, NoSync, BoardInv, BoardTypeOK
<1> HIDE DEF c
<1>2. sync' \in [Syncs -> SyncCall] /\ sync'[n].at = "READING" /\ \A k \in Syncs : k # n => sync'[k] = others[k]
  BY <1>1 DEF c
<1>3. SyncInv'
  BY <1>2 DEF BoardInv, SyncInv
<1>4. \A k \in Syncs : Early(k)' => Early(k) \/ k = n
  BY <1>2 DEF Early
<1> QED BY <1>2, <1>3, <1>4

\* What is left when a synchronize is called that was still to come.
LEMMA SyncWasToCome ==
  ASSUME BoardInv, left'.visits \in 0 .. MaxVisits, phase' # "WAITING",
         left'.visits + 1 = left.visits + (IF phase = "WAITING" THEN 1 ELSE 0)
  PROVE  \E n \in Syncs : n = NextSync /\ ToCome(n) /\ ~ToCome(n)'
<1>1. NextSync = MaxVisits + 1 - left'.visits /\ MaxVisits \in Nat /\ left'.visits \in Nat /\ left.visits \in Nat
  BY Sizes DEF NextSync, BoardInv, BoardTypeOK
<1>2. MaxVisits + 1 - left'.visits \in Syncs
  BY <1>1 DEF Syncs
<1>3. PICK n \in Syncs : n = MaxVisits + 1 - left'.visits
  BY <1>2
<1>4. n + left'.visits = MaxVisits + 1 /\ n \in Nat
  BY <1>1, <1>3 DEF Syncs
<1>5. n + left.visits + (IF phase = "WAITING" THEN 1 ELSE 0) > MaxVisits + 1
  BY <1>1, <1>4
<1>6. ~(n + left'.visits + (IF phase' = "WAITING" THEN 1 ELSE 0) > MaxVisits + 1)
  BY <1>1, <1>4
<1> QED BY <1>1, <1>3, <1>5, <1>6 DEF ToCome

\* synchronize is called, whatever is under way.
LEMMA SynchronizeKeeps ==
  ASSUME BoardInv, Synchronize, Unserved,
         UNCHANGED <<canvas, deleted, net, bootstrap, status, authority, pending, recent, call, entry, astray>>,
         phase' \in {"ACTIVE", "RESUMING"},
         left' \in [edits : 0 .. MaxEdits, foreign : 0 .. MaxForeign, visits : 0 .. MaxVisits],
         left'.edits = left.edits, left'.foreign = left.foreign,
         left'.visits + 1 = left.visits + (IF phase = "WAITING" THEN 1 ELSE 0)
  PROVE  BoardInv'
<1>1. epoch \in Nat /\ epoch' = epoch + 1 /\ epoch' \in Nat /\ sync \in [Syncs -> SyncCall]
  BY DEF Synchronize, BoardInv, BoardTypeOK
<1>2. PICK n \in Syncs : n = NextSync /\ ToCome(n) /\ ~ToCome(n)'
  BY SyncWasToCome
<1>3. sync' = [k \in Syncs |-> IF k = n THEN [NoSync EXCEPT !.at = "READING", !.epoch = epoch', !.local = canvas]
                               ELSE sync[k]]
  BY <1>1, <1>2 DEF Synchronize
<1>4. /\ sync' \in [Syncs -> SyncCall] /\ SyncInv'
      /\ \A k \in Syncs : Early(k)' => Early(k) \/ k = n
  BY <1>1, <1>3, SyncStarts DEF Unserved
<1>5. BoardTypeOK'
  BY <1>1, <1>4 DEF BoardInv, BoardTypeOK, Unserved
<1>6. /\ Counted' /\ QueueInv' /\ DrainInv' /\ NetInv' /\ OneOpEach' /\ ServerInv'
      /\ LateInv' /\ CanvasInv' /\ RoomInv' /\ KeptInv'
  BY <1>1, <1>5, HookKeeps
<1>7. Supply'
  <2>1. left.visits \in Nat /\ left'.visits \in Nat /\ left'.edits \in Nat /\ left'.edits <= left.edits
    BY DEF BoardInv, BoardTypeOK
  <2>2. left'.visits + (IF phase' = "WAITING" THEN 1 ELSE 0) <= left.visits + (IF phase = "WAITING" THEN 1 ELSE 0)
    BY <2>1
  <2>3. \A k \in Syncs : Early(k)' => Early(k) \/ (ToCome(k) /\ ~ToCome(k)')
    BY <1>2, <1>4
  <2> QED BY <2>1, <2>2, <2>3, SupplyStays DEF BoardInv
<1> QED BY <1>4, <1>5, <1>6, <1>7 DEF BoardInv

\* The hook waits, or gives up waiting.
LEMMA WaitingKeeps ==
  ASSUME BoardInv, Unserved,
         UNCHANGED <<canvas, deleted, net, bootstrap, coord, call, sync, entry, astray>>,
         phase' \in {"PAUSED", "WAITING"},
         left' \in [edits : 0 .. MaxEdits, foreign : 0 .. MaxForeign, visits : 0 .. MaxVisits],
         left'.edits = left.edits, left'.foreign = left.foreign,
         left'.visits + (IF phase' = "WAITING" THEN 1 ELSE 0) <= left.visits + (IF phase = "WAITING" THEN 1 ELSE 0)
  PROVE  BoardInv'
<1> USE DEF coord
<1>1. BoardTypeOK'
  BY DEF BoardInv, BoardTypeOK, Unserved
<1>2. /\ Counted' /\ QueueInv' /\ DrainInv' /\ NetInv' /\ OneOpEach' /\ ServerInv'
      /\ LateInv' /\ CanvasInv' /\ RoomInv' /\ KeptInv'
  BY <1>1, HookKeeps
<1>3. SyncInv'
  BY DEF BoardInv, SyncInv, Unserved
<1>4. Supply'
  <2>1. left'.edits \in Nat /\ left'.visits \in Nat /\ left'.edits <= left.edits
    BY DEF BoardInv, BoardTypeOK
  <2> QED BY <2>1, SupplyStays DEF Early, BoardInv
<1> QED BY <1>1, <1>2, <1>3, <1>4 DEF BoardInv

LEMMA VisitsLess ==
  ASSUME BoardInv, left.visits > 0, left' = [left EXCEPT !.visits = @ - 1]
  PROVE  /\ left' \in [edits : 0 .. MaxEdits, foreign : 0 .. MaxForeign, visits : 0 .. MaxVisits]
         /\ left'.edits = left.edits /\ left'.foreign = left.foreign /\ left'.visits = left.visits - 1
         /\ left'.visits + 1 = left.visits /\ left'.visits \in 0 .. MaxVisits
<1>1. left.visits \in 0 .. MaxVisits /\ MaxVisits \in Nat
  BY Sizes DEF BoardInv, BoardTypeOK
<1>2. left.visits - 1 \in 0 .. MaxVisits /\ left.visits - 1 + 1 = left.visits
  BY <1>1, OneLess
<1>3. left' = [left EXCEPT !.visits = left.visits - 1]
  OBVIOUS
<1> QED BY <1>2, <1>3 DEF BoardInv, BoardTypeOK

LEMMA HookStepKeeps ==
  ASSUME BoardInv, MountEditor \/ Pause \/ ResumePaused \/ QueueSettles
  PROVE  BoardInv'
<1> USE DEF server, coord, Unserved
<1>1. /\ left \in [edits : 0 .. MaxEdits, foreign : 0 .. MaxForeign, visits : 0 .. MaxVisits]
      /\ left.visits \in Nat /\ phase \in Phases
  BY DEF BoardInv, BoardTypeOK, Phases
<1>2. CASE MountEditor
  <2>1. left'.visits + 1 = left.visits + (IF phase = "WAITING" THEN 1 ELSE 0)
    <3>1. left'.visits + 1 = left.visits /\ phase # "WAITING"
      BY <1>2, VisitsLess DEF MountEditor
    <3> QED BY <1>1, <3>1
  <2>2. /\ left' \in [edits : 0 .. MaxEdits, foreign : 0 .. MaxForeign, visits : 0 .. MaxVisits]
        /\ left'.edits = left.edits /\ left'.foreign = left.foreign
    BY <1>2, VisitsLess DEF MountEditor
  <2> QED BY <1>2, <2>1, <2>2, SynchronizeKeeps DEF MountEditor
<1>3. CASE Pause
  BY <1>1, <1>3, WaitingKeeps DEF Pause
<1>4. CASE ResumePaused
  <2>1. left'.visits + 1 = left.visits
    BY <1>4, VisitsLess DEF ResumePaused
  <2>2. left'.visits + (IF phase' = "WAITING" THEN 1 ELSE 0) <= left.visits + (IF phase = "WAITING" THEN 1 ELSE 0)
    BY <1>1, <1>4, <2>1 DEF ResumePaused
  <2>3. /\ left' \in [edits : 0 .. MaxEdits, foreign : 0 .. MaxForeign, visits : 0 .. MaxVisits]
        /\ left'.edits = left.edits /\ left'.foreign = left.foreign
    BY <1>4, VisitsLess DEF ResumePaused
  <2> QED BY <1>4, <2>2, <2>3, WaitingKeeps DEF ResumePaused
<1>5. CASE QueueSettles /\ phase' = "PAUSED" /\ UNCHANGED <<sync, epoch>>
  <2>1. left' = left /\ left'.visits + (IF phase' = "WAITING" THEN 1 ELSE 0) <= left.visits + (IF phase = "WAITING" THEN 1 ELSE 0)
    BY <1>1, <1>5 DEF QueueSettles
  <2> QED BY <1>1, <1>5, <2>1, WaitingKeeps DEF QueueSettles
<1>6. CASE QueueSettles /\ phase' = "RESUMING" /\ Synchronize
  <2>1. left' = left /\ left'.visits + 1 = left.visits + (IF phase = "WAITING" THEN 1 ELSE 0)
    BY <1>1, <1>6 DEF QueueSettles
  <2> QED BY <1>1, <1>6, <2>1, SynchronizeKeeps DEF QueueSettles
<1> QED BY <1>2, <1>3, <1>4, <1>5, <1>6 DEF QueueSettles

\* The coordinator is reset: what was pending is rejected, whoever may still serve it.
LEMMA ResetKeeps ==
  ASSUME BoardInv, sync' \in [Syncs -> SyncCall], SyncInv',
         \A k \in Syncs : Early(k)' => ToCome(k) /\ ~ToCome(k)',
         phase' \in {"START", "OVER"}, bootstrap' = FALSE,
         status' = "UNINITIALIZED", authority' = Unknown, pending' = <<>>, recent' = {},
         epoch' \in Nat, call' = NoCall, entry' = Settled(entry, Ids, "REJECTED"),
         left' \in [edits : 0 .. MaxEdits, foreign : 0 .. MaxForeign, visits : 0 .. MaxVisits],
         left'.edits = left.edits, left'.foreign = left.foreign, left'.visits <= left.visits,
         UNCHANGED <<canvas, deleted, net, astray>>, Unserved
  PROVE  BoardInv'
<1>1. entry' \in [Ids -> Entry]
  <2>1. entry \in [Ids -> Entry] /\ "REJECTED" \in Results
    BY DEF BoardInv, BoardTypeOK, Results
  <2> QED BY <2>1, SettledFacts
<1>2. BoardTypeOK'
  <2>1. <<>> \in Seq(Ids) /\ Len(<<>>) <= MaxPending
    BY Sizes
  <2> QED BY <1>1, <2>1, Sizes, EmptyValues DEF BoardInv, BoardTypeOK, Unserved
<1>3. Range(pending) \subseteq Ids
  BY DEF BoardInv, BoardTypeOK, Range
<1>4. /\ Counted' /\ QueueInv' /\ DrainInv' /\ NetInv' /\ OneOpEach' /\ ServerInv'
      /\ LateInv' /\ CanvasInv' /\ KeptInv'
      /\ \A i \in Ids : entry[i].result = "UNUSED" => entry'[i].result = "UNUSED"
  BY <1>2, <1>3, AbandonKeeps
<1>5. Supply'
  <2>1. left.visits \in Nat /\ left'.visits \in Nat /\ left'.edits \in Nat /\ left'.edits <= left.edits
    BY DEF BoardInv, BoardTypeOK
  <2>2. left'.visits + (IF phase' = "WAITING" THEN 1 ELSE 0) <= left.visits + (IF phase = "WAITING" THEN 1 ELSE 0)
    BY <2>1
  <2> QED BY <1>4, <2>1, <2>2, SupplyStays DEF BoardInv
<1>6. RoomInv'
  BY DEF BoardInv, RoomInv
<1> QED BY <1>2, <1>4, <1>5, <1>6 DEF BoardInv

Given == [k \in Syncs |-> IF sync[k].at = "UNUSED" THEN sync[k] ELSE [NoSync EXCEPT !.at = "DONE"]]

LEMMA GivenUp ==
  ASSUME BoardInv
  PROVE  Given \in [Syncs -> SyncCall] /\ \A k \in Syncs : Given[k].at \in {"UNUSED", "DONE"}
<1>1. [NoSync EXCEPT !.at = "DONE"] \in SyncCall /\ [NoSync EXCEPT !.at = "DONE"].at = "DONE"
  BY EmptyValues DEF SyncCall, NoSync
<1> QED BY <1>1 DEF Given, BoardInv, BoardTypeOK

LEMMA RecoverKeeps ==
  ASSUME BoardInv, Recover
  PROVE  BoardInv'
<1>1. /\ left.visits > 0 /\ left' = [left EXCEPT !.visits = @ - 1]
      /\ phase \in {"ACTIVE", "PAUSED"} /\ phase' = "START" /\ bootstrap' = FALSE
      /\ status' = "UNINITIALIZED" /\ authority' = Unknown /\ pending' = <<>> /\ recent' = {}
      /\ epoch' = 1 /\ epoch' \in Nat /\ call' = NoCall
      /\ entry' = Settled(entry, Ids, "REJECTED")
      /\ UNCHANGED <<canvas, deleted, net, astray>> /\ Unserved
  BY DEF Recover, server, Unserved
<1>2. /\ left' \in [edits : 0 .. MaxEdits, foreign : 0 .. MaxForeign, visits : 0 .. MaxVisits]
      /\ left'.edits = left.edits /\ left'.foreign = left.foreign
      /\ left'.visits + 1 = left.visits /\ left'.visits \in 0 .. MaxVisits
  BY <1>1, VisitsLess
<1>3. left'.visits <= left.visits /\ left'.visits + 1 = left.visits + (IF phase = "WAITING" THEN 1 ELSE 0)
  <2>1. left.visits \in Nat
    BY DEF BoardInv, BoardTypeOK
  <2> QED BY <1>1, <1>2, <2>1
<1>4. PICK n \in Syncs : n = NextSync /\ ToCome(n) /\ ~ToCome(n)'
  BY <1>1, <1>2, <1>3, SyncWasToCome
<1>5. Given \in [Syncs -> SyncCall] /\ \A k \in Syncs : Given[k].at \in {"UNUSED", "DONE"}
  BY GivenUp
<1>6. sync' = [k \in Syncs |-> IF k = n THEN [NoSync EXCEPT !.at = "READING", !.epoch = epoch', !.local = canvas]
                               ELSE Given[k]]
  BY <1>1, <1>4 DEF Recover, Given
<1>7. /\ sync' \in [Syncs -> SyncCall] /\ SyncInv'
  BY <1>1, <1>5, <1>6, SyncStarts DEF Unserved
<1>8. \A k \in Syncs : Early(k)' => k = n
  BY <1>5, <1>6 DEF Early
<1> QED BY <1>1, <1>2, <1>3, <1>4, <1>7, <1>8, ResetKeeps

LEMMA EndKeeps ==
  ASSUME BoardInv, End
  PROVE  BoardInv'
<1>1. /\ phase' = "OVER" /\ bootstrap' = FALSE
      /\ status' = "UNINITIALIZED" /\ authority' = Unknown /\ pending' = <<>> /\ recent' = {}
      /\ epoch' = epoch + 1 /\ call' = NoCall
      /\ entry' = Settled(entry, Ids, "REJECTED")
      /\ sync' = Given
      /\ UNCHANGED <<canvas, deleted, net, astray, left>> /\ Unserved
  BY DEF End, server, Unserved, Given
<1>2. sync' \in [Syncs -> SyncCall] /\ \A k \in Syncs : sync'[k].at \in {"UNUSED", "DONE"}
  BY <1>1, GivenUp
<1>3. SyncInv' /\ \A k \in Syncs : ~Early(k)'
  BY <1>2 DEF SyncInv, Early
<1>4. /\ epoch' \in Nat /\ left'.visits <= left.visits
      /\ left' \in [edits : 0 .. MaxEdits, foreign : 0 .. MaxForeign, visits : 0 .. MaxVisits]
  BY <1>1 DEF BoardInv, BoardTypeOK
<1> QED BY <1>1, <1>2, <1>3, <1>4, ResetKeeps

-----------------------------------------------------------------------------
(* The theorems. *)

LEMMA BoardStarts == BoardInit => BoardInv
<1> SUFFICES ASSUME BoardInit PROVE BoardInv
  OBVIOUS
<1> DEFINE first == [NoSync EXCEPT !.at = "READING", !.epoch = 1, !.local = canvas]
<1>1. /\ canvas = [s \in Shapes |-> IF s \in Drawn THEN 1 ELSE 0]
      /\ deleted = [s \in Shapes |-> 0] /\ board = [s \in Shapes |-> 0] /\ history = <<board>>
      /\ \A s \in Shapes : canvas[s] \in {0, 1} /\ deleted[s] = 0
  BY DEF BoardInit
<1>2. /\ canvas \in Contents /\ deleted \in Contents /\ board \in Contents
      /\ history \in Seq(Contents) /\ Len(history) = 1 /\ history[Len(history)] = board
  <2>1. 0 \in 0 .. MaxEdits + 1 /\ 1 \in 0 .. MaxEdits + 1
    BY Sizes
  <2>2. canvas \in Contents /\ deleted \in Contents /\ board \in Contents
    BY <1>1, <2>1 DEF Contents
  <2> QED BY <1>1, <2>2
<1>3. first \in SyncCall /\ first.at = "READING"
  BY <1>2, EmptyValues DEF SyncCall, NoSync
<1>4. sync = [k \in Syncs |-> IF k = 1 THEN first ELSE NoSync]
  BY DEF BoardInit
<1> HIDE DEF first
<1>5. /\ sync \in [Syncs -> SyncCall] /\ 1 \in Syncs /\ sync[1].at = "READING"
      /\ \A k \in Syncs : k # 1 => sync[k].at = "UNUSED"
  <2>1. 1 \in Syncs
    BY Sizes DEF Syncs
  <2>2. NoSync.at = "UNUSED" /\ NoSync \in SyncCall
    BY EmptyValues DEF NoSync
  <2> QED BY <1>3, <1>4, <2>1, <2>2
<1>6. /\ left.edits = MaxEdits /\ left.foreign = MaxForeign /\ left.visits = MaxVisits
      /\ left \in [edits : 0 .. MaxEdits, foreign : 0 .. MaxForeign, visits : 0 .. MaxVisits]
  <2>1. left = [edits |-> MaxEdits, foreign |-> MaxForeign, visits |-> MaxVisits]
    BY DEF BoardInit
  <2>2. MaxEdits \in 0 .. MaxEdits /\ MaxForeign \in 0 .. MaxForeign /\ MaxVisits \in 0 .. MaxVisits
    BY Sizes
  <2> QED BY <2>1, <2>2
<1>7. entry \in [Ids -> Entry] /\ \A i \in Ids : entry[i].ops = {} /\ entry[i].attempts = 0 /\ entry[i].result = "UNUSED"
  BY EmptyValues DEF BoardInit, NoEntry
<1>8. processed \in [Ids -> Outcome] /\ \A i \in Ids : ~processed[i].committed /\ processed[i].base = Unknown
  <2>1. [base |-> Unknown, committed |-> FALSE, rev |-> 0] \in Outcome
    BY Sizes DEF Outcome, Revs
  <2>2. processed = [i \in Ids |-> [base |-> Unknown, committed |-> FALSE, rev |-> 0]]
    BY DEF BoardInit
  <2> QED BY <2>1, <2>2
<1>9. Committed = {}
  BY <1>8 DEF Committed
<1>10. /\ pending = <<>> /\ DOMAIN pending = {} /\ call = NoCall /\ call.id = 0 /\ call.reply = "NONE"
       /\ net = {} /\ recent = {} /\ epoch = 1 /\ status = "UNINITIALIZED" /\ authority = Unknown
       /\ phase = "START" /\ bootstrap = TRUE /\ astray = FALSE
  <2>1. /\ pending = <<>> /\ call = NoCall /\ net = {} /\ recent = {} /\ epoch = 1 /\ status = "UNINITIALIZED"
        /\ authority = Unknown /\ phase = "START" /\ bootstrap = TRUE /\ astray = FALSE
    BY DEF BoardInit
  <2>2. NoCall.id = 0 /\ NoCall.reply = "NONE"
    BY DEF NoCall
  <2>3. DOMAIN <<>> = {}
    OBVIOUS
  <2> QED BY <2>1, <2>2, <2>3
<1>11. BoardTypeOK
  <2>1. Len(history) \in 1 .. Unknown
    BY <1>2, Sizes DEF Unknown
  <2>2. Len(pending) <= MaxPending /\ pending \in Seq(Ids)
    BY <1>10, Sizes
  <2> QED BY <1>2, <1>5, <1>6, <1>7, <1>8, <1>10, <2>1, <2>2, Sizes, EmptyValues DEF BoardTypeOK
<1>12. Supply
  <2>1. \A i \in 1 .. MaxEdits : i \in Ids /\ entry[i].result = "UNUSED"
    BY <1>7, IdsAreNumbers
  <2>2. \A k \in Syncs : MaxEdits + k \in Ids /\ entry[MaxEdits + k].result = "UNUSED"
    BY <1>7, IdsAreNumbers
  <2>3. ~ToCome(1) /\ \A k \in Syncs : Early(k) => k = 1
    <3>1. ~(1 + MaxVisits + 0 > MaxVisits + 1)
      BY Sizes
    <3> QED BY <1>5, <1>6, <1>10, <3>1 DEF ToCome, Early
  <2> QED BY <2>1, <2>2, <2>3 DEF Supply
<1>13. Counted
  BY <1>2, <1>6, <1>9, Sizes, FS_EmptySet DEF Counted
<1>14. QueueInv
  BY <1>7, <1>10 DEF QueueInv, Queues, InOrder
<1>15. NetInv /\ OneOpEach /\ KeptInv /\ CanvasInv /\ LateInv
  BY <1>7, <1>10 DEF NetInv, OneOpEach, OneOp, KeptInv, CanvasInv, LateInv
<1>16. DrainInv
  BY <1>10 DEF DrainInv, Draining
<1>17. SyncInv
  BY <1>5 DEF SyncInv
<1>18. ServerInv
  BY <1>2, <1>8, <1>9 DEF ServerInv
<1>19. RoomInv
  <2>1. \A s \in Shapes : canvas[s] + left.edits <= MaxEdits + 1 /\ deleted[s] + left.edits <= MaxEdits + 1
    BY <1>1, <1>6, Sizes
  <2> QED BY <2>1 DEF RoomInv
<1> QED BY <1>11, <1>12, <1>13, <1>14, <1>15, <1>16, <1>17, <1>18, <1>19 DEF BoardInv

LEMMA BoardStutters == BoardInv /\ UNCHANGED boardVars => BoardInv'
<1> SUFFICES ASSUME BoardInv, UNCHANGED boardVars PROVE BoardInv'
  OBVIOUS
<1> USE DEF BoardInv, boardVars, server, coord
<1>1. BoardTypeOK' /\ Supply' /\ Counted'
  BY DEF BoardTypeOK, Supply, Early, ToCome, Counted, Committed
<1>2. QueueInv' /\ DrainInv' /\ NetInv' /\ OneOpEach'
  BY DEF QueueInv, DrainInv, Draining, Stale, NetInv, OneOpEach
<1>3. SyncInv' /\ LateInv' /\ RoomInv'
  BY DEF SyncInv, LateInv, RoomInv, Committed
<1>4. ServerInv' /\ CanvasInv' /\ KeptInv'
  BY DEF ServerInv, Committed, CanvasInv, KeptInv
<1> QED BY <1>1, <1>2, <1>3, <1>4

LEMMA BoardStepKeeps ==
  ASSUME BoardInv, [BoardNext]_boardVars
  PROVE  BoardInv'
<1>1. ASSUME NEW s \in Shapes, Edit(s) PROVE BoardInv'
  BY <1>1, EditKeeps
<1>2. ASSUME NEW s \in Shapes, Foreign(s) PROVE BoardInv'
  BY <1>2, ForeignKeeps
<1>3. ASSUME NEW m \in net, Serve(m) PROVE BoardInv'
  BY <1>3, ServeKeeps
<1>4. CASE TransportFails
  BY <1>4, TransportKeeps
<1>5. CASE Drain
  BY <1>5, RetryKeeps, AnsweredKeeps DEF Drain
<1>6. CASE SyncStep
  BY <1>6, SyncKeeps
<1>7. CASE MountEditor \/ Pause \/ ResumePaused \/ QueueSettles
  BY <1>7, HookStepKeeps
<1>8. CASE Recover
  BY <1>8, RecoverKeeps
<1>9. CASE End
  BY <1>9, EndKeeps
<1>10. CASE UNCHANGED boardVars
  BY <1>10, BoardStutters
<1> QED BY <1>1, <1>2, <1>3, <1>4, <1>5, <1>6, <1>7, <1>8, <1>9, <1>10 DEF BoardNext

LEMMA BoardInductive == BoardSpec => []BoardInv
<1>1. BoardInv /\ [BoardNext]_boardVars => BoardInv'
  BY BoardStepKeeps
<1> QED BY <1>1, BoardStarts, PTL DEF BoardSpec

\* The coordinator, the network and the server's board keep their kinds,
\* whatever is lost, repeated or served late, and however edits, mounts of the
\* editor and drains overlap: no counter, queue or history outgrows its bound
\* (authoritative-board-sync.ts:17-57).
THEOREM BoardTypes == BoardSpec => []BoardTypeOK
<1>1. BoardInv => BoardTypeOK
  BY DEF BoardInv
<1> QED BY <1>1, BoardInductive, PTL

\* The canvas the coordinator binds to a revision is exactly what the board was
\* at that revision (authoritative-board-sync.ts:74-85), unless it was led
\* astray since the last synchronize that found the two equal.
THEOREM BoundIsAuthority == BoardSpec => []BoundCanvasIsAuthority
<1>1. BoardInv => BoundCanvasIsAuthority
  <2> SUFFICES ASSUME BoardInv, CanBind, ~astray PROVE canvas = history[authority + 1]
    BY DEF BoundCanvasIsAuthority
  <2>1. Chain(history, authority, <<>>, entry, canvas)
    BY DEF BoardInv, CanvasInv, CanBind
  <2> QED BY <2>1, ChainEnds
<1> QED BY <1>1, BoardInductive, PTL

\* A mutation that was acknowledged has been committed, a promise is open
\* exactly while its mutation is queued, none is forgotten unless a synchronize
\* resolved another, and the board takes the edits in their order
\* (authoritative-board-sync.ts:87-104, 299-321).
THEOREM BoardKeepsPromises == BoardSpec => []PromisesAreKept
<1>1. BoardInv => PromisesAreKept
  <2> SUFFICES ASSUME BoardInv PROVE PromisesAreKept
    OBVIOUS
  <2>1. \A i \in Ids : entry[i].result = "PENDING" <=> InQueue(i)
    BY DEF BoardInv, QueueInv, Queues, InQueue, Range
  <2>2. /\ \A i \in Ids : entry[i].result = "ACKNOWLEDGED" => processed[i].committed
        /\ \A i \in Ids : entry[i].result = "FORGOTTEN" => \E j \in Ids : entry[j].result = "MATCHED"
    BY DEF BoardInv, KeptInv
  <2>3. \A i, j \in 1 .. MaxEdits :
          i < j /\ processed[i].committed /\ processed[j].committed => processed[i].rev < processed[j].rev
    BY IdsAreNumbers DEF BoardInv, ServerInv, Committed, Before
  <2> QED BY <2>1, <2>2, <2>3 DEF PromisesAreKept
<1> QED BY <1>1, BoardInductive, PTL
=============================================================================
