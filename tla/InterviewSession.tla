-------------------------- MODULE InterviewSession --------------------------
(***************************************************************************)
(* The authoritative state of one interview session and every command that *)
(* changes its input, its generations or its deliveries.  The program      *)
(* keeps this state as the fold of an event log (reducer.ts); a command is *)
(* a handler run by the session's writer that turns the state into a group *)
(* of events appended in one transaction, so one command is one action.    *)
(*                                                                         *)
(* A turn is created together with the commit of its input episode, so an  *)
(* episode stands for its turn too, and lastCommittedInputSequence, only   *)
(* ever compared for equality, for the episode committed last.  Evidence,  *)
(* verification and the whiteboard's shapes appear here only through the   *)
(* output they invalidate.                                                 *)
(***************************************************************************)
EXTENDS Naturals, FiniteSets

CONSTANTS
  Episodes,      \* input episodes, and the turns they become
  Utterances,    \* stretches of captured speech
  Generations,   \* model generations
  Atoms,         \* delivery atoms
  Disclosures,   \* disclosure ids an atom may reveal
  Requests,      \* pedagogical actions (realization requests)
  None,          \* no turn, no basis, no action
  MaxTranscript, \* bound on transcriptRevision, for model checking
  MaxBoard       \* bound on boardRevision, for model checking

ASSUME NoneIsNoValue ==
  /\ None \notin Episodes /\ None \notin Generations /\ None \notin Requests

ASSUME BoundsAreNaturals == MaxTranscript \in Nat /\ MaxBoard \in Nat

VARIABLES
  session,            \* status of the session
  episode,            \* status of each input episode
  hasInput,           \* whether an episode has received any input
  utterance,          \* status of each utterance
  lastTurn,           \* the turn committed last
  transcriptRevision,
  contextEpoch,
  boardRevision,
  pedagogicalAction,  \* the action selected for each turn
  generation,         \* status of each generation
  basis,              \* what a generation was started from
  generationAction,   \* the action a generation realizes
  delivery,           \* status of each delivery atom
  source,             \* generation an atom comes from
  medium,             \* TEXT, AUDIO or WHITEBOARD
  reveals,            \* disclosure ids of an atom
  ledger              \* what the candidate may have been told

inputVars  == <<episode, hasInput, utterance, lastTurn>>
revVars    == <<transcriptRevision, contextEpoch, boardRevision>>
genVars    == <<basis, generationAction>>
atomVars   == <<source, medium, reveals>>
outputVars == <<generation, delivery, ledger>>
vars == <<session, inputVars, revVars, pedagogicalAction, genVars, atomVars,
          outputVars>>

Basis == [epoch : Nat, turn : Episodes, transcript : Nat, board : Nat]

SessionStatus  == {"CREATED", "ACTIVE", "COMPLETED", "ARCHIVED"}
DeliveryStatus == {"UNUSED", "QUEUED", "DELIVERING", "EXPOSED", "COMPLETED",
                   "CANCELLED", "POSSIBLY_EXPOSED"}
GenerationStatus == {"UNUSED", "ACTIVE", "PROPOSAL_RECEIVED", "VALIDATED",
                     "REJECTED", "SUPERSEDED"}

\* Statuses whose disclosures count as made.
Disclosed == {"EXPOSED", "COMPLETED", "POSSIBLY_EXPOSED"}
\* Generations an invalidation supersedes.
Nonterminal == {"ACTIVE", "PROPOSAL_RECEIVED", "VALIDATED"}

TypeOK ==
  /\ session \in SessionStatus
  /\ episode \in [Episodes -> {"UNUSED", "ACTIVE", "COMMITTED"}]
  /\ hasInput \in [Episodes -> BOOLEAN]
  /\ utterance \in [Utterances -> {"UNUSED", "CAPTURING", "FINALIZED", "DISCARDED"}]
  /\ lastTurn \in Episodes \cup {None}
  /\ transcriptRevision \in Nat /\ contextEpoch \in Nat /\ boardRevision \in Nat
  /\ pedagogicalAction \in [Episodes -> Requests \cup {None}]
  /\ generation \in [Generations -> GenerationStatus]
  /\ basis \in [Generations -> Basis \cup {None}]
  /\ generationAction \in [Generations -> Requests \cup {None}]
  /\ delivery \in [Atoms -> DeliveryStatus]
  /\ source \in [Atoms -> Generations \cup {None}]
  /\ medium \in [Atoms -> {"TEXT", "AUDIO", "WHITEBOARD", "NONE"}]
  /\ reveals \in [Atoms -> SUBSET Disclosures]
  /\ ledger \in SUBSET Disclosures

Init ==
  /\ session = "CREATED"
  /\ episode = [e \in Episodes |-> "UNUSED"]
  /\ hasInput = [e \in Episodes |-> FALSE]
  /\ utterance = [u \in Utterances |-> "UNUSED"]
  /\ lastTurn = None
  /\ transcriptRevision = 0 /\ contextEpoch = 0 /\ boardRevision = 0
  /\ pedagogicalAction = [e \in Episodes |-> None]
  /\ generation = [g \in Generations |-> "UNUSED"]
  /\ basis = [g \in Generations |-> None]
  /\ generationAction = [g \in Generations |-> None]
  /\ delivery = [a \in Atoms |-> "UNUSED"]
  /\ source = [a \in Atoms |-> None]
  /\ medium = [a \in Atoms |-> "NONE"]
  /\ reveals = [a \in Atoms |-> {}]
  /\ ledger = {}

-----------------------------------------------------------------------------
(* What the commands share. *)

Live == {g \in Generations : generation[g] \in Nonterminal}

\* Mutant: atoms already on their way are overlooked.
QueuedAtomsOf(G) == {a \in Atoms : source[a] \in G /\ delivery[a] = "QUEUED"}

AtomsOf(G) == {a \in Atoms : source[a] \in G}

\* COMPATIBLE: the basis names the state's own revisions.  The other two
\* answers of the code, UNKNOWN and INCOMPATIBLE, have the same consequences.
Compatible(g) ==
  basis[g] = [epoch |-> contextEpoch, turn |-> lastTurn,
              transcript |-> transcriptRevision, board |-> boardRevision]

\* An atom of A that is still queued is cancelled; one that is on its way may
\* have been seen, and is recorded as such.
Withdrawn(status) ==
  CASE status = "QUEUED"     -> "CANCELLED"
    [] status = "DELIVERING" -> "POSSIBLY_EXPOSED"
    [] OTHER                 -> status

\* Mutant: the ledger forgets what was on its way.
InvalidateQuietly(G, A) ==
  /\ generation' = [g \in Generations |->
                      IF g \in G THEN "SUPERSEDED" ELSE generation[g]]
  /\ delivery' = [a \in Atoms |->
                    IF a \in A THEN Withdrawn(delivery[a]) ELSE delivery[a]]
  /\ UNCHANGED ledger

\* Supersedes the generations G and withdraws the atoms A.
Invalidate(G, A) ==
  /\ generation' = [g \in Generations |->
                      IF g \in G THEN "SUPERSEDED" ELSE generation[g]]
  /\ delivery' = [a \in Atoms |->
                    IF a \in A THEN Withdrawn(delivery[a]) ELSE delivery[a]]
  /\ ledger' = ledger \cup
               UNION {reveals[a] : a \in {b \in A : delivery[b] = "DELIVERING"}}

\* Mutant: the command forgets to invalidate.
KeepOutput == UNCHANGED outputVars

InvalidateUndeliveredPolicyOutput == Invalidate(Live, AtomsOf(Live))

TerminalInvalidation == Invalidate(Live, Atoms)

-----------------------------------------------------------------------------
(* The session's lifecycle. *)

StartSession ==
  /\ session = "CREATED"
  /\ session' = "ACTIVE"
  /\ UNCHANGED <<inputVars, revVars, pedagogicalAction, genVars, atomVars, outputVars>>

NoActiveEpisode == \A e \in Episodes : episode[e] # "ACTIVE"

CompleteSession ==
  /\ session = "ACTIVE" /\ NoActiveEpisode
  /\ session' = "COMPLETED"
  /\ TerminalInvalidation
  /\ UNCHANGED <<inputVars, revVars, pedagogicalAction, genVars, atomVars>>

ArchiveSession ==
  /\ session \in {"ACTIVE", "COMPLETED"} /\ NoActiveEpisode
  /\ session' = "ARCHIVED"
  /\ TerminalInvalidation
  /\ UNCHANGED <<inputVars, revVars, pedagogicalAction, genVars, atomVars>>
-----------------------------------------------------------------------------
(* The candidate's input. *)

\* One command that opens an episode, fills it and commits it as a turn.
CommitInput(e) ==
  /\ session = "ACTIVE" /\ episode[e] = "UNUSED"
  /\ episode' = [episode EXCEPT ![e] = "COMMITTED"]
  /\ hasInput' = [hasInput EXCEPT ![e] = TRUE]
  /\ lastTurn' = e
  /\ InvalidateUndeliveredPolicyOutput
  /\ UNCHANGED <<session, utterance, revVars, pedagogicalAction, genVars, atomVars>>

\* Speech onset: everything undelivered is withdrawn before anyone knows
\* whether the sound was speech.
BeginUtterance(u) ==
  /\ session = "ACTIVE" /\ utterance[u] = "UNUSED"
  /\ utterance' = [utterance EXCEPT ![u] = "CAPTURING"]
  /\ Invalidate(Live, Atoms)
  /\ UNCHANGED <<session, episode, hasInput, lastTurn, revVars, pedagogicalAction,
                 genVars, atomVars>>

DiscardUtterance(u) ==
  /\ utterance[u] = "CAPTURING"
  /\ utterance' = [utterance EXCEPT ![u] = "DISCARDED"]
  /\ UNCHANGED <<session, episode, hasInput, lastTurn, revVars, pedagogicalAction,
                 genVars, atomVars, outputVars>>

\* The transcript of an utterance joins episode e, opened here if it is new.
\* Output in preparation is left as it is.
FinalizeUtterance(u, e) ==
  /\ session = "ACTIVE" /\ utterance[u] = "CAPTURING"
  /\ episode[e] \in {"UNUSED", "ACTIVE"}
  /\ transcriptRevision < MaxTranscript
  /\ utterance' = [utterance EXCEPT ![u] = "FINALIZED"]
  /\ episode' = [episode EXCEPT ![e] = "ACTIVE"]
  /\ hasInput' = [hasInput EXCEPT ![e] = TRUE]
  /\ transcriptRevision' = transcriptRevision + 1
  /\ UNCHANGED <<session, lastTurn, contextEpoch, boardRevision, pedagogicalAction,
                 genVars, atomVars, outputVars>>

\* Typed text, or the summary of a board revision committed before, joins an
\* open episode.
AppendInput(e) ==
  /\ session = "ACTIVE" /\ episode[e] = "ACTIVE"
  /\ hasInput' = [hasInput EXCEPT ![e] = TRUE]
  /\ InvalidateUndeliveredPolicyOutput
  /\ UNCHANGED <<session, episode, utterance, lastTurn, revVars, pedagogicalAction,
                 genVars, atomVars>>

\* A board change: a mutation, a summary-only patch, or (e an open episode) a
\* summary that also joins the episode.
CommitBoard ==
  /\ session = "ACTIVE" /\ boardRevision < MaxBoard
  /\ boardRevision' = boardRevision + 1
  /\ \/ UNCHANGED hasInput
     \/ \E e \in Episodes : /\ episode[e] = "ACTIVE"
                            /\ hasInput' = [hasInput EXCEPT ![e] = TRUE]
  /\ InvalidateUndeliveredPolicyOutput
  /\ UNCHANGED <<session, episode, utterance, lastTurn, transcriptRevision,
                 contextEpoch, pedagogicalAction, genVars, atomVars>>

CommitInputEpisode(e) ==
  /\ session = "ACTIVE" /\ episode[e] = "ACTIVE" /\ hasInput[e]
  /\ episode' = [episode EXCEPT ![e] = "COMMITTED"]
  /\ lastTurn' = e
  /\ InvalidateUndeliveredPolicyOutput
  /\ UNCHANGED <<session, hasInput, utterance, revVars, pedagogicalAction, genVars,
                 atomVars>>

CorrectTranscript ==
  /\ session = "ACTIVE" /\ transcriptRevision < MaxTranscript
  /\ transcriptRevision' = transcriptRevision + 1
  /\ contextEpoch' = contextEpoch + 1
  /\ InvalidateUndeliveredPolicyOutput
  /\ UNCHANGED <<session, inputVars, boardRevision, pedagogicalAction, genVars, atomVars>>

\* Evidence or a verification result became authoritative.  Evidence is
\* admitted whatever the status of the session.
ChangeEvidence ==
  /\ session # "CREATED"
  /\ InvalidateUndeliveredPolicyOutput
  /\ UNCHANGED <<session, inputVars, revVars, pedagogicalAction, genVars, atomVars>>
-----------------------------------------------------------------------------
(* Generations. *)

SelectAction(e, r) ==
  /\ session = "ACTIVE" /\ lastTurn = e
  /\ pedagogicalAction' = [pedagogicalAction EXCEPT ![e] = r]
  /\ UNCHANGED <<session, inputVars, revVars, genVars, atomVars, outputVars>>

StartGeneration(e, g) ==
  /\ session = "ACTIVE" /\ lastTurn = e /\ episode[e] = "COMMITTED"
  /\ pedagogicalAction[e] # None
  /\ \A h \in Live : basis[h].turn # e
  /\ generation[g] = "UNUSED"
  /\ generation' = [generation EXCEPT ![g] = "ACTIVE"]
  /\ basis' = [basis EXCEPT ![g] =
                 [epoch |-> contextEpoch, turn |-> e,
                  transcript |-> transcriptRevision, board |-> boardRevision]]
  /\ generationAction' = [generationAction EXCEPT ![g] = pedagogicalAction[e]]
  /\ UNCHANGED <<session, inputVars, revVars, pedagogicalAction, atomVars, delivery, ledger>>

\* The validator, the problem or the board references refuse the proposal.
RejectProposal(g) ==
  /\ generation[g] = "ACTIVE"
  /\ generation' = [generation EXCEPT ![g] = "REJECTED"]
  /\ UNCHANGED <<session, inputVars, revVars, pedagogicalAction, genVars, atomVars,
                 delivery, ledger>>

\* The proposal is stale: its basis, its action or its compiled context.  The
\* recomputed action and context are data, so this may happen at any time.
RejectStaleProposal(g) ==
  /\ generation[g] = "ACTIVE"
  /\ generation' = [generation EXCEPT ![g] = "SUPERSEDED"]
  /\ UNCHANGED <<session, inputVars, revVars, pedagogicalAction, genVars, atomVars,
                 delivery, ledger>>

\* The proposal is accepted and its atoms S are queued: at most one text, any
\* number of whiteboard actions, never nothing.
AcceptProposal(g, S) ==
  /\ generation[g] = "ACTIVE"
  /\ Compatible(g)
  /\ pedagogicalAction[basis[g].turn] = generationAction[g]
  /\ S # {} /\ \A a \in S : delivery[a] = "UNUSED"
  /\ generation' = [generation EXCEPT ![g] = "VALIDATED"]
  /\ delivery' = [a \in Atoms |-> IF a \in S THEN "QUEUED" ELSE delivery[a]]
  /\ source' = [a \in Atoms |-> IF a \in S THEN g ELSE source[a]]
  /\ \E text \in SUBSET S, told \in [S -> SUBSET Disclosures] :
       /\ Cardinality(text) <= 1
       /\ medium' = [a \in Atoms |-> IF a \in text THEN "TEXT"
                                     ELSE IF a \in S THEN "WHITEBOARD" ELSE medium[a]]
       /\ reveals' = [a \in Atoms |-> IF a \in S THEN told[a] ELSE reveals[a]]
  /\ UNCHANGED <<session, inputVars, revVars, pedagogicalAction, genVars, ledger>>

\* A formal interpretation is admitted for verification: the generation has
\* answered and yields no output.
AdmitFormalInterpretation(g) ==
  /\ session = "ACTIVE" /\ generation[g] = "ACTIVE" /\ Compatible(g)
  /\ generation' = [generation EXCEPT ![g] = "PROPOSAL_RECEIVED"]
  /\ UNCHANGED <<session, inputVars, revVars, pedagogicalAction, genVars, atomVars,
                 delivery, ledger>>

SupersedeGeneration(g) ==
  /\ g \in Live
  /\ Invalidate({g}, AtomsOf({g}))
  /\ UNCHANGED <<session, inputVars, revVars, pedagogicalAction, genVars, atomVars>>

SpeakableText(t) ==
  medium[t] = "TEXT" /\ delivery[t] \in {"DELIVERING", "EXPOSED", "COMPLETED"}

SpeechAuthorized(t) == generation[source[t]] = "VALIDATED" /\ Compatible(source[t])

\* Synthesized speech for a text atom t that has begun to be delivered.
QueueAudio(t, a) ==
  /\ session = "ACTIVE"
  /\ SpeakableText(t) /\ SpeechAuthorized(t)
  /\ delivery[a] = "UNUSED"
  /\ delivery' = [delivery EXCEPT ![a] = "QUEUED"]
  /\ source' = [source EXCEPT ![a] = source[t]]
  /\ medium' = [medium EXCEPT ![a] = "AUDIO"]
  /\ reveals' = [reveals EXCEPT ![a] = reveals[t]]
  /\ UNCHANGED <<session, inputVars, revVars, pedagogicalAction, genVars, generation, ledger>>
-----------------------------------------------------------------------------
(* Deliveries. *)

deliveryFrame == <<session, inputVars, revVars, pedagogicalAction, genVars, atomVars,
                   generation>>

\* Moves atom a to a status that discloses it.
Disclose(a, status) ==
  /\ delivery' = [delivery EXCEPT ![a] = status]
  /\ ledger' = ledger \cup reveals[a]
  /\ UNCHANGED deliveryFrame

CanStart(a) ==
  /\ delivery[a] = "QUEUED"
  /\ generation[source[a]] \notin {"SUPERSEDED", "REJECTED"}
  /\ Compatible(source[a])

\* An ordinary start, or the reconnect of a queued atom.
StartDelivery(a) ==
  /\ CanStart(a)
  /\ delivery' = [delivery EXCEPT ![a] = "DELIVERING"]
  /\ UNCHANGED <<deliveryFrame, ledger>>

AcknowledgeExposed(a) ==
  /\ delivery[a] \in {"DELIVERING", "POSSIBLY_EXPOSED"}
  /\ Disclose(a, "EXPOSED")

AcknowledgeCompleted(a) ==
  /\ delivery[a] = "EXPOSED"
  /\ Disclose(a, "COMPLETED")

CancelBeforeExposure(a) ==
  /\ delivery[a] = "QUEUED"
  /\ delivery' = [delivery EXCEPT ![a] = "CANCELLED"]
  /\ UNCHANGED <<deliveryFrame, ledger>>

\* The renderer confirms that presentation never began.
AcknowledgeNotExposed(a) ==
  /\ delivery[a] = "DELIVERING"
  /\ delivery' = [delivery EXCEPT ![a] = "CANCELLED"]
  /\ UNCHANGED <<deliveryFrame, ledger>>

\* After a restart, or when the connection that carried the atom is lost.
MarkPossiblyExposed(a) ==
  /\ delivery[a] = "DELIVERING"
  /\ Disclose(a, "POSSIBLY_EXPOSED")
-----------------------------------------------------------------------------
Lifecycle == StartSession \/ CompleteSession \/ ArchiveSession

CandidateInput ==
  \/ CommitBoard \/ CorrectTranscript \/ ChangeEvidence
  \/ \E e \in Episodes : CommitInput(e) \/ AppendInput(e) \/ CommitInputEpisode(e)
  \/ \E u \in Utterances : BeginUtterance(u) \/ DiscardUtterance(u)
  \/ \E u \in Utterances, e \in Episodes : FinalizeUtterance(u, e)

Generating ==
  \/ \E e \in Episodes, r \in Requests : SelectAction(e, r)
  \/ \E e \in Episodes, g \in Generations : StartGeneration(e, g)
  \/ \E g \in Generations : \/ RejectProposal(g) \/ RejectStaleProposal(g)
                            \/ AdmitFormalInterpretation(g) \/ SupersedeGeneration(g)
  \/ \E g \in Generations, S \in SUBSET Atoms : AcceptProposal(g, S)
  \/ \E t, a \in Atoms : QueueAudio(t, a)

Delivering ==
  \E a \in Atoms : \/ StartDelivery(a) \/ AcknowledgeExposed(a)
                   \/ AcknowledgeCompleted(a) \/ CancelBeforeExposure(a)
                   \/ AcknowledgeNotExposed(a) \/ MarkPossiblyExposed(a)

Next == Lifecycle \/ CandidateInput \/ Generating \/ Delivering

Spec == Init /\ [][Next]_vars
-----------------------------------------------------------------------------
(* Properties. *)

\* The ledger that future hints are chosen from is exactly what the delivered
\* atoms may have told the candidate: nothing a generation merely contained,
\* and nothing that was, or may have been, seen is forgotten.
LedgerIsWhatWasDisclosed ==
  ledger = UNION {reveals[a] : a \in {b \in Atoms : delivery[b] \in Disclosed}}

\* An atom that can still reach the candidate comes from a generation that is
\* still validated: whatever supersedes a generation also withdraws its output.
PendingOutputIsValidated ==
  \A a \in Atoms : delivery[a] \in {"QUEUED", "DELIVERING"}
                     => generation[source[a]] = "VALIDATED"

\* At most one generation of the session is alive, although the command that
\* starts one only looks at the generations of its own turn.
OneLiveGeneration == \A g, h \in Live : g = h

\* A live generation was started from the latest turn, board and epoch.  Only
\* the transcript may have moved on: finalizing an utterance leaves output in
\* preparation alone.
LiveGenerationIsCurrent ==
  \A g \in Live : /\ basis[g].turn = lastTurn
                  /\ basis[g].board = boardRevision
                  /\ basis[g].epoch = contextEpoch

\* There is one live generation at most, and it is the current one.
LiveGenerationIsTheCurrentOne == OneLiveGeneration /\ LiveGenerationIsCurrent

\* A completed or archived session has nothing in preparation, nothing on its
\* way to the candidate and no open input episode.
TerminalSessionIsQuiet ==
  session \in {"COMPLETED", "ARCHIVED"} =>
    /\ Live = {} /\ NoActiveEpisode
    /\ \A a \in Atoms : delivery[a] \notin {"QUEUED", "DELIVERING"}

\* An atom begins to be delivered only while its generation is validated and
\* its basis is the state's own.
StartsOnlyCurrentOutput ==
  [][\A a \in Atoms :
       delivery[a] # "DELIVERING" /\ delivery'[a] = "DELIVERING" =>
         /\ generation'[source[a]] = "VALIDATED"
         /\ Compatible(source[a])
         /\ session \notin {"COMPLETED", "ARCHIVED"}]_vars

\* What was disclosed stays disclosed, and an atom that was cancelled is never
\* shown later.
DisclosureIsFinal ==
  [][\A a \in Atoms : \A S \in {Disclosed, {"CANCELLED"}} :
       delivery[a] \in S => delivery'[a] \in S]_vars

-----------------------------------------------------------------------------
(* The session implements the exposure ledger. *)

Phase(status) ==
  CASE status = "UNUSED"     -> "ABSENT"
    [] status = "QUEUED"     -> "WAITING"
    [] status = "DELIVERING" -> "UNDER_WAY"
    [] status = "CANCELLED"  -> "WITHDRAWN"
    [] status \in Disclosed  -> "DISCLOSED"

Exposure == INSTANCE ExposureLedger
              WITH phase <- [a \in Atoms |-> Phase(delivery[a])]

\* Every command moves its atoms along the abstract life of a delivery and adds
\* to the ledger exactly what it discloses.
ImplementsExposureLedger == Exposure!Spec
=============================================================================
