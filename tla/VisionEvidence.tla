--------------------------- MODULE VisionEvidence ---------------------------
(***************************************************************************)
(* The whiteboard vision of one session, from the uploaded picture to the  *)
(* student evidence drawn from it                                          *)
(* (apps/server/src/whiteboard-vision-coordinator.ts,                      *)
(* packages/interview-engine/src/vision-request-manager.ts,                *)
(* vision-admission.ts, and the vision commands of turn-coordinator.ts     *)
(* with their reducer).                                                    *)
(*                                                                         *)
(* A picture shows a region of the board as it was at one revision.  The   *)
(* request is made durable, a backend that may answer late, wrongly or     *)
(* never is asked, its answer is admitted against the board of that        *)
(* moment, and a bridge of three durable commands turns the observation    *)
(* into evidence.  The board keeps changing between all of these, and the  *)
(* server may stop between any two of them.                                *)
(*                                                                         *)
(* Abstracted: the picture, what is seen in it and the coordinates of the  *)
(* region.  A region is known by the shapes inside it and their revisions; *)
(* every request is about one region, and every proposal about one key, so *)
(* that requests contend for both.  A backend and an interpreter are       *)
(* configured, the same before and after a restart.                        *)
(***************************************************************************)
EXTENDS Naturals, Sequences, FiniteSets

CONSTANTS
  Requests,     \* the ids of uploads; a client that retries reuses the id
  Shapes,       \* the shapes that may be on the board
  Inside,       \* those inside the region at first
  MaxUploads,   \* how many uploads, of all sessions, the coordinator has in flight
  MaxInFlight,  \* how many backend executions a manager reserves
  MaxAnswers,   \* how many answers the coordinator remembers
  Edits,        \* the changes of shapes that are made: pairs of a shape and a kind
  MaxBoard,     \* bound: board revisions
  MaxCrashes    \* bound: stops of the server

ASSUME InsideAssumption == Inside \subseteq Shapes
ASSUME EditsAssumption == Edits \subseteq Shapes \X {"EDIT", "MOVE", "DELETE", "UNDO"}
ASSUME BoundsAssumption ==
  /\ MaxUploads \in Nat \ {0} /\ MaxInFlight \in Nat \ {0} /\ MaxAnswers \in Nat \ {0}
  /\ MaxBoard \in Nat /\ MaxCrashes \in Nat

VARIABLES
  board,     \* durable: boardRevision, boardShapeAuthorityKnown, boardShapes
  open,      \* durable: state.status is ACTIVE
  basis,     \* the client's: what each upload shows, the same in every retry
  req,       \* durable: state.visionRequests
  accepted,  \* durable: the accepted requests in order of resultSequence
  processed, \* durable: the answer of the command vision-evidence-commit:<id>
  history,   \* durable: state.evidenceHistory of the key
  pc,        \* where the processRequest of an upload is
  admission, \* the board revision its result was admitted at
  result,    \* evidenceResult.committed in completeEvidenceBridge
  slots,     \* executionReservations of the manager
  running,   \* the backend executions that have not settled
  memory,    \* tombstones of the coordinator, the oldest first
  recovery,  \* the promise of ensureRecovered
  pending,   \* the candidates recoverPendingVisionEvidence has left
  told,      \* the client's: the answers it has been given
  crashes

durable == <<board, open, req, accepted, processed, history>>
volatile == <<pc, admission, result, slots, running, memory, recovery, pending>>
visionVars == <<durable, basis, volatile, told, crashes>>

NoBasis == [board |-> 0, view |-> {}]
Unknown == "UNKNOWN"

Request(status, admittedAt, bridge) ==
  [status |-> status, admittedAt |-> admittedAt, bridge |-> bridge]

VisionTypeOK ==
  /\ board \in [rev : 1..(MaxBoard + 1), known : BOOLEAN,
                shape : [Shapes -> [rev : Nat, inside : BOOLEAN, there : BOOLEAN]]]
  /\ open \in BOOLEAN
  /\ basis \in [Requests -> [board : 0..(MaxBoard + 1), view : SUBSET (Shapes \X Nat)]]
  /\ req \in [Requests -> [status : {"NONE", "PENDING", "ACCEPTED", "DISCARDED"},
                           admittedAt : 0..(MaxBoard + 1),
                           bridge : {"NONE", "PENDING", "PROPOSED", "DECLINED",
                                     "COMMITTED", "REFUSED"}]]
  /\ accepted \in Seq(Requests)
  /\ processed \in [Requests -> {Unknown, "COMMITTED", "REFUSED"}]
  /\ history \in Seq([request : Requests, status : {"ACTIVE", "SUPERSEDED", "STALE"}])
  /\ pc \in [Requests -> {"IDLE", "RECOVER", "REQUEST", "SUBMIT", "BACKEND", "RESULT",
                          "DISCARD", "BRIDGE"}]
  /\ admission \in [Requests -> 0..(MaxBoard + 1)]
  /\ result \in [Requests -> {Unknown, "COMMITTED", "REFUSED"}]
  /\ slots \in SUBSET Requests
  /\ running \in SUBSET Requests
  /\ memory \in Seq([request : Requests, answer : {"ACCEPTED", "REJECTED"}])
  /\ recovery \in {"NEEDED", "RUNNING", "DONE"}
  /\ pending \in Seq(Requests)
  /\ told \in [Requests -> SUBSET {"ACCEPTED", "REJECTED", "TURNED_AWAY"}]
  /\ crashes \in 0..MaxCrashes

(***************************************************************************)
(* Freshness.                                                              *)
(***************************************************************************)

\* The shapes inside the region with their revisions: relevantShapeIdsForRegion.
View(shape) ==
  {<<s, shape[s].rev>> : s \in {t \in Shapes : shape[t].there /\ shape[t].inside}}

\* acceptedVisionObservationRemainsFresh: every shape the picture was bound to
\* is at its revision, and no other is inside the region.
RemainsFresh(r, shape) == basis[r].view = View(shape)

\* assessVisionRequestFreshness against authorityFor: a board that has advanced
\* is no obstacle while the region is as it was; an unknown one always is.
Fresh(r) == board.known /\ RemainsFresh(r, board.shape)

\* The checks processRequest makes before it asks for anything: the session,
\* the shape authority, the exact revision, the region and its shapes.
Current(r) ==
  /\ open /\ board.known
  /\ board.rev = basis[r].board
  /\ basis[r].view # {}
  /\ RemainsFresh(r, board.shape)

(***************************************************************************)
(* The evidence of the key.                                                *)
(***************************************************************************)

\* visionEvidenceWasCommitted: some record, of whatever status, cites r.
WasCommitted(r) == \E i \in DOMAIN history : history[i].request = r

Superseded == [i \in DOMAIN history |->
  IF history[i].status = "ACTIVE" THEN [history[i] EXCEPT !.status = "SUPERSEDED"]
  ELSE history[i]]

\* STUDENT_EVIDENCE_UPDATED: the new record supersedes the active one.
Updated(r) == Append(Superseded, [request |-> r, status |-> "ACTIVE"])

\* invalidateVisionDerivedEvidence: the active record, if an accepted
\* observation it cites is stale on the resulting board.
Stale(r, known, shape) ==
  req[r].status = "ACCEPTED" /\ (~known \/ ~RemainsFresh(r, shape))
Invalidated(known, shape) == [i \in DOMAIN history |->
  IF history[i].status = "ACTIVE" /\ Stale(history[i].request, known, shape)
  THEN [history[i] EXCEPT !.status = "STALE"] ELSE history[i]]

(***************************************************************************)
(* The board and the session (external to vision, through the same writer).*)
(***************************************************************************)

VisionInit ==
  /\ board = [rev |-> 1, known |-> TRUE,
              shape |-> [s \in Shapes |->
                          [rev |-> 1, inside |-> s \in Inside, there |-> TRUE]]]
  /\ open = TRUE
  /\ basis = [r \in Requests |-> NoBasis]
  /\ req = [r \in Requests |-> Request("NONE", 0, "NONE")]
  /\ accepted = <<>> /\ history = <<>>
  /\ processed = [r \in Requests |-> Unknown]
  /\ pc = [r \in Requests |-> "IDLE"]
  /\ admission = [r \in Requests |-> 0]
  /\ result = [r \in Requests |-> Unknown]
  /\ slots = {} /\ running = {}
  /\ memory = <<>> /\ pending = <<>>
  /\ recovery = "NEEDED"
  /\ told = [r \in Requests |-> {}]
  /\ crashes = 0

\* A shape after an edit, a move into or out of the region, a deletion, or the
\* undo of one, which brings it back at the revision it had.
Edited(shape, kind) ==
  CASE kind = "EDIT"   -> [shape EXCEPT !.rev = @ + 1]
    [] kind = "MOVE"   -> [shape EXCEPT !.rev = @ + 1, !.inside = ~@]
    [] kind = "DELETE" -> [shape EXCEPT !.there = FALSE]
    [] kind = "UNDO"   -> [shape EXCEPT !.there = TRUE]

\* commitBoardMutation.
CommitBoardMutation(s, kind) ==
  /\ recovery = "DONE" /\ open /\ board.known
  /\ board.rev <= MaxBoard
  /\ board.shape[s].there <=> (kind # "UNDO")
  /\ LET shapes == [board.shape EXCEPT ![s] = Edited(@, kind)]
     IN  /\ board' = [rev |-> board.rev + 1, known |-> TRUE, shape |-> shapes]
         /\ history' = Invalidated(TRUE, shapes)
  /\ UNCHANGED <<open, basis, req, accepted, processed, volatile, told, crashes>>

\* appendBoardInput with no revision of its own: a summary-only patch,
\* after which nobody knows the shapes.
CommitSummaryPatch ==
  /\ recovery = "DONE" /\ open
  /\ board.rev <= MaxBoard
  /\ board' = [board EXCEPT !.rev = @ + 1, !.known = FALSE]
  /\ history' = Invalidated(FALSE, board.shape)
  /\ UNCHANGED <<open, basis, req, accepted, processed, volatile, told, crashes>>

CompleteSession ==
  /\ recovery = "DONE" /\ open
  /\ open' = FALSE
  /\ UNCHANGED <<board, basis, req, accepted, processed, history, volatile, told, crashes>>

(***************************************************************************)
(* An upload.                                                              *)
(***************************************************************************)

Goto(r, place) == pc' = [pc EXCEPT ![r] = place]

\* remember: the answer of r joins the tombstones, and the oldest falls out.
Remembering(r, answer) ==
  LET kept == Append(memory, [request |-> r, answer |-> answer])
  IN  IF Len(kept) > MaxAnswers THEN Tail(kept) ELSE kept

\* The upload ends with an answer, which is remembered.
Answer(r, answer) ==
  /\ Goto(r, "IDLE")
  /\ memory' = Remembering(r, answer)
  /\ told' = [told EXCEPT ![r] = @ \cup {answer}]

Answered(r) == {i \in DOMAIN memory : memory[i].request = r}

InFlight == {r \in Requests : pc[r] # "IDLE"}

\* processRequest: a remembered answer is given again, or the upload goes on.
Begin(r) ==
  IF Answered(r) = {}
  THEN Goto(r, "RECOVER") /\ UNCHANGED told
  ELSE /\ told' = [told EXCEPT ![r] = @ \cup {memory[i].answer : i \in Answered(r)}]
       /\ UNCHANGED pc

\* process: a first upload shows the board as it is when the client takes the
\* picture; a retry carries the same picture.  A second upload of an id in
\* flight joins the first.  A new one is turned away while the uploads in
\* flight, those of other sessions among them, are as many as may be; the
\* client is told RESOURCE_LIMIT, whatever it was told before, and nobody
\* remembers it.
Upload(r) ==
  /\ pc[r] = "IDLE"
  /\ basis' = IF basis[r] = NoBasis
              THEN [basis EXCEPT ![r] = [board |-> board.rev, view |-> View(board.shape)]]
              ELSE basis
  /\ \E others \in 0 .. MaxUploads :
       IF Cardinality(InFlight) + others >= MaxUploads
       THEN told' = [told EXCEPT ![r] = @ \cup {"TURNED_AWAY"}] /\ UNCHANGED pc
       ELSE Begin(r)
  /\ UNCHANGED <<durable, admission, result, slots, running, memory, recovery, pending,
                 crashes>>

\* What the recovered state says of the upload: finished before, no longer
\* current, or to be asked for.
Read(r) ==
  /\ pc[r] = "RECOVER" /\ recovery = "DONE"
  /\ CASE req[r].status = "ACCEPTED"  -> Goto(r, "BRIDGE") /\ UNCHANGED <<memory, told>>
       [] req[r].status = "DISCARDED" -> Answer(r, "REJECTED")
       [] req[r].status = "PENDING" /\ ~Current(r)
            -> Goto(r, "DISCARD") /\ UNCHANGED <<memory, told>>
       [] req[r].status = "NONE" /\ ~Current(r) -> Answer(r, "REJECTED")
       [] OTHER -> Goto(r, "REQUEST") /\ UNCHANGED <<memory, told>>
  /\ UNCHANGED <<durable, basis, admission, result, slots, running, recovery, pending,
                 crashes>>

\* discardVisionRequest: only a pending request is discarded; the upload is
\* rejected either way.
Discard(r) ==
  /\ pc[r] = "DISCARD"
  /\ req' = IF req[r].status = "PENDING"
            THEN [req EXCEPT ![r].status = "DISCARDED"] ELSE req
  /\ Answer(r, "REJECTED")
  /\ UNCHANGED <<board, open, accepted, processed, history, basis, admission, result,
                 slots, running, recovery, pending, crashes>>

\* requestVision, under the id of the upload: replayed if it was processed
\* before, refused when the board has moved or the session has ended.
RequestVision(r) ==
  /\ pc[r] = "REQUEST"
  /\ \/ /\ req[r].status # "NONE"
        /\ Goto(r, "SUBMIT")
        /\ UNCHANGED <<req, memory, told>>
     \/ /\ req[r].status = "NONE" /\ open /\ board.rev = basis[r].board
        /\ req' = [req EXCEPT ![r].status = "PENDING"]
        /\ Goto(r, "SUBMIT")
        /\ UNCHANGED <<memory, told>>
     \/ /\ req[r].status = "NONE" /\ board.rev # basis[r].board
        /\ Answer(r, "REJECTED")
        /\ UNCHANGED req
     \/ /\ req[r].status = "NONE" /\ ~open /\ board.rev = basis[r].board
        /\ Goto(r, "IDLE")        \* the error reaches the client, unremembered
        /\ UNCHANGED <<req, memory, told>>
  /\ UNCHANGED <<board, open, accepted, processed, history, basis, admission, result,
                 slots, running, recovery, pending, crashes>>

\* submit and register: a reservation if one is free and the region is as it
\* was pictured; the backend starts with it.
Submit(r) ==
  /\ pc[r] = "SUBMIT"
  /\ \/ /\ Cardinality(slots) < MaxInFlight /\ Fresh(r)
        /\ slots' = slots \cup {r} /\ running' = running \cup {r}
        /\ Goto(r, "BACKEND")
     \/ /\ Cardinality(slots) >= MaxInFlight \/ ~Fresh(r)
        /\ Goto(r, "DISCARD")
        /\ UNCHANGED <<slots, running>>
  /\ UNCHANGED <<durable, basis, admission, result, memory, recovery, pending, told,
                 crashes>>

\* The reservations after finalize: a backend that has not settled keeps its own.
Reserved(r) == IF r \in running THEN slots ELSE slots \ {r}

\* The backend settles, and its reservation is released.  An answer nobody
\* waits for is dropped; one that is waited for is admitted if it is well
\* formed and the region is still as pictured (admitResult).
BackendSettles(r, wellFormed) ==
  /\ r \in running
  /\ running' = running \ {r} /\ slots' = slots \ {r}
  /\ IF pc[r] # "BACKEND" THEN UNCHANGED <<pc, admission>>
     ELSE IF wellFormed /\ Fresh(r)
     THEN Goto(r, "RESULT") /\ admission' = [admission EXCEPT ![r] = board.rev]
     ELSE Goto(r, "DISCARD") /\ UNCHANGED admission
  /\ UNCHANGED <<durable, basis, result, memory, recovery, pending, told, crashes>>

\* A bug: the client is answered and the durable request left pending.
SettledUnrecorded(r) ==
  /\ pc[r] = "BACKEND"
  /\ slots' = Reserved(r)
  /\ Answer(r, "REJECTED")
  /\ UNCHANGED <<durable, basis, admission, result, running, recovery, pending, crashes>>

\* cancel by the timeout of processRequest, or supersedeStaleRequests after a
\* board mutation: the request is settled, the backend only asked to stop.
Settled(r) ==
  /\ pc[r] = "BACKEND"
  /\ slots' = Reserved(r)
  /\ Goto(r, "DISCARD")
  /\ UNCHANGED <<durable, basis, admission, result, running, memory, recovery, pending,
                 told, crashes>>

\* A bug: the timer of processRequest is never armed.
Unarmed(r) == FALSE /\ Settled(r)

Timeout(r) == Settled(r)
Supersede(r) == board.known /\ ~Fresh(r) /\ Settled(r)

\* Nothing has been committed to the board since the result was admitted.
AdmittedNow(r) == admission[r] = board.rev

\* processVisionResult.
ProcessVisionResult(r) ==
  /\ pc[r] = "RESULT"
  /\ IF req[r].status = "PENDING" /\ AdmittedNow(r)
     THEN /\ req' = [req EXCEPT ![r] = Request("ACCEPTED", admission[r], "PENDING")]
          /\ accepted' = Append(accepted, r)
          /\ Goto(r, "BRIDGE")
          /\ UNCHANGED <<memory, told>>
     ELSE /\ req' = IF req[r].status = "PENDING"
                    THEN [req EXCEPT ![r].status = "DISCARDED"] ELSE req
          /\ Answer(r, "REJECTED")
          /\ UNCHANGED accepted
  /\ UNCHANGED <<board, open, processed, history, basis, admission, result, slots,
                 running, recovery, pending, crashes>>

(***************************************************************************)
(* The bridge from an accepted observation to evidence.  The upload walks  *)
(* it, or the recovery of the session does; never both for one request.    *)
(***************************************************************************)

Walks(r) == pc[r] = "BRIDGE" \/ (pending # <<>> /\ Head(pending) = r)

\* The bridge of r ends: its upload is accepted, or recovery goes on.
Crossed(r) ==
  IF pc[r] = "BRIDGE"
  THEN Answer(r, "ACCEPTED") /\ UNCHANGED <<recovery, pending>>
  ELSE /\ pending' = Tail(pending)
       /\ recovery' = IF Len(pending) = 1 THEN "DONE" ELSE recovery
       /\ UNCHANGED <<pc, memory, told>>

\* recordVisionEvidenceBridgeDecision: what the interpreter made of it.
Decide(r, bridge) ==
  /\ Walks(r) /\ req[r].bridge = "PENDING"
  /\ bridge \in {"PROPOSED", "DECLINED"}
  /\ req' = [req EXCEPT ![r].bridge = bridge]
  /\ UNCHANGED <<board, open, accepted, processed, history, basis, volatile, told, crashes>>

\* A bug: the freshness of the observation is not asked for again.
AnyBoard(r) == TRUE

\* The board is the one the observation was admitted on (requiredBoardRevision).
BoardUnchanged(r) == board.rev = req[r].admittedAt

\* A bug: every attempt is a command of its own.
NeverProcessed(r) == FALSE

\* A command processed before is answered as it was, and changes nothing.
AlreadyProcessed(r) == processed[r] # Unknown

\* processEvidenceProposal under the id vision-evidence-commit:<id>.  Its other
\* reasons to refuse (problem, confidence, value) do not depend on time.
ProcessEvidenceProposal(r, allowed) ==
  /\ Walks(r) /\ req[r].bridge = "PROPOSED" /\ result[r] = Unknown
  /\ IF AlreadyProcessed(r)
     THEN /\ result' = [result EXCEPT ![r] = processed[r]]
          /\ UNCHANGED <<processed, history>>
     ELSE LET verdict == IF allowed /\ BoardUnchanged(r) THEN "COMMITTED" ELSE "REFUSED"
          IN  /\ processed' = [processed EXCEPT ![r] = verdict]
              /\ result' = [result EXCEPT ![r] = verdict]
              /\ history' = IF verdict = "COMMITTED" THEN Updated(r) ELSE history
  /\ UNCHANGED <<board, open, req, accepted, basis, pc, admission, slots, running, memory,
                 recovery, pending, told, crashes>>

\* recordVisionEvidenceBridgeCompletion: throws unless the answer agrees with
\* the history, and then the bridge can never be crossed.
RecordCompletion(r) ==
  /\ Walks(r) /\ req[r].bridge = "PROPOSED" /\ result[r] # Unknown
  /\ WasCommitted(r) <=> (result[r] = "COMMITTED")
  /\ req' = [req EXCEPT ![r].bridge = result[r]]
  /\ result' = [result EXCEPT ![r] = Unknown]
  /\ Crossed(r)
  /\ UNCHANGED <<board, open, accepted, processed, history, basis, admission, slots,
                 running, crashes>>

\* completeEvidenceBridge finds nothing left to do.
NothingLeft(r) ==
  /\ Walks(r) /\ req[r].bridge \in {"DECLINED", "COMMITTED", "REFUSED"}
  /\ Crossed(r)
  /\ UNCHANGED <<durable, basis, admission, result, slots, running, crashes>>

(***************************************************************************)
(* A stop of the server, and the recovery after it.                        *)
(***************************************************************************)

Crash ==
  /\ crashes < MaxCrashes
  /\ crashes' = crashes + 1
  /\ pc' = [r \in Requests |-> "IDLE"]
  /\ admission' = [r \in Requests |-> 0]
  /\ result' = [r \in Requests |-> Unknown]
  /\ slots' = {} /\ running' = {} /\ memory' = <<>> /\ pending' = <<>>
  /\ recovery' = "NEEDED"
  /\ UNCHANGED <<durable, basis, told>>

\* The accepted requests whose bridge was left half way, the oldest first.
Candidates ==
  SelectSeq(accepted, LAMBDA r : req[r].bridge \in {"PENDING", "PROPOSED"})

\* ensureRecovered runs recoverPendingVisionEvidence before anything else may
\* use the session.
StartRecovery ==
  /\ recovery = "NEEDED"
  /\ pending' = Candidates
  /\ recovery' = IF Candidates = <<>> THEN "DONE" ELSE "RUNNING"
  /\ UNCHANGED <<durable, basis, pc, admission, result, slots, running, memory, told,
                 crashes>>

\* It is started by an upload, or by any other use of the session.
EnsureRecovered(r) == pc[r] = "RECOVER" /\ StartRecovery

Bridge(r) ==
  \/ \E bridge \in {"PROPOSED", "DECLINED"} : Decide(r, bridge)
  \/ \E allowed \in BOOLEAN : ProcessEvidenceProposal(r, allowed)
  \/ RecordCompletion(r)
  \/ NothingLeft(r)

Process(r) ==
  \/ EnsureRecovered(r) \/ Read(r) \/ Discard(r) \/ RequestVision(r) \/ Submit(r)
  \/ Timeout(r) \/ ProcessVisionResult(r) \/ Bridge(r)

VisionNext ==
  \/ \E edit \in Edits : CommitBoardMutation(edit[1], edit[2])
  \/ CommitSummaryPatch
  \/ CompleteSession
  \/ \E r \in Requests :
       \/ Upload(r) \/ Process(r) \/ Supersede(r)
       \/ \E wellFormed \in BOOLEAN : BackendSettles(r, wellFormed)
  \/ StartRecovery
  \/ Crash

VisionSpec == VisionInit /\ [][VisionNext]_visionVars

\* The server runs what it has started: the commands of an upload and of the
\* recovery, and the timer of processRequest.  Nothing is assumed of the
\* backend, of the client, or of the board.
Fairness == \A r \in Requests : WF_visionVars(Process(r))
FairVisionSpec == VisionSpec /\ Fairness

(***************************************************************************)
(* Properties.                                                             *)
(***************************************************************************)

\* Evidence that is in force and was drawn from a picture still shows the
\* board: the shapes of the region are those of the picture, at the revisions
\* it was taken at.  The board moves on while the backend looks, while the
\* bridge is crossed and long after; processVisionResult, requiredBoardRevision
\* and invalidateVisionDerivedEvidence each close one of the three gaps.
EvidenceInForceIsFresh ==
  \A i \in DOMAIN history : history[i].status = "ACTIVE" => Fresh(history[i].request)

\* One observation is evidence at most once, whatever stops and retries come
\* between its commands, and a bridge that says it committed evidence did so.
EvidenceIsCountedOnce ==
  /\ \A i, j \in DOMAIN history : history[i].request = history[j].request => i = j
  /\ \A r \in Requests :
       req[r].bridge \in {"COMMITTED", "REFUSED"}
         => ((\E i \in DOMAIN history : history[i].request = r)
               <=> req[r].bridge = "COMMITTED")

\* A client that asks again is told what it was told before, though the answer
\* has been forgotten, the server has stopped, and the backend has answered
\* late; and a client told ACCEPTED finds the observation in the record.  But
\* not by the coordinator's own limit: who is turned away by it may be told
\* anything later, and may have been told anything before.
TheAnswerStands ==
  \A r \in Requests :
    /\ Cardinality(told[r] \ {"TURNED_AWAY"}) <= 1
    /\ "ACCEPTED" \in told[r] => req[r].status = "ACCEPTED"

\* No more backends run than were reserved for, also when a backend that was
\* cancelled, timed out or superseded takes its time to stop
\* (vision-request-manager.ts, finalize and releaseExecutionSlot).
BackendsAreBounded == Cardinality(running) <= MaxInFlight

\* Every upload ends, though its backend may never answer and the board may
\* change under it at any time.
EveryUploadEnds == \A r \in Requests : pc[r] # "IDLE" ~> pc[r] = "IDLE"

=============================================================================
