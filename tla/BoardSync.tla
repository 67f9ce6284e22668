------------------------------ MODULE BoardSync ------------------------------
(***************************************************************************)
(* AuthoritativeBoardSyncCoordinator between the student's canvas and the  *)
(* server's board.  Every change of the canvas becomes a mutation of the   *)
(* queue; one drain at a time sends the head of the queue, based on the    *)
(* last revision it heard of, twice if it must and with the same RequestId.*)
(* synchronize compares canvas and board at the start of a session, when it*)
(* is recovered and when a pause ends (useInterviewSession), and whenever  *)
(* the editor is mounted again, whatever is edited, queued or on its way   *)
(* meanwhile.                                                              *)
(*                                                                         *)
(* A request may be lost, served long after its caller gave up, or served  *)
(* without its answer arriving.  A shape is the revision its content has:  *)
(* every change of content gives the shape a new revision, 0 is absent.    *)
(***************************************************************************)
EXTENDS Naturals, Sequences, SequencesExt, FiniteSets

CONSTANTS Shapes,
          Drawn,      \* the shapes on the canvas before the session starts
          MaxEdits,   \* bound: changes of the canvas
          MaxForeign, \* bound: changes committed by another window
          MaxVisits,  \* bound: mounts of the editor, resumptions, recoveries
          MaxPending  \* MAX_PENDING_MUTATIONS

ASSUME BoundsAssumption == {MaxEdits, MaxForeign, MaxVisits, MaxPending} \subseteq Nat
ASSUME DrawnAssumption == Drawn \subseteq Shapes

MaxAttempts == 2                     \* MAX_TRANSPORT_ATTEMPTS
Syncs == 1 .. MaxVisits + 1
Ids   == 1 .. MaxEdits + MaxVisits + 1   \* RequestIds: of the edits in their order, of the uploads
Unknown == MaxEdits + MaxForeign + MaxVisits + 2 \* authoritativeRevision is undefined

VARIABLES canvas,   \* the student's shapes in the editor
          deleted,  \* the revision each deleted shape had
          board,    \* state.boardShapes of the server
          history,  \* the board at each BoardRevision
          processed,\* the server's outcome of each RequestId
          net,      \* commit requests that have not been served
          phase,    \* where the hook is in the life of the session
          bootstrap,\* boardBootstrapSessionRef allows the first upload
          status, authority, pending, recent, epoch, \* the coordinator's fields
          call,     \* its drain: the commit it awaits
          sync,     \* the calls of synchronize
          entry,    \* every mutation that was enqueued, and its promise
          astray,   \* auxiliary: what is said of the canvas was decided past an edit or an answer
          left      \* what the bounds still allow

server    == <<board, history, processed>>
coord     == <<status, authority, pending, recent, epoch>>
boardVars == <<canvas, deleted, server, net, phase, bootstrap, coord, call, sync, entry, astray, left>>

NoCall   == [id |-> 0, base |-> Unknown, epoch |-> 0, attempt |-> 0, reply |-> "NONE", rev |-> Unknown]
NoEntry  == [ops |-> {}, attempts |-> 0, result |-> "UNUSED"]
NoSync   == [at |-> "UNUSED", epoch |-> 0, local |-> [s \in Shapes |-> 0],
             remote |-> [s \in Shapes |-> 0], rev |-> Unknown, queued |-> FALSE, id |-> 0]
Contents == [Shapes -> 0 .. MaxEdits + 1]
Op       == [shape : Shapes, from : 0 .. MaxEdits + 1, to : 0 .. MaxEdits + 1]
Revs     == 0 .. Unknown

\* A promise is resolved by an answer, or by a synchronize that finds the board as the canvas was;
\* it is forgotten when its mutation is taken off the queue as if it were another (Answered).
Results  == {"UNUSED", "PENDING", "ACKNOWLEDGED", "MATCHED", "REJECTED", "FORGOTTEN"}
Entry    == [ops : SUBSET Op, attempts : Nat, result : Results]
Request  == [id : Ids, base : Revs, attempt : Nat]
Outcome  == [base : Revs, committed : BOOLEAN, rev : Revs]
Commit   == [id : Ids \cup {0}, base : Revs, epoch : Nat, attempt : Nat,
             reply : {"NONE", "OK", "REJECTED", "ERROR"}, rev : Revs]
SyncCall == [at : {"UNUSED", "READING", "READ", "COMPARING", "BOOTSTRAP", "DONE"}, epoch : Nat,
             local : Contents, remote : Contents, rev : Revs, queued : BOOLEAN, id : Ids \cup {0}]

\* Every variable holds a value of its kind (authoritative-board-sync.ts:17-57).
BoardTypeOK ==
    /\ canvas \in Contents /\ deleted \in Contents /\ board \in Contents
    /\ history \in Seq(Contents) /\ Len(history) \in 1 .. Unknown
    /\ processed \in [Ids -> Outcome] /\ net \subseteq Request
    /\ phase \in {"START", "ACTIVE", "PAUSED", "WAITING", "RESUMING", "OVER"}
    /\ bootstrap \in BOOLEAN
    /\ status \in {"UNINITIALIZED", "SYNCED", "PENDING", "UNSYNCHRONIZED"}
    /\ authority \in Revs /\ pending \in Seq(Ids) /\ Len(pending) <= MaxPending
    /\ recent \subseteq [id : Ids \cup {0}, ops : SUBSET Op]
    /\ epoch \in Nat /\ call \in Commit
    /\ sync \in [Syncs -> SyncCall] /\ entry \in [Ids -> Entry] /\ astray \in BOOLEAN
    /\ left \in [edits : 0 .. MaxEdits, foreign : 0 .. MaxForeign, visits : 0 .. MaxVisits]

BoardInit ==
    /\ canvas = [s \in Shapes |-> IF s \in Drawn THEN 1 ELSE 0]
    /\ deleted = [s \in Shapes |-> 0]
    /\ board = [s \in Shapes |-> 0] /\ history = <<board>>
    /\ processed = [i \in Ids |-> [base |-> Unknown, committed |-> FALSE, rev |-> 0]]
    /\ net = {} /\ phase = "START" /\ bootstrap = TRUE
    /\ status = "UNINITIALIZED" /\ authority = Unknown /\ pending = <<>> /\ recent = {}
    /\ epoch = 1 /\ call = NoCall
    /\ sync = [k \in Syncs |-> IF k = 1 THEN [NoSync EXCEPT !.at = "READING", !.epoch = 1,
                                                            !.local = canvas] ELSE NoSync]
    /\ entry = [i \in Ids |-> NoEntry] /\ astray = FALSE
    /\ left = [edits |-> MaxEdits, foreign |-> MaxForeign, visits |-> MaxVisits]

-----------------------------------------------------------------------------
(* Helpers of the coordinator *)

Draining == call.id # 0
Revision == Len(history) - 1

\* canBindCurrentCanvasToAuthority
CanBind == status = "SYNCED" /\ ~Draining /\ pending = <<>> /\ authority # Unknown

Quiescent == ~Draining /\ pending = <<>>

\* Two adds or updates are never equal, a content has one revision of its own;
\* two deletions of one shape at one revision are.
Fingerprint(i, ops) ==
    IF \A o \in ops : o.to = 0 THEN [id |-> 0, ops |-> ops] ELSE [id |-> i, ops |-> ops]

Settled(entries, ids, result) ==
    [i \in Ids |-> IF i \in ids /\ entries[i].result = "PENDING"
                   THEN [entries[i] EXCEPT !.result = result] ELSE entries[i]]

\* What the drain sends next: the head of queue q, based on revision r, in
\* epoch e; or it is over.
SendHead(q, r, e, entries) ==
    IF q = <<>>
    THEN call' = NoCall /\ entry' = entries /\ UNCHANGED net
    ELSE LET n == entries[Head(q)].attempts + 1 IN
         /\ call' = [NoCall EXCEPT !.id = Head(q), !.base = r, !.epoch = e, !.attempt = n]
         /\ entry' = [entries EXCEPT ![Head(q)].attempts = n]
         /\ net' = net \cup {[id |-> Head(q), base |-> r, attempt |-> n]}

\* failClosed, by a caller that leaves the drain alone.
FailClosed ==
    /\ epoch' = epoch + 1 /\ status' = "UNSYNCHRONIZED" /\ pending' = <<>>
    /\ entry' = Settled(entry, Range(pending), "REJECTED")
    /\ UNCHANGED recent

\* enqueuePrepared of ops with RequestId i, based on revision r: refused at the
\* limit of the queue, else queued and, unless a drain is running, sent.
Enqueue(i, ops, r) ==
    IF Len(pending) >= MaxPending
    THEN FailClosed /\ UNCHANGED <<call, net>>
    ELSE LET queued == [entry EXCEPT ![i] = [ops |-> ops, attempts |-> 0, result |-> "PENDING"]] IN
         /\ pending' = Append(pending, i)
         /\ status' = "PENDING"
         /\ IF Draining THEN entry' = queued /\ UNCHANGED <<call, net>>
                        ELSE SendHead(pending', r, epoch, queued)
         /\ UNCHANGED <<recent, epoch>>

-----------------------------------------------------------------------------
(* The student edits *)

\* The fingerprint is among the recent or the pending ones.
Repeated(i, ops) ==
    \/ Fingerprint(i, ops) \in recent
    \/ \E j \in Range(pending) : Fingerprint(j, entry[j].ops) = Fingerprint(i, ops)

\* submit: what is taken for a repetition stays on the canvas and is not queued.
Submit(i, ops) ==
    \/ /\ status = "UNSYNCHRONIZED"
       /\ UNCHANGED <<coord, call, net, entry, astray>>
    \/ /\ status # "UNSYNCHRONIZED" /\ Repeated(0, ops)
       /\ astray' = TRUE
       /\ UNCHANGED <<coord, call, net, entry>>
    \/ /\ status # "UNSYNCHRONIZED" /\ ~Repeated(0, ops)
       /\ Enqueue(i, ops, authority)
       /\ UNCHANGED <<authority, astray>>

\* The RequestId of the next edit.
NextId == MaxEdits + 1 - left.edits

\* One transaction of the editor: add, change, delete or restore a shape.  The
\* canvas takes edits while the session is active and has been synchronized
\* once, also while it is compared with the board again.
Edit(s) ==
    /\ phase = "ACTIVE" /\ status # "UNINITIALIZED"
    /\ left.edits > 0 /\ left' = [left EXCEPT !.edits = @ - 1]
    /\ \E to \in {0, canvas[s] + 1, deleted[s]} :
         /\ to # canvas[s]
         /\ canvas[s] = 0 /\ deleted[s] # 0 => to = deleted[s]
         /\ canvas[s] # 0 => to \in {0, canvas[s] + 1}
         /\ canvas' = [canvas EXCEPT ![s] = to]
         /\ deleted' = [deleted EXCEPT ![s] = IF to = 0 THEN canvas[s] ELSE 0]
         /\ Submit(NextId, {[shape |-> s, from |-> canvas[s], to |-> to]})
    /\ UNCHANGED <<server, phase, bootstrap, sync>>

-----------------------------------------------------------------------------
(* The server, and what may happen to a request on its way *)

CurrentBase(base) == base = Revision

\* commitBoardMutation finds no reason to refuse.
Acceptable(ops, base) ==
    CurrentBase(base) /\ \A o \in ops : board[o.shape] = o.from

Applied(ops) == [s \in Shapes |-> IF \E o \in ops : o.shape = s
                                  THEN (CHOOSE o \in ops : o.shape = s).to ELSE board[s]]

Awaited(m) == call.id = m.id /\ call.attempt = m.attempt /\ call.reply = "NONE"

\* A request is served, and its answer arrives unless it is lost.  A known
\* RequestId is answered from what it led to; with another payload it fails.
\* (Repetitions nobody waits for change nothing and are dropped.)
Serve(m) ==
    /\ m \in net
    /\ LET known == processed[m.id].base # Unknown
           good  == Acceptable(entry[m.id].ops, m.base)
           rev   == IF good THEN Revision + 1 ELSE Revision
           out   == IF known THEN processed[m.id]
                             ELSE [base |-> m.base, committed |-> good, rev |-> rev]
       IN /\ processed' = [processed EXCEPT ![m.id] = out]
          /\ IF ~known /\ good
             THEN board' = Applied(entry[m.id].ops) /\ history' = Append(history, board')
             ELSE UNCHANGED <<board, history>>
          /\ \E arrives \in BOOLEAN :
               call' = IF arrives /\ Awaited(m)
                       THEN [call EXCEPT !.rev = out.rev,
                                         !.reply = CASE out.base # m.base -> "ERROR"
                                                     [] out.base = m.base /\ out.committed -> "OK"
                                                     [] OTHER -> "REJECTED"]
                       ELSE call
    /\ net' = {x \in net \ {m} : x.id # m.id \/ Awaited(x)}
    /\ UNCHANGED <<canvas, deleted, phase, bootstrap, coord, sync, entry, astray, left>>

\* The connection breaks, whatever became of the request.
TransportFails ==
    /\ Draining /\ call.reply = "NONE"
    /\ call' = [call EXCEPT !.reply = "ERROR"]
    /\ UNCHANGED <<canvas, deleted, server, net, phase, bootstrap, coord, sync, entry, astray, left>>

\* Another window of the session commits a change.
Foreign(s) ==
    /\ left.foreign > 0 /\ left' = [left EXCEPT !.foreign = @ - 1]
    /\ board' = [board EXCEPT ![s] = IF @ = 0 THEN 1 ELSE 0]
    /\ history' = Append(history, board')
    /\ UNCHANGED <<canvas, deleted, processed, net, phase, bootstrap, coord, call, sync, entry, astray>>

-----------------------------------------------------------------------------
(* The drain *)

\* Mutant: the drain stops after the mutation it sent.
NoReturn(q, entries) == SendHead(<<>>, authority', epoch', entries)

\* The finally of drain: what is still queued is drained again.
Return(q, entries) == SendHead(q, authority', epoch', entries)

Stale == call.epoch # epoch

AttemptsExhausted == entry[call.id].attempts >= MaxAttempts

\* No answer: the same request once more, then fail closed.
RetryOrFail ==
    /\ call.reply = "ERROR"
    /\ \/ /\ Stale
          /\ UNCHANGED coord
          /\ Return(pending, entry)
       \/ /\ ~Stale /\ AttemptsExhausted
          /\ epoch' = epoch + 1 /\ status' = "UNSYNCHRONIZED" /\ pending' = <<>>
          /\ UNCHANGED <<authority, recent>>
          /\ Return(<<>>, Settled(entry, Range(pending), "REJECTED"))
       \/ /\ ~Stale /\ ~AttemptsExhausted
          /\ UNCHANGED coord
          /\ SendHead(<<call.id>>, call.base, call.epoch, entry)
    /\ UNCHANGED <<canvas, deleted, server, phase, bootstrap, sync, astray, left>>

\* Mutant: a refusal is taken for an acknowledgement.
NeverRefused == FALSE

Refused == call.reply = "REJECTED"

\* Mutant: the drain sends the next mutation on the revision it began with.
KeptAuthority == authority

HeardOf == call.rev

\* The drain awaits the answer to a mutation that a synchronize has resolved meanwhile.
Overtaken == entry[call.id].result # "PENDING"

\* The promises when the first of the queue is taken off it for the one that was answered.
Shifted ==
    LET answered == Settled(entry, {call.id}, "ACKNOWLEDGED") IN
    IF Overtaken /\ pending # <<>> THEN Settled(answered, {Head(pending)}, "FORGOTTEN")
                                   ELSE answered

\* The answer arrives: take the head off the queue and go on, or fail closed.
\* The head need not be what was answered.
Answered ==
    /\ call.reply \in {"OK", "REJECTED"}
    /\ \/ /\ Stale
          /\ UNCHANGED <<coord, astray>>
          /\ Return(pending, entry)
       \/ /\ ~Stale /\ Refused
          /\ authority' = HeardOf
          /\ epoch' = epoch + 1 /\ status' = "UNSYNCHRONIZED" /\ pending' = <<>>
          /\ UNCHANGED <<recent, astray>>
          /\ Return(<<>>, Settled(entry, Range(pending), "REJECTED"))
       \/ /\ ~Stale /\ ~Refused
          /\ authority' = HeardOf
          /\ pending' = IF pending = <<>> THEN <<>> ELSE Tail(pending)
          /\ recent' = recent \cup {Fingerprint(call.id, entry[call.id].ops)}
          /\ status' = IF pending' = <<>> THEN "SYNCED" ELSE status
          /\ astray' = (astray \/ (Overtaken /\ (pending # <<>> \/ HeardOf # authority)))
          /\ UNCHANGED epoch
          /\ Return(pending', Shifted)
    /\ UNCHANGED <<canvas, deleted, server, phase, bootstrap, sync, left>>

-----------------------------------------------------------------------------
(* synchronize *)

NextSync == MaxVisits + 1 - left'.visits

Synchronize ==
    /\ epoch' = epoch + 1
    /\ sync' = [sync EXCEPT ![NextSync] = [NoSync EXCEPT !.at = "READING", !.epoch = epoch',
                                                         !.local = canvas]]

\* What the hook does when the synchronize it awaits is over.
Continued(k, ok) ==
    phase' = IF \E j \in Syncs : j > k /\ sync[j].at # "UNUSED" /\ phase # "ACTIVE" THEN phase
             ELSE CASE phase = "START"    -> "ACTIVE"
                    [] phase = "RESUMING" -> IF ok THEN "ACTIVE" ELSE "PAUSED"
                    [] OTHER              -> phase

Finish(k, ok) ==
    /\ sync' = [sync EXCEPT ![k] = [NoSync EXCEPT !.at = "DONE"]]
    /\ Continued(k, ok)

\* getBoardState is served; or it fails and the call throws.
ReadBoard(k) ==
    /\ sync[k].at = "READING"
    /\ \/ /\ sync' = [sync EXCEPT ![k].at = "READ", ![k].remote = board, ![k].rev = Revision]
          /\ UNCHANGED phase
       \/ Finish(k, FALSE)
    /\ UNCHANGED <<canvas, deleted, server, net, bootstrap, coord, call, entry, astray, left>>

\* Its answer arrives: a later synchronize, failClosed or reset has made it
\* stale, or the comparison of the contents begins.
BoardArrives(k) ==
    /\ sync[k].at = "READ"
    /\ \/ /\ sync[k].epoch # epoch /\ Finish(k, status = "SYNCED")
       \/ /\ sync[k].epoch = epoch /\ sync' = [sync EXCEPT ![k].at = "COMPARING",
                                                              ![k].queued = pending # <<>>]
          /\ UNCHANGED phase
    /\ UNCHANGED <<canvas, deleted, server, net, bootstrap, coord, call, entry, astray, left>>

\* shapesMatch and authoritativeSubsetOfLocal
Matches(k) == sync[k].local = sync[k].remote
SubsetOfLocal(k) == \A s \in Shapes : sync[k].remote[s] \in {0, sync[k].local[s]}
Missing(k) == {[shape |-> s, from |-> 0, to |-> sync[k].local[s]] :
                 s \in {s \in Shapes : sync[k].local[s] # 0 /\ sync[k].remote[s] = 0}}

\* The RequestId of the upload that synchronize k may make.
UploadId(k) == MaxEdits + k

\* The canvas was edited while it was compared.
Edited(k) == canvas # sync[k].local \/ pending' # <<>>

Changing(k) == sync[k].queued /\ pending # <<>>

\* The contents are compared: the canvas is the board, and what was queued has
\* evidently been committed; or it is not, and the first upload of a session
\* may add what is missing; or the canvas is not to be trusted.
Compared(k) ==
    /\ sync[k].at = "COMPARING"
    /\ \/ /\ Matches(k)
          /\ authority' = sync[k].rev /\ status' = "SYNCED"
          /\ IF sync[k].queued
             THEN /\ pending' = <<>>
                  /\ recent' = recent \cup {Fingerprint(i, entry[i].ops) : i \in Range(pending)}
                  /\ entry' = Settled(entry, Range(pending), "MATCHED")
             ELSE UNCHANGED <<pending, recent, entry>>
          /\ astray' = Edited(k)
          /\ Finish(k, TRUE) /\ bootstrap' = FALSE
          /\ UNCHANGED <<epoch, call, net>>
       \/ /\ ~Matches(k)
          /\ Changing(k) \/ ~bootstrap \/ ~SubsetOfLocal(k)
          /\ FailClosed /\ Finish(k, FALSE)
          /\ UNCHANGED <<authority, call, net, bootstrap, astray>>
       \/ /\ ~Matches(k) /\ ~Changing(k) /\ bootstrap /\ SubsetOfLocal(k)
          /\ authority' = sync[k].rev
          /\ Enqueue(UploadId(k), Missing(k), sync[k].rev)
          /\ astray' = (canvas # sync[k].local \/ pending # <<>>)
          /\ IF pending' = <<>>
             THEN Finish(k, FALSE)
             ELSE /\ sync' = [sync EXCEPT ![k].at = "BOOTSTRAP", ![k].id = Last(pending')]
                  /\ UNCHANGED phase
          /\ UNCHANGED bootstrap
    /\ UNCHANGED <<canvas, deleted, server, left>>

\* The upload is acknowledged or refused.
Bootstrapped(k) ==
    /\ sync[k].at = "BOOTSTRAP" /\ entry[sync[k].id].result # "PENDING"
    /\ Finish(k, status = "SYNCED")
    /\ bootstrap' = (bootstrap /\ status # "SYNCED")
    /\ UNCHANGED <<canvas, deleted, server, net, coord, call, entry, astray, left>>

-----------------------------------------------------------------------------
(* The hook *)

\* The editor is mounted again: it synchronizes whatever is under way.
MountEditor ==
    /\ phase = "ACTIVE"
    /\ left.visits > 0 /\ left' = [left EXCEPT !.visits = @ - 1]
    /\ Synchronize
    /\ UNCHANGED <<canvas, deleted, server, net, phase, bootstrap, status, authority, pending,
                   recent, call, entry, astray>>

\* pauseSession: no mutation is admitted until resumePausedSession is done.
Pause ==
    /\ phase = "ACTIVE" /\ phase' = "PAUSED"
    /\ UNCHANGED <<canvas, deleted, server, net, bootstrap, coord, call, sync, entry, astray, left>>

ResumePaused ==
    /\ phase = "PAUSED" /\ status # "UNSYNCHRONIZED"
    /\ left.visits > 0 /\ left' = [left EXCEPT !.visits = @ - 1]
    /\ phase' = "WAITING"
    /\ UNCHANGED <<canvas, deleted, server, net, bootstrap, coord, call, sync, entry, astray>>

\* awaitQuiescence settles: synchronize, or stay paused.
QueueSettles ==
    /\ phase = "WAITING" /\ Quiescent /\ UNCHANGED left
    /\ \/ /\ status = "UNSYNCHRONIZED" /\ phase' = "PAUSED"
          /\ UNCHANGED <<sync, epoch>>
       \/ /\ status # "UNSYNCHRONIZED" /\ phase' = "RESUMING"
          /\ Synchronize
    /\ UNCHANGED <<canvas, deleted, server, net, bootstrap, status, authority, pending, recent,
                   call, entry, astray>>

\* recoverSession of the same session: the coordinator is reset and replaced,
\* what it had sent may still be served.
Recover ==
    /\ phase \in {"ACTIVE", "PAUSED"} /\ left.visits > 0
    /\ left' = [left EXCEPT !.visits = @ - 1]
    /\ phase' = "START" /\ bootstrap' = FALSE
    /\ status' = "UNINITIALIZED" /\ authority' = Unknown /\ pending' = <<>> /\ recent' = {}
    /\ epoch' = 1 /\ call' = NoCall
    /\ entry' = Settled(entry, Ids, "REJECTED")
    /\ sync' = [k \in Syncs |->
                  IF k = NextSync THEN [NoSync EXCEPT !.at = "READING", !.epoch = 1, !.local = canvas]
                  ELSE IF sync[k].at = "UNUSED" THEN sync[k] ELSE [NoSync EXCEPT !.at = "DONE"]]
    /\ UNCHANGED <<canvas, deleted, server, net, astray>>

\* settleTerminalSession
End ==
    /\ phase \in {"ACTIVE", "PAUSED"} /\ phase' = "OVER" /\ bootstrap' = FALSE
    /\ status' = "UNINITIALIZED" /\ authority' = Unknown /\ pending' = <<>> /\ recent' = {}
    /\ epoch' = epoch + 1 /\ call' = NoCall
    /\ entry' = Settled(entry, Ids, "REJECTED")
    /\ sync' = [k \in Syncs |-> IF sync[k].at = "UNUSED" THEN sync[k] ELSE [NoSync EXCEPT !.at = "DONE"]]
    /\ UNCHANGED <<canvas, deleted, server, net, astray, left>>

-----------------------------------------------------------------------------
Drain    == RetryOrFail \/ Answered
SyncStep == \E k \in Syncs : ReadBoard(k) \/ BoardArrives(k) \/ Compared(k) \/ Bootstrapped(k)

BoardNext ==
    \/ \E s \in Shapes : Edit(s) \/ Foreign(s)
    \/ \E m \in net : Serve(m)
    \/ TransportFails \/ Drain \/ SyncStep
    \/ MountEditor \/ Pause \/ ResumePaused \/ QueueSettles \/ Recover \/ End

BoardSpec == BoardInit /\ [][BoardNext]_boardVars

\* A request is answered or its connection breaks.
FairBoardSpec ==
    BoardSpec /\ WF_boardVars(TransportFails) /\ WF_boardVars(Drain) /\ WF_boardVars(SyncStep)
              /\ WF_boardVars(QueueSettles)

-----------------------------------------------------------------------------
(* Properties *)

InQueue(i) == i \in Range(pending)

\* The coordinator binds the canvas to a revision only when the board had
\* exactly these shapes at that revision, whatever was lost, repeated, served
\* late, queued over a mount or committed by another window
\* (authoritative-board-sync.ts:74-85), but for what leads astray: an edit that
\* meets a synchronize, an answer that a synchronize has overtaken, a deletion
\* that is taken for a repetition.  And the next synchronize that nobody edits
\* under leads back.
BoundCanvasIsAuthority == CanBind /\ ~astray => canvas = history[authority + 1]

\* What the coordinator says of its mutations is so, whatever epochs and
\* synchronizes overlap.  One that was acknowledged has been committed, although
\* its request was repeated and its answer lost (authoritative-board-sync.ts:299-321).
\* A promise is open while its mutation is in the queue, and no longer: "every
\* mutation already admitted to this coordinator" has been settled or forgotten
\* once it is quiescent (lines 87-104).  None is forgotten unless a synchronize
\* resolved another.  And the board takes the edits in the order they were made.
PromisesAreKept ==
    /\ \A i \in Ids : entry[i].result = "ACKNOWLEDGED" => processed[i].committed
    /\ \A i \in Ids : entry[i].result = "PENDING" <=> InQueue(i)
    /\ \A i \in Ids : entry[i].result = "FORGOTTEN" => \E j \in Ids : entry[j].result = "MATCHED"
    /\ \A i, j \in 1 .. MaxEdits :
         i < j /\ processed[i].committed /\ processed[j].committed => processed[i].rev < processed[j].rev

\* Every mutation leaves the queue, and a pause can be resumed, some time: no
\* epoch, begun over a queue at work, leaves it without a drain.
EveryMutationEnds ==
    /\ \A i \in Ids : InQueue(i) ~> ~InQueue(i)
    /\ phase = "WAITING" ~> phase # "WAITING"

-----------------------------------------------------------------------------
(* What the code does not keep, for the configurations that show it. *)

\* Whatever the coordinator binds is the board.
BoundCanvasIsAlwaysAuthority == CanBind => canvas = history[authority + 1]

\* Every promise is settled.
NothingIsForgotten == \A i \in Ids : entry[i].result # "FORGOTTEN"

\* A promise that is resolved is of a mutation that was committed.
ResolvedIsCommitted ==
    \A i \in Ids : entry[i].result \in {"ACKNOWLEDGED", "MATCHED"} => processed[i].committed
=============================================================================
