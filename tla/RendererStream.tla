---------------------------- MODULE RendererStream ----------------------------
(***************************************************************************)
(* How the deliveries of one session reach the candidate's screen: the     *)
(* stream server (apps/server/src/renderer-stream-server.ts), the ledger   *)
(* it moves through the session's writer, and the browser's renderer       *)
(* client (apps/web/src/renderer-client.ts), one for each connection.      *)
(* A step ends where the code awaits.  What may come in between: other     *)
(* commands of the session, a socket that closes, a delayed or lost        *)
(* acknowledgement, a shutdown or the end of the server's process.         *)
(***************************************************************************)
EXTENDS Naturals, Sequences, SequencesExt, FiniteSets

CONSTANTS Deliveries,
          Connections, \* attach requests, in the order they arrive in
          MaxPerSession, \* connections a session may have
          MaxRetries,  \* acknowledgements sent again by a timer
          CacheLimit,  \* deliveries a renderer client keeps track of
          Audio,       \* speech: its asset may be gone when it is due
          Oversized,   \* deliveries beyond the message bound
          MaxDisturbances, \* bound: what goes wrong, or is withdrawn
          None

ASSUME RendererAssumption ==
    /\ MaxPerSession \in Nat \ {0} /\ MaxRetries \in Nat /\ CacheLimit \in Nat \ {0}
    /\ MaxDisturbances \in Nat
    /\ Audio \subseteq Deliveries /\ Oversized \subseteq Deliveries
    /\ None \notin Deliveries \cup Connections

VARIABLES
    status,    \* the ledger: what each delivery has come to
    stale,     \* the transcript moved on under what is queued
    active,    \* the session is ACTIVE
    recovered, \* this process has recovered the session
    unsent,    \* deliveries whose producer has yet to publish them
    attach,    \* the server's side of each connection
    waits,     \* the classifications an attach request waits for
    socket,    \* whether the server's socket is open
    hears,     \* connections whose closing the server is told of
    sent,      \* sentDeliveryIds of each connection
    todo,      \* what each connection's drain has left to publish
    tail,      \* publications in their order; the first one runs
    pub,       \* where the first one is, and the connection it uses
    queue,     \* commands of the stream server in the session's writer
    classify,  \* closed connections, in the order they are classified
    visited,   \* the deliveries of the first one that are done
    stopping,  \* the shutdown of the server
    wire,      \* what is on its way to each renderer client
    client,    \* whether a renderer client still reads
    entry,     \* what a renderer client tracks of each delivery
    shown,     \* what each client has presented
    mail,      \* acknowledgements on their way to the server
    left       \* disturbances still to come

ledgerVars == <<status, stale, active, recovered, unsent>>
linkVars   == <<attach, waits, socket, hears, sent, todo>>
pubVars    == <<tail, pub, queue>>
downVars   == <<classify, visited, stopping>>
clientVars == <<wire, client, entry, shown, mail>>
vars == <<ledgerVars, linkVars, pubVars, downVars, clientVars, left>>

Status == {"UNUSED", "QUEUED", "DELIVERING", "EXPOSED", "COMPLETED", "POSSIBLY_EXPOSED", "CANCELLED"}
NoPub == [step |-> "IDLE", conn |-> None, after |-> "END"]
Untracked == [phase |-> "NONE", told |-> "NOTHING", waiting |-> FALSE, failures |-> 0, flush |-> FALSE]
Entry == [phase : {"NONE", "RECEIVED", "FAILED", "EXPOSED", "COMPLETED"},
          told : {"NOTHING", "EXPOSED", "COMPLETED"},
          waiting : BOOLEAN,
          failures : 0 .. MaxRetries + 1,
          flush : BOOLEAN]
Message == [kind : {"EXPOSED", "COMPLETED", "NOT_EXPOSED"}, conn : Connections, delivery : Deliveries]

TypeOK ==
    /\ status \in [Deliveries -> Status]
    /\ stale \in BOOLEAN /\ active \in BOOLEAN /\ recovered \in BOOLEAN
    /\ unsent \in SUBSET Deliveries
    /\ attach \in [Connections -> {"NEW", "WAITING", "ATTACHED", "REMOVED", "REFUSED"}]
    /\ waits \in [Connections -> SUBSET Connections]
    /\ socket \in [Connections -> {"OPEN", "CLOSED"}]
    /\ hears \in SUBSET Connections
    /\ sent \in [Connections -> SUBSET Deliveries]
    /\ todo \in [Connections -> SUBSET Deliveries]
    /\ tail \in Seq([delivery : Deliveries, by : Connections \cup {None}])
    /\ pub \in [step : {"IDLE", "CHECK", "COMMAND", "STARTED", "SETTLED", "REFUSED", "BLOCKED"},
                conn : Connections \cup {None}, after : {"END", "REMOVE", "DESTROY"}]
    /\ queue \in Seq([op : {"RECONNECT", "MARK", "CANCEL", "CLASSIFY"}, delivery : Deliveries])
    /\ classify \in Seq(Connections)
    /\ visited \in SUBSET Deliveries
    /\ stopping \in {"NO", "DRAINING", "CLASSIFYING", "STOPPED"}
    /\ wire \in [Connections -> Seq(Deliveries)]
    /\ client \in [Connections -> {"NEW", "READING", "ENDED"}]
    /\ entry \in [Connections -> [Deliveries -> Entry]]
    /\ shown \in [Connections -> SUBSET Deliveries]
    /\ mail \in SUBSET Message
    /\ left \in 0 .. MaxDisturbances

Init ==
    /\ status = [d \in Deliveries |-> "UNUSED"]
    /\ stale = FALSE /\ active = TRUE /\ recovered = TRUE
    /\ unsent = {}
    /\ attach = [c \in Connections |-> "NEW"]
    /\ waits = [c \in Connections |-> {}]
    /\ socket = [c \in Connections |-> "OPEN"]
    /\ hears = {}
    /\ sent = [c \in Connections |-> {}]
    /\ todo = [c \in Connections |-> {}]
    /\ tail = <<>> /\ pub = NoPub /\ queue = <<>>
    /\ classify = <<>> /\ visited = {} /\ stopping = "NO"
    /\ wire = [c \in Connections |-> <<>>]
    /\ client = [c \in Connections |-> "NEW"]
    /\ entry = [c \in Connections |-> [d \in Deliveries |-> Untracked]]
    /\ shown = [c \in Connections |-> {}]
    /\ mail = {}
    /\ left = MaxDisturbances

-----------------------------------------------------------------------------
(* The rest of the session: other commands of its writer, whose order among *)
(* the stream server's own commands does not matter, so they are atomic.    *)

\* Something is withdrawn, goes wrong or ends.
Disturb == left > 0 /\ left' = left - 1

\* A proposal is accepted, or speech synthesised, against the current
\* transcript; its producer then publishes the delivery.
Queue(d) ==
    /\ active /\ recovered /\ ~stale
    /\ status[d] = "UNUSED"
    /\ status' = [status EXCEPT ![d] = "QUEUED"]
    /\ unsent' = unsent \cup {d}
    /\ UNCHANGED <<left, stale, active, recovered, linkVars, pubVars, downVars, clientVars>>

\* An utterance that began before the output was queued is finalized.
FinalizeUtterance ==
    /\ active /\ recovered /\ ~stale
    /\ \E d \in Deliveries : status[d] = "QUEUED"
    /\ stale' = TRUE
    /\ Disturb
    /\ UNCHANGED <<status, active, recovered, unsent, linkVars, pubVars, downVars, clientVars>>

\* Mutant: what is on its way is withdrawn as if it had not begun.
WithdrawnAsCancelled(s) == IF s \in {"QUEUED", "DELIVERING"} THEN "CANCELLED" ELSE s

\* What an invalidation makes of a delivery.
Withdrawn(s) == CASE s = "QUEUED" -> "CANCELLED" [] s = "DELIVERING" -> "POSSIBLY_EXPOSED" [] OTHER -> s

\* New input, speech onset or the end of the session withdraws the output.
Invalidate(ends) ==
    /\ active /\ recovered
    /\ status' = [d \in Deliveries |-> Withdrawn(status[d])]
    /\ stale' = FALSE
    /\ active' = ~ends
    /\ Disturb
    /\ UNCHANGED <<recovered, unsent, linkVars, pubVars, downVars, clientVars>>

-----------------------------------------------------------------------------
(* Connections *)

Attached == {c \in Connections : attach[c] = "ATTACHED"}
AtCapacity == Cardinality(Attached) >= MaxPerSession

\* Mutant: a connection is removed and nobody asks what it had carried.
RemovedUnclassified(C) ==
    /\ attach' = [c \in Connections |-> IF c \in C \cap Attached THEN "REMOVED" ELSE attach[c]]
    /\ UNCHANGED classify

\* removeConnection, for the attached connections among C: they give up their
\* place, and what was sent on them waits to be classified.
RemoveConnection(C) ==
    /\ attach' = [c \in Connections |-> IF c \in C \cap Attached THEN "REMOVED" ELSE attach[c]]
    /\ classify' = classify \o SetToSeq(C \cap Attached)

Waiting == {c \in Connections : attach[c] = "WAITING"}

\* handle, up to its awaits.  The classifications under way are waited for;
\* promises resume in order, so an earlier request goes first.
Request(c) ==
    /\ attach[c] = "NEW"
    /\ IF AtCapacity THEN /\ attach' = [attach EXCEPT ![c] = "REFUSED"]
                          /\ client' = [client EXCEPT ![c] = "ENDED"]
                          /\ UNCHANGED waits
       ELSE /\ attach' = [attach EXCEPT ![c] = "WAITING"]
            /\ client' = [client EXCEPT ![c] = "READING"]
            /\ waits' = [waits EXCEPT ![c] = ToSet(classify) \cup Waiting]
    /\ UNCHANGED <<left, ledgerVars, socket, hears, sent, todo, pubVars, downVars, wire, entry, shown, mail>>

Room == ~AtCapacity

\* Mutant: the classifications under way are not waited for.
ClassifiedAnyway(c) == TRUE

Classified(c) == waits[c] \cap (ToSet(classify) \cup Waiting) = {}

\* The awaits are over: recovered, and what was waited for is classified.
Attach(c) ==
    /\ attach[c] = "WAITING" /\ recovered
    /\ Classified(c)
    /\ IF active /\ stopping = "NO" /\ Room
       THEN /\ attach' = [attach EXCEPT ![c] = "ATTACHED"]
            /\ hears' = IF socket[c] = "OPEN" THEN hears \cup {c} ELSE hears
            /\ todo' = [todo EXCEPT ![c] = {d \in Deliveries : status[d] = "QUEUED"}]
            /\ UNCHANGED client
       ELSE /\ attach' = [attach EXCEPT ![c] = "REFUSED"]
            /\ client' = [client EXCEPT ![c] = "ENDED"]
            /\ UNCHANGED <<hears, todo>>
    /\ waits' = [waits EXCEPT ![c] = {}]
    /\ UNCHANGED <<left, ledgerVars, socket, sent, pubVars, downVars, wire, entry, shown, mail>>

\* The network or the client closes the socket.
SocketCloses(c) ==
    /\ attach[c] \in {"WAITING", "ATTACHED", "REMOVED"} /\ socket[c] = "OPEN"
    /\ socket' = [socket EXCEPT ![c] = "CLOSED"]
    /\ Disturb
    /\ UNCHANGED <<ledgerVars, attach, waits, hears, sent, todo, pubVars, downVars, clientVars>>

\* The response's close event, for those who registered in time.
Cleanup(c) ==
    /\ c \in hears /\ socket[c] = "CLOSED"
    /\ hears' = hears \ {c}
    /\ RemoveConnection({c})
    /\ UNCHANGED <<left, ledgerVars, waits, socket, sent, todo, pubVars, visited, stopping, clientVars>>

\* closeSession: a terminal session, or barge-in, destroys its connections.
CloseSession ==
    /\ Attached # {}
    /\ socket' = [c \in Connections |-> IF c \in Attached THEN "CLOSED" ELSE socket[c]]
    /\ RemoveConnection(Attached)
    /\ Disturb
    /\ UNCHANGED <<ledgerVars, waits, hears, sent, todo, pubVars, visited, stopping, clientVars>>

-----------------------------------------------------------------------------
(* Publications *)

Enqueue(d, c) == tail' = Append(tail, [delivery |-> d, by |-> c])

\* publishDelivery by the delivery's producer; it throws once the server stops.
Publish(d) ==
    /\ d \in unsent
    /\ unsent' = unsent \ {d}
    /\ IF stopping = "NO" THEN Enqueue(d, None) ELSE UNCHANGED tail
    /\ UNCHANGED <<left, status, stale, active, recovered, linkVars, pub, queue, downVars, clientVars>>

\* The drain of connection c: it publishes one delivery after the other, and
\* gives up with its connection when the socket is gone or publishing throws.
Drain(c) ==
    /\ todo[c] # {}
    /\ \A i \in 1 .. Len(tail) : tail[i].by # c
    /\ \/ /\ socket[c] = "CLOSED"
          /\ todo' = [todo EXCEPT ![c] = {}]
          /\ UNCHANGED <<socket, tail>>
       \/ /\ socket[c] = "OPEN" /\ stopping # "NO"
          /\ todo' = [todo EXCEPT ![c] = {}]
          /\ socket' = [socket EXCEPT ![c] = "CLOSED"]
          /\ UNCHANGED tail
       \/ \E d \in todo[c] :
             /\ socket[c] = "OPEN" /\ stopping = "NO"
             /\ todo' = [todo EXCEPT ![c] = @ \ {d}]
             /\ Enqueue(d, c)
             /\ UNCHANGED socket
    /\ UNCHANGED <<left, ledgerVars, attach, waits, hears, sent, pub, queue, downVars, clientVars>>

This == Head(tail).delivery
Used == pub.conn
At(step) == tail # <<>> /\ pub.step = step
Memo(D) == sent' = [sent EXCEPT ![Used] = D]
Finish == tail' = Tail(tail) /\ pub' = NoPub

\* The publication awaits a command of the writer; then it goes on to "after".
Await(op, after) ==
    /\ queue' = Append(queue, [op |-> op, delivery |-> This])
    /\ pub' = [pub EXCEPT !.step = "COMMAND", !.after = after]
    /\ UNCHANGED tail

\* publishDeliveryNow: the first live connection; dead ones met are removed.
Begin ==
    /\ At("IDLE")
    /\ LET live == {c \in Attached : socket[c] = "OPEN"}
       IN  /\ RemoveConnection(Attached \ live)
           /\ \/ live = {} /\ Finish
              \/ /\ \E c \in live : pub' = [NoPub EXCEPT !.step = "CHECK", !.conn = c]
                 /\ UNCHANGED tail
    /\ UNCHANGED <<left, ledgerVars, waits, socket, hears, sent, todo, queue, visited, stopping, clientVars>>

Sendable == \/ status[This] = "QUEUED"
            \/ status[This] = "DELIVERING" /\ This \notin sent[Used]

\* After ensureRecovered: is there anything to send, and anyone to send it to?
Check ==
    /\ At("CHECK") /\ recovered
    /\ \/ /\ ~Sendable \/ This \in Oversized
          /\ Finish
          /\ UNCHANGED <<attach, classify, sent, queue>>
       \/ /\ Sendable /\ This \in Audio \* its asset is gone
          /\ Await(IF status[This] = "QUEUED" THEN "CANCEL" ELSE "MARK", "END")
          /\ UNCHANGED <<attach, classify, sent>>
       \/ /\ Sendable /\ This \notin Oversized /\ socket[Used] = "CLOSED"
          /\ RemoveConnection({Used}) /\ Finish
          /\ UNCHANGED <<sent, queue>>
       \/ /\ Sendable /\ This \notin Oversized /\ socket[Used] = "OPEN"
          /\ Memo(sent[Used] \cup {This})
          /\ Await("RECONNECT", "END")
          /\ UNCHANGED <<attach, classify>>
    /\ UNCHANGED <<left, ledgerVars, waits, socket, hears, todo, visited, stopping, clientVars>>

\* The authoritative status is read again, with no await before the write.
StillDelivering == status[This] = "DELIVERING"

\* reconnect has stored DELIVERING.  The frame is sent, or held up by
\* backpressure, or the write fails with what was written unknown.
Write ==
    /\ At("STARTED")
    /\ \/ /\ ~StillDelivering
          /\ Memo(sent[Used] \ {This}) /\ Finish
          /\ UNCHANGED <<attach, classify, queue, wire>>
       \/ /\ StillDelivering /\ socket[Used] = "CLOSED"
          /\ RemoveConnection({Used}) /\ Finish
          /\ UNCHANGED <<sent, queue, wire>>
       \/ /\ StillDelivering /\ socket[Used] = "OPEN"
          /\ wire' = IF client[Used] = "READING" THEN [wire EXCEPT ![Used] = Append(@, This)] ELSE wire
          /\ \/ Finish /\ UNCHANGED queue
             \/ pub' = [pub EXCEPT !.step = "BLOCKED"] /\ UNCHANGED <<tail, queue>>
             \/ Await("MARK", "REMOVE")
          /\ UNCHANGED <<attach, classify, sent>>
    /\ UNCHANGED <<left, ledgerVars, waits, socket, hears, todo, visited, stopping, client, entry, shown, mail>>

\* waitForRendererDrain: the socket drained, or it closed or time ran out.
Unblock ==
    /\ At("BLOCKED")
    /\ \/ socket[Used] = "OPEN" /\ Finish /\ UNCHANGED queue
       \/ Await("MARK", "DESTROY")
    /\ UNCHANGED <<left, ledgerVars, linkVars, downVars, clientVars>>

\* The awaited command was the last the publication had to do.
Settle ==
    /\ At("SETTLED") /\ Finish
    /\ IF pub.after = "END"
       THEN /\ Memo(sent[Used] \ {This})
            /\ UNCHANGED <<attach, socket, classify>>
       ELSE /\ RemoveConnection({Used})
            /\ socket' = IF pub.after = "DESTROY" THEN [socket EXCEPT ![Used] = "CLOSED"] ELSE socket
            /\ UNCHANGED sent
    /\ UNCHANGED <<left, ledgerVars, waits, hears, todo, queue, visited, stopping, clientVars>>

\* Mutant: a publication that throws keeps the next one waiting.
ThrowsForGood ==
    /\ At("REFUSED")
    /\ Memo(sent[Used] \ {This})
    /\ UNCHANGED <<left, ledgerVars, attach, waits, socket, hears, todo, pubVars, downVars, clientVars>>

\* The awaited command threw.  Nothing was written; a drain that asked for the
\* publication ends, and its connection is destroyed.
Throw ==
    /\ At("REFUSED") /\ Finish
    /\ Memo(sent[Used] \ {This})
    /\ LET c == Head(tail).by
       IN  IF c = None THEN UNCHANGED <<socket, todo>>
           ELSE /\ socket' = [socket EXCEPT ![c] = "CLOSED"]
                /\ todo' = [todo EXCEPT ![c] = {}]
    /\ UNCHANGED <<left, ledgerVars, attach, waits, hears, queue, downVars, clientVars>>

-----------------------------------------------------------------------------
(* The stream server's commands, run by the session's writer one by one *)

\* The outcome of the head command, for the publication that awaits it.
Reply(step) == pub' = [pub EXCEPT !.step = step]
Ran == queue' = Tail(queue)
IsNext(op) == queue # <<>> /\ Head(queue).op = op
ledgerFrame == <<stale, active, recovered, unsent, linkVars, tail, classify, stopping, clientVars>>

\* DeliveryCoordinator.reconnect: a queued delivery starts if it is current.
Reconnect ==
    /\ IsNext("RECONNECT") /\ Ran
    /\ LET d == Head(queue).delivery
       IN  \/ /\ status[d] = "QUEUED" /\ ~stale
              /\ status' = [status EXCEPT ![d] = "DELIVERING"]
              /\ Reply("STARTED")
           \/ /\ status[d] = "QUEUED" /\ stale
              /\ Reply("REFUSED") /\ UNCHANGED status
           \/ /\ status[d] = "DELIVERING"
              /\ Reply("STARTED") /\ UNCHANGED status
           \/ /\ status[d] \notin {"QUEUED", "DELIVERING"}
              /\ Reply("SETTLED") /\ UNCHANGED status
    /\ UNCHANGED <<left, ledgerFrame, visited>>

CancelBeforeExposure ==
    /\ IsNext("CANCEL") /\ Ran
    /\ LET d == Head(queue).delivery
       IN  IF status[d] = "QUEUED" THEN /\ status' = [status EXCEPT ![d] = "CANCELLED"]
                                        /\ Reply("SETTLED")
           ELSE Reply("REFUSED") /\ UNCHANGED status
    /\ UNCHANGED <<left, ledgerFrame, visited>>

\* Only what is still on its way becomes uncertain.
Uncertain(s) == IF s = "DELIVERING" THEN "POSSIBLY_EXPOSED" ELSE s

MarkPossiblyExposed ==
    /\ \/ IsNext("MARK") /\ Reply("SETTLED") /\ UNCHANGED visited
       \/ /\ IsNext("CLASSIFY")
          /\ visited' = visited \cup {Head(queue).delivery}
          /\ UNCHANGED pub
    /\ Ran
    /\ status' = [status EXCEPT ![Head(queue).delivery] = Uncertain(@)]
    /\ UNCHANGED <<left, ledgerFrame>>

-----------------------------------------------------------------------------
(* classifyUncertainDisconnect, one closed connection after the other *)

Classifying == \E i \in 1 .. Len(queue) : queue[i].op = "CLASSIFY"

Classify ==
    /\ classify # <<>> /\ ~Classifying
    /\ \/ \E d \in sent[Head(classify)] \ visited :
            /\ queue' = Append(queue, [op |-> "CLASSIFY", delivery |-> d])
            /\ UNCHANGED <<classify, visited, sent>>
       \/ /\ sent[Head(classify)] \subseteq visited
          /\ classify' = Tail(classify) /\ visited' = {}
          /\ sent' = [sent EXCEPT ![Head(classify)] = {}]
          /\ UNCHANGED queue
    /\ UNCHANGED <<left, ledgerVars, attach, waits, socket, hears, todo, tail, pub, stopping, clientVars>>

-----------------------------------------------------------------------------
(* Shutdown and the end of the process *)

Stop ==
    /\ stopping = "NO"
    /\ stopping' = "DRAINING"
    /\ Disturb
    /\ UNCHANGED <<ledgerVars, linkVars, pubVars, classify, visited, clientVars>>

\* stopFully: the publications under way have ended.
EndConnections ==
    /\ stopping = "DRAINING" /\ tail = <<>>
    /\ stopping' = "CLASSIFYING"
    /\ socket' = [c \in Connections |-> IF c \in Attached THEN "CLOSED" ELSE socket[c]]
    /\ RemoveConnection(Attached)
    /\ UNCHANGED <<left, ledgerVars, waits, hears, sent, todo, pubVars, visited, clientVars>>

Stopped ==
    /\ stopping = "CLASSIFYING" /\ classify = <<>>
    /\ stopping' = "STOPPED"
    /\ UNCHANGED <<left, ledgerVars, linkVars, pubVars, classify, visited, clientVars>>

Restart ==
    /\ stopping = "STOPPED"
    /\ stopping' = "NO"
    /\ UNCHANGED <<left, ledgerVars, linkVars, pubVars, classify, visited, clientVars>>

\* The process ends: only the ledger is left.  What the sockets had accepted
\* may still arrive.
Crash ==
    /\ recovered
    /\ recovered' = FALSE
    /\ attach' = [c \in Connections |-> IF attach[c] = "NEW" THEN "NEW" ELSE "REMOVED"]
    /\ socket' = [c \in Connections |-> IF attach[c] = "NEW" THEN "OPEN" ELSE "CLOSED"]
    /\ unsent' = {} /\ waits' = [c \in Connections |-> {}] /\ hears' = {}
    /\ sent' = [c \in Connections |-> {}] /\ todo' = [c \in Connections |-> {}]
    /\ tail' = <<>> /\ pub' = NoPub /\ queue' = <<>>
    /\ classify' = <<>> /\ visited' = {} /\ stopping' = "NO" /\ mail' = {}
    /\ Disturb
    /\ UNCHANGED <<status, stale, active, wire, client, entry, shown>>

\* Mutant: recovery takes an unacknowledged delivery for undelivered.
RecoveredAsQueued(s) == IF s = "DELIVERING" THEN "QUEUED" ELSE s

RecoveredStatus(s) == IF s = "DELIVERING" THEN "POSSIBLY_EXPOSED" ELSE s

\* recoverUncertainDeliveries: every other command waits until it is done.
Recover ==
    /\ ~recovered
    /\ recovered' = TRUE
    /\ status' = [d \in Deliveries |-> RecoveredStatus(status[d])]
    /\ UNCHANGED <<left, stale, active, unsent, linkVars, pubVars, downVars, clientVars>>

-----------------------------------------------------------------------------
(* The renderer client of connection c *)

serverFrame == <<ledgerVars, linkVars, pubVars, downVars>>
Tracked(c) == {d \in Deliveries : entry[c][d].phase # "NONE"}

\* Only what is known to be completed at the server may be forgotten.
Evictable(c) == {d \in Tracked(c) : entry[c][d].told = "COMPLETED"}

Received == [Untracked EXCEPT !.phase = "RECEIVED"]
\* The client stops reading; what is still on its way is lost.
End(c) == /\ client' = [client EXCEPT ![c] = "ENDED"]
          /\ wire' = [wire EXCEPT ![c] = <<>>]

Busy(c) == \E d \in Deliveries : entry[c][d].phase = "RECEIVED"

\* handleMessage up to the presenter: messages are handled one at a time.
Receive(c) ==
    /\ client[c] = "READING" /\ wire[c] # <<>> /\ ~Busy(c)
    /\ LET d    == Head(wire[c])
           full == Cardinality(Tracked(c)) >= CacheLimit
           Consume == wire' = [wire EXCEPT ![c] = Tail(@)] /\ UNCHANGED client
       IN  \/ /\ d \in Tracked(c) /\ Consume
              /\ entry' = [entry EXCEPT ![c][d].flush = TRUE]
           \/ /\ d \notin Tracked(c) /\ ~full /\ Consume
              /\ entry' = [entry EXCEPT ![c][d] = Received]
           \/ /\ d \notin Tracked(c) /\ full /\ Consume
              /\ \E old \in Evictable(c) : entry' = [entry EXCEPT ![c][old] = Untracked, ![c][d] = Received]
           \/ /\ d \notin Tracked(c) /\ full /\ Evictable(c) = {} /\ End(c)
              /\ UNCHANGED entry
    /\ UNCHANGED <<left, serverFrame, shown, mail>>

Presenting(c, d) == entry[c][d].phase = "RECEIVED" /\ ~entry[c][d].waiting

\* The text is on the screen, or the speech starts.
MarkExposureBegan(c, d) ==
    /\ Presenting(c, d)
    /\ shown' = [shown EXCEPT ![c] = @ \cup {d}]
    /\ entry' = [entry EXCEPT ![c][d].phase = "EXPOSED", ![c][d].flush = TRUE]
    /\ UNCHANGED <<left, serverFrame, wire, client, mail>>

MarkPresentationCompleted(c, d) ==
    /\ entry[c][d].phase = "EXPOSED"
    /\ entry' = [entry EXCEPT ![c][d].phase = "COMPLETED", ![c][d].flush = TRUE]
    /\ UNCHANGED <<left, serverFrame, wire, client, shown, mail>>

Send(c, d, kind) ==
    /\ mail' = mail \cup {[kind |-> kind, conn |-> c, delivery |-> d]}
    /\ entry' = [entry EXCEPT ![c][d].waiting = TRUE]

\* The presenter is sure that nothing was presented.
ReportNotExposed(c, d) ==
    /\ Presenting(c, d)
    /\ Send(c, d, "NOT_EXPOSED")
    /\ Disturb
    /\ UNCHANGED <<serverFrame, wire, client, shown>>

\* The presenter fails otherwise: it may have presented the delivery.  The
\* error ends the stream.
PresentationFails(c, d) ==
    /\ Presenting(c, d)
    /\ shown' \in {shown, [shown EXCEPT ![c] = @ \cup {d}]}
    /\ entry' = [entry EXCEPT ![c][d].phase = "FAILED"]
    /\ End(c)
    /\ Disturb
    /\ UNCHANGED <<serverFrame, mail>>

\* flushAcknowledgements: exposure first, then completion.
FlushAcknowledgements(c, d) ==
    /\ entry[c][d].flush /\ ~entry[c][d].waiting
    /\ entry[c][d].phase \in {"EXPOSED", "COMPLETED"}
    /\ \/ entry[c][d].told = "NOTHING" /\ Send(c, d, "EXPOSED")
       \/ /\ entry[c][d].told = "EXPOSED" /\ entry[c][d].phase = "COMPLETED"
          /\ Send(c, d, "COMPLETED")
       \/ /\ entry[c][d].told = entry[c][d].phase
          /\ entry' = [entry EXCEPT ![c][d].flush = FALSE]
          /\ UNCHANGED mail
    /\ UNCHANGED <<left, serverFrame, wire, client, shown>>

AwaitedKind(c, d) == IF entry[c][d].phase = "RECEIVED" THEN "NOT_EXPOSED"
                     ELSE IF entry[c][d].told = "NOTHING" THEN "EXPOSED"
                     ELSE "COMPLETED"

\* Entry e learns that its acknowledgement was accepted.
Acknowledged(e, kind) ==
    IF kind = "NOT_EXPOSED" THEN Untracked
    ELSE [e EXCEPT !.told = kind, !.waiting = FALSE, !.failures = 0]

\* Entry e learns that it was refused, or nothing at all in time.  A timer
\* tries again, up to a limit; a report of non-exposure is not repeated.
NotAcknowledged(e, kind) ==
    IF kind = "NOT_EXPOSED" THEN [e EXCEPT !.phase = "FAILED", !.waiting = FALSE]
    ELSE [e EXCEPT !.waiting = FALSE, !.flush = e.failures < MaxRetries,
                   !.failures = IF e.failures > MaxRetries THEN @ ELSE @ + 1]

\* The answer to d's acknowledgement is lost or late; or it is a refusal.
Unanswered(c, d) ==
    /\ entry[c][d].waiting
    /\ entry' = [entry EXCEPT ![c][d] = NotAcknowledged(@, AwaitedKind(c, d))]
    /\ IF AwaitedKind(c, d) = "NOT_EXPOSED" THEN End(c) ELSE UNCHANGED <<wire, client>>
    /\ Disturb
    /\ UNCHANGED <<serverFrame, shown, mail>>

\* The stream ends for the client: aborted, at its end, or broken.
ClientEnds(c) ==
    /\ client[c] = "READING" /\ End(c)
    /\ Disturb
    /\ UNCHANGED <<serverFrame, entry, shown, mail>>

\* What an acknowledgement makes of the ledger, and when it is refused.
Accepts(kind, s) == CASE kind = "EXPOSED"     -> s \in {"DELIVERING", "POSSIBLY_EXPOSED", "EXPOSED", "COMPLETED"}
                      [] kind = "COMPLETED"   -> s \in {"EXPOSED", "COMPLETED"}
                      [] kind = "NOT_EXPOSED" -> s \in {"DELIVERING", "CANCELLED"}
Outcome(kind, s) == CASE kind = "EXPOSED" /\ s # "COMPLETED" -> "EXPOSED"
                      [] kind = "NOT_EXPOSED"                -> "CANCELLED"
                      [] OTHER                               -> "COMPLETED"

\* The command server runs an acknowledgement; of an acceptance the client
\* learns at once, unless the answer is lost.
HandleAcknowledgement(m) ==
    /\ m \in mail /\ recovered
    /\ mail' = mail \ {m}
    /\ LET accepted == Accepts(m.kind, status[m.delivery])
       IN  /\ status' = IF accepted THEN [status EXCEPT ![m.delivery] = Outcome(m.kind, @)] ELSE status
           /\ \/ UNCHANGED entry
              \/ /\ accepted
                 /\ entry[m.conn][m.delivery].waiting /\ AwaitedKind(m.conn, m.delivery) = m.kind
                 /\ entry' = [entry EXCEPT ![m.conn][m.delivery] = Acknowledged(@, m.kind)]
    /\ UNCHANGED <<left, stale, active, recovered, unsent, linkVars, pubVars, downVars, wire, client, shown>>

-----------------------------------------------------------------------------
Publication == Begin \/ Check \/ Write \/ Unblock \/ Settle \/ Throw
Commands == Reconnect \/ CancelBeforeExposure \/ MarkPossiblyExposed
Shutdown == Stop \/ EndConnections \/ Stopped \/ Restart
Rendering(c) ==
    \/ Receive(c) \/ ClientEnds(c)
    \/ \E d \in Deliveries : \/ MarkExposureBegan(c, d) \/ MarkPresentationCompleted(c, d)
                             \/ ReportNotExposed(c, d) \/ PresentationFails(c, d)
                             \/ FlushAcknowledgements(c, d) \/ Unanswered(c, d)

Next ==
    \/ \E d \in Deliveries : Queue(d) \/ Publish(d)
    \/ FinalizeUtterance
    \/ \E ends \in BOOLEAN : Invalidate(ends)
    \/ \E c \in Connections : \/ Request(c) \/ Attach(c) \/ SocketCloses(c) \/ Cleanup(c)
                              \/ Drain(c) \/ Rendering(c)
    \/ CloseSession
    \/ Publication \/ Commands \/ Classify \/ Shutdown \/ Crash \/ Recover
    \/ \E m \in mail : HandleAcknowledgement(m)

Spec == Init /\ [][Next]_vars

\* The server's promises go on: what is queued for it to do is done.
Continue ==
    \/ Publication \/ Commands \/ Classify \/ EndConnections \/ Stopped \/ Recover
    \/ \E c \in Connections : Cleanup(c) \/ Drain(c) \/ Attach(c)

FairSpec == Spec /\ WF_vars(Continue)

-----------------------------------------------------------------------------
(* Properties *)

ShownTo(d) == {c \in Connections : d \in shown[c]}

\* Whatever the candidate was shown is on its way, disclosed or uncertain in
\* the ledger, never waiting and never withdrawn: a withdrawal that races the
\* write, a report of non-exposure that races a disconnect.
ShownIsAccountedFor ==
    \A d \in Deliveries : ShownTo(d) # {} => status[d] \in {"DELIVERING", "POSSIBLY_EXPOSED", "EXPOSED", "COMPLETED"}

\* No delivery is presented twice: whoever is about to present it is the
\* first, though each connection has a client of its own that remembers
\* nothing of the others, and a client forgets what it has completed.
ShownOnce ==
    \A d \in Deliveries :
        /\ Cardinality(ShownTo(d)) <= 1
        /\ \A c \in Connections : Presenting(c, d) => ShownTo(d) = {}

\* Whoever will find out what became of a delivery on its way.
Responsible(d) ==
    \/ \E c \in Connections : /\ d \in sent[c]
                              /\ \/ c \in Attached
                                 \/ c \in ToSet(classify) /\ ~(c = Head(classify) /\ d \in visited)
    \/ \E i \in 1 .. Len(queue) : queue[i].op # "RECONNECT" /\ queue[i].delivery = d
    \/ ~recovered

\* What changed during an await is seen after it.  What was withdrawn while its
\* start was being stored is never written, and a renderer attaches only when
\* every connection before it, those that closed meanwhile included, has been
\* classified (docs/VOICE_INTEGRATION.md:83-85).
AwaitsAreLookedBehind ==
    [][\A c \in Connections :
          /\ Len(wire'[c]) > Len(wire[c]) => status[Last(wire'[c])] = "DELIVERING"
          /\ attach[c] # "ATTACHED" /\ attach'[c] = "ATTACHED" => classify = <<>>]_vars

\* A renderer that attaches again finds its place, so that later output is
\* not stranded (apps/web/src/hooks/useInterviewSession.ts:1178): it is refused
\* only while another connection lives, or its end is about to be noticed.
ReattachFindsItsPlace ==
    [][\A c \in Connections : attach[c] = "NEW" /\ attach'[c] = "REFUSED" =>
          \E other \in Attached : socket[other] = "OPEN" \/ other \in hears]_vars

\* The promises that others wait for are all settled: every publication ends,
\* an attach request is answered, and a shutdown completes.
Awaited == tail # <<>> \/ Waiting # {} \/ stopping \in {"DRAINING", "CLASSIFYING"}
EverythingAwaitedEnds == Awaited ~> ~Awaited

\* What a lost connection carried does not stay on its way.
UncertaintyIsResolved ==
    \A d \in Deliveries : (status[d] = "DELIVERING" /\ Attached = {}) ~> (status[d] # "DELIVERING")
=============================================================================
