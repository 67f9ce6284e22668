------------------------ MODULE RendererStreamProofs ------------------------
(***************************************************************************)
(* What TLAPS proves of RendererStream, for any deliveries, connections    *)
(* and disturbances, of a server that gives a session one connection at a  *)
(* time (DEFAULT_MAX_CONNECTIONS_PER_SESSION,                              *)
(* renderer-stream-server.ts:28): nothing is shown twice, what was shown   *)
(* is accounted for, and the deliveries keep the promise of ExposureLedger.*)
(***************************************************************************)
EXTENDS RendererStream, FiniteSetTheorems, SequenceTheorems, TLAPS

-----------------------------------------------------------------------------
(* The inductive invariant. *)

\* One connection at a time: one that is attached, or one that has ended and is
\* being classified.
OnePlace ==
    /\ \A c, e \in Attached : c = e
    /\ Attached # {} => classify = <<>>
    /\ classify = <<>> \/ \E c \in Connections : classify = <<c>>

\* Of two attach requests one waits for the other; and each waits for whoever is
\* attached or being classified.
InTurn ==
    /\ \A c, e \in Waiting : c # e => c \in waits[e] \/ e \in waits[c]
    /\ \A c \in Waiting : \A e \in Connections : e \in Attached \/ classify = <<e>> => e \in waits[c]

Places == OnePlace /\ InTurn

\* Connection c will be asked what became of d.
Answerable(c, d) == d \in sent[c] /\ (c \in Attached \/ (classify = <<c>> /\ d \notin visited))

\* The publication that runs, on the connection it uses.
InHand ==
    /\ pub.step # "IDLE" => tail # <<>> /\ Used \in Connections
    /\ pub.step = "CHECK" /\ socket[Used] = "OPEN" => Used \in Attached
    /\ pub.step \in {"SETTLED", "REFUSED"} => status[This] # "DELIVERING"

\* The commands in the writer are the publication's own, at most one, and those
\* of a classification.
OwnCommands ==
    \A i \in 1 .. Len(queue) :
       IF queue[i].op = "CLASSIFY" THEN classify # <<>>
       ELSE /\ pub.step = "COMMAND" /\ queue[i].delivery = This
            /\ \A j \in 1 .. Len(queue) : queue[j].op # "CLASSIFY" => i = j
            /\ queue[i].op \in {"RECONNECT", "CANCEL"} => status[This] # "DELIVERING"
            /\ queue[i].op = "RECONNECT" => i = 1 /\ Answerable(Used, This)

Visiting == classify = <<>> => visited = {}

Commanding == InHand /\ OwnCommands /\ Visiting

\* What is on its way is somebody's to account for.
OnItsWay == recovered => \A d \in Deliveries : status[d] = "DELIVERING" => \E c \in Connections : Answerable(c, d)

\* Delivery d has been written to client c, which may have taken it up.
OnWire(c, d) == \E i \in 1 .. Len(wire[c]) : wire[c][i] = d
Written(c, d) ==
    \/ OnWire(c, d) \/ entry[c][d].phase # "NONE" \/ d \in shown[c]
    \/ \E m \in mail : m.conn = c /\ m.delivery = d

\* It has not been written yet, though it may be about to.
Fresh(d) == \/ status[d] \in {"UNUSED", "QUEUED"}
            \/ pub.step = "STARTED" /\ This = d /\ status[d] = "DELIVERING"

\* Each delivery is written once, to one client.
WrittenOnce ==
    \A d \in Deliveries :
        /\ Fresh(d) => \A c \in Connections : ~Written(c, d)
        /\ \A c, e \in Connections : Written(c, d) /\ Written(e, d) => c = e

AtMostOnce(c, d) == \A i, j \in 1 .. Len(wire[c]) : wire[c][i] = d /\ wire[c][j] = d => i = j

\* What client c, its wire and its mail know of d agrees: what is on the wire is
\* new to the client, and a report of non-exposure is true.
Consistent(c, d) ==
    /\ OnWire(c, d) => /\ entry[c][d].phase = "NONE" /\ d \notin shown[c] /\ AtMostOnce(c, d)
                       /\ \A m \in mail : m.conn = c => m.delivery # d
    /\ entry[c][d].phase = "RECEIVED" => d \notin shown[c]
    /\ entry[c][d].phase \in {"NONE", "RECEIVED", "FAILED"} => entry[c][d].told = "NOTHING"
    /\ entry[c][d].waiting => entry[c][d].phase \in {"RECEIVED", "EXPOSED", "COMPLETED"}
    /\ \A m \in mail : m.conn = c /\ m.delivery = d /\ m.kind = "NOT_EXPOSED" =>
          /\ d \notin shown[c]
          /\ entry[c][d].phase = "FAILED" \/ (entry[c][d].phase = "RECEIVED" /\ entry[c][d].waiting)

\* Client c has not presented d, and will not unless it is written again.
Unpresented(c, d) ==
    /\ ~OnWire(c, d) /\ d \notin shown[c] /\ ~Presenting(c, d)
    /\ entry[c][d].phase \notin {"EXPOSED", "COMPLETED"}

Truthful ==
    \A c \in Connections, d \in Deliveries :
        /\ Consistent(c, d)
        /\ status[d] = "CANCELLED" => Unpresented(c, d)

IInv == TypeOK /\ Places /\ Commanding /\ OnItsWay /\ WrittenOnce /\ Truthful

-----------------------------------------------------------------------------
(* What the building blocks of the actions do. *)

LEMMA NoneToSeq == SetToSeq({}) = <<>>
<1>1. \E f \in [1 .. 0 -> {}] : IsInjective(f)
  <2>1. [i \in 1 .. 0 |-> i] \in [1 .. 0 -> {}] /\ IsInjective([i \in 1 .. 0 |-> i])
    BY DEF IsInjective
  <2>2. QED BY <2>1
<1>2. Cardinality({}) = 0
  BY FS_EmptySet
<1>3. SetToSeq({}) \in [1 .. 0 -> {}]
  BY <1>1, <1>2 DEF SetToSeq
<1>4. QED BY <1>3

LEMMA OneToSeq == ASSUME NEW c PROVE SetToSeq({c}) = <<c>>
<1>1. Cardinality({c}) = 1
  BY FS_Singleton
<1>2. [i \in 1 .. 1 |-> c] \in [1 .. 1 -> {c}] /\ IsInjective([i \in 1 .. 1 |-> c])
  BY DEF IsInjective
<1>3. SetToSeq({c}) \in [1 .. 1 -> {c}]
  BY <1>1, <1>2 DEF SetToSeq
<1>4. SetToSeq({c})[1] = c /\ DOMAIN SetToSeq({c}) = 1 .. 1
  BY <1>3
<1>5. QED BY <1>3, <1>4

\* Whoever is removed is classified next; removing nobody changes nothing.
LEMMA RemoveOne ==
  ASSUME TypeOK, OnePlace, NEW C \in SUBSET Connections, RemoveConnection(C)
  PROVE  \/ C \cap Attached = {} /\ UNCHANGED <<attach, classify>>
         \/ \E c \in C \cap Attached :
               /\ Attached = {c} /\ classify = <<>>
               /\ attach' = [attach EXCEPT ![c] = "REMOVED"] /\ classify' = <<c>>
<1>1. CASE C \cap Attached = {}
  <2>1. attach' = attach
    BY <1>1 DEF RemoveConnection, TypeOK
  <2>2. classify' = classify
    BY <1>1, NoneToSeq, ConcatEmptySeq DEF RemoveConnection, TypeOK
  <2>3. QED BY <1>1, <2>1, <2>2
<1>2. ASSUME NEW c \in C \cap Attached
      PROVE  /\ Attached = {c} /\ classify = <<>>
             /\ attach' = [attach EXCEPT ![c] = "REMOVED"] /\ classify' = <<c>>
  <2>1. Attached = {c} /\ C \cap Attached = {c} /\ classify = <<>>
    BY <1>2 DEF OnePlace
  <2>2. attach' = [attach EXCEPT ![c] = "REMOVED"]
    BY <2>1 DEF RemoveConnection, TypeOK
  <2>3. classify' = <<c>>
    <3>1. <<c>> \in Seq(Connections)
      BY <1>2 DEF Attached
    <3>2. <<>> \o <<c>> = <<c>>
      BY <3>1, ConcatEmptySeq
    <3>3. QED BY <2>1, <3>2, OneToSeq DEF RemoveConnection
  <2>4. QED BY <2>1, <2>2, <2>3
<1>3. QED BY <1>1, <1>2

\* With one connection at a time, there is room when nobody is attached.
LEMMA RoomForOne == ASSUME OnePlace, MaxPerSession = 1 PROVE ~AtCapacity <=> Attached = {}
<1>1. CASE Attached = {}
  BY <1>1, FS_EmptySet DEF AtCapacity
<1>2. ASSUME NEW c \in Attached PROVE AtCapacity
  <2>1. Attached = {c}
    BY <1>2 DEF OnePlace
  <2>2. Cardinality(Attached) = 1
    BY <2>1, FS_Singleton
  <2>3. QED BY <2>2 DEF AtCapacity
<1>3. QED BY <1>1, <1>2

-----------------------------------------------------------------------------
(* Types *)

LedgerType ==
    /\ status \in [Deliveries -> Status]
    /\ stale \in BOOLEAN /\ active \in BOOLEAN /\ recovered \in BOOLEAN
    /\ unsent \in SUBSET Deliveries
LinkType ==
    /\ attach \in [Connections -> {"NEW", "WAITING", "ATTACHED", "REMOVED", "REFUSED"}]
    /\ waits \in [Connections -> SUBSET Connections]
    /\ socket \in [Connections -> {"OPEN", "CLOSED"}]
    /\ hears \in SUBSET Connections
    /\ sent \in [Connections -> SUBSET Deliveries]
    /\ todo \in [Connections -> SUBSET Deliveries]
Publications == [delivery : Deliveries, by : Connections \cup {None}]
WriterCommands == [op : {"RECONNECT", "MARK", "CANCEL", "CLASSIFY"}, delivery : Deliveries]
PubType ==
    /\ tail \in Seq(Publications)
    /\ pub \in [step : {"IDLE", "CHECK", "COMMAND", "STARTED", "SETTLED", "REFUSED", "BLOCKED"},
                conn : Connections \cup {None}, after : {"END", "REMOVE", "DESTROY"}]
    /\ queue \in Seq(WriterCommands)
DownType ==
    /\ classify \in Seq(Connections)
    /\ visited \in SUBSET Deliveries
    /\ stopping \in {"NO", "DRAINING", "CLASSIFYING", "STOPPED"}
ClientType ==
    /\ wire \in [Connections -> Seq(Deliveries)]
    /\ client \in [Connections -> {"NEW", "READING", "ENDED"}]
    /\ entry \in [Connections -> [Deliveries -> Entry]]
    /\ shown \in [Connections -> SUBSET Deliveries]
    /\ mail \in SUBSET Message
LeftType == left \in 0 .. MaxDisturbances

LEMMA TypeParts ==
  /\ TypeOK <=> LedgerType /\ LinkType /\ PubType /\ DownType /\ ClientType /\ LeftType
  /\ TypeOK' <=> LedgerType' /\ LinkType' /\ PubType' /\ DownType' /\ ClientType' /\ LeftType'
BY DEF TypeOK, LedgerType, LinkType, PubType, DownType, ClientType, LeftType, Publications, WriterCommands

\* Groups of variables that a step leaves alone stay typed.
LEMMA SameTypes ==
  ASSUME TypeOK
  PROVE  /\ UNCHANGED ledgerVars => LedgerType'
         /\ UNCHANGED linkVars => LinkType'
         /\ UNCHANGED pubVars => PubType'
         /\ UNCHANGED downVars => DownType'
         /\ UNCHANGED clientVars => ClientType'
         /\ UNCHANGED left \/ Disturb => LeftType'
<1>1. UNCHANGED left \/ Disturb => LeftType'
  BY RendererAssumption DEF TypeOK, LeftType, Disturb
<1>2. QED
  BY <1>1, TypeParts DEF ledgerVars, linkVars, pubVars, downVars, clientVars, LedgerType, LinkType, PubType,
     DownType, ClientType

LEMMA LedgerSteps ==
  ASSUME TypeOK,
         \/ \E d \in Deliveries : Queue(d)
         \/ FinalizeUtterance \/ (\E ends \in BOOLEAN : Invalidate(ends)) \/ Recover
  PROVE  TypeOK'
<1>1. LedgerType'
  <2>1. ASSUME NEW ends \in BOOLEAN, Invalidate(ends) PROVE LedgerType'
    <3>1. \A s \in Status : Withdrawn(s) \in Status
      BY DEF Withdrawn, Status
    <3>2. status' \in [Deliveries -> Status]
      BY <2>1, <3>1 DEF Invalidate, TypeOK
    <3>3. QED BY <2>1, <3>2 DEF Invalidate, TypeOK, LedgerType
  <2>2. ASSUME NEW d \in Deliveries, Queue(d) PROVE LedgerType'
    BY <2>2 DEF Queue, TypeOK, LedgerType, Status
  <2>3. CASE Recover
    <3>1. \A s \in Status : RecoveredStatus(s) \in Status
      BY DEF RecoveredStatus, Status
    <3>2. QED BY <2>3, <3>1 DEF Recover, TypeOK, LedgerType
  <2>4. CASE FinalizeUtterance
    BY <2>4 DEF FinalizeUtterance, TypeOK, LedgerType
  <2>5. QED BY <2>1, <2>2, <2>3, <2>4
<1>2. UNCHANGED <<linkVars, pubVars, downVars, clientVars>> /\ (UNCHANGED left \/ Disturb)
  BY DEF Queue, FinalizeUtterance, Invalidate, Recover
<1>3. QED BY <1>1, <1>2, SameTypes, TypeParts

\* The types of what a removal changes.
LEMMA RemoveType ==
  ASSUME TypeOK, OnePlace, NEW C \in SUBSET Connections, RemoveConnection(C)
  PROVE  /\ attach' \in [Connections -> {"NEW", "WAITING", "ATTACHED", "REMOVED", "REFUSED"}]
         /\ classify' \in Seq(Connections)
<1>1. CASE UNCHANGED <<attach, classify>>
  BY <1>1 DEF TypeOK
<1>2. ASSUME NEW c \in Attached, attach' = [attach EXCEPT ![c] = "REMOVED"], classify' = <<c>>
      PROVE  /\ attach' \in [Connections -> {"NEW", "WAITING", "ATTACHED", "REMOVED", "REFUSED"}]
             /\ classify' \in Seq(Connections)
  BY <1>2 DEF Attached, TypeOK
<1>3. QED BY <1>1, <1>2, RemoveOne

LEMMA LinkSteps ==
  ASSUME TypeOK, OnePlace,
         \/ \E c \in Connections : Request(c) \/ Attach(c) \/ SocketCloses(c) \/ Cleanup(c)
         \/ CloseSession
  PROVE  TypeOK'
<1>1. ASSUME NEW c \in Connections, Request(c) PROVE TypeOK'
  <2>1. ToSet(classify) \cup Waiting \in SUBSET Connections
    <3>1. ToSet(classify) \subseteq Connections
      BY ElementOfSeq, LenProperties DEF ToSet, TypeOK
    <3>2. QED BY <3>1 DEF Waiting
  <2>2. attach' \in [Connections -> {"NEW", "WAITING", "ATTACHED", "REMOVED", "REFUSED"}]
        /\ waits' \in [Connections -> SUBSET Connections]
        /\ client' \in [Connections -> {"NEW", "READING", "ENDED"}]
    <3>1. \E a \in {"REFUSED", "WAITING"} : attach' = [attach EXCEPT ![c] = a]
      BY <1>1 DEF Request
    <3>2. \E k \in {"ENDED", "READING"} : client' = [client EXCEPT ![c] = k]
      BY <1>1 DEF Request
    <3>3. waits' = waits \/ waits' = [waits EXCEPT ![c] = ToSet(classify) \cup Waiting]
      BY <1>1 DEF Request
    <3>4. waits' \in [Connections -> SUBSET Connections]
      BY <2>1, <3>3 DEF TypeOK
    <3>5. attach' \in [Connections -> {"NEW", "WAITING", "ATTACHED", "REMOVED", "REFUSED"}]
      BY <3>1 DEF TypeOK
    <3>6. client' \in [Connections -> {"NEW", "READING", "ENDED"}]
      BY <3>2 DEF TypeOK
    <3>7. QED BY <3>4, <3>5, <3>6
  <2>3. LinkType' /\ ClientType'
    BY <1>1, <2>2 DEF Request, TypeOK, LinkType, ClientType
  <2>4. UNCHANGED <<ledgerVars, pubVars, downVars, left>>
    BY <1>1 DEF Request
  <2>5. QED BY <2>3, <2>4, SameTypes, TypeParts
<1>2. ASSUME NEW c \in Connections, Attach(c) PROVE TypeOK'
  <2>1. {d \in Deliveries : status[d] = "QUEUED"} \in SUBSET Deliveries
    OBVIOUS
  <2>2. LinkType' /\ ClientType'
    <3>1. attach' \in [Connections -> {"NEW", "WAITING", "ATTACHED", "REMOVED", "REFUSED"}]
          /\ waits' \in [Connections -> SUBSET Connections] /\ UNCHANGED <<socket, sent>>
      BY <1>2 DEF Attach, TypeOK
    <3>2. hears' \in SUBSET Connections /\ todo' \in [Connections -> SUBSET Deliveries]
          /\ client' \in [Connections -> {"NEW", "READING", "ENDED"}]
      <4>1. CASE active /\ stopping = "NO" /\ Room
        <5>1. hears' = hears \cup {c} \/ hears' = hears
          BY <1>2, <4>1 DEF Attach
        <5>2. todo' = [todo EXCEPT ![c] = {d \in Deliveries : status[d] = "QUEUED"}] /\ UNCHANGED client
          BY <1>2, <4>1 DEF Attach
        <5>3. QED BY <2>1, <5>1, <5>2 DEF TypeOK
      <4>2. CASE ~(active /\ stopping = "NO" /\ Room)
        BY <1>2, <4>2 DEF Attach, TypeOK
      <4>3. QED BY <4>1, <4>2
    <3>3. UNCHANGED <<wire, entry, shown, mail>>
      BY <1>2 DEF Attach
    <3>4. QED BY <3>1, <3>2, <3>3 DEF TypeOK, LinkType, ClientType
  <2>3. UNCHANGED <<ledgerVars, pubVars, downVars, left>>
    BY <1>2 DEF Attach
  <2>4. QED BY <2>2, <2>3, SameTypes, TypeParts
<1>3. ASSUME NEW c \in Connections, SocketCloses(c) PROVE TypeOK'
  <2>1. LinkType'
    BY <1>3 DEF SocketCloses, TypeOK, LinkType
  <2>2. UNCHANGED <<ledgerVars, pubVars, downVars, clientVars>> /\ Disturb
    BY <1>3 DEF SocketCloses
  <2>3. QED BY <2>1, <2>2, SameTypes, TypeParts
<1>4. ASSUME NEW c \in Connections, Cleanup(c) PROVE TypeOK'
  <2>1. LinkType' /\ DownType'
    BY <1>4, RemoveType DEF Cleanup, TypeOK, LinkType, DownType
  <2>2. UNCHANGED <<ledgerVars, pubVars, clientVars, left>>
    BY <1>4 DEF Cleanup
  <2>3. QED BY <2>1, <2>2, SameTypes, TypeParts
<1>5. CASE CloseSession
  <2>1. Attached \in SUBSET Connections
    BY DEF Attached
  <2>2. LinkType' /\ DownType'
    BY <1>5, <2>1, RemoveType DEF CloseSession, TypeOK, LinkType, DownType
  <2>3. UNCHANGED <<ledgerVars, pubVars, clientVars>> /\ Disturb
    BY <1>5 DEF CloseSession
  <2>4. QED BY <2>2, <2>3, SameTypes, TypeParts
<1>6. QED BY <1>1, <1>2, <1>3, <1>4, <1>5

\* The delivery of the first publication.
LEMMA ThisOne == ASSUME TypeOK, tail # <<>> PROVE This \in Deliveries
<1>1. tail \in Seq(Publications)
  BY DEF TypeOK, Publications
<1>2. Head(tail) \in Publications
  BY <1>1, HeadTailProperties
<1>3. QED BY <1>2 DEF This, Publications

LEMMA AwaitType ==
  ASSUME TypeOK, tail # <<>>, NEW op \in {"RECONNECT", "MARK", "CANCEL", "CLASSIFY"},
         NEW after \in {"END", "REMOVE", "DESTROY"}, Await(op, after)
  PROVE  PubType'
<1>1. This \in Deliveries
  BY ThisOne
<1>2. [op |-> op, delivery |-> This] \in WriterCommands
  BY <1>1 DEF WriterCommands
<1>3. queue' \in Seq(WriterCommands)
  BY <1>2, AppendProperties DEF Await, TypeOK, WriterCommands
<1>4. pub' \in [step : {"IDLE", "CHECK", "COMMAND", "STARTED", "SETTLED", "REFUSED", "BLOCKED"},
                conn : Connections \cup {None}, after : {"END", "REMOVE", "DESTROY"}]
  BY DEF Await, TypeOK
<1>5. QED BY <1>3, <1>4 DEF Await, TypeOK, PubType, Publications

LEMMA FinishType == ASSUME TypeOK, tail # <<>>, Finish, UNCHANGED queue PROVE PubType'
BY HeadTailProperties DEF Finish, TypeOK, PubType, NoPub, Publications, WriterCommands

LEMMA EnqueueType ==
  ASSUME TypeOK, NEW d \in Deliveries, NEW c \in Connections \cup {None}, Enqueue(d, c), UNCHANGED <<pub, queue>>
  PROVE  PubType'
<1>1. [delivery |-> d, by |-> c] \in Publications
  BY DEF Publications
<1>2. tail' \in Seq(Publications)
  BY <1>1, AppendProperties DEF Enqueue, TypeOK, Publications
<1>3. QED BY <1>2 DEF TypeOK, PubType, WriterCommands

LEMMA MemoType ==
  ASSUME TypeOK, NEW D \in SUBSET Deliveries, Memo(D)
  PROVE  sent' \in [Connections -> SUBSET Deliveries]
BY DEF Memo, TypeOK

LEMMA PublishSteps ==
  ASSUME TypeOK, OnePlace, Commanding,
         \/ \E d \in Deliveries : Publish(d)
         \/ \E c \in Connections : Drain(c)
         \/ Publication
  PROVE  TypeOK'
<1> DEFINE PubStep == [step : {"IDLE", "CHECK", "COMMAND", "STARTED", "SETTLED", "REFUSED", "BLOCKED"},
                       conn : Connections \cup {None}, after : {"END", "REMOVE", "DESTROY"}]
<1>1. ASSUME NEW d \in Deliveries, Publish(d) PROVE TypeOK'
  <2>1. LedgerType'
    BY <1>1 DEF Publish, TypeOK, LedgerType
  <2>2. PubType'
    <3>1. CASE UNCHANGED tail
      BY <1>1, <3>1, SameTypes DEF Publish, pubVars
    <3>2. CASE Enqueue(d, None)
      BY <1>1, <3>2, EnqueueType DEF Publish
    <3>3. QED BY <1>1, <3>1, <3>2 DEF Publish
  <2>3. UNCHANGED <<linkVars, downVars, clientVars, left>>
    BY <1>1 DEF Publish
  <2>4. QED BY <2>1, <2>2, <2>3, SameTypes, TypeParts
<1>2. ASSUME NEW c \in Connections, Drain(c) PROVE TypeOK'
  <2>1. LinkType'
    <3>1. \E D \in SUBSET Deliveries : todo' = [todo EXCEPT ![c] = D]
      BY <1>2 DEF Drain, TypeOK
    <3>2. socket' = socket \/ socket' = [socket EXCEPT ![c] = "CLOSED"]
      BY <1>2 DEF Drain
    <3>3. UNCHANGED <<attach, waits, hears, sent>>
      BY <1>2 DEF Drain
    <3>4. QED BY <3>1, <3>2, <3>3 DEF TypeOK, LinkType
  <2>2. PubType'
    <3>1. CASE UNCHANGED tail
      BY <1>2, <3>1, SameTypes DEF Drain, pubVars
    <3>2. ASSUME NEW d \in todo[c], Enqueue(d, c) PROVE PubType'
      <4>1. d \in Deliveries
        BY <3>2 DEF TypeOK
      <4>2. QED BY <1>2, <3>2, <4>1, EnqueueType DEF Drain
    <3>3. QED BY <1>2, <3>1, <3>2 DEF Drain
  <2>3. UNCHANGED <<ledgerVars, downVars, clientVars, left>>
    BY <1>2 DEF Drain
  <2>4. QED BY <2>1, <2>2, <2>3, SameTypes, TypeParts
<1>3. CASE Begin
  <2>1. tail # <<>> /\ Attached \in SUBSET Connections
    BY <1>3 DEF Begin, At, Attached
  <2>2. LinkType' /\ DownType'
    <3>1. PICK C \in SUBSET Connections : RemoveConnection(C)
      BY <1>3, <2>1 DEF Begin
    <3>2. UNCHANGED <<waits, socket, hears, sent, todo, visited, stopping>>
      BY <1>3 DEF Begin
    <3>3. QED BY <3>1, <3>2, RemoveType DEF TypeOK, LinkType, DownType
  <2>3. PubType'
    <3>1. CASE Finish
      BY <1>3, <2>1, <3>1, FinishType DEF Begin
    <3>2. ASSUME NEW c \in Attached, pub' = [NoPub EXCEPT !.step = "CHECK", !.conn = c], UNCHANGED tail
          PROVE  PubType'
      BY <1>3, <2>1, <3>2 DEF Begin, NoPub, TypeOK, PubType, Publications, WriterCommands
    <3>3. QED BY <1>3, <3>1, <3>2 DEF Begin
  <2>4. UNCHANGED <<ledgerVars, clientVars, left>>
    BY <1>3 DEF Begin
  <2>5. QED BY <2>2, <2>3, <2>4, SameTypes, TypeParts
<1>4. ASSUME Check \/ Write \/ Unblock \/ Settle \/ Throw PROVE TypeOK'
  <2>1. tail # <<>> /\ Used \in Connections /\ This \in Deliveries
    BY <1>4, ThisOne DEF Check, Write, Unblock, Settle, Throw, At, Commanding, InHand
  <2>2. PubType'
    <3>1. CASE Finish /\ UNCHANGED queue
      BY <2>1, <3>1, FinishType
    <3>2. ASSUME NEW op \in {"RECONNECT", "MARK", "CANCEL"}, NEW after \in {"END", "REMOVE", "DESTROY"},
                 Await(op, after)
          PROVE  PubType'
      BY <2>1, <3>2, AwaitType
    <3>3. CASE pub' = [pub EXCEPT !.step = "BLOCKED"] /\ UNCHANGED <<tail, queue>>
      BY <3>3 DEF TypeOK, PubType, Publications, WriterCommands
    <3>4. QED BY <1>4, <3>1, <3>2, <3>3 DEF Check, Write, Unblock, Settle, Throw
  <2>3. sent' \in [Connections -> SUBSET Deliveries]
    <3>1. sent[Used] \cup {This} \in SUBSET Deliveries /\ sent[Used] \ {This} \in SUBSET Deliveries
      BY <2>1 DEF TypeOK
    <3>2. QED BY <1>4, <3>1, MemoType DEF Check, Write, Unblock, Settle, Throw, linkVars, TypeOK
  <2>4. /\ attach' \in [Connections -> {"NEW", "WAITING", "ATTACHED", "REMOVED", "REFUSED"}]
        /\ classify' \in Seq(Connections)
    <3>1. RemoveConnection({Used}) \/ UNCHANGED <<attach, classify>>
      BY <1>4 DEF Check, Write, Unblock, Settle, Throw, linkVars, downVars
    <3>2. QED BY <2>1, <3>1, RemoveType DEF TypeOK
  <2>5. socket' \in [Connections -> {"OPEN", "CLOSED"}] /\ todo' \in [Connections -> SUBSET Deliveries]
        /\ UNCHANGED <<waits, hears, visited, stopping>>
    <3>1. CASE Check \/ Write \/ Unblock
      BY <1>4, <3>1 DEF Check, Write, Unblock, linkVars, downVars, TypeOK
    <3>2. CASE Settle
      BY <3>2 DEF Settle, TypeOK
    <3>3. CASE Throw
      BY <3>3 DEF Throw, downVars, TypeOK
    <3>4. QED BY <1>4, <3>1, <3>2, <3>3
  <2>6. wire' \in [Connections -> Seq(Deliveries)] /\ UNCHANGED <<client, entry, shown, mail>>
    <3>1. CASE UNCHANGED clientVars
      BY <3>1 DEF clientVars, TypeOK
    <3>2. CASE Write
      <4>1. Append(wire[Used], This) \in Seq(Deliveries)
        BY <2>1, AppendProperties DEF TypeOK
      <4>2. QED BY <3>2, <4>1 DEF Write, TypeOK
    <3>3. QED BY <1>4, <3>1, <3>2 DEF Check, Unblock, Settle, Throw
  <2>7. LinkType' /\ DownType' /\ ClientType'
    BY <2>3, <2>4, <2>5, <2>6 DEF TypeOK, LinkType, DownType, ClientType
  <2>8. UNCHANGED <<ledgerVars, left>>
    BY <1>4 DEF Check, Write, Unblock, Settle, Throw
  <2>9. QED BY <2>2, <2>7, <2>8, SameTypes, TypeParts
<1>5. QED BY <1>1, <1>2, <1>3, <1>4 DEF Publication

LEMMA CommandSteps ==
  ASSUME TypeOK, Commands \/ Classify
  PROVE  TypeOK'
<1>1. CASE Commands
  <2>1. queue # <<>> /\ Ran /\ queue \in Seq(WriterCommands)
    BY <1>1 DEF Commands, Reconnect, CancelBeforeExposure, MarkPossiblyExposed, IsNext, TypeOK, WriterCommands
  <2>2. Head(queue).delivery \in Deliveries /\ queue' \in Seq(WriterCommands)
    <3>1. Head(queue) \in WriterCommands /\ Tail(queue) \in Seq(WriterCommands)
      BY <2>1, HeadTailProperties
    <3>2. QED BY <2>1, <3>1 DEF Ran, WriterCommands
  <2>3. LedgerType'
    <3>1. status' \in [Deliveries -> Status]
      BY <1>1, <2>2 DEF Commands, Reconnect, CancelBeforeExposure, MarkPossiblyExposed, Uncertain, TypeOK, Status
    <3>2. UNCHANGED <<stale, active, recovered, unsent>>
      BY <1>1 DEF Commands, Reconnect, CancelBeforeExposure, MarkPossiblyExposed, ledgerFrame
    <3>3. QED BY <3>1, <3>2 DEF TypeOK, LedgerType
  <2>4. PubType'
    <3>1. pub' = pub \/ \E step \in {"STARTED", "SETTLED", "REFUSED"} : pub' = [pub EXCEPT !.step = step]
      BY <1>1 DEF Commands, Reconnect, CancelBeforeExposure, MarkPossiblyExposed, Reply
    <3>2. UNCHANGED tail
      BY <1>1 DEF Commands, Reconnect, CancelBeforeExposure, MarkPossiblyExposed, ledgerFrame
    <3>3. QED BY <2>2, <3>1, <3>2 DEF TypeOK, PubType, Publications
  <2>5. DownType'
    <3>1. visited' \in SUBSET Deliveries
      BY <1>1, <2>2 DEF Commands, Reconnect, CancelBeforeExposure, MarkPossiblyExposed, TypeOK
    <3>2. UNCHANGED <<classify, stopping>>
      BY <1>1 DEF Commands, Reconnect, CancelBeforeExposure, MarkPossiblyExposed, ledgerFrame
    <3>3. QED BY <3>1, <3>2 DEF TypeOK, DownType
  <2>6. UNCHANGED <<linkVars, clientVars, left>>
    BY <1>1 DEF Commands, Reconnect, CancelBeforeExposure, MarkPossiblyExposed, ledgerFrame
  <2>7. QED BY <2>3, <2>4, <2>5, <2>6, SameTypes, TypeParts
<1>2. CASE Classify
  <2>1. Head(classify) \in Connections /\ Tail(classify) \in Seq(Connections)
    BY <1>2, HeadTailProperties DEF Classify, TypeOK
  <2>2. LinkType'
    BY <1>2, <2>1 DEF Classify, TypeOK, LinkType
  <2>3. DownType'
    BY <1>2, <2>1 DEF Classify, TypeOK, DownType
  <2>4. PubType'
    <3>1. ASSUME NEW d \in sent[Head(classify)], queue' = Append(queue, [op |-> "CLASSIFY", delivery |-> d])
          PROVE  queue' \in Seq(WriterCommands)
      <4>1. [op |-> "CLASSIFY", delivery |-> d] \in WriterCommands
        BY <2>1, <3>1 DEF TypeOK, WriterCommands
      <4>2. QED BY <3>1, <4>1, AppendProperties DEF TypeOK, WriterCommands
    <3>2. queue' \in Seq(WriterCommands)
      BY <1>2, <3>1 DEF Classify, TypeOK, WriterCommands
    <3>3. QED BY <1>2, <3>2 DEF Classify, TypeOK, PubType, Publications
  <2>5. UNCHANGED <<ledgerVars, clientVars, left>>
    BY <1>2 DEF Classify
  <2>6. QED BY <2>2, <2>3, <2>4, <2>5, SameTypes, TypeParts
<1>3. QED BY <1>1, <1>2

LEMMA ShutdownSteps ==
  ASSUME TypeOK, OnePlace, Shutdown \/ Crash
  PROVE  TypeOK'
<1>1. CASE Stop \/ Stopped \/ Restart
  BY <1>1, SameTypes, TypeParts DEF Stop, Stopped, Restart, TypeOK, DownType
<1>2. CASE EndConnections
  <2>1. Attached \in SUBSET Connections
    BY DEF Attached
  <2>2. LinkType' /\ DownType'
    BY <1>2, <2>1, RemoveType DEF EndConnections, TypeOK, LinkType, DownType
  <2>3. UNCHANGED <<ledgerVars, pubVars, clientVars, left>>
    BY <1>2 DEF EndConnections
  <2>4. QED BY <2>2, <2>3, SameTypes, TypeParts
<1>3. CASE Crash
  <2>1. LinkType'
    BY <1>3 DEF Crash, TypeOK, LinkType
  <2>2. PubType' /\ DownType'
    BY <1>3, EmptySeq DEF Crash, NoPub, TypeOK, PubType, DownType
  <2>3. LedgerType' /\ ClientType'
    BY <1>3 DEF Crash, TypeOK, LedgerType, ClientType
  <2>4. Disturb
    BY <1>3 DEF Crash
  <2>5. QED BY <2>1, <2>2, <2>3, <2>4, SameTypes, TypeParts
<1>4. QED BY <1>1, <1>2, <1>3 DEF Shutdown

-----------------------------------------------------------------------------
(* The renderer client: what it tracks. *)

\* Whatever one of these makes of an entry is an entry.
LEMMA EntryTypes ==
  ASSUME NEW e \in Entry
  PROVE  /\ Untracked \in Entry /\ Received \in Entry
         /\ [e EXCEPT !.flush = TRUE] \in Entry /\ [e EXCEPT !.flush = FALSE] \in Entry
         /\ [e EXCEPT !.waiting = TRUE] \in Entry
         /\ \A phase \in {"EXPOSED", "COMPLETED", "FAILED"} :
               [e EXCEPT !.phase = phase] \in Entry /\ [e EXCEPT !.phase = phase, !.flush = TRUE] \in Entry
         /\ \A kind \in {"EXPOSED", "COMPLETED", "NOT_EXPOSED"} :
               Acknowledged(e, kind) \in Entry /\ NotAcknowledged(e, kind) \in Entry
<1>1. MaxRetries \in Nat
  BY RendererAssumption
<1>2. /\ Untracked \in Entry /\ Received \in Entry
      /\ [e EXCEPT !.flush = TRUE] \in Entry /\ [e EXCEPT !.flush = FALSE] \in Entry
      /\ [e EXCEPT !.waiting = TRUE] \in Entry
  <2>1. 0 \in 0 .. MaxRetries + 1
    BY <1>1
  <2>2. Untracked \in Entry
    BY <2>1 DEF Entry, Untracked
  <2>3. Received \in Entry
    BY <2>2 DEF Entry, Received
  <2>4. /\ [e EXCEPT !.flush = TRUE] \in Entry /\ [e EXCEPT !.flush = FALSE] \in Entry
        /\ [e EXCEPT !.waiting = TRUE] \in Entry
    BY DEF Entry
  <2>5. QED BY <2>2, <2>3, <2>4
<1>3. ASSUME NEW phase \in {"EXPOSED", "COMPLETED", "FAILED"}
      PROVE  [e EXCEPT !.phase = phase] \in Entry /\ [e EXCEPT !.phase = phase, !.flush = TRUE] \in Entry
  BY DEF Entry
<1>4. ASSUME NEW kind \in {"EXPOSED", "COMPLETED", "NOT_EXPOSED"}
      PROVE  Acknowledged(e, kind) \in Entry /\ NotAcknowledged(e, kind) \in Entry
  <2>1. Acknowledged(e, kind) \in Entry
    <3>1. CASE kind = "NOT_EXPOSED"
      BY <1>2, <3>1 DEF Acknowledged
    <3>2. CASE kind # "NOT_EXPOSED"
      <4>1. 0 \in 0 .. MaxRetries + 1
        BY <1>1
      <4>2. Acknowledged(e, kind) = [e EXCEPT !.told = kind, !.waiting = FALSE, !.failures = 0]
        BY <3>2 DEF Acknowledged
      <4>3. QED BY <3>2, <4>1, <4>2 DEF Entry
    <3>3. QED BY <3>1, <3>2
  <2>2. NotAcknowledged(e, kind) \in Entry
    <3>1. CASE kind = "NOT_EXPOSED"
      BY <3>1 DEF NotAcknowledged, Entry
    <3>2. CASE kind # "NOT_EXPOSED"
      <4>1. e.failures \in 0 .. MaxRetries + 1
        BY DEF Entry
      <4>2. (IF e.failures > MaxRetries THEN e.failures ELSE e.failures + 1) \in 0 .. MaxRetries + 1
        BY <1>1, <4>1
      <4>3. (e.failures < MaxRetries) \in BOOLEAN
        BY <1>1, <4>1
      <4>4. \E f \in 0 .. MaxRetries + 1, b \in BOOLEAN :
               NotAcknowledged(e, kind) = [e EXCEPT !.waiting = FALSE, !.flush = b, !.failures = f]
        BY <3>2, <4>2, <4>3 DEF NotAcknowledged
      <4>5. QED BY <4>4 DEF Entry
    <3>3. QED BY <3>1, <3>2
  <2>3. QED BY <2>1, <2>2
<1>5. QED BY <1>2, <1>3, <1>4

\* One client's entries change, to entries.
LEMMA EntryChanges ==
  ASSUME TypeOK, NEW c \in Connections, NEW f \in [Deliveries -> Entry], entry' = [entry EXCEPT ![c] = f]
  PROVE  entry' \in [Connections -> [Deliveries -> Entry]]
BY DEF TypeOK

\* How a step of the client of c changes what the client keeps of d.
LEMMA EntryStep ==
  ASSUME TypeOK, NEW c \in Connections, NEW d \in Deliveries, NEW e \in Entry,
         entry' = [entry EXCEPT ![c][d] = e]
  PROVE  /\ entry' \in [Connections -> [Deliveries -> Entry]]
         /\ entry'[c][d] = e
         /\ \A k \in Connections, x \in Deliveries : k # c \/ x # d => entry'[k][x] = entry[k][x]
BY DEF TypeOK

LEMMA EndClient ==
  ASSUME TypeOK, NEW c \in Connections, End(c)
  PROVE  /\ client' \in [Connections -> {"NEW", "READING", "ENDED"}]
         /\ wire' \in [Connections -> Seq(Deliveries)]
BY EmptySeq DEF End, TypeOK

\* A client's own steps leave the server, its ledger and the writer alone.
LEMMA RenderingLeavesServer ==
  ASSUME NEW c \in Connections, Rendering(c)
  PROVE  /\ UNCHANGED serverFrame
         /\ UNCHANGED <<ledgerVars, linkVars, pubVars, downVars, status>>
<1>1. UNCHANGED serverFrame
  <2>1. CASE Receive(c)
    BY <2>1 DEF Receive
  <2>2. CASE ClientEnds(c)
    BY <2>2 DEF ClientEnds
  <2>3. ASSUME NEW d \in Deliveries, MarkExposureBegan(c, d) \/ MarkPresentationCompleted(c, d)
        PROVE  UNCHANGED serverFrame
    BY <2>3 DEF MarkExposureBegan, MarkPresentationCompleted
  <2>4. ASSUME NEW d \in Deliveries, ReportNotExposed(c, d) \/ PresentationFails(c, d)
        PROVE  UNCHANGED serverFrame
    BY <2>4 DEF ReportNotExposed, PresentationFails
  <2>5. ASSUME NEW d \in Deliveries, FlushAcknowledgements(c, d) \/ Unanswered(c, d)
        PROVE  UNCHANGED serverFrame
    BY <2>5 DEF FlushAcknowledgements, Unanswered
  <2>6. QED BY <2>1, <2>2, <2>3, <2>4, <2>5 DEF Rendering
<1>2. QED BY <1>1 DEF serverFrame, ledgerVars

LEMMA ClientFrames ==
  ASSUME TypeOK, entry' \in [Connections -> [Deliveries -> Entry]], UNCHANGED serverFrame, UNCHANGED left \/ Disturb,
         client' \in [Connections -> {"NEW", "READING", "ENDED"}], wire' \in [Connections -> Seq(Deliveries)],
         shown' \in [Connections -> SUBSET Deliveries], mail' \in SUBSET Message
  PROVE  TypeOK'
<1>1. ClientType'
  BY DEF ClientType
<1>2. UNCHANGED <<ledgerVars, linkVars, pubVars, downVars>>
  BY DEF serverFrame
<1>3. QED BY <1>1, <1>2, SameTypes, TypeParts

LEMMA SendType ==
  ASSUME TypeOK, NEW c \in Connections, NEW d \in Deliveries,
         NEW kind \in {"EXPOSED", "COMPLETED", "NOT_EXPOSED"}, Send(c, d, kind)
  PROVE  mail' \in SUBSET Message /\ entry' \in [Connections -> [Deliveries -> Entry]]
<1>1. entry[c][d] \in Entry
  BY DEF TypeOK
<1>2. entry' = [entry EXCEPT ![c][d] = [entry[c][d] EXCEPT !.waiting = TRUE]]
  BY DEF Send, TypeOK
<1>3. [kind |-> kind, conn |-> c, delivery |-> d] \in Message
  BY DEF Message
<1>4. mail' \in SUBSET Message
  BY <1>3 DEF Send, TypeOK
<1>5. entry' \in [Connections -> [Deliveries -> Entry]]
  BY <1>1, <1>2, EntryTypes, EntryStep
<1>6. QED BY <1>4, <1>5

\* A client takes what arrives first, or forgets one that is completed for it.
LEMMA ReceiveDoes ==
  ASSUME TypeOK, NEW c \in Connections, Receive(c)
  PROVE  \E d \in Deliveries :
            /\ wire[c] # <<>> /\ d = wire[c][1]
            /\ \/ /\ entry[c][d].phase # "NONE"
                  /\ wire' = [wire EXCEPT ![c] = Tail(@)]
                  /\ entry' = [entry EXCEPT ![c][d] = [entry[c][d] EXCEPT !.flush = TRUE]] /\ UNCHANGED client
               \/ /\ entry[c][d].phase = "NONE"
                  /\ wire' = [wire EXCEPT ![c] = Tail(@)] /\ UNCHANGED client
                  /\ \E f \in [Deliveries -> Entry] :
                        /\ entry' = [entry EXCEPT ![c] = f] /\ f[d] = Received
                        /\ \A x \in Deliveries \ {d} : f[x] = entry[c][x] \/ f[x] = Untracked
               \/ End(c) /\ UNCHANGED entry
<1>1. /\ wire[c] # <<>> /\ wire[c] \in Seq(Deliveries) /\ entry[c] \in [Deliveries -> Entry]
      /\ entry \in [Connections -> [Deliveries -> Entry]]
  BY DEF Receive, TypeOK
<1>2. Head(wire[c]) \in Deliveries /\ Head(wire[c]) = wire[c][1]
  BY <1>1, HeadTailProperties
<1> DEFINE d == Head(wire[c])
<1>3. d \in Tracked(c) <=> entry[c][d].phase # "NONE"
  BY <1>2 DEF Tracked
<1>4. CASE /\ d \in Tracked(c) /\ wire' = [wire EXCEPT ![c] = Tail(@)] /\ UNCHANGED client
           /\ entry' = [entry EXCEPT ![c][d].flush = TRUE]
  BY <1>1, <1>2, <1>3, <1>4
<1>5. CASE /\ d \notin Tracked(c) /\ wire' = [wire EXCEPT ![c] = Tail(@)] /\ UNCHANGED client
           /\ entry' = [entry EXCEPT ![c][d] = Received]
  <2> DEFINE f == [entry[c] EXCEPT ![d] = Received]
  <2>1. f \in [Deliveries -> Entry] /\ f[d] = Received /\ \A x \in Deliveries \ {d} : f[x] = entry[c][x]
    <3>1. Received \in Entry
      BY <1>1, <1>2, EntryTypes
    <3>2. QED BY <1>1, <1>2, <3>1
  <2>2. entry' = [entry EXCEPT ![c] = f]
    BY <1>1, <1>5
  <2>3. QED BY <1>1, <1>2, <1>3, <1>5, <2>1, <2>2
<1>6. ASSUME d \notin Tracked(c), wire' = [wire EXCEPT ![c] = Tail(@)], UNCHANGED client, NEW old \in Evictable(c),
             entry' = [entry EXCEPT ![c][old] = Untracked, ![c][d] = Received]
      PROVE  \E f \in [Deliveries -> Entry] :
                /\ entry' = [entry EXCEPT ![c] = f] /\ f[d] = Received
                /\ \A x \in Deliveries \ {d} : f[x] = entry[c][x] \/ f[x] = Untracked
  <2> DEFINE f == [entry[c] EXCEPT ![old] = Untracked, ![d] = Received]
  <2>1. Untracked \in Entry /\ Received \in Entry
    BY <1>1, <1>2, EntryTypes
  <2>2. f \in [Deliveries -> Entry] /\ f[d] = Received
        /\ \A x \in Deliveries \ {d} : f[x] = entry[c][x] \/ f[x] = Untracked
    BY <1>1, <1>2, <2>1
  <2>3. entry' = [entry EXCEPT ![c] = f]
    BY <1>1, <1>6
  <2>4. QED BY <2>2, <2>3
<1>7. CASE End(c) /\ UNCHANGED entry
  BY <1>1, <1>2, <1>7
<1>8. QED BY <1>1, <1>2, <1>3, <1>4, <1>5, <1>6, <1>7 DEF Receive

\* What the other steps of a client do to what it keeps of a delivery.
LEMMA RenderingDoes ==
  ASSUME TypeOK, NEW c \in Connections, NEW d \in Deliveries
  PROVE  /\ MarkExposureBegan(c, d) =>
               entry' = [entry EXCEPT ![c][d] = [entry[c][d] EXCEPT !.phase = "EXPOSED", !.flush = TRUE]]
         /\ MarkPresentationCompleted(c, d) =>
               entry' = [entry EXCEPT ![c][d] = [entry[c][d] EXCEPT !.phase = "COMPLETED", !.flush = TRUE]]
         /\ PresentationFails(c, d) =>
               entry' = [entry EXCEPT ![c][d] = [entry[c][d] EXCEPT !.phase = "FAILED"]]
         /\ FlushAcknowledgements(c, d) =>
               \/ \E kind \in {"EXPOSED", "COMPLETED"} : Send(c, d, kind)
               \/ entry' = [entry EXCEPT ![c][d] = [entry[c][d] EXCEPT !.flush = FALSE]] /\ UNCHANGED mail
         /\ Unanswered(c, d) =>
               entry' = [entry EXCEPT ![c][d] = NotAcknowledged(entry[c][d], AwaitedKind(c, d))]
<1>1. entry \in [Connections -> [Deliveries -> Entry]]
  BY DEF TypeOK
<1>2. /\ MarkExposureBegan(c, d) =>
            entry' = [entry EXCEPT ![c][d] = [entry[c][d] EXCEPT !.phase = "EXPOSED", !.flush = TRUE]]
      /\ MarkPresentationCompleted(c, d) =>
            entry' = [entry EXCEPT ![c][d] = [entry[c][d] EXCEPT !.phase = "COMPLETED", !.flush = TRUE]]
  BY <1>1 DEF MarkExposureBegan, MarkPresentationCompleted
<1>3. PresentationFails(c, d) => entry' = [entry EXCEPT ![c][d] = [entry[c][d] EXCEPT !.phase = "FAILED"]]
  BY <1>1 DEF PresentationFails
<1>4. FlushAcknowledgements(c, d) =>
         \/ \E kind \in {"EXPOSED", "COMPLETED"} : Send(c, d, kind)
         \/ entry' = [entry EXCEPT ![c][d] = [entry[c][d] EXCEPT !.flush = FALSE]] /\ UNCHANGED mail
  BY <1>1 DEF FlushAcknowledgements
<1>5. Unanswered(c, d) => entry' = [entry EXCEPT ![c][d] = NotAcknowledged(entry[c][d], AwaitedKind(c, d))]
  BY <1>1 DEF Unanswered
<1>6. QED BY <1>2, <1>3, <1>4, <1>5

LEMMA ClientSteps == ASSUME TypeOK, NEW c \in Connections, Rendering(c) PROVE TypeOK'
<1>1. CASE Receive(c)
  <2>1. PICK d \in Deliveries :
            /\ wire[c] # <<>>
            /\ \/ /\ wire' = [wire EXCEPT ![c] = Tail(@)] /\ UNCHANGED client
                  /\ entry' = [entry EXCEPT ![c][d] = [entry[c][d] EXCEPT !.flush = TRUE]]
               \/ /\ wire' = [wire EXCEPT ![c] = Tail(@)] /\ UNCHANGED client
                  /\ \E f \in [Deliveries -> Entry] : entry' = [entry EXCEPT ![c] = f]
               \/ End(c) /\ UNCHANGED entry
    BY <1>1, ReceiveDoes
  <2>2. entry' \in [Connections -> [Deliveries -> Entry]]
    <3>1. entry[c][d] \in Entry
      BY DEF TypeOK
    <3>2. [entry[c][d] EXCEPT !.flush = TRUE] \in Entry
      BY <3>1, EntryTypes
    <3>3. CASE entry' = [entry EXCEPT ![c][d] = [entry[c][d] EXCEPT !.flush = TRUE]]
      BY <3>2, <3>3, EntryStep
    <3>4. CASE \E f \in [Deliveries -> Entry] : entry' = [entry EXCEPT ![c] = f]
      BY <3>4, EntryChanges
    <3>5. QED BY <2>1, <3>3, <3>4 DEF TypeOK
  <2>3. wire' \in [Connections -> Seq(Deliveries)] /\ client' \in [Connections -> {"NEW", "READING", "ENDED"}]
    <3>1. Tail(wire[c]) \in Seq(Deliveries)
      BY <2>1, HeadTailProperties DEF TypeOK
    <3>2. CASE wire' = [wire EXCEPT ![c] = Tail(@)] /\ UNCHANGED client
      BY <3>1, <3>2 DEF TypeOK
    <3>3. QED BY <2>1, <3>2, EndClient
  <2>4. UNCHANGED serverFrame /\ UNCHANGED <<left, shown, mail>>
    BY <1>1 DEF Receive
  <2>5. QED BY <2>2, <2>3, <2>4, ClientFrames DEF TypeOK
<1>2. CASE ClientEnds(c)
  <2>1. End(c) /\ UNCHANGED serverFrame /\ UNCHANGED <<entry, shown, mail>> /\ Disturb
    BY <1>2 DEF ClientEnds
  <2>2. QED BY <2>1, EndClient, ClientFrames DEF TypeOK
<1>3. ASSUME NEW d \in Deliveries, MarkExposureBegan(c, d) \/ MarkPresentationCompleted(c, d) \/ PresentationFails(c, d)
      PROVE  TypeOK'
  <2>1. entry[c][d] \in Entry
    BY DEF TypeOK
  <2>2. entry' \in [Connections -> [Deliveries -> Entry]]
    <3>1. PICK e \in Entry : entry' = [entry EXCEPT ![c][d] = e]
      <4>1. /\ [entry[c][d] EXCEPT !.phase = "EXPOSED", !.flush = TRUE] \in Entry
            /\ [entry[c][d] EXCEPT !.phase = "COMPLETED", !.flush = TRUE] \in Entry
            /\ [entry[c][d] EXCEPT !.phase = "FAILED"] \in Entry
        BY <2>1, EntryTypes
      <4>2. QED BY <1>3, <4>1, RenderingDoes
    <3>2. QED BY <3>1, EntryStep
  <2>3. wire' \in [Connections -> Seq(Deliveries)] /\ client' \in [Connections -> {"NEW", "READING", "ENDED"}]
    <3>1. End(c) \/ UNCHANGED <<wire, client>>
      BY <1>3 DEF MarkExposureBegan, MarkPresentationCompleted, PresentationFails
    <3>2. QED BY <3>1, EndClient DEF TypeOK
  <2>4. shown' \in [Connections -> SUBSET Deliveries] /\ mail' \in SUBSET Message
    <3>1. shown' = shown \/ shown' = [shown EXCEPT ![c] = @ \cup {d}]
      BY <1>3 DEF MarkExposureBegan, MarkPresentationCompleted, PresentationFails
    <3>2. UNCHANGED mail
      BY <1>3 DEF MarkExposureBegan, MarkPresentationCompleted, PresentationFails
    <3>3. shown' \in [Connections -> SUBSET Deliveries]
      <4>1. shown[c] \cup {d} \in SUBSET Deliveries
        BY DEF TypeOK
      <4>2. CASE shown' = [shown EXCEPT ![c] = @ \cup {d}]
        <5>1. shown' = [shown EXCEPT ![c] = shown[c] \cup {d}]
          BY <4>2
        <5>2. QED BY <4>1, <5>1 DEF TypeOK
      <4>3. QED BY <3>1, <4>2 DEF TypeOK
    <3>4. QED BY <3>2, <3>3 DEF TypeOK
  <2>5. UNCHANGED serverFrame /\ (UNCHANGED left \/ Disturb)
    BY <1>3 DEF MarkExposureBegan, MarkPresentationCompleted, PresentationFails
  <2>6. QED BY <2>2, <2>3, <2>4, <2>5, ClientFrames
<1>4. ASSUME NEW d \in Deliveries, ReportNotExposed(c, d) \/ FlushAcknowledgements(c, d) PROVE TypeOK'
  <2>1. mail' \in SUBSET Message /\ entry' \in [Connections -> [Deliveries -> Entry]]
    <3>1. CASE \E kind \in {"EXPOSED", "COMPLETED", "NOT_EXPOSED"} : Send(c, d, kind)
      BY <3>1, SendType
    <3>2. CASE entry' = [entry EXCEPT ![c][d] = [entry[c][d] EXCEPT !.flush = FALSE]] /\ UNCHANGED mail
      <4>1. entry[c][d] \in Entry
        BY DEF TypeOK
      <4>2. [entry[c][d] EXCEPT !.flush = FALSE] \in Entry
        BY <4>1, EntryTypes
      <4>3. QED BY <3>2, <4>2, EntryStep DEF TypeOK
    <3>3. QED BY <1>4, <3>1, <3>2, RenderingDoes DEF ReportNotExposed
  <2>2. UNCHANGED serverFrame /\ UNCHANGED <<wire, client, shown>> /\ (UNCHANGED left \/ Disturb)
    BY <1>4 DEF ReportNotExposed, FlushAcknowledgements
  <2>3. QED BY <2>1, <2>2, ClientFrames DEF TypeOK
<1>5. ASSUME NEW d \in Deliveries, Unanswered(c, d) PROVE TypeOK'
  <2>1. entry' \in [Connections -> [Deliveries -> Entry]]
    <3>1. AwaitedKind(c, d) \in {"EXPOSED", "COMPLETED", "NOT_EXPOSED"} /\ entry[c][d] \in Entry
      BY DEF AwaitedKind, TypeOK
    <3>2. NotAcknowledged(entry[c][d], AwaitedKind(c, d)) \in Entry
      BY <3>1, EntryTypes
    <3>3. entry' = [entry EXCEPT ![c][d] = NotAcknowledged(entry[c][d], AwaitedKind(c, d))]
      BY <1>5, RenderingDoes
    <3>4. QED
      <4> DEFINE e == NotAcknowledged(entry[c][d], AwaitedKind(c, d))
      <4>1. e \in Entry /\ entry' = [entry EXCEPT ![c][d] = e]
        BY <3>2, <3>3
      <4> HIDE DEF e
      <4>2. QED BY <4>1, EntryStep
  <2>2. wire' \in [Connections -> Seq(Deliveries)] /\ client' \in [Connections -> {"NEW", "READING", "ENDED"}]
    BY <1>5, EndClient DEF Unanswered, TypeOK
  <2>3. UNCHANGED serverFrame /\ UNCHANGED <<shown, mail>> /\ Disturb
    BY <1>5 DEF Unanswered
  <2>4. QED BY <2>1, <2>2, <2>3, ClientFrames DEF TypeOK
<1>6. QED BY <1>1, <1>2, <1>3, <1>4, <1>5 DEF Rendering

\* What an acknowledgement does to the ledger, and to what its client keeps.
LEMMA AcknowledgementDoes ==
  ASSUME TypeOK, NEW m \in mail, HandleAcknowledgement(m)
  PROVE  /\ m.conn \in Connections /\ m.delivery \in Deliveries /\ m.kind \in {"EXPOSED", "COMPLETED", "NOT_EXPOSED"}
         /\ UNCHANGED status \/ (/\ Accepts(m.kind, status[m.delivery])
                                 /\ status' = [status EXCEPT ![m.delivery] = Outcome(m.kind, status[m.delivery])])
         /\ \/ UNCHANGED entry
            \/ /\ entry[m.conn][m.delivery].waiting /\ AwaitedKind(m.conn, m.delivery) = m.kind
               /\ entry' = [entry EXCEPT ![m.conn][m.delivery] = Acknowledged(entry[m.conn][m.delivery], m.kind)]
<1>1. m.conn \in Connections /\ m.delivery \in Deliveries /\ m.kind \in {"EXPOSED", "COMPLETED", "NOT_EXPOSED"}
  BY DEF TypeOK, Message
<1>2. QED BY <1>1 DEF HandleAcknowledgement, TypeOK

LEMMA AcknowledgementSteps == ASSUME TypeOK, NEW m \in mail, HandleAcknowledgement(m) PROVE TypeOK'
<1> DEFINE c == m.conn
           d == m.delivery
<1>0. c \in Connections /\ d \in Deliveries /\ m.kind \in {"EXPOSED", "COMPLETED", "NOT_EXPOSED"}
  BY AcknowledgementDoes
<1>1. status' \in [Deliveries -> Status]
  <2>1. \A s : Outcome(m.kind, s) \in Status
    BY DEF Outcome, Status
  <2>2. CASE status' = [status EXCEPT ![d] = Outcome(m.kind, status[d])]
    BY <1>0, <2>1, <2>2 DEF TypeOK
  <2>3. QED BY <2>2, AcknowledgementDoes DEF TypeOK
<1>2. entry' \in [Connections -> [Deliveries -> Entry]]
  <2>1. entry[c][d] \in Entry
    BY <1>0 DEF TypeOK
  <2>2. Acknowledged(entry[c][d], m.kind) \in Entry
    BY <1>0, <2>1, EntryTypes
  <2>3. CASE entry' = [entry EXCEPT ![c][d] = Acknowledged(entry[c][d], m.kind)]
    BY <1>0, <2>2, <2>3, EntryStep
  <2>4. QED BY <2>3, AcknowledgementDoes DEF TypeOK
<1>3. LedgerType' /\ ClientType'
  BY <1>1, <1>2 DEF HandleAcknowledgement, TypeOK, LedgerType, ClientType
<1>4. UNCHANGED <<linkVars, pubVars, downVars, left>>
  BY DEF HandleAcknowledgement
<1>5. QED BY <1>3, <1>4, SameTypes, TypeParts

LEMMA TypeStep == TypeOK /\ OnePlace /\ Commanding /\ [Next]_vars => TypeOK'
<1>1. CASE UNCHANGED vars
  BY <1>1, SameTypes, TypeParts DEF vars
<1>2. QED
  BY <1>1, LedgerSteps, LinkSteps, PublishSteps, CommandSteps, ShutdownSteps, ClientSteps, AcknowledgementSteps
     DEF Next

-----------------------------------------------------------------------------
(* One connection at a time. *)

\* What a step does to the places of the connections.
LEMMA PlaceMoves ==
  ASSUME TypeOK, OnePlace, Next
  PROVE  \/ UNCHANGED <<attach, classify, waits>>
         \/ \E c \in Connections : Request(c) \/ Attach(c)
         \/ /\ UNCHANGED waits
            /\ \E c \in Attached : /\ Attached = {c} /\ classify = <<>>
                                   /\ attach' = [attach EXCEPT ![c] = "REMOVED"] /\ classify' = <<c>>
         \/ Classify /\ classify # <<>> /\ classify' = Tail(classify) /\ UNCHANGED <<attach, waits>>
         \/ Crash
<1>1. ASSUME NEW C \in SUBSET Connections, RemoveConnection(C)
      PROVE  \/ UNCHANGED <<attach, classify>>
             \/ \E c \in Attached : /\ Attached = {c} /\ classify = <<>>
                                    /\ attach' = [attach EXCEPT ![c] = "REMOVED"] /\ classify' = <<c>>
  BY <1>1, RemoveOne
<1>2. CASE \E d \in Deliveries : Queue(d) \/ Publish(d)
  BY <1>2 DEF Queue, Publish, linkVars, downVars
<1>3. CASE FinalizeUtterance \/ (\E ends \in BOOLEAN : Invalidate(ends)) \/ Recover
  BY <1>3 DEF FinalizeUtterance, Invalidate, Recover, linkVars, downVars
<1>4. CASE \E c \in Connections : SocketCloses(c) \/ Drain(c)
  BY <1>4 DEF SocketCloses, Drain, downVars
<1>5. CASE \E c \in Connections : Cleanup(c)
  BY <1>1, <1>5 DEF Cleanup
<1>6. CASE CloseSession \/ EndConnections
  BY <1>1, <1>6 DEF CloseSession, EndConnections, Attached
<1>7. CASE \E c \in Connections : Rendering(c)
  <2>1. UNCHANGED <<linkVars, downVars>>
    BY <1>7, RenderingLeavesServer
  <2>2. QED BY <2>1 DEF linkVars, downVars
<1>8. CASE Publication
  <2>1. CASE Begin
    <3>1. PICK C \in SUBSET Connections : RemoveConnection(C)
      BY <2>1 DEF Begin, Attached
    <3>2. UNCHANGED waits
      BY <2>1 DEF Begin
    <3>3. QED BY <1>1, <3>1, <3>2
  <2>2. CASE Check \/ Write \/ Settle
    <3>1. UNCHANGED waits /\ (UNCHANGED <<attach, classify>> \/ RemoveConnection({Used}))
      BY <2>2 DEF Check, Write, Settle
    <3>2. CASE RemoveConnection({Used})
      <4>1. RemoveConnection({Used} \cap Connections)
        <5>1. {Used} \cap Attached = ({Used} \cap Connections) \cap Attached
          BY DEF Attached
        <5>2. QED BY <3>2, <5>1 DEF RemoveConnection
      <4>2. {Used} \cap Connections \in SUBSET Connections
        OBVIOUS
      <4>3. QED BY <1>1, <3>1, <4>1, <4>2
    <3>3. QED BY <3>1, <3>2
  <2>3. CASE Unblock \/ Throw
    BY <2>3 DEF Unblock, Throw, linkVars, downVars
  <2>4. QED BY <1>8, <2>1, <2>2, <2>3 DEF Publication
<1>9. CASE Commands
  BY <1>9 DEF Commands, Reconnect, CancelBeforeExposure, MarkPossiblyExposed, ledgerFrame, linkVars
<1>10. CASE Classify
  BY <1>10 DEF Classify
<1>11. CASE Stop \/ Stopped \/ Restart
  BY <1>11 DEF Stop, Stopped, Restart, linkVars
<1>12. CASE \E m \in mail : HandleAcknowledgement(m)
  BY <1>12 DEF HandleAcknowledgement, linkVars, downVars
<1>13. QED
  BY <1>2, <1>3, <1>4, <1>5, <1>6, <1>7, <1>8, <1>9, <1>10, <1>11, <1>12 DEF Next, Shutdown

LEMMA PlacesStep == ASSUME TypeOK, Places, MaxPerSession = 1, [Next]_vars PROVE Places'
<1>1. CASE UNCHANGED <<attach, classify, waits>>
  <2>1. Attached' = Attached /\ Waiting' = Waiting
    BY <1>1 DEF Attached, Waiting
  <2>2. QED BY <1>1, <2>1 DEF Places, OnePlace, InTurn
<1>2. ASSUME NEW c \in Connections, Request(c) PROVE Places'
  <2>1. CASE AtCapacity
    <3>1. attach' = [attach EXCEPT ![c] = "REFUSED"] /\ UNCHANGED <<classify, waits>> /\ attach[c] = "NEW"
      BY <1>2, <2>1 DEF Request, downVars
    <3>2. Attached' = Attached /\ Waiting' = Waiting
      BY <3>1 DEF Attached, Waiting, TypeOK
    <3>3. QED BY <3>1, <3>2 DEF Places, OnePlace, InTurn
  <2>2. CASE ~AtCapacity
    <3>1. /\ attach' = [attach EXCEPT ![c] = "WAITING"] /\ attach[c] = "NEW" /\ UNCHANGED classify
          /\ waits' = [waits EXCEPT ![c] = ToSet(classify) \cup Waiting]
      BY <1>2, <2>2 DEF Request, downVars
    <3>2. Attached' = Attached /\ Waiting' = Waiting \cup {c} /\ c \notin Waiting
      BY <3>1 DEF Attached, Waiting, TypeOK
    <3>3. Attached = {}
      BY <2>2, RoomForOne DEF Places
    <3>4. waits'[c] = ToSet(classify) \cup Waiting /\ \A e \in Connections : e # c => waits'[e] = waits[e]
      BY <3>1 DEF TypeOK
    <3>5. \A e : classify = <<e>> => e \in ToSet(classify)
      BY DEF ToSet
    <3>6. OnePlace'
      BY <3>1, <3>2 DEF Places, OnePlace
    <3>7. \A k, e \in Waiting' : k # e => k \in waits'[e] \/ e \in waits'[k]
      BY <3>2, <3>4 DEF Places, InTurn, Waiting
    <3>8. \A k \in Waiting' : \A e \in Connections : e \in Attached' \/ classify' = <<e>> => e \in waits'[k]
      BY <3>1, <3>2, <3>3, <3>4, <3>5 DEF Places, InTurn, Waiting
    <3>9. QED BY <3>6, <3>7, <3>8 DEF Places, InTurn
  <2>3. QED BY <2>1, <2>2
<1>3. ASSUME NEW c \in Connections, Attach(c) PROVE Places'
  <2>1. /\ c \in Waiting /\ Classified(c) /\ waits' = [waits EXCEPT ![c] = {}] /\ UNCHANGED classify
        /\ \/ attach' = [attach EXCEPT ![c] = "ATTACHED"] /\ Room
           \/ attach' = [attach EXCEPT ![c] = "REFUSED"]
    BY <1>3 DEF Attach, Waiting, downVars
  <2>2. \A e \in Connections : e # c => waits'[e] = waits[e]
    BY <2>1 DEF TypeOK
  <2>3. CASE attach' = [attach EXCEPT ![c] = "REFUSED"]
    <3>1. Attached' = Attached /\ Waiting' = Waiting \ {c}
      BY <2>1, <2>3 DEF Attached, Waiting, TypeOK
    <3>2. QED BY <2>1, <2>2, <3>1 DEF Places, OnePlace, InTurn, Waiting
  <2>4. CASE attach' = [attach EXCEPT ![c] = "ATTACHED"] /\ Room
    <3>1. Attached = {}
      BY <2>4, RoomForOne DEF Room, Places
    <3>2. Attached' = {c} /\ Waiting' = Waiting \ {c}
      BY <2>1, <2>4, <3>1 DEF Attached, Waiting, TypeOK
    <3>3. classify = <<>>
      <4>1. ASSUME NEW e \in Connections, classify = <<e>> PROVE FALSE
        <5>1. e \in waits[c] /\ e \in ToSet(classify)
          BY <2>1, <4>1 DEF Places, InTurn, ToSet
        <5>2. QED BY <2>1, <5>1 DEF Classified
      <4>2. QED BY <4>1 DEF Places, OnePlace
    <3>4. OnePlace'
      BY <2>1, <3>2, <3>3 DEF OnePlace
    <3>5. \A e \in Waiting : e # c => c \in waits[e]
      BY <2>1 DEF Places, InTurn, Classified
    <3>6. InTurn'
      <4>1. \A e \in Connections : classify' # <<e>>
        BY <2>1, <3>3
      <4>2. QED BY <2>2, <3>2, <3>5, <4>1 DEF Places, InTurn, Waiting
    <3>7. QED BY <3>4, <3>6 DEF Places
  <2>5. QED BY <2>1, <2>3, <2>4
<1>4. ASSUME UNCHANGED waits, NEW c \in Attached,
             Attached = {c}, classify = <<>>, attach' = [attach EXCEPT ![c] = "REMOVED"], classify' = <<c>>
      PROVE  Places'
  <2>1. Attached' = {} /\ Waiting' = Waiting /\ c \in Connections
    BY <1>4 DEF Attached, Waiting, TypeOK
  <2>2. \A e : classify' = <<e>> => e = c
    BY <1>4
  <2>3. OnePlace'
    BY <1>4, <2>1 DEF OnePlace
  <2>4. InTurn'
    BY <1>4, <2>1, <2>2 DEF Places, InTurn
  <2>5. QED BY <2>3, <2>4 DEF Places
<1>5. CASE classify # <<>> /\ classify' = Tail(classify) /\ UNCHANGED <<attach, waits>>
  <2>1. classify' = <<>>
    <3>1. PICK c \in Connections : classify = <<c>>
      BY <1>5 DEF Places, OnePlace
    <3>2. <<c>> \in Seq(Connections) /\ Len(<<c>>) = 1
      OBVIOUS
    <3>3. Tail(<<c>>) = <<>>
      BY <3>2
    <3>4. QED BY <1>5, <3>1, <3>3
  <2>2. Attached' = Attached /\ Waiting' = Waiting
    BY <1>5 DEF Attached, Waiting
  <2>3. Attached = {}
    BY <1>5 DEF Places, OnePlace
  <2>4. \A e : classify' # <<e>>
    BY <2>1
  <2>5. QED BY <1>5, <2>1, <2>2, <2>3, <2>4 DEF Places, OnePlace, InTurn
<1>6. CASE Crash
  <2>1. Attached' = {} /\ Waiting' = {} /\ classify' = <<>>
    BY <1>6 DEF Crash, Attached, Waiting
  <2>2. QED BY <2>1 DEF Places, OnePlace, InTurn
<1>7. CASE Next
  BY <1>7, PlaceMoves, <1>1, <1>2, <1>3, <1>4, <1>5, <1>6 DEF Places
<1>8. QED BY <1>7, <1>1 DEF vars, linkVars, downVars

-----------------------------------------------------------------------------
(* What the steps do that the publications and the classification do not take. *)

\* They leave alone what the publication under way and the classification keep;
\* publications are asked for at the end of the tail.
LEMMA Bystanders ==
  ASSUME TypeOK, Next, ~Publication, ~Commands, ~Classify, ~Crash
  PROVE  /\ UNCHANGED <<sent, visited, queue, pub>>
         /\ tail' = tail \/ \E p \in Publications : tail' = Append(tail, p)
<1>1. CASE \E d \in Deliveries : Queue(d)
  BY <1>1 DEF Queue, linkVars, pubVars, downVars
<1>2. CASE FinalizeUtterance \/ (\E ends \in BOOLEAN : Invalidate(ends)) \/ Recover
  BY <1>2 DEF FinalizeUtterance, Invalidate, Recover, linkVars, pubVars, downVars
<1>3. CASE \E d \in Deliveries : Publish(d)
  <2>1. PICK d \in Deliveries : Publish(d)
    BY <1>3
  <2>2. [delivery |-> d, by |-> None] \in Publications
    BY DEF Publications
  <2>3. QED BY <2>1, <2>2 DEF Publish, Enqueue, linkVars, downVars
<1>4. ASSUME NEW c \in Connections, Drain(c)
      PROVE  /\ UNCHANGED <<sent, visited, queue, pub>>
             /\ tail' = tail \/ \E p \in Publications : tail' = Append(tail, p)
  <2>1. UNCHANGED <<sent, visited, queue, pub>>
    BY <1>4 DEF Drain, downVars
  <2>2. tail' = tail \/ \E d \in Deliveries : Enqueue(d, c)
    BY <1>4 DEF Drain, TypeOK
  <2>3. \A d \in Deliveries : [delivery |-> d, by |-> c] \in Publications
    BY DEF Publications
  <2>4. QED BY <2>1, <2>2, <2>3 DEF Enqueue
<1>5. CASE \E c \in Connections : Request(c) \/ Attach(c) \/ SocketCloses(c) \/ Cleanup(c)
  BY <1>5 DEF Request, Attach, SocketCloses, Cleanup, pubVars, downVars
<1>6. CASE CloseSession \/ Shutdown
  BY <1>6 DEF CloseSession, Shutdown, Stop, EndConnections, Stopped, Restart, linkVars, pubVars
<1>7. CASE \E c \in Connections : Rendering(c)
  <2>1. UNCHANGED <<linkVars, pubVars, downVars>>
    BY <1>7, RenderingLeavesServer
  <2>2. QED BY <2>1 DEF linkVars, pubVars, downVars
<1>8. CASE \E m \in mail : HandleAcknowledgement(m)
  BY <1>8 DEF HandleAcknowledgement, linkVars, pubVars, downVars
<1>9. QED BY <1>1, <1>2, <1>3, <1>4, <1>5, <1>6, <1>7, <1>8 DEF Next

\* A connection gives up its place only when its socket is closed.
LEMMA OpenKeepsItsPlace ==
  ASSUME TypeOK, Next, ~Publication, ~Crash, NEW c \in Connections, socket'[c] = "OPEN"
  PROVE  socket[c] = "OPEN" /\ (c \in Attached => c \in Attached')
<1>1. CASE \E d \in Deliveries : Queue(d) \/ Publish(d)
  BY <1>1 DEF Queue, Publish, linkVars, Attached
<1>2. CASE FinalizeUtterance \/ (\E ends \in BOOLEAN : Invalidate(ends)) \/ Recover
  BY <1>2 DEF FinalizeUtterance, Invalidate, Recover, linkVars, Attached
<1>3. CASE \E k \in Connections : SocketCloses(k) \/ Drain(k) \/ Request(k) \/ Attach(k)
  BY <1>3 DEF SocketCloses, Drain, Request, Attach, Attached, TypeOK
<1>4. CASE \E k \in Connections : Cleanup(k)
  BY <1>4 DEF Cleanup, RemoveConnection, Attached, TypeOK
<1>5. CASE CloseSession \/ EndConnections
  BY <1>5 DEF CloseSession, EndConnections, RemoveConnection, Attached, TypeOK
<1>6. CASE Stop \/ Stopped \/ Restart
  BY <1>6 DEF Stop, Stopped, Restart, linkVars, Attached
<1>7. CASE \E k \in Connections : Rendering(k)
  <2>1. UNCHANGED linkVars
    BY <1>7, RenderingLeavesServer
  <2>2. QED BY <2>1 DEF linkVars, Attached
<1>8. CASE Commands
  BY <1>8 DEF Commands, Reconnect, CancelBeforeExposure, MarkPossiblyExposed, ledgerFrame, linkVars, Attached
<1>9. CASE Classify \/ \E m \in mail : HandleAcknowledgement(m)
  BY <1>9 DEF Classify, HandleAcknowledgement, linkVars, Attached
<1>10. QED BY <1>1, <1>2, <1>3, <1>4, <1>5, <1>6, <1>7, <1>8, <1>9 DEF Next, Shutdown

\* Where a delivery's status may come from.
LEMMA LedgerMoves ==
  ASSUME TypeOK, Next, NEW d \in Deliveries
  PROVE  /\ status'[d] \in {"UNUSED", "QUEUED"} => status[d] \in {"UNUSED", "QUEUED"}
         /\ \/ status'[d] = "DELIVERING" => status[d] = "DELIVERING"
            \/ Reconnect /\ d = Head(queue).delivery /\ status[d] = "QUEUED"
         /\ \/ status'[d] = "CANCELLED" => status[d] \in {"CANCELLED", "QUEUED"}
            \/ \E m \in mail : HandleAcknowledgement(m) /\ m.delivery = d /\ m.kind = "NOT_EXPOSED"
<1>1. CASE \E k \in Deliveries : Queue(k) \/ Publish(k)
  BY <1>1 DEF Queue, Publish, TypeOK
<1>2. CASE FinalizeUtterance
  BY <1>2 DEF FinalizeUtterance
<1>3. CASE \E ends \in BOOLEAN : Invalidate(ends)
  BY <1>3 DEF Invalidate, Withdrawn, TypeOK
<1>4. CASE Recover
  BY <1>4 DEF Recover, RecoveredStatus, TypeOK
<1>5. CASE CloseSession \/ Shutdown \/ Publication \/ Classify \/ Crash
  <2>1. UNCHANGED status
    BY <1>5 DEF CloseSession, Shutdown, Stop, EndConnections, Stopped, Restart, Crash, Classify,
                Publication, Begin, Check, Write, Unblock, Settle, Throw, ledgerVars
  <2>2. QED BY <2>1
<1>6. CASE \E c \in Connections : \/ Request(c) \/ Attach(c) \/ SocketCloses(c) \/ Cleanup(c) \/ Drain(c) \/ Rendering(c)
  <2>1. ASSUME NEW c \in Connections, Request(c) \/ Attach(c) \/ SocketCloses(c) \/ Cleanup(c) \/ Drain(c)
        PROVE  UNCHANGED status
    BY <2>1 DEF Request, Attach, SocketCloses, Cleanup, Drain, ledgerVars
  <2>2. ASSUME NEW c \in Connections, Rendering(c) PROVE UNCHANGED status
    <3>1. UNCHANGED serverFrame
      BY <2>2, RenderingLeavesServer
    <3>2. QED BY <3>1 DEF serverFrame, ledgerVars
  <2>3. QED BY <1>6, <2>1, <2>2
<1>7. CASE Commands
  <2>1. CASE Reconnect
    BY <2>1 DEF Reconnect, TypeOK
  <2>2. CASE CancelBeforeExposure
    BY <2>2 DEF CancelBeforeExposure, TypeOK
  <2>3. CASE MarkPossiblyExposed
    BY <2>3 DEF MarkPossiblyExposed, Uncertain, TypeOK
  <2>4. QED BY <1>7, <2>1, <2>2, <2>3 DEF Commands
<1>8. ASSUME NEW m \in mail, HandleAcknowledgement(m)
      PROVE  /\ status'[d] \in {"UNUSED", "QUEUED"} => status[d] \in {"UNUSED", "QUEUED"}
             /\ status'[d] = "DELIVERING" => status[d] = "DELIVERING"
             /\ \/ status'[d] = "CANCELLED" => status[d] \in {"CANCELLED", "QUEUED"}
                \/ m.delivery = d /\ m.kind = "NOT_EXPOSED"
  <2>1. m.delivery \in Deliveries /\ m.kind \in {"EXPOSED", "COMPLETED", "NOT_EXPOSED"}
    BY <1>8, AcknowledgementDoes
  <2>2. UNCHANGED status \/ status' = [status EXCEPT ![m.delivery] = Outcome(m.kind, status[m.delivery])]
    BY <1>8, AcknowledgementDoes
  <2>3. QED BY <2>1, <2>2 DEF Outcome, TypeOK
<1>9. QED BY <1>1, <1>2, <1>3, <1>4, <1>5, <1>6, <1>7, <1>8 DEF Next

-----------------------------------------------------------------------------
(* What is on its way stays somebody's to account for. *)

\* A publication takes back what it had noted only when it is done with it.
LEMMA Retracts ==
  ASSUME TypeOK, Commanding, Publication
  PROVE  \/ UNCHANGED sent
         \/ pub.step = "CHECK" /\ Used \in Connections /\ sent' = [sent EXCEPT ![Used] = sent[Used] \cup {This}]
         \/ /\ pub.step # "COMMAND" /\ Used \in Connections /\ status[This] # "DELIVERING"
            /\ sent' = [sent EXCEPT ![Used] = sent[Used] \ {This}]
<1>1. CASE Begin \/ Unblock
  BY <1>1 DEF Begin, Unblock, linkVars
<1>2. CASE Check
  BY <1>2 DEF Check, At, Memo, Commanding, InHand
<1>3. CASE Write
  BY <1>3 DEF Write, At, StillDelivering, Memo, Commanding, InHand
<1>4. CASE Settle
  BY <1>4 DEF Settle, At, Memo, Commanding, InHand
<1>5. CASE Throw
  BY <1>5 DEF Throw, At, Memo, Commanding, InHand
<1>6. QED BY <1>1, <1>2, <1>3, <1>4, <1>5 DEF Publication

\* Who has d noted keeps it noted, and with its place or in the classification.
LEMMA StaysAnswerable ==
  ASSUME TypeOK, OnePlace, Commanding, Next, ~Crash, NEW c \in Connections, NEW d \in Deliveries, Answerable(c, d),
         ~(IsNext("CLASSIFY") /\ MarkPossiblyExposed /\ d = Head(queue).delivery),
         Publication => pub.step = "COMMAND" \/ status[d] = "DELIVERING" \/ d # This
  PROVE  Answerable(c, d)'
<1>1. CASE Classify
  <2>1. CASE sent[Head(classify)] \subseteq visited /\ visited' = {}
    <3>1. c \in Attached => classify = <<>>
      BY DEF OnePlace
    <3>2. classify # <<>>
      BY <1>1 DEF Classify
    <3>3. classify = <<c>> /\ d \in sent[c] /\ d \notin visited
      BY <3>1, <3>2 DEF Answerable
    <3>4. Head(classify) = c
      BY <3>3
    <3>5. QED BY <2>1, <3>3, <3>4
  <2>2. CASE UNCHANGED <<classify, visited, sent>>
    <3>1. Attached' = Attached
      BY <1>1 DEF Classify, Attached
    <3>2. QED BY <2>2, <3>1 DEF Answerable
  <2>3. QED BY <1>1, <2>1, <2>2 DEF Classify
<1>2. CASE ~Classify
  <2>1. d \in sent'[c]
    <3>1. CASE Publication
      <4>1. d \in sent[c]
        BY DEF Answerable
      <4>2. CASE Used \in Connections /\ sent' = [sent EXCEPT ![Used] = sent[Used] \cup {This}]
        BY <4>1, <4>2 DEF TypeOK
      <4>3. CASE /\ pub.step # "COMMAND" /\ Used \in Connections /\ status[This] # "DELIVERING"
                 /\ sent' = [sent EXCEPT ![Used] = sent[Used] \ {This}]
        <5>1. d # This
          BY <3>1, <4>3
        <5>2. QED BY <4>1, <4>3, <5>1 DEF TypeOK
      <4>4. QED BY <3>1, <4>1, <4>2, <4>3, Retracts
    <3>2. CASE Commands
      BY <3>2 DEF Commands, Reconnect, CancelBeforeExposure, MarkPossiblyExposed, ledgerFrame, linkVars, Answerable
    <3>3. CASE ~Publication /\ ~Commands
      BY <1>2, <3>3, Bystanders DEF Answerable
    <3>4. QED BY <3>1, <3>2, <3>3
  <2>2. d \notin visited => d \notin visited'
    <3>1. CASE Publication
      BY <3>1 DEF Publication, Begin, Check, Write, Unblock, Settle, Throw, downVars
    <3>2. CASE Commands
      BY <3>2 DEF Commands, Reconnect, CancelBeforeExposure, MarkPossiblyExposed, IsNext
    <3>3. CASE ~Publication /\ ~Commands
      BY <1>2, <3>3, Bystanders
    <3>4. QED BY <3>1, <3>2, <3>3
  <2>3. c \in Attached' \/ (classify' = <<c>> /\ (classify = <<c>> \/ visited = {}))
    <3>1. \/ c \in Attached /\ classify = <<>> /\ visited = {}
          \/ classify = <<c>>
      BY DEF Answerable, OnePlace, Commanding, Visiting
    <3>2. CASE UNCHANGED <<attach, classify, waits>>
      BY <3>1, <3>2 DEF Attached
    <3>3. ASSUME NEW k \in Connections, Request(k) \/ Attach(k)
          PROVE  UNCHANGED classify /\ (c \in Attached => c \in Attached')
      BY <3>3 DEF Request, Attach, downVars, Attached, TypeOK
    <3>4. ASSUME NEW k \in Attached, Attached = {k}, classify = <<>>, classify' = <<k>>
          PROVE  c \in Attached' \/ (classify' = <<c>> /\ (classify = <<c>> \/ visited = {}))
      BY <3>1, <3>4
    <3>5. QED BY <1>2, <3>1, <3>2, <3>3, <3>4, PlaceMoves
  <2>4. d \notin visited \/ (classify = <<>> /\ visited = {})
    BY DEF Answerable, OnePlace, Commanding, Visiting
  <2>5. QED BY <2>1, <2>2, <2>3, <2>4 DEF Answerable
<1>3. QED BY <1>1, <1>2

LEMMA OnItsWayStep ==
  ASSUME TypeOK, OnePlace, Commanding, OnItsWay, Next
  PROVE  OnItsWay'
<1>1. CASE Crash
  BY <1>1 DEF Crash, OnItsWay
<1>2. CASE Recover
  <2>1. \A d \in Deliveries : status'[d] # "DELIVERING"
    BY <1>2 DEF Recover, RecoveredStatus, TypeOK
  <2>2. QED BY <2>1 DEF OnItsWay
<1>3. ASSUME ~Crash, ~Recover, recovered', NEW d \in Deliveries, status'[d] = "DELIVERING"
      PROVE  \E c \in Connections : Answerable(c, d)'
  <2>1. recovered
    <3>1. CASE Publication \/ Commands \/ Classify
      BY <1>3, <3>1 DEF Publication, Begin, Check, Write, Unblock, Settle, Throw, ledgerVars, Classify,
                        Commands, Reconnect, CancelBeforeExposure, MarkPossiblyExposed, ledgerFrame
    <3>2. CASE \E c \in Connections : Rendering(c)
      <4>1. UNCHANGED serverFrame
        BY <3>2, RenderingLeavesServer
      <4>2. QED BY <1>3, <4>1 DEF serverFrame, ledgerVars
    <3>3. CASE \E c \in Connections : Request(c) \/ Attach(c) \/ SocketCloses(c) \/ Cleanup(c) \/ Drain(c)
      BY <1>3, <3>3 DEF Request, Attach, SocketCloses, Cleanup, Drain, ledgerVars
    <3>4. CASE \/ \E k \in Deliveries : Queue(k) \/ Publish(k)
               \/ FinalizeUtterance \/ \E ends \in BOOLEAN : Invalidate(ends)
      BY <1>3, <3>4 DEF Queue, Publish, FinalizeUtterance, Invalidate
    <3>5. CASE CloseSession \/ Shutdown \/ \E m \in mail : HandleAcknowledgement(m)
      BY <1>3, <3>5 DEF CloseSession, Shutdown, Stop, EndConnections, Stopped, Restart, HandleAcknowledgement, ledgerVars
    <3>6. QED BY <1>3, <3>1, <3>2, <3>3, <3>4, <3>5 DEF Next
  <2>2. CASE Reconnect /\ d = Head(queue).delivery
    <3>1. queue # <<>> /\ Head(queue).op = "RECONNECT" /\ 1 \in 1 .. Len(queue) /\ Head(queue) = queue[1]
      BY <2>2 DEF Reconnect, IsNext, TypeOK
    <3>2. pub.step = "COMMAND" /\ d = This /\ Answerable(Used, This)
      BY <2>2, <3>1 DEF Commanding, OwnCommands
    <3>3. Used \in Connections
      BY <3>2 DEF Commanding, InHand
    <3>4. ~Publication /\ ~(IsNext("CLASSIFY") /\ MarkPossiblyExposed /\ d = Head(queue).delivery)
      BY <3>1, <3>2 DEF IsNext, Publication, Begin, Check, Write, Unblock, Settle, Throw, At
    <3>5. QED BY <1>3, <3>2, <3>3, <3>4, StaysAnswerable
  <2>3. CASE status[d] = "DELIVERING"
    <3>1. PICK c \in Connections : Answerable(c, d)
      BY <2>1, <2>3 DEF OnItsWay
    <3>2. ~(IsNext("CLASSIFY") /\ MarkPossiblyExposed /\ d = Head(queue).delivery)
      BY <1>3 DEF MarkPossiblyExposed, Uncertain, TypeOK
    <3>3. QED BY <1>3, <2>3, <3>1, <3>2, StaysAnswerable
  <2>4. QED BY <1>3, <2>2, <2>3, LedgerMoves
<1>4. QED BY <1>1, <1>2, <1>3 DEF OnItsWay

-----------------------------------------------------------------------------
(* The commands in the writer, and who awaits them. *)

\* A publication that ends leaves the classification's commands.
LEMMA OnlyClassifying ==
  ASSUME TypeOK, Commanding, pub.step # "COMMAND", NEW i \in 1 .. Len(queue)
  PROVE  queue[i].op = "CLASSIFY" /\ classify # <<>>
BY DEF Commanding, OwnCommands

LEMMA FinishesInHand ==
  ASSUME TypeOK, Commanding, pub.step # "COMMAND", pub' = NoPub, UNCHANGED queue, classify # <<>> => classify' # <<>>
  PROVE  InHand' /\ OwnCommands'
<1>1. InHand'
  BY DEF NoPub, InHand
<1>2. \A i \in 1 .. Len(queue') : queue'[i].op = "CLASSIFY" /\ classify' # <<>>
  BY OnlyClassifying
<1>3. QED BY <1>1, <1>2 DEF OwnCommands

LEMMA AwaitsInHand ==
  ASSUME TypeOK, Commanding, tail # <<>>, pub.step \notin {"IDLE", "COMMAND"},
         NEW op \in {"RECONNECT", "MARK", "CANCEL"}, NEW after \in {"END", "REMOVE", "DESTROY"},
         Await(op, after), UNCHANGED <<status, classify>>,
         op \in {"RECONNECT", "CANCEL"} => status[This] # "DELIVERING",
         op = "RECONNECT" => classify = <<>> /\ Answerable(Used, This)'
  PROVE  InHand' /\ OwnCommands'
<1>1. /\ pub' = [pub EXCEPT !.step = "COMMAND", !.after = after] /\ UNCHANGED tail
      /\ queue' = Append(queue, [op |-> op, delivery |-> This])
  BY DEF Await
<1>2. pub'.step = "COMMAND" /\ Used' = Used /\ This' = This /\ tail' # <<>>
  BY <1>1 DEF Used, This, TypeOK
<1>3. Used \in Connections
  BY DEF Commanding, InHand
<1>4. InHand'
  BY <1>2, <1>3 DEF InHand
<1>5. /\ Len(queue') = Len(queue) + 1
      /\ \A i \in 1 .. Len(queue) : queue'[i] = queue[i]
      /\ queue'[Len(queue) + 1] = [op |-> op, delivery |-> This]
      /\ Len(queue) \in Nat
  <2>1. [op |-> op, delivery |-> This] \in WriterCommands
    BY ThisOne DEF WriterCommands
  <2>2. QED BY <1>1, <2>1, AppendProperties, LenProperties DEF TypeOK, WriterCommands
<1>6. \A i \in 1 .. Len(queue) : queue'[i].op = "CLASSIFY" /\ classify' # <<>>
  BY <1>5, OnlyClassifying
<1>7. op = "RECONNECT" => Len(queue) = 0
  BY <1>5, OnlyClassifying
<1>8. ASSUME NEW i \in 1 .. Len(queue'), queue'[i].op # "CLASSIFY"
      PROVE  /\ i = Len(queue) + 1 /\ queue'[i].delivery = This' /\ queue'[i].op = op
  BY <1>2, <1>5, <1>6, <1>8
<1>9. ASSUME NEW i \in 1 .. Len(queue'), queue'[i].op # "CLASSIFY"
      PROVE  /\ queue'[i].op \in {"RECONNECT", "CANCEL"} => status'[This'] # "DELIVERING"
             /\ queue'[i].op = "RECONNECT" => i = 1 /\ Answerable(Used, This)'
  BY <1>2, <1>5, <1>7, <1>8, <1>9
<1>10. OwnCommands'
  BY <1>2, <1>6, <1>8, <1>9, <1>5 DEF OwnCommands
<1>11. QED BY <1>4, <1>10

LEMMA PublicationCommands ==
  ASSUME TypeOK, OnePlace, Commanding, OnItsWay, Publication
  PROVE  InHand' /\ OwnCommands'
<1>1. ASSUME NEW C, RemoveConnection(C), classify # <<>> PROVE classify' # <<>>
  <2>1. Attached = {}
    BY <1>1 DEF OnePlace
  <2>2. QED BY <1>1, <2>1, NoneToSeq, ConcatEmptySeq DEF RemoveConnection, TypeOK
<1>2. CASE Begin
  <2>1. classify # <<>> => classify' # <<>>
    BY <1>1, <1>2 DEF Begin
  <2>2. pub.step = "IDLE" /\ tail # <<>> /\ UNCHANGED <<queue, socket>>
    BY <1>2 DEF Begin, At
  <2>3. CASE Finish
    BY <2>1, <2>2, <2>3, FinishesInHand DEF Finish
  <2>4. ASSUME NEW c \in Attached, socket[c] = "OPEN", pub' = [NoPub EXCEPT !.step = "CHECK", !.conn = c], UNCHANGED tail,
               RemoveConnection(Attached \ {e \in Attached : socket[e] = "OPEN"})
        PROVE  InHand' /\ OwnCommands'
    <3>1. pub'.step = "CHECK" /\ Used' = c
      BY <2>4 DEF NoPub, Used
    <3>2. c \in Attached'
      BY <2>4 DEF RemoveConnection, Attached
    <3>3. InHand'
      BY <2>2, <2>4, <3>1, <3>2 DEF InHand, Attached
    <3>4. \A i \in 1 .. Len(queue') : queue'[i].op = "CLASSIFY" /\ classify' # <<>>
      BY <2>1, <2>2, OnlyClassifying
    <3>5. QED BY <3>3, <3>4 DEF OwnCommands
  <2>5. QED BY <1>2, <2>3, <2>4 DEF Begin
<1>3. CASE Check
  <2>1. pub.step = "CHECK" /\ tail # <<>> /\ recovered /\ UNCHANGED status /\ Used \in Connections
    BY <1>3 DEF Check, At, ledgerVars, Commanding, InHand
  <2>2. CASE Finish /\ UNCHANGED queue
    <3>1. classify # <<>> => classify' # <<>>
      BY <1>1, <1>3, <2>2 DEF Check
    <3>2. QED BY <2>1, <2>2, <3>1, FinishesInHand DEF Finish
  <2>3. CASE Await(IF status[This] = "QUEUED" THEN "CANCEL" ELSE "MARK", "END") /\ UNCHANGED classify
    <3>1. CASE status[This] = "QUEUED"
      BY <2>1, <2>3, <3>1, AwaitsInHand
    <3>2. CASE status[This] # "QUEUED"
      BY <2>1, <2>3, <3>2, AwaitsInHand
    <3>3. QED BY <3>1, <3>2
  <2>4. CASE /\ Sendable /\ socket[Used] = "OPEN" /\ Memo(sent[Used] \cup {This})
             /\ Await("RECONNECT", "END") /\ UNCHANGED <<attach, classify>>
    <3>1. Used \in Attached /\ classify = <<>>
      BY <2>1, <2>4 DEF Commanding, InHand, OnePlace
    <3>2. status[This] # "DELIVERING"
      <4>1. ASSUME status[This] = "DELIVERING" PROVE FALSE
        <5>1. PICK c \in Connections : Answerable(c, This)
          BY <2>1, <4>1, ThisOne DEF OnItsWay
        <5>2. c \in Attached
          BY <3>1, <5>1 DEF Answerable
        <5>3. c = Used
          BY <3>1, <5>2 DEF OnePlace
        <5>4. QED BY <2>4, <4>1, <5>1, <5>3 DEF Sendable, Answerable
      <4>2. QED BY <4>1
    <3>3. Answerable(Used, This)'
      <4>1. Used' = Used /\ This' = This
        BY <2>1, <2>4 DEF Await, Used, This, TypeOK
      <4>2. This \in sent'[Used]
        BY <2>1, <2>4 DEF Memo, TypeOK
      <4>3. Attached' = Attached
        BY <2>4 DEF Attached
      <4>4. QED BY <3>1, <4>1, <4>2, <4>3 DEF Answerable
    <3>4. QED BY <2>1, <2>4, <3>1, <3>2, <3>3, AwaitsInHand
  <2>5. QED BY <1>3, <2>2, <2>3, <2>4 DEF Check
<1>4. CASE Write
  <2>1. pub.step = "STARTED" /\ tail # <<>> /\ UNCHANGED <<status>> /\ Used \in Connections
    BY <1>4 DEF Write, At, ledgerVars, Commanding, InHand
  <2>2. classify # <<>> => classify' # <<>>
    BY <1>1, <1>4 DEF Write
  <2>3. CASE Finish /\ UNCHANGED queue
    BY <2>1, <2>2, <2>3, FinishesInHand DEF Finish
  <2>4. CASE pub' = [pub EXCEPT !.step = "BLOCKED"] /\ UNCHANGED <<tail, queue>>
    <3>1. pub'.step = "BLOCKED" /\ Used' = Used
      BY <2>4 DEF TypeOK, Used
    <3>2. \A i \in 1 .. Len(queue') : queue'[i].op = "CLASSIFY" /\ classify' # <<>>
      BY <2>1, <2>2, <2>4, OnlyClassifying
    <3>3. QED BY <2>1, <2>4, <3>1, <3>2 DEF InHand, OwnCommands
  <2>5. CASE Await("MARK", "REMOVE") /\ UNCHANGED classify
    BY <2>1, <2>5, AwaitsInHand
  <2>6. QED BY <1>4, <2>3, <2>4, <2>5 DEF Write
<1>5. CASE Unblock
  <2>1. pub.step = "BLOCKED" /\ tail # <<>> /\ UNCHANGED <<status, classify>>
    BY <1>5 DEF Unblock, At, ledgerVars, downVars
  <2>2. CASE Finish /\ UNCHANGED queue
    BY <2>1, <2>2, FinishesInHand DEF Finish
  <2>3. CASE Await("MARK", "DESTROY")
    BY <2>1, <2>3, AwaitsInHand
  <2>4. QED BY <1>5, <2>2, <2>3 DEF Unblock
<1>6. CASE Settle \/ Throw
  <2>1. pub.step # "COMMAND" /\ Finish /\ UNCHANGED queue
    BY <1>6 DEF Settle, Throw, At
  <2>2. classify # <<>> => classify' # <<>>
    BY <1>1, <1>6 DEF Settle, Throw, downVars
  <2>3. QED BY <2>1, <2>2, FinishesInHand DEF Finish
<1>7. QED BY <1>2, <1>3, <1>4, <1>5, <1>6 DEF Publication

LEMMA RunCommands ==
  ASSUME TypeOK, OnePlace, Commanding, Commands
  PROVE  InHand' /\ OwnCommands'
<1>1. queue # <<>> /\ queue' = Tail(queue) /\ UNCHANGED <<attach, socket, sent, tail, classify>>
  BY DEF Commands, Reconnect, CancelBeforeExposure, MarkPossiblyExposed, IsNext, Ran, ledgerFrame, linkVars
<1>2. /\ 1 \in 1 .. Len(queue) /\ Head(queue) = queue[1]
      /\ \A i \in 1 .. Len(queue') : i + 1 \in 1 .. Len(queue) /\ i + 1 # 1 /\ queue'[i] = queue[i + 1]
  <2>1. queue \in Seq(WriterCommands)
    BY DEF TypeOK, WriterCommands
  <2>2. /\ Len(queue') = Len(queue) - 1 /\ Len(queue) \in Nat /\ Len(queue) # 0
        /\ \A i \in 1 .. Len(queue') : queue'[i] = queue[i + 1]
    BY <1>1, <2>1, HeadTailProperties, LenProperties, EmptySeq
  <2>3. QED BY <1>1, <2>1, <2>2
<1>3. This' = This /\ Attached' = Attached
  BY <1>1 DEF This, Attached
<1>4. CASE Head(queue).op = "CLASSIFY"
  <2>1. UNCHANGED pub /\ status' = [status EXCEPT ![Head(queue).delivery] = Uncertain(@)]
    BY <1>4 DEF Commands, Reconnect, CancelBeforeExposure, MarkPossiblyExposed, IsNext
  <2>2. \A d \in Deliveries : status'[d] = "DELIVERING" => status[d] = "DELIVERING"
    BY <2>1 DEF Uncertain, TypeOK
  <2>3. tail # <<>> => This \in Deliveries
    BY ThisOne
  <2>4. InHand'
    BY <1>1, <1>3, <2>1, <2>2, <2>3 DEF Commanding, InHand, Used
  <2>5. ASSUME NEW i \in 1 .. Len(queue')
        PROVE  /\ queue'[i].op = "CLASSIFY" => classify' # <<>>
               /\ queue'[i].op # "CLASSIFY" =>
                     /\ pub'.step = "COMMAND" /\ queue'[i].delivery = This'
                     /\ queue'[i].op \in {"RECONNECT", "CANCEL"} => status'[This'] # "DELIVERING"
                     /\ queue'[i].op # "RECONNECT"
    <3>1. i + 1 \in 1 .. Len(queue) /\ i + 1 # 1 /\ queue'[i] = queue[i + 1]
      BY <1>2
    <3>2. queue'[i].op = "CLASSIFY" => classify' # <<>>
      BY <1>1, <3>1 DEF Commanding, OwnCommands
    <3>3. ASSUME queue'[i].op # "CLASSIFY"
          PROVE  /\ pub.step = "COMMAND" /\ queue'[i].delivery = This
                 /\ queue'[i].op \in {"RECONNECT", "CANCEL"} => status[This] # "DELIVERING"
                 /\ queue'[i].op # "RECONNECT"
      BY <3>1, <3>3 DEF Commanding, OwnCommands
    <3>4. pub.step = "COMMAND" => This \in Deliveries
      BY <2>3 DEF Commanding, InHand
    <3>5. QED BY <1>3, <2>1, <2>2, <3>2, <3>3, <3>4
  <2>6. ASSUME NEW i \in 1 .. Len(queue'), NEW j \in 1 .. Len(queue'), queue'[i].op # "CLASSIFY", queue'[j].op # "CLASSIFY"
        PROVE  i = j
    <3>1. i + 1 \in 1 .. Len(queue) /\ queue[i + 1].op # "CLASSIFY" /\ j + 1 \in 1 .. Len(queue) /\ queue[j + 1].op # "CLASSIFY"
      BY <1>2, <2>6
    <3>2. i + 1 = j + 1
      BY <3>1 DEF Commanding, OwnCommands
    <3>3. QED BY <3>2
  <2>7. OwnCommands'
    BY <2>5, <2>6 DEF OwnCommands
  <2>8. QED BY <2>4, <2>7
<1>5. CASE Head(queue).op # "CLASSIFY"
  <2>1. pub.step = "COMMAND" /\ Head(queue).delivery = This
    BY <1>2, <1>5 DEF Commanding, OwnCommands
  <2>2. Used \in Connections /\ tail # <<>> /\ This \in Deliveries
    BY <2>1, ThisOne DEF Commanding, InHand
  <2>3. /\ pub'.step \in {"STARTED", "SETTLED", "REFUSED"} /\ Used' = Used
        /\ pub'.step \in {"SETTLED", "REFUSED"} => status'[This] # "DELIVERING"
    <3>1. CASE Reconnect
      BY <2>1, <2>2, <3>1 DEF Reconnect, Reply, Used, TypeOK
    <3>2. CASE CancelBeforeExposure
      <4>1. status[This] # "DELIVERING"
        BY <1>2, <2>1, <3>2 DEF CancelBeforeExposure, IsNext, Commanding, OwnCommands
      <4>2. QED BY <2>1, <2>2, <3>2, <4>1 DEF CancelBeforeExposure, Reply, Used, TypeOK
    <3>3. CASE MarkPossiblyExposed
      BY <1>5, <2>1, <2>2, <3>3 DEF MarkPossiblyExposed, IsNext, Reply, Used, Uncertain, TypeOK
    <3>4. QED BY <3>1, <3>2, <3>3 DEF Commands
  <2>4. InHand'
    BY <1>1, <1>3, <2>2, <2>3 DEF InHand
  <2>5. \A i \in 1 .. Len(queue') : queue'[i].op = "CLASSIFY" /\ classify' # <<>>
    <3>1. \A i \in 1 .. Len(queue) : queue[i].op # "CLASSIFY" => i = 1
      BY <1>2, <1>5 DEF Commanding, OwnCommands
    <3>2. QED BY <1>1, <1>2, <3>1 DEF Commanding, OwnCommands
  <2>6. QED BY <2>4, <2>5 DEF OwnCommands
<1>6. QED BY <1>4, <1>5

\* A step of anyone else leaves the publication and its command as they are.
LEMMA OthersInHand ==
  ASSUME TypeOK, OnePlace, Commanding, Next, ~Publication, ~Commands, ~Crash
  PROVE  InHand' /\ OwnCommands'
<1>1. UNCHANGED pub /\ (tail # <<>> => tail' # <<>> /\ This' = This)
  <2>1. CASE Classify
    BY <2>1 DEF Classify, This
  <2>2. ASSUME NEW p \in Publications, tail' = Append(tail, p), tail # <<>>
        PROVE  tail' # <<>> /\ Head(tail') = Head(tail)
    <3>1. tail \in Seq(Publications)
      BY DEF TypeOK, Publications
    <3>2. QED BY <2>2, <3>1, AppendProperties, LenProperties, EmptySeq
  <2>3. CASE ~Classify
    BY <2>2, <2>3, Bystanders DEF This
  <2>4. QED BY <2>1, <2>3
<1>2. \A d \in Deliveries : status'[d] = "DELIVERING" => status[d] = "DELIVERING"
  BY LedgerMoves DEF Commands
<1>3. InHand'
  <2>1. pub.step # "IDLE" => This \in Deliveries
    BY ThisOne DEF Commanding, InHand
  <2>2. pub.step # "IDLE" /\ socket'[Used] = "OPEN" => socket[Used] = "OPEN" /\ (Used \in Attached => Used \in Attached')
    BY OpenKeepsItsPlace DEF Commanding, InHand
  <2>3. QED BY <1>1, <1>2, <2>1, <2>2 DEF Commanding, InHand, Used
<1>4. \/ UNCHANGED queue
      \/ \E d \in Deliveries : queue' = Append(queue, [op |-> "CLASSIFY", delivery |-> d])
  <2>1. CASE Classify
    <3>1. Head(classify) \in Connections
      BY <2>1, HeadTailProperties DEF Classify, TypeOK
    <3>2. sent[Head(classify)] \subseteq Deliveries
      BY <3>1 DEF TypeOK
    <3>3. QED BY <2>1, <3>2 DEF Classify
  <2>2. CASE ~Classify
    BY <2>2, Bystanders
  <2>3. QED BY <2>1, <2>2
<1>5. /\ Len(queue) \in Nat /\ Len(queue') \in Nat
      /\ \A i \in 1 .. Len(queue') : \/ i \in 1 .. Len(queue) /\ queue'[i] = queue[i]
                                     \/ queue'[i].op = "CLASSIFY" /\ Classify
  <2>1. queue \in Seq(WriterCommands)
    BY DEF TypeOK, WriterCommands
  <2>2. CASE UNCHANGED queue
    BY <2>1, <2>2, LenProperties
  <2>3. ASSUME NEW d \in Deliveries, queue' = Append(queue, [op |-> "CLASSIFY", delivery |-> d]), Classify
        PROVE  /\ Len(queue) \in Nat /\ Len(queue') \in Nat
               /\ \A i \in 1 .. Len(queue') : \/ i \in 1 .. Len(queue) /\ queue'[i] = queue[i]
                                              \/ queue'[i].op = "CLASSIFY"
    <3>1. [op |-> "CLASSIFY", delivery |-> d] \in WriterCommands
      BY DEF WriterCommands
    <3>2. QED BY <2>1, <2>3, <3>1, AppendProperties, LenProperties
  <2>4. Classify \/ UNCHANGED queue
    BY Bystanders
  <2>5. QED BY <1>4, <2>2, <2>3, <2>4
<1>6. ASSUME NEW i \in 1 .. Len(queue'), queue'[i].op = "CLASSIFY" PROVE classify' # <<>>
  <2>1. CASE Classify
    <3>1. classify # <<>> /\ (UNCHANGED classify \/ UNCHANGED queue)
      BY <2>1 DEF Classify
    <3>2. ASSUME UNCHANGED queue PROVE UNCHANGED classify
      BY <1>6, <2>1, <3>2 DEF Classify, Classifying
    <3>3. QED BY <3>1, <3>2
  <2>2. CASE ~Classify
    <3>1. classify # <<>>
      BY <1>5, <1>6, <2>2 DEF Commanding, OwnCommands
    <3>2. QED BY <2>2, <3>1, PlaceMoves DEF Request, Attach, downVars
  <2>3. QED BY <2>1, <2>2
<1>7. ASSUME NEW i \in 1 .. Len(queue'), queue'[i].op # "CLASSIFY"
      PROVE  /\ pub'.step = "COMMAND" /\ queue'[i].delivery = This'
             /\ queue'[i].op \in {"RECONNECT", "CANCEL"} => status'[This'] # "DELIVERING"
             /\ queue'[i].op = "RECONNECT" => i = 1 /\ Answerable(Used, This)'
             /\ \A j \in 1 .. Len(queue') : queue'[j].op # "CLASSIFY" => i = j
  <2>1. i \in 1 .. Len(queue) /\ queue'[i] = queue[i]
    BY <1>5, <1>7
  <2>2. /\ pub.step = "COMMAND" /\ queue[i].delivery = This
        /\ \A j \in 1 .. Len(queue) : queue[j].op # "CLASSIFY" => i = j
        /\ queue[i].op \in {"RECONNECT", "CANCEL"} => status[This] # "DELIVERING"
        /\ queue[i].op = "RECONNECT" => i = 1 /\ Answerable(Used, This)
    BY <1>7, <2>1 DEF Commanding, OwnCommands
  <2>3. tail # <<>> /\ Used \in Connections /\ This \in Deliveries /\ This' = This /\ Used' = Used
    BY <1>1, <2>2, ThisOne DEF Commanding, InHand, Used
  <2>4. ASSUME Answerable(Used, This) PROVE Answerable(Used, This)'
    <3>1. PICK c \in Connections, d \in Deliveries : c = Used /\ d = This
      BY <2>3
    <3>2. Answerable(c, d)'
      BY <2>4, <3>1, StaysAnswerable DEF Commands
    <3>3. QED BY <2>3, <3>1, <3>2 DEF Answerable
  <2>5. QED BY <1>1, <1>2, <1>5, <2>1, <2>2, <2>3, <2>4
<1>8. QED BY <1>3, <1>6, <1>7 DEF OwnCommands

LEMMA VisitingStep == ASSUME TypeOK, OnePlace, Commanding, Next PROVE Visiting'
<1>1. CASE Classify
  BY <1>1 DEF Classify, Visiting
<1>2. CASE Crash
  BY <1>2 DEF Crash, Visiting
<1>3. CASE ~Classify /\ ~Crash
  <2>1. classify' = <<>> => classify = <<>>
    BY <1>3, PlaceMoves DEF Request, Attach, downVars
  <2>2. CASE Commands
    <3>1. CASE visited' = visited
      BY <2>1, <3>1 DEF Commanding, Visiting
    <3>2. CASE Head(queue).op = "CLASSIFY" /\ queue # <<>>
      <4>1. 1 \in 1 .. Len(queue) /\ queue[1] = Head(queue)
        BY <3>2 DEF TypeOK
      <4>2. QED BY <2>1, <3>2, <4>1 DEF Commanding, OwnCommands, Visiting
    <3>3. QED BY <2>2, <3>1, <3>2 DEF Commands, Reconnect, CancelBeforeExposure, MarkPossiblyExposed, IsNext
  <2>3. CASE Publication
    <3>1. visited' = visited
      BY <2>3 DEF Publication, Begin, Check, Write, Unblock, Settle, Throw, downVars
    <3>2. QED BY <2>1, <3>1 DEF Commanding, Visiting
  <2>4. CASE ~Commands /\ ~Publication
    BY <1>3, <2>1, <2>4, Bystanders DEF Commanding, Visiting
  <2>5. QED BY <2>2, <2>3, <2>4
<1>4. QED BY <1>1, <1>2, <1>3

LEMMA CommandingStep == ASSUME TypeOK, OnePlace, Commanding, OnItsWay, Next PROVE Commanding'
<1>1. InHand' /\ OwnCommands'
  <2>1. CASE Crash
    BY <2>1 DEF Crash, NoPub, InHand, OwnCommands
  <2>2. QED BY <2>1, PublicationCommands, RunCommands, OthersInHand
<1>2. QED BY <1>1, VisitingStep DEF Commanding

-----------------------------------------------------------------------------
(* Every delivery is written once, and what its client reports is true. *)

\* A publication writes d to client c: its last step with the connection before
\* it ends, waits for backpressure or marks the delivery.
Wrote(c, d) ==
    /\ tail # <<>> /\ pub.step = "STARTED" /\ c = Used /\ d = This /\ status[d] = "DELIVERING"
    /\ wire' = [wire EXCEPT ![c] = Append(wire[c], d)] /\ pub'.step # "STARTED"
    /\ UNCHANGED <<status, entry, shown, mail>>

\* What a step may do with d at client c, unless it writes it.
Kept(c, d) ==
    /\ Consistent(c, d)'
    /\ Written(c, d)' => Written(c, d)
    /\ Unpresented(c, d) => Unpresented(c, d)'

Shorter(c) == wire'[c] = wire[c] \/ (wire[c] # <<>> /\ wire'[c] = Tail(wire[c])) \/ wire'[c] = <<>>

LEMMA WhatIsRead ==
  ASSUME TypeOK, NEW c \in Connections, NEW d \in Deliveries, Shorter(c)
  PROVE  /\ OnWire(c, d)' => OnWire(c, d)
         /\ AtMostOnce(c, d) => AtMostOnce(c, d)'
         /\ wire[c] # <<>> /\ wire'[c] = Tail(wire[c]) /\ d = Head(wire[c]) /\ AtMostOnce(c, d) => ~OnWire(c, d)'
<1>1. wire[c] \in Seq(Deliveries)
  BY DEF TypeOK
<1>2. CASE wire'[c] = wire[c]
  <2>1. ASSUME wire[c] # <<>> PROVE Tail(wire[c]) # wire[c]
    <3>1. Len(Tail(wire[c])) = Len(wire[c]) - 1 /\ Len(wire[c]) \in Nat
      BY <1>1, <2>1, HeadTailProperties, LenProperties
    <3>2. Len(Tail(wire[c])) # Len(wire[c])
      BY <3>1
    <3>3. QED BY <3>2
  <2>2. ~(wire[c] # <<>> /\ wire'[c] = Tail(wire[c]))
    BY <1>2, <2>1
  <2>3. QED BY <1>2, <2>2 DEF OnWire, AtMostOnce
<1>3. CASE wire'[c] = <<>>
  BY <1>3 DEF OnWire, AtMostOnce
<1>4. CASE wire[c] # <<>> /\ wire'[c] = Tail(wire[c])
  <2>1. /\ Len(wire'[c]) = Len(wire[c]) - 1 /\ Len(wire[c]) \in Nat /\ Len(wire[c]) > 0
        /\ \A i \in 1 .. Len(wire'[c]) : wire'[c][i] = wire[c][i + 1] /\ i + 1 \in 1 .. Len(wire[c])
        /\ Head(wire[c]) = wire[c][1]
    BY <1>1, <1>4, HeadTailProperties, LenProperties, EmptySeq
  <2>2. OnWire(c, d)' => OnWire(c, d)
    BY <2>1 DEF OnWire
  <2>3. ASSUME AtMostOnce(c, d), NEW i \in 1 .. Len(wire'[c]), NEW j \in 1 .. Len(wire'[c]), wire'[c][i] = d, wire'[c][j] = d
        PROVE  i = j
    <3>1. i + 1 = j + 1
      BY <2>1, <2>3 DEF AtMostOnce
    <3>2. QED BY <3>1
  <2>4. ASSUME AtMostOnce(c, d), d = Head(wire[c]), NEW i \in 1 .. Len(wire'[c]), wire'[c][i] = d PROVE FALSE
    <3>1. i + 1 = 1
      BY <2>1, <2>4 DEF AtMostOnce
    <3>2. QED BY <3>1
  <2>5. QED BY <2>2, <2>3, <2>4 DEF AtMostOnce, OnWire
<1>5. QED BY <1>2, <1>3, <1>4 DEF Shorter

\* A step that does not touch d at client c, though the client may read on.
LEMMA Untouched ==
  ASSUME TypeOK, NEW c \in Connections, NEW d \in Deliveries, Consistent(c, d), Shorter(c),
         entry'[c][d] = entry[c][d], d \in shown'[c] <=> d \in shown[c],
         \A m \in mail' : m.conn = c /\ m.delivery = d => m \in mail
  PROVE  Kept(c, d)
<1>1. OnWire(c, d)' => OnWire(c, d)
  BY WhatIsRead
<1>2. AtMostOnce(c, d) => AtMostOnce(c, d)'
  BY WhatIsRead
<1>3. Consistent(c, d)'
  BY <1>1, <1>2 DEF Consistent
<1>4. Written(c, d)' => Written(c, d)
  BY <1>1 DEF Written
<1>5. Unpresented(c, d) => Unpresented(c, d)'
  BY <1>1 DEF Unpresented, Presenting
<1>6. QED BY <1>3, <1>4, <1>5 DEF Kept

\* The entry that client k keeps of x changes, and only that.
LEMMA OneEntry ==
  ASSUME TypeOK, NEW k \in Connections, NEW x \in Deliveries, NEW e \in Entry,
         entry' = [entry EXCEPT ![k][x] = e],
         \A c \in Connections : Shorter(c),
         \A c \in Connections, d \in Deliveries : c # k \/ d # x => (d \in shown'[c] <=> d \in shown[c]),
         \A m \in mail' : m \in mail \/ (m.conn = k /\ m.delivery = x),
         NEW c \in Connections, NEW d \in Deliveries, Consistent(c, d),
         entry'[k][x] = e => Kept(k, x)
  PROVE  Kept(c, d)
<1>1. CASE c = k /\ d = x
  <2>1. entry'[k][x] = e
    BY EntryStep
  <2>2. QED BY <1>1, <2>1
<1>2. CASE c # k \/ d # x
  <2>1. entry'[c][d] = entry[c][d]
    BY <1>2, EntryStep
  <2>2. QED BY <1>2, <2>1, Untouched
<1>3. QED BY <1>1, <1>2

\* What a client that has taken x up may do with its entry.
LEMMA EntryKept ==
  ASSUME TypeOK, NEW k \in Connections, NEW x \in Deliveries, NEW e \in Entry,
         Consistent(k, x), entry[k][x].phase # "NONE", Shorter(k), entry'[k][x] = e,
         e.phase = "RECEIVED" => x \notin shown'[k],
         e.phase \in {"NONE", "RECEIVED", "FAILED"} => e.told = "NOTHING",
         e.waiting => e.phase \in {"RECEIVED", "EXPOSED", "COMPLETED"},
         \A m \in mail' : m.conn = k /\ m.delivery = x /\ m.kind = "NOT_EXPOSED" =>
            x \notin shown'[k] /\ (e.phase = "FAILED" \/ (e.phase = "RECEIVED" /\ e.waiting)),
         Unpresented(k, x) => x \notin shown'[k] /\ e.phase \in {"NONE", "FAILED"}
  PROVE  Kept(k, x)
<1>1. ~OnWire(k, x)'
  BY WhatIsRead DEF Consistent
<1>2. Consistent(k, x)'
  BY <1>1 DEF Consistent
<1>3. Written(k, x)
  BY DEF Written
<1>4. Unpresented(k, x) => Unpresented(k, x)'
  BY <1>1 DEF Unpresented, Presenting
<1>5. QED BY <1>2, <1>3, <1>4 DEF Kept

LEMMA EndIsShorter == ASSUME TypeOK, NEW k \in Connections, End(k) PROVE \A c \in Connections : Shorter(c)
BY DEF End, Shorter, TypeOK

LEMMA NewMail ==
  ASSUME TypeOK, NEW k \in Connections, NEW x \in Deliveries, NEW kind \in {"EXPOSED", "COMPLETED", "NOT_EXPOSED"},
         Send(k, x, kind)
  PROVE  /\ \A m \in mail' : m \in mail \/ (m.conn = k /\ m.delivery = x /\ m.kind = kind)
         /\ entry' = [entry EXCEPT ![k][x] = [entry[k][x] EXCEPT !.waiting = TRUE]]
         /\ [entry[k][x] EXCEPT !.waiting = TRUE] \in Entry
<1>1. entry[k][x] \in Entry
  BY DEF TypeOK
<1>2. entry' = [entry EXCEPT ![k][x] = [entry[k][x] EXCEPT !.waiting = TRUE]]
  BY DEF Send, TypeOK
<1>3. [entry[k][x] EXCEPT !.waiting = TRUE] \in Entry
  BY <1>1, EntryTypes
<1>4. \A m \in mail' : m \in mail \/ (m.conn = k /\ m.delivery = x /\ m.kind = kind)
  BY DEF Send
<1>5. QED BY <1>2, <1>3, <1>4

\* The presenter's steps.
LEMMA PresentingKeeps ==
  ASSUME TypeOK, Truthful, NEW k \in Connections, NEW x \in Deliveries,
         MarkExposureBegan(k, x) \/ MarkPresentationCompleted(k, x) \/ PresentationFails(k, x),
         NEW c \in Connections, NEW d \in Deliveries
  PROVE  Kept(c, d)
<1>1. entry[k][x] \in Entry /\ Consistent(k, x) /\ Consistent(c, d)
  BY DEF TypeOK, Truthful
<1>2. UNCHANGED mail
  BY DEF MarkExposureBegan, MarkPresentationCompleted, PresentationFails
<1>3. \A b \in Connections : Shorter(b)
  <2>1. End(k) \/ UNCHANGED wire
    BY DEF MarkExposureBegan, MarkPresentationCompleted, PresentationFails
  <2>2. QED BY <2>1, EndIsShorter DEF Shorter
<1>4. /\ \A b \in Connections, y \in Deliveries : b # k \/ y # x => (y \in shown'[b] <=> y \in shown[b])
      /\ MarkPresentationCompleted(k, x) => UNCHANGED shown
  BY DEF MarkExposureBegan, MarkPresentationCompleted, PresentationFails, TypeOK
<1>5. CASE MarkExposureBegan(k, x)
  <2> DEFINE e == [entry[k][x] EXCEPT !.phase = "EXPOSED", !.flush = TRUE]
  <2>1. e \in Entry /\ entry' = [entry EXCEPT ![k][x] = e]
    BY <1>1, <1>5, EntryTypes, RenderingDoes
  <2>2. e.phase = "EXPOSED"
    BY <1>1 DEF Entry
  <2> HIDE DEF e
  <2>3. \A m \in mail : ~(m.conn = k /\ m.delivery = x /\ m.kind = "NOT_EXPOSED")
    BY <1>1, <1>5 DEF MarkExposureBegan, Presenting, Consistent
  <2>4. ~Unpresented(k, x) /\ entry[k][x].phase # "NONE"
    BY <1>5 DEF MarkExposureBegan, Unpresented, Presenting
  <2>5. entry'[k][x] = e => Kept(k, x)
    BY <1>1, <1>2, <1>3, <2>1, <2>2, <2>3, <2>4, EntryKept
  <2>6. QED BY <1>1, <1>2, <1>3, <1>4, <2>1, <2>5, OneEntry
<1>6. CASE MarkPresentationCompleted(k, x)
  <2> DEFINE e == [entry[k][x] EXCEPT !.phase = "COMPLETED", !.flush = TRUE]
  <2>1. e \in Entry /\ entry' = [entry EXCEPT ![k][x] = e]
    BY <1>1, <1>6, EntryTypes, RenderingDoes
  <2>2. e.phase = "COMPLETED" /\ entry[k][x].phase = "EXPOSED"
    BY <1>1, <1>6 DEF Entry, MarkPresentationCompleted
  <2> HIDE DEF e
  <2>3. \A m \in mail : ~(m.conn = k /\ m.delivery = x /\ m.kind = "NOT_EXPOSED")
    BY <1>1, <2>2 DEF Consistent
  <2>4. ~Unpresented(k, x)
    BY <2>2 DEF Unpresented
  <2>5. entry'[k][x] = e => Kept(k, x)
    BY <1>1, <1>2, <1>3, <2>1, <2>2, <2>3, <2>4, EntryKept
  <2>6. QED BY <1>1, <1>2, <1>3, <1>4, <2>1, <2>5, OneEntry
<1>7. CASE PresentationFails(k, x)
  <2> DEFINE e == [entry[k][x] EXCEPT !.phase = "FAILED"]
  <2>1. e \in Entry /\ entry' = [entry EXCEPT ![k][x] = e]
    BY <1>1, <1>7, EntryTypes, RenderingDoes
  <2>2. Presenting(k, x)
    BY <1>7 DEF PresentationFails
  <2>3. e.phase = "FAILED" /\ ~e.waiting /\ e.told = "NOTHING"
    BY <1>1, <2>2 DEF Entry, Presenting, Consistent
  <2> HIDE DEF e
  <2>4. \A m \in mail : ~(m.conn = k /\ m.delivery = x /\ m.kind = "NOT_EXPOSED")
    BY <1>1, <2>2 DEF Presenting, Consistent
  <2>5. ~Unpresented(k, x) /\ entry[k][x].phase # "NONE"
    BY <2>2 DEF Unpresented, Presenting
  <2>6. entry'[k][x] = e => Kept(k, x)
    BY <1>1, <1>2, <1>3, <2>1, <2>3, <2>4, <2>5, EntryKept
  <2>7. QED BY <1>1, <1>2, <1>3, <1>4, <2>1, <2>6, OneEntry
<1>8. QED BY <1>5, <1>6, <1>7

\* The acknowledgements that a client sends, and those it has no answer to.
LEMMA AcknowledgingKeeps ==
  ASSUME TypeOK, Truthful, NEW k \in Connections, NEW x \in Deliveries,
         ReportNotExposed(k, x) \/ FlushAcknowledgements(k, x) \/ Unanswered(k, x),
         NEW c \in Connections, NEW d \in Deliveries
  PROVE  Kept(c, d)
<1>1. entry[k][x] \in Entry /\ Consistent(k, x) /\ Consistent(c, d)
  BY DEF TypeOK, Truthful
<1>2. UNCHANGED shown
  BY DEF ReportNotExposed, FlushAcknowledgements, Unanswered
<1>3. \A b \in Connections : Shorter(b)
  <2>1. End(k) \/ UNCHANGED wire
    BY DEF ReportNotExposed, FlushAcknowledgements, Unanswered
  <2>2. QED BY <2>1, EndIsShorter DEF Shorter
<1>4. ASSUME NEW kind \in {"EXPOSED", "COMPLETED", "NOT_EXPOSED"}, Send(k, x, kind),
             IF kind = "NOT_EXPOSED" THEN Presenting(k, x) ELSE entry[k][x].phase \in {"EXPOSED", "COMPLETED"}
      PROVE  Kept(c, d)
  <2> DEFINE e == [entry[k][x] EXCEPT !.waiting = TRUE]
  <2>1. e \in Entry /\ entry' = [entry EXCEPT ![k][x] = e]
    BY <1>4, NewMail
  <2>2. e.phase = entry[k][x].phase /\ e.told = entry[k][x].told /\ e.waiting
    BY <1>1 DEF Entry
  <2> HIDE DEF e
  <2>3. \A m \in mail' : m \in mail \/ (m.conn = k /\ m.delivery = x /\ m.kind = kind)
    BY <1>4 DEF Send
  <2>4. entry[k][x].phase \in {"RECEIVED", "EXPOSED", "COMPLETED"} /\ ~Unpresented(k, x)
    BY <1>4 DEF Presenting, Unpresented
  <2>5. \A m \in mail' : m.conn = k /\ m.delivery = x /\ m.kind = "NOT_EXPOSED" =>
           x \notin shown'[k] /\ e.phase = "RECEIVED" /\ e.waiting
    BY <1>1, <1>2, <1>4, <2>2, <2>3, <2>4 DEF Presenting, Consistent
  <2>6. e.phase = "RECEIVED" => x \notin shown'[k]
    BY <1>1, <1>2, <2>2 DEF Consistent
  <2>7. e.phase \in {"NONE", "RECEIVED", "FAILED"} => e.told = "NOTHING"
    BY <1>1, <2>2 DEF Consistent
  <2>8. entry'[k][x] = e => Kept(k, x)
    BY <1>1, <1>3, <2>1, <2>2, <2>4, <2>5, <2>6, <2>7, EntryKept
  <2>9. QED BY <1>1, <1>2, <1>3, <2>1, <2>3, <2>8, OneEntry
<1>5. ASSUME entry[k][x].phase \in {"EXPOSED", "COMPLETED"}, UNCHANGED mail,
             entry' = [entry EXCEPT ![k][x] = [entry[k][x] EXCEPT !.flush = FALSE]]
      PROVE  Kept(c, d)
  <2> DEFINE e == [entry[k][x] EXCEPT !.flush = FALSE]
  <2>1. e \in Entry /\ entry' = [entry EXCEPT ![k][x] = e]
    BY <1>1, <1>5, EntryTypes
  <2>2. e.phase \in {"EXPOSED", "COMPLETED"}
    BY <1>1, <1>5 DEF Entry
  <2> HIDE DEF e
  <2>3. \A m \in mail : ~(m.conn = k /\ m.delivery = x /\ m.kind = "NOT_EXPOSED")
    BY <1>1, <1>5 DEF Consistent
  <2>4. ~Unpresented(k, x) /\ entry[k][x].phase # "NONE"
    BY <1>5 DEF Unpresented
  <2>5. entry'[k][x] = e => Kept(k, x)
    BY <1>1, <1>3, <1>5, <2>1, <2>2, <2>3, <2>4, EntryKept
  <2>6. QED BY <1>1, <1>2, <1>3, <1>5, <2>1, <2>5, OneEntry
<1>6. CASE Unanswered(k, x)
  <2> DEFINE e == NotAcknowledged(entry[k][x], AwaitedKind(k, x))
  <2>1. AwaitedKind(k, x) \in {"EXPOSED", "COMPLETED", "NOT_EXPOSED"} /\ entry[k][x].waiting /\ UNCHANGED mail
    BY <1>6 DEF AwaitedKind, Unanswered
  <2>2. e \in Entry
    BY <1>1, <2>1, EntryTypes
  <2>3. entry' = [entry EXCEPT ![k][x] = e]
    BY <1>6, RenderingDoes
  <2>4. entry[k][x].phase \in {"RECEIVED", "EXPOSED", "COMPLETED"}
    BY <1>1, <2>1 DEF Consistent
  <2>5. /\ ~e.waiting /\ e.told = entry[k][x].told
        /\ IF entry[k][x].phase = "RECEIVED" THEN e.phase = "FAILED" ELSE e.phase = entry[k][x].phase
    <3>1. CASE entry[k][x].phase = "RECEIVED"
      <4>1. AwaitedKind(k, x) = "NOT_EXPOSED"
        BY <3>1 DEF AwaitedKind
      <4>2. e = [entry[k][x] EXCEPT !.phase = "FAILED", !.waiting = FALSE]
        BY <4>1 DEF NotAcknowledged
      <4>3. QED BY <1>1, <3>1, <4>2 DEF Entry
    <3>2. CASE entry[k][x].phase # "RECEIVED"
      <4>1. AwaitedKind(k, x) # "NOT_EXPOSED"
        BY <3>2 DEF AwaitedKind
      <4>2. PICK flush, failures : e = [entry[k][x] EXCEPT !.waiting = FALSE, !.flush = flush, !.failures = failures]
        BY <4>1 DEF NotAcknowledged
      <4>3. QED BY <1>1, <3>2, <4>2 DEF Entry
    <3>3. QED BY <3>1, <3>2
  <2> HIDE DEF e
  <2>6. \A m \in mail' : m.conn = k /\ m.delivery = x /\ m.kind = "NOT_EXPOSED" => x \notin shown'[k] /\ e.phase = "FAILED"
    BY <1>1, <1>2, <2>1, <2>4, <2>5 DEF Consistent
  <2>7. Unpresented(k, x) => x \notin shown'[k] /\ e.phase \in {"NONE", "FAILED"}
    BY <1>2, <2>4, <2>5 DEF Unpresented
  <2>8. e.phase \in {"NONE", "RECEIVED", "FAILED"} => e.told = "NOTHING"
    BY <1>1, <2>4, <2>5 DEF Consistent
  <2>9. entry'[k][x] = e => Kept(k, x)
    BY <1>1, <1>3, <2>2, <2>4, <2>5, <2>6, <2>7, <2>8, EntryKept
  <2>10. QED BY <1>1, <1>2, <1>3, <2>1, <2>2, <2>3, <2>9, OneEntry
<1>7. CASE ReportNotExposed(k, x)
  BY <1>4, <1>7 DEF ReportNotExposed
<1>8. CASE FlushAcknowledgements(k, x)
  <2>1. entry[k][x].phase \in {"EXPOSED", "COMPLETED"}
    BY <1>8 DEF FlushAcknowledgements
  <2>2. \/ \E kind \in {"EXPOSED", "COMPLETED"} : Send(k, x, kind)
        \/ entry' = [entry EXCEPT ![k][x] = [entry[k][x] EXCEPT !.flush = FALSE]] /\ UNCHANGED mail
    BY <1>8, RenderingDoes
  <2>3. QED BY <1>4, <1>5, <2>1, <2>2
<1>9. QED BY <1>6, <1>7, <1>8

LEMMA ReceivingKeeps ==
  ASSUME TypeOK, Truthful, NEW k \in Connections, Receive(k), NEW c \in Connections, NEW d \in Deliveries
  PROVE  Kept(c, d)
<1>1. PICK x \in Deliveries : x = Head(wire[k]) /\ wire[k] # <<>> /\ UNCHANGED <<shown, mail>>
  <2>1. wire[k] # <<>> /\ UNCHANGED <<shown, mail>>
    BY DEF Receive
  <2>2. QED BY <2>1, HeadTailProperties DEF TypeOK
<1>2. entry[k][x] \in Entry /\ Consistent(k, x) /\ Consistent(c, d)
  BY <1>1 DEF TypeOK, Truthful
<1>3. OnWire(k, x)
  <2>1. 1 \in 1 .. Len(wire[k]) /\ wire[k][1] = x
    BY <1>1, LenProperties, EmptySeq DEF TypeOK
  <2>2. QED BY <2>1 DEF OnWire
<1>4. CASE End(k) /\ UNCHANGED entry
  BY <1>1, <1>2, <1>4, EndIsShorter, Untouched
<1>5. ASSUME wire' = [wire EXCEPT ![k] = Tail(wire[k])]
      PROVE  (\A b \in Connections : Shorter(b)) /\ wire'[k] = Tail(wire[k])
  BY <1>1, <1>5 DEF Shorter, TypeOK
<1>6. CASE x \in Tracked(k)
  BY <1>2, <1>3, <1>6 DEF Consistent, Tracked
<1>7. Received \in Entry /\ Untracked \in Entry /\ Received.phase = "RECEIVED" /\ ~Received.waiting /\ Received.told = "NOTHING"
  BY <1>2, EntryTypes DEF Received, Untracked
<1>8. ASSUME entry'[k][x] = Received, Shorter(k), wire'[k] = Tail(wire[k])
      PROVE  Kept(k, x)
  <2>1. ~OnWire(k, x)'
    BY <1>1, <1>2, <1>3, <1>8, WhatIsRead DEF Consistent
  <2>2. x \notin shown[k] /\ \A m \in mail : m.conn = k => m.delivery # x
    BY <1>2, <1>3 DEF Consistent
  <2>3. Consistent(k, x)'
    BY <1>1, <1>7, <1>8, <2>1, <2>2 DEF Consistent
  <2>4. Written(k, x) /\ ~Unpresented(k, x)
    BY <1>3 DEF Written, Unpresented
  <2>5. QED BY <2>3, <2>4 DEF Kept
<1>9. CASE wire' = [wire EXCEPT ![k] = Tail(wire[k])] /\ entry' = [entry EXCEPT ![k][x] = Received]
  <2>1. entry'[k][x] = Received => Kept(k, x)
    BY <1>5, <1>8, <1>9, <1>1
  <2>2. (\A b \in Connections : Shorter(b)) /\ mail' = mail /\ shown' = shown
    BY <1>1, <1>5, <1>9
  <2>3. QED BY <1>2, <1>7, <1>9, <2>1, <2>2, OneEntry
<1>10. ASSUME x \notin Tracked(k), NEW old \in Evictable(k), wire' = [wire EXCEPT ![k] = Tail(wire[k])],
              entry' = [entry EXCEPT ![k][old] = Untracked, ![k][x] = Received]
       PROVE  Kept(c, d)
  <2>1. old \in Deliveries /\ old # x /\ entry[k][old].phase # "NONE" /\ entry[k][old].told = "COMPLETED"
    BY <1>10 DEF Evictable, Tracked
  <2>2. /\ entry'[k][old] = Untracked /\ entry'[k][x] = Received
        /\ \A b \in Connections, y \in Deliveries : b # k \/ y \notin {old, x} => entry'[b][y] = entry[b][y]
    BY <1>1, <1>10, <2>1 DEF TypeOK
  <2>3. Consistent(k, old)
    BY <2>1 DEF Truthful
  <2>4. entry[k][old].phase \in {"EXPOSED", "COMPLETED"}
    BY <2>1, <2>3 DEF Consistent, TypeOK, Entry
  <2>5. \A m \in mail : ~(m.conn = k /\ m.delivery = old /\ m.kind = "NOT_EXPOSED")
    BY <2>3, <2>4 DEF Consistent
  <2>6. Untracked.phase = "NONE" /\ Untracked.told = "NOTHING" /\ ~Untracked.waiting /\ ~Unpresented(k, old)
    BY <2>4 DEF Untracked, Unpresented
  <2>7. Kept(k, old)
    <3>1. Shorter(k) /\ mail' = mail
      BY <1>1, <1>5, <1>10
    <3>2. \A m \in mail' : ~(m.conn = k /\ m.delivery = old /\ m.kind = "NOT_EXPOSED")
      BY <2>5, <3>1
    <3>3. QED BY <1>7, <2>1, <2>2, <2>3, <2>6, <3>1, <3>2, EntryKept
  <2>8. Kept(k, x)
    BY <1>1, <1>5, <1>8, <1>10, <2>2
  <2>9. CASE c # k \/ d \notin {old, x}
    BY <1>1, <1>2, <1>5, <1>10, <2>2, <2>9, Untouched
  <2>10. QED BY <2>7, <2>8, <2>9
<1>11. QED
  <2>1. \/ wire' = [wire EXCEPT ![k] = Tail(wire[k])] /\ entry' = [entry EXCEPT ![k][x] = Received]
        \/ /\ x \notin Tracked(k) /\ wire' = [wire EXCEPT ![k] = Tail(wire[k])]
           /\ \E old \in Evictable(k) : entry' = [entry EXCEPT ![k][old] = Untracked, ![k][x] = Received]
        \/ End(k) /\ UNCHANGED entry
        \/ x \in Tracked(k)
    BY <1>1 DEF Receive
  <2>2. QED BY <2>1, <1>4, <1>6, <1>9, <1>10

\* An acknowledgement is handled: its client may learn of it.
LEMMA HandlingKeeps ==
  ASSUME TypeOK, Truthful, NEW m \in mail, HandleAcknowledgement(m), NEW c \in Connections, NEW d \in Deliveries
  PROVE  Kept(c, d)
<1> DEFINE k == m.conn
           x == m.delivery
           e == Acknowledged(entry[k][x], m.kind)
<1>1. /\ k \in Connections /\ x \in Deliveries /\ m.kind \in {"EXPOSED", "COMPLETED", "NOT_EXPOSED"}
      /\ \/ UNCHANGED entry
         \/ entry[k][x].waiting /\ AwaitedKind(k, x) = m.kind /\ entry' = [entry EXCEPT ![k][x] = e]
  BY AcknowledgementDoes
<1>2. mail' = mail \ {m} /\ UNCHANGED <<wire, shown>>
  BY DEF HandleAcknowledgement
<1>3. entry[k][x] \in Entry /\ Consistent(k, x) /\ Consistent(c, d)
  BY <1>1 DEF TypeOK, Truthful
<1>4. \A b \in Connections : Shorter(b)
  BY <1>2 DEF Shorter
<1>5. CASE UNCHANGED entry
  BY <1>2, <1>3, <1>4, <1>5, Untouched
<1>6. CASE entry[k][x].waiting /\ AwaitedKind(k, x) = m.kind /\ entry' = [entry EXCEPT ![k][x] = e]
  <2>1. e \in Entry
    BY <1>1, <1>3, EntryTypes
  <2>2. entry[k][x].phase \in {"RECEIVED", "EXPOSED", "COMPLETED"}
    BY <1>3, <1>6 DEF Consistent
  <2>3. CASE m.kind = "NOT_EXPOSED"
    <3>1. e.phase = "NONE" /\ e.told = "NOTHING" /\ ~e.waiting
      BY <2>3 DEF Acknowledged, Untracked
    <3>2. entry[k][x].phase = "RECEIVED"
      BY <1>6, <2>3 DEF AwaitedKind
    <3>3. x \notin shown'[k]
      BY <1>2, <1>3, <3>2 DEF Consistent
    <3>4. \A n \in mail' : ~(n.conn = k /\ n.delivery = x /\ n.kind = "NOT_EXPOSED")
      <4>1. ASSUME NEW n \in mail, n.conn = k, n.delivery = x, n.kind = "NOT_EXPOSED" PROVE n = m
        <5>1. n \in Message /\ m \in Message
          BY <4>1 DEF TypeOK
        <5>2. \A p \in Message : p = [kind |-> p.kind, conn |-> p.conn, delivery |-> p.delivery]
          BY DEF Message
        <5>3. n = [kind |-> n.kind, conn |-> n.conn, delivery |-> n.delivery]
          BY <5>1, <5>2
        <5>4. m = [kind |-> m.kind, conn |-> m.conn, delivery |-> m.delivery]
          BY <5>1, <5>2
        <5>5. QED BY <2>3, <4>1, <5>3, <5>4
      <4>2. QED BY <1>2, <4>1
    <3> HIDE DEF e, k, x
    <3>5. entry'[k][x] = e => Kept(k, x)
      BY <1>1, <1>3, <1>4, <2>1, <2>2, <3>1, <3>3, <3>4, EntryKept
    <3>6. QED BY <1>1, <1>2, <1>3, <1>4, <1>6, <2>1, <3>5, OneEntry
  <2>4. CASE m.kind # "NOT_EXPOSED"
    <3>1. entry[k][x].phase \in {"EXPOSED", "COMPLETED"}
      BY <1>6, <2>2, <2>4 DEF AwaitedKind
    <3>2. e = [entry[k][x] EXCEPT !.told = m.kind, !.waiting = FALSE, !.failures = 0]
      BY <2>4 DEF Acknowledged
    <3>3. e.phase = entry[k][x].phase /\ ~e.waiting
      BY <1>3, <3>2 DEF Entry
    <3>4. \A n \in mail' : ~(n.conn = k /\ n.delivery = x /\ n.kind = "NOT_EXPOSED")
      BY <1>2, <1>3, <3>1 DEF Consistent
    <3>5. ~Unpresented(k, x)
      BY <3>1 DEF Unpresented
    <3> HIDE DEF e, k, x
    <3>6. entry'[k][x] = e => Kept(k, x)
      BY <1>1, <1>3, <1>4, <2>1, <3>1, <3>3, <3>4, <3>5, EntryKept
    <3>7. QED BY <1>1, <1>2, <1>3, <1>4, <1>6, <2>1, <3>6, OneEntry
  <2>5. QED BY <2>3, <2>4
<1>7. QED BY <1>1, <1>5, <1>6

\* A step writes a delivery to one client, or every client keeps all.
LEMMA WriteOrKeep ==
  ASSUME TypeOK, Commanding, Truthful, Next, NEW c \in Connections, NEW d \in Deliveries
  PROVE  Wrote(c, d) \/ Kept(c, d)
<1>1. Consistent(c, d)
  BY DEF Truthful
<1>2. ASSUME UNCHANGED <<wire, entry, shown>>, mail' \subseteq mail PROVE Kept(c, d)
  BY <1>1, <1>2, Untouched DEF Shorter
<1>3. CASE \E k \in Deliveries : Queue(k) \/ Publish(k)
  BY <1>2, <1>3 DEF Queue, Publish, clientVars
<1>4. CASE FinalizeUtterance \/ (\E ends \in BOOLEAN : Invalidate(ends)) \/ Recover
  BY <1>2, <1>4 DEF FinalizeUtterance, Invalidate, Recover, clientVars
<1>5. CASE \E k \in Connections : Request(k) \/ Attach(k) \/ SocketCloses(k) \/ Cleanup(k) \/ Drain(k)
  BY <1>2, <1>5 DEF Request, Attach, SocketCloses, Cleanup, Drain, clientVars
<1>6. CASE CloseSession \/ Shutdown \/ Crash
  BY <1>2, <1>6 DEF CloseSession, Shutdown, Stop, EndConnections, Stopped, Restart, Crash, clientVars
<1>7. CASE Commands \/ Classify
  BY <1>2, <1>7 DEF Commands, Reconnect, CancelBeforeExposure, MarkPossiblyExposed, ledgerFrame, Classify, clientVars
<1>8. CASE Begin \/ Check \/ Unblock \/ Settle \/ Throw
  BY <1>2, <1>8 DEF Begin, Check, Unblock, Settle, Throw, clientVars
<1>9. CASE Write
  <2>1. tail # <<>> /\ pub.step = "STARTED" /\ Used \in Connections /\ This \in Deliveries /\ UNCHANGED <<status, entry, shown, mail>>
    BY <1>9, ThisOne DEF Write, At, ledgerVars, Commanding, InHand
  <2>2. CASE UNCHANGED wire
    BY <1>2, <2>1, <2>2
  <2>3. CASE status[This] = "DELIVERING" /\ pub'.step # "STARTED" /\ wire' = [wire EXCEPT ![Used] = Append(wire[Used], This)]
    <3>1. CASE c = Used /\ d = This
      BY <2>1, <2>3, <3>1 DEF Wrote
    <3>2. CASE c # Used
      <4>1. Shorter(c)
        BY <2>1, <2>3, <3>2 DEF Shorter, TypeOK
      <4>2. QED BY <1>1, <2>1, <4>1, Untouched
    <3>3. CASE c = Used /\ d # This
      <4>1. /\ wire'[c] = Append(wire[c], This) /\ Len(wire'[c]) = Len(wire[c]) + 1 /\ Len(wire[c]) \in Nat
            /\ \A i \in 1 .. Len(wire[c]) : wire'[c][i] = wire[c][i]
            /\ wire'[c][Len(wire[c]) + 1] = This
        <5>1. wire[c] \in Seq(Deliveries) /\ wire'[c] = Append(wire[c], This)
          BY <2>1, <2>3, <3>3 DEF TypeOK
        <5>2. QED BY <2>1, <5>1, AppendProperties, LenProperties
      <4>2. \A i \in 1 .. Len(wire'[c]) : wire'[c][i] = d => i \in 1 .. Len(wire[c]) /\ wire[c][i] = d
        BY <3>3, <4>1
      <4>3. OnWire(c, d)' => OnWire(c, d)
        BY <4>2 DEF OnWire
      <4>4. AtMostOnce(c, d) => AtMostOnce(c, d)'
        BY <4>2 DEF AtMostOnce
      <4>5. Consistent(c, d)'
        BY <1>1, <2>1, <4>3, <4>4 DEF Consistent
      <4>6. QED BY <2>1, <4>3, <4>5 DEF Kept, Written, Unpresented, Presenting
    <3>4. QED BY <3>1, <3>2, <3>3
  <2>4. UNCHANGED wire \/ (status[This] = "DELIVERING" /\ pub'.step # "STARTED" /\ wire' = [wire EXCEPT ![Used] = Append(wire[Used], This)])
    <3>1. Finish \/ Await("MARK", "REMOVE") \/ pub' = [pub EXCEPT !.step = "BLOCKED"]
      BY <1>9 DEF Write
    <3>2. pub'.step # "STARTED"
      <4>1. CASE Finish
        BY <4>1 DEF Finish, NoPub
      <4>2. CASE pub' = [pub EXCEPT !.step = "BLOCKED"]
        BY <4>2 DEF TypeOK
      <4>3. CASE pub' = [pub EXCEPT !.step = "COMMAND", !.after = "REMOVE"]
        BY <4>3 DEF TypeOK
      <4>4. QED BY <3>1, <4>1, <4>2, <4>3 DEF Await
    <3>3. wire' = wire \/ (status[This] = "DELIVERING" /\ wire' = [wire EXCEPT ![Used] = Append(wire[Used], This)])
      BY <1>9 DEF Write, StillDelivering
    <3>4. QED BY <3>2, <3>3
  <2>5. QED BY <2>2, <2>3, <2>4
<1>10. CASE \E k \in Connections : Rendering(k)
  <2>1. ASSUME NEW k \in Connections, ClientEnds(k) PROVE Kept(c, d)
    <3>1. End(k) /\ UNCHANGED <<entry, shown, mail>>
      BY <2>1 DEF ClientEnds
    <3>2. QED BY <1>1, <3>1, EndIsShorter, Untouched
  <2>2. QED BY <1>10, <2>1, ReceivingKeeps, PresentingKeeps, AcknowledgingKeeps DEF Rendering
<1>11. CASE \E m \in mail : HandleAcknowledgement(m)
  BY <1>11, HandlingKeeps
<1>12. QED
  BY <1>3, <1>4, <1>5, <1>6, <1>7, <1>8, <1>9, <1>10, <1>11 DEF Next, Publication

\* Nothing that was written, or withdrawn, becomes fresh again.
LEMMA FreshBefore ==
  ASSUME TypeOK, OnePlace, Commanding, Next, NEW d \in Deliveries, Fresh(d)'
  PROVE  Fresh(d)
<1>1. CASE status'[d] \in {"UNUSED", "QUEUED"}
  BY <1>1, LedgerMoves DEF Fresh
<1>2. CASE pub'.step = "STARTED" /\ This' = d /\ status'[d] = "DELIVERING"
  <2>1. CASE Reconnect /\ d = Head(queue).delivery /\ status[d] = "QUEUED"
    BY <2>1 DEF Fresh
  <2>2. CASE status[d] = "DELIVERING"
    <3>1. CASE Publication
      <4>1. pub'.step # "STARTED"
        <5>1. CASE Finish
          BY <5>1 DEF Finish, NoPub
        <5>2. CASE \E c \in Attached : pub' = [NoPub EXCEPT !.step = "CHECK", !.conn = c]
          BY <5>2 DEF NoPub
        <5>3. CASE pub' = [pub EXCEPT !.step = "BLOCKED"]
          BY <5>3 DEF TypeOK
        <5>4. CASE \E after : pub' = [pub EXCEPT !.step = "COMMAND", !.after = after]
          BY <5>4 DEF TypeOK
        <5>5. QED BY <3>1, <5>1, <5>2, <5>3, <5>4 DEF Publication, Begin, Check, Write, Unblock, Settle, Throw, Await
      <4>2. QED BY <1>2, <4>1
    <3>2. CASE Commands
      <4>1. tail' = tail
        BY <3>2 DEF Commands, Reconnect, CancelBeforeExposure, MarkPossiblyExposed, ledgerFrame
      <4>2. CASE pub' = pub
        BY <1>2, <2>2, <4>1, <4>2 DEF Fresh, This
      <4>3. CASE Reconnect
        <5>1. queue # <<>> /\ Head(queue).op = "RECONNECT" /\ 1 \in 1 .. Len(queue) /\ Head(queue) = queue[1]
          BY <4>3 DEF Reconnect, IsNext, TypeOK
        <5>2. status[This] # "DELIVERING"
          BY <5>1 DEF Commanding, OwnCommands
        <5>3. QED BY <1>2, <2>2, <4>1, <5>2 DEF This
      <4>4. ASSUME NEW step \in {"SETTLED", "REFUSED"}, Reply(step) PROVE FALSE
        BY <1>2, <4>4 DEF Reply, TypeOK
      <4>5. QED BY <3>2, <4>2, <4>3, <4>4 DEF Commands, CancelBeforeExposure, MarkPossiblyExposed
    <3>3. CASE Crash
      BY <1>2, <3>3 DEF Crash, NoPub
    <3>4. CASE ~Publication /\ ~Commands /\ ~Crash
      <4>1. UNCHANGED pub
        <5>1. CASE Classify
          BY <5>1 DEF Classify
        <5>2. QED BY <3>4, <5>1, Bystanders
      <4>2. tail # <<>>
        BY <1>2, <4>1 DEF Commanding, InHand
      <4>3. Head(tail') = Head(tail)
        <5>1. CASE Classify
          BY <5>1 DEF Classify
        <5>2. CASE ~Classify
          <6>1. tail \in Seq(Publications)
            BY DEF TypeOK, Publications
          <6>2. ASSUME NEW p \in Publications PROVE Head(Append(tail, p)) = Head(tail)
            BY <4>2, <6>1, AppendProperties, LenProperties, EmptySeq
          <6>3. QED BY <3>4, <5>2, <6>2, Bystanders
        <5>3. QED BY <5>1, <5>2
      <4>4. QED BY <1>2, <2>2, <4>1, <4>3 DEF Fresh, This
    <3>5. QED BY <3>1, <3>2, <3>3, <3>4
  <2>3. QED BY <1>2, <2>1, <2>2, LedgerMoves
<1>3. QED BY <1>1, <1>2 DEF Fresh

\* What a write makes of the delivery it writes.
LEMMA WriteDoes ==
  ASSUME TypeOK, WrittenOnce, Truthful, NEW c \in Connections, NEW d \in Deliveries, Wrote(c, d)
  PROVE  /\ Consistent(c, d)' /\ status'[d] = "DELIVERING" /\ ~Fresh(d)'
         /\ \A e \in Connections : ~Written(e, d)
<1>1. Fresh(d)
  BY DEF Wrote, Fresh
<1>2. \A e \in Connections : ~Written(e, d)
  BY <1>1 DEF WrittenOnce
<1>3. entry[c][d].phase = "NONE" /\ d \notin shown[c] /\ \A m \in mail : m.conn = c => m.delivery # d
  BY <1>2 DEF Written
<1>4. AtMostOnce(c, d)'
  <2>1. wire[c] \in Seq(Deliveries) /\ wire'[c] = Append(wire[c], d)
    BY DEF TypeOK, Wrote
  <2>2. \A i \in 1 .. Len(wire[c]) : wire[c][i] # d
    BY <1>2 DEF Written, OnWire
  <2>3. /\ Len(wire'[c]) = Len(wire[c]) + 1 /\ Len(wire[c]) \in Nat
        /\ \A i \in 1 .. Len(wire[c]) : wire'[c][i] = wire[c][i]
    BY <2>1, AppendProperties, LenProperties
  <2>4. \A i \in 1 .. Len(wire'[c]) : wire'[c][i] = d => i = Len(wire[c]) + 1
    BY <2>2, <2>3
  <2>5. QED BY <2>4 DEF AtMostOnce
<1>5. Consistent(c, d)
  BY DEF Truthful
<1>6. Consistent(c, d)'
  BY <1>3, <1>4, <1>5 DEF Consistent, Wrote
<1>7. status'[d] = "DELIVERING" /\ ~Fresh(d)'
  BY DEF Wrote, Fresh
<1>8. QED BY <1>2, <1>6, <1>7

LEMMA WrittenOnceStep ==
  ASSUME TypeOK, OnePlace, Commanding, WrittenOnce, Truthful, Next
  PROVE  WrittenOnce'
<1>1. ASSUME NEW d \in Deliveries
      PROVE  /\ Fresh(d)' => \A c \in Connections : ~Written(c, d)'
             /\ \A c, e \in Connections : Written(c, d)' /\ Written(e, d)' => c = e
  <2>1. CASE \E c \in Connections : Wrote(c, d)
    <3>1. PICK c \in Connections : Wrote(c, d)
      BY <2>1
    <3>2. ~Fresh(d)' /\ \A e \in Connections : ~Written(e, d)
      BY <3>1, WriteDoes
    <3>3. \A e \in Connections : Written(e, d)' => e = c
      <4>1. ASSUME NEW e \in Connections, Written(e, d)' PROVE Wrote(e, d)
        BY <3>2, <4>1, WriteOrKeep DEF Kept
      <4>2. QED BY <3>1, <4>1 DEF Wrote
    <3>4. QED BY <3>2, <3>3
  <2>2. CASE \A c \in Connections : ~Wrote(c, d)
    <3>1. \A c \in Connections : Written(c, d)' => Written(c, d)
      BY <2>2, WriteOrKeep DEF Kept
    <3>2. QED BY <3>1, FreshBefore DEF WrittenOnce
  <2>3. QED BY <2>1, <2>2
<1>2. QED BY <1>1 DEF WrittenOnce

LEMMA TruthfulStep ==
  ASSUME TypeOK, OnePlace, Commanding, WrittenOnce, Truthful, Next
  PROVE  Truthful'
<1>1. ASSUME NEW c \in Connections, NEW d \in Deliveries
      PROVE  Consistent(c, d)' /\ (status'[d] = "CANCELLED" => Unpresented(c, d)')
  <2>1. CASE Wrote(c, d)
    BY <2>1, WriteDoes
  <2>2. CASE Kept(c, d)
    <3>1. Consistent(c, d) /\ (Unpresented(c, d) => Unpresented(c, d)') /\ Consistent(c, d)'
      BY <2>2 DEF Kept, Truthful
    <3>2. CASE status[d] = "CANCELLED"
      BY <3>1, <3>2 DEF Truthful
    <3>3. CASE status[d] = "QUEUED"
      <4>1. ~Written(c, d)
        BY <3>3 DEF WrittenOnce, Fresh
      <4>2. Unpresented(c, d)
        BY <4>1 DEF Written, Unpresented, Presenting
      <4>3. QED BY <3>1, <4>2
    <3>4. ASSUME NEW m \in mail, m.delivery = d, m.kind = "NOT_EXPOSED" PROVE Unpresented(c, d)
      <4>1. m.conn \in Connections
        BY DEF TypeOK, Message
      <4>2. CASE m.conn = c
        <5>1. d \notin shown[c] /\ (entry[c][d].phase = "FAILED" \/ (entry[c][d].phase = "RECEIVED" /\ entry[c][d].waiting))
          BY <3>1, <3>4, <4>2 DEF Consistent
        <5>2. ~OnWire(c, d)
          BY <3>1, <3>4, <4>2 DEF Consistent
        <5>3. QED BY <5>1, <5>2 DEF Unpresented, Presenting
      <4>3. CASE m.conn # c
        <5>1. Written(m.conn, d)
          BY <3>4 DEF Written
        <5>2. ~Written(c, d)
          BY <4>1, <4>3, <5>1 DEF WrittenOnce
        <5>3. QED BY <5>2 DEF Written, Unpresented, Presenting
      <4>4. QED BY <4>2, <4>3
    <3>5. QED BY <3>1, <3>2, <3>3, <3>4, LedgerMoves
  <2>3. QED BY <2>1, <2>2, WriteOrKeep
<1>2. QED BY <1>1 DEF Truthful

-----------------------------------------------------------------------------
(* The theorems. *)

LEMMA InitHolds == Init => IInv
<1> SUFFICES ASSUME Init PROVE IInv
  OBVIOUS
<1>1. TypeOK
  <2>1. Untracked \in Entry
    BY RendererAssumption DEF Untracked, Entry
  <2>2. entry \in [Connections -> [Deliveries -> Entry]]
    BY <2>1 DEF Init
  <2>3. /\ tail \in Seq([delivery : Deliveries, by : Connections \cup {None}])
        /\ queue \in Seq([op : {"RECONNECT", "MARK", "CANCEL", "CLASSIFY"}, delivery : Deliveries])
        /\ classify \in Seq(Connections) /\ wire \in [Connections -> Seq(Deliveries)]
    BY EmptySeq DEF Init
  <2>4. left \in 0 .. MaxDisturbances
    BY RendererAssumption DEF Init
  <2>5. /\ status \in [Deliveries -> Status] /\ pub \in [step : {"IDLE", "CHECK", "COMMAND", "STARTED", "SETTLED", "REFUSED", "BLOCKED"},
                                                         conn : Connections \cup {None}, after : {"END", "REMOVE", "DESTROY"}]
    BY DEF Init, Status, NoPub
  <2>6. QED BY <2>2, <2>3, <2>4, <2>5 DEF Init, TypeOK
<1>2. Attached = {} /\ Waiting = {} /\ classify = <<>>
  BY DEF Init, Attached, Waiting
<1>3. Places
  BY <1>2 DEF Places, OnePlace, InTurn
<1>4. Commanding
  BY DEF Init, NoPub, Commanding, InHand, OwnCommands, Visiting
<1>5. OnItsWay
  BY DEF Init, OnItsWay
<1>6. ASSUME NEW c \in Connections, NEW d \in Deliveries
      PROVE  ~Written(c, d) /\ Consistent(c, d) /\ status[d] # "CANCELLED"
  <2>1. entry[c][d] = Untracked /\ wire[c] = <<>> /\ shown[c] = {} /\ mail = {} /\ status[d] = "UNUSED"
    BY DEF Init
  <2>2. ~OnWire(c, d)
    BY <2>1 DEF OnWire
  <2>3. QED BY <2>1, <2>2 DEF Written, Consistent, Untracked
<1>7. WrittenOnce /\ Truthful
  BY <1>6 DEF WrittenOnce, Truthful
<1>8. QED BY <1>1, <1>3, <1>4, <1>5, <1>7 DEF IInv

LEMMA StutteringKeeps == IInv /\ UNCHANGED vars => IInv'
<1> SUFFICES ASSUME IInv, UNCHANGED vars PROVE IInv'
  OBVIOUS
<1>1. /\ UNCHANGED <<status, stale, active, recovered, unsent, attach, waits, socket, hears, sent, todo>>
      /\ UNCHANGED <<tail, pub, queue, classify, visited, stopping, wire, client, entry, shown, mail, left>>
  BY DEF vars, ledgerVars, linkVars, pubVars, downVars, clientVars
<1>2. TypeOK' /\ Places'
  <2>1. TypeOK'
    BY TypeStep DEF IInv, Places
  <2>2. Places'
    BY <1>1 DEF IInv, Places, OnePlace, InTurn, Attached, Waiting
  <2>3. QED BY <2>1, <2>2
<1>3. Commanding' /\ OnItsWay'
  <2>1. \A c, d : Answerable(c, d)' <=> Answerable(c, d)
    BY <1>1 DEF Answerable, Attached
  <2>2. Used' = Used /\ This' = This /\ Attached' = Attached
    BY <1>1 DEF Used, This, Attached
  <2>3. InHand' /\ Visiting' /\ OnItsWay'
    BY <1>1, <2>1, <2>2 DEF IInv, Commanding, InHand, Visiting, OnItsWay
  <2>4. OwnCommands'
    BY <1>1, <2>1, <2>2 DEF IInv, Commanding, OwnCommands, Answerable
  <2>5. QED BY <2>3, <2>4 DEF Commanding
<1>4. WrittenOnce' /\ Truthful'
  BY <1>1 DEF IInv, WrittenOnce, Truthful, Fresh, This, Written, OnWire, Consistent, AtMostOnce, Unpresented, Presenting
<1>5. QED BY <1>2, <1>3, <1>4 DEF IInv

LEMMA Inductive == ASSUME MaxPerSession = 1 PROVE IInv /\ [Next]_vars => IInv'
<1>1. CASE UNCHANGED vars
  BY <1>1, StutteringKeeps
<1>2. CASE Next
  BY <1>2, TypeStep, PlacesStep, CommandingStep, OnItsWayStep, WrittenOnceStep, TruthfulStep DEF IInv, Places
<1>3. QED BY <1>1, <1>2

LEMMA Invariance == ASSUME MaxPerSession = 1 PROVE Spec => []IInv
BY InitHolds, Inductive, PTL DEF Spec

\* Every variable keeps its type: a connection is in one state, a publication has
\* one delivery, a client's entry is one of those the browser can hold.
THEOREM StreamTypeOK == ASSUME MaxPerSession = 1 PROVE Spec => []TypeOK
<1>1. IInv => TypeOK
  BY DEF IInv
<1>2. QED BY <1>1, Invariance, PTL

\* No candidate is shown a delivery twice, whatever closes, crashes, is withdrawn
\* or answered late: each is written at most once, to one client, which takes it
\* up at most once (renderer-stream-server.ts:417-452).
THEOREM StreamShowsOnce == ASSUME MaxPerSession = 1 PROVE Spec => []ShownOnce
<1>1. IInv => ShownOnce
  <2> SUFFICES ASSUME IInv, NEW d \in Deliveries
               PROVE  /\ Cardinality(ShownTo(d)) <= 1
                      /\ \A c \in Connections : Presenting(c, d) => ShownTo(d) = {}
    BY DEF ShownOnce
  <2>1. \A c, e \in Connections : Written(c, d) /\ Written(e, d) => c = e
    BY DEF IInv, WrittenOnce
  <2>2. \A c \in ShownTo(d) : c \in Connections /\ Written(c, d) /\ d \in shown[c]
    BY DEF ShownTo, Written
  <2>3. Cardinality(ShownTo(d)) <= 1
    <3>1. CASE ShownTo(d) = {}
      BY <3>1, FS_EmptySet
    <3>2. ASSUME NEW c \in ShownTo(d) PROVE Cardinality(ShownTo(d)) = 1
      <4>1. ShownTo(d) = {c}
        BY <2>1, <2>2, <3>2
      <4>2. QED BY <4>1, FS_Singleton
    <3>3. QED BY <3>1, <3>2
  <2>4. ASSUME NEW c \in Connections, Presenting(c, d) PROVE ShownTo(d) = {}
    <3>1. Written(c, d) /\ d \notin shown[c]
      BY <2>4 DEF Presenting, Written, IInv, Truthful, Consistent
    <3>2. QED BY <2>1, <2>2, <3>1
  <2>5. QED BY <2>3, <2>4
<1>2. QED BY <1>1, Invariance, PTL

\* What a candidate has been shown is accounted for in the ledger: it is on its
\* way, disclosed or uncertain, and never waiting or withdrawn.  A report of
\* non-exposure cancels a delivery only when it is true, and stays true.
THEOREM StreamAccountsForTheShown == ASSUME MaxPerSession = 1 PROVE Spec => []ShownIsAccountedFor
<1>1. IInv => ShownIsAccountedFor
  <2> SUFFICES ASSUME IInv, NEW d \in Deliveries, NEW c \in Connections, d \in shown[c]
               PROVE  status[d] \in {"DELIVERING", "POSSIBLY_EXPOSED", "EXPOSED", "COMPLETED"}
    BY DEF ShownIsAccountedFor, ShownTo
  <2>1. Written(c, d)
    BY DEF Written
  <2>2. status[d] \notin {"UNUSED", "QUEUED"}
    BY <2>1 DEF IInv, WrittenOnce, Fresh
  <2>3. status[d] # "CANCELLED"
    BY DEF IInv, Truthful, Unpresented
  <2>4. status[d] \in Status
    BY DEF IInv, TypeOK
  <2>5. QED BY <2>2, <2>3, <2>4 DEF Status
<1>2. QED BY <1>1, Invariance, PTL

\* Whatever is on its way has somebody who will find out what became of it: the
\* connection it was sent on, its classification, or recovery.
THEOREM StreamAnswersForDeliveries ==
  ASSUME MaxPerSession = 1
  PROVE  Spec => [](\A d \in Deliveries : status[d] = "DELIVERING" => Responsible(d))
<1>1. IInv => \A d \in Deliveries : status[d] = "DELIVERING" => Responsible(d)
  <2> SUFFICES ASSUME IInv, NEW d \in Deliveries, status[d] = "DELIVERING", recovered PROVE Responsible(d)
    BY DEF Responsible
  <2>1. PICK c \in Connections : Answerable(c, d)
    BY DEF IInv, OnItsWay
  <2>2. classify = <<c>> => c \in ToSet(classify) /\ c = Head(classify)
    BY DEF ToSet
  <2>3. QED BY <2>1, <2>2 DEF Answerable, Responsible
<1>2. QED BY <1>1, Invariance, PTL

LEMMA WriteOrShorter ==
  ASSUME TypeOK, Commanding, Next, NEW c \in Connections
  PROVE  Shorter(c) \/ (c = Used /\ status[This] = "DELIVERING" /\ wire' = [wire EXCEPT ![c] = Append(wire[c], This)])
<1>1. CASE Publication
  <2>1. CASE Write
    <3>1. Used \in Connections
      BY <2>1 DEF Write, At, Commanding, InHand
    <3>2. wire' = wire \/ (status[This] = "DELIVERING" /\ wire' = [wire EXCEPT ![Used] = Append(wire[Used], This)])
      BY <2>1 DEF Write, StillDelivering
    <3>3. CASE c = Used
      BY <3>2, <3>3 DEF Shorter
    <3>4. CASE c # Used
      BY <3>1, <3>2, <3>4 DEF Shorter, TypeOK
    <3>5. QED BY <3>3, <3>4
  <2>2. CASE Begin \/ Check \/ Unblock \/ Settle \/ Throw
    BY <2>2 DEF Begin, Check, Unblock, Settle, Throw, clientVars, Shorter
  <2>3. QED BY <1>1, <2>1, <2>2 DEF Publication
<1>2. CASE \E k \in Connections : Rendering(k)
  <2>1. PICK k \in Connections : Rendering(k)
    BY <1>2
  <2>2. CASE Receive(k)
    BY <2>2, ReceiveDoes, EndIsShorter DEF Shorter, TypeOK
  <2>3. CASE ~Receive(k)
    <3>1. End(k) \/ UNCHANGED wire
      BY <2>1, <2>3 DEF Rendering, ClientEnds, MarkExposureBegan, MarkPresentationCompleted, ReportNotExposed,
                        PresentationFails, FlushAcknowledgements, Unanswered
    <3>2. QED BY <3>1, EndIsShorter DEF Shorter
  <2>4. QED BY <2>2, <2>3
<1>3. CASE \/ \E d \in Deliveries : Queue(d) \/ Publish(d)
           \/ \E k \in Connections : Request(k) \/ Attach(k) \/ SocketCloses(k) \/ Cleanup(k) \/ Drain(k)
  BY <1>3 DEF Queue, Publish, Request, Attach, SocketCloses, Cleanup, Drain, clientVars, Shorter
<1>4. CASE FinalizeUtterance \/ (\E ends \in BOOLEAN : Invalidate(ends)) \/ Recover \/ CloseSession \/ Shutdown \/ Crash
  BY <1>4 DEF FinalizeUtterance, Invalidate, Recover, CloseSession, Shutdown, Stop, EndConnections, Stopped, Restart,
              Crash, clientVars, Shorter
<1>5. CASE Commands \/ Classify \/ \E m \in mail : HandleAcknowledgement(m)
  BY <1>5 DEF Commands, Reconnect, CancelBeforeExposure, MarkPossiblyExposed, ledgerFrame, Classify,
              HandleAcknowledgement, clientVars, Shorter
<1>6. QED BY <1>1, <1>2, <1>3, <1>4, <1>5 DEF Next

\* What changed during an await is seen after it: a withdrawn delivery is never
\* written, and no renderer attaches while another is being classified.
THEOREM StreamLooksBehindAwaits == ASSUME MaxPerSession = 1 PROVE Spec => AwaitsAreLookedBehind
<1>1. ASSUME IInv, Next, NEW c \in Connections, Len(wire'[c]) > Len(wire[c])
      PROVE  status[Last(wire'[c])] = "DELIVERING"
  <2>1. wire[c] \in Seq(Deliveries) /\ Len(wire[c]) \in Nat
    <3>1. TypeOK
      BY <1>1 DEF IInv
    <3>2. wire[c] \in Seq(Deliveries)
      BY <3>1 DEF TypeOK
    <3>3. QED BY <3>2, LenProperties
  <2>2. ~Shorter(c)
    <3>1. wire'[c] # wire[c] /\ Len(wire'[c]) \notin 0 .. Len(wire[c])
      BY <1>1, <2>1
    <3>2. wire'[c] # <<>>
      <4>1. Len(<<>>) = 0
        OBVIOUS
      <4>2. QED BY <2>1, <3>1, <4>1
    <3>3. ASSUME wire[c] # <<>> PROVE wire'[c] # Tail(wire[c])
      <4>1. Len(Tail(wire[c])) \in 0 .. Len(wire[c])
        BY <2>1, <3>3, HeadTailProperties, EmptySeq
      <4>2. QED BY <3>1, <4>1
    <3>4. QED BY <3>1, <3>2, <3>3 DEF Shorter
  <2>3. c = Used /\ status[This] = "DELIVERING" /\ wire'[c] = Append(wire[c], This)
    BY <1>1, <2>2, WriteOrShorter DEF IInv, TypeOK
  <2>4. Last(Append(wire[c], This)) = This
    BY <2>1 DEF Last
  <2>5. QED BY <2>3, <2>4
<1>2. ASSUME IInv, Next, NEW c \in Connections, attach[c] # "ATTACHED", attach'[c] = "ATTACHED", MaxPerSession = 1
      PROVE  classify = <<>>
  <2>1. Attach(c) /\ Room
    <3>1. ASSUME NEW k \in Connections, Request(k) PROVE FALSE
      BY <1>2, <3>1 DEF Request, IInv, TypeOK
    <3>2. ASSUME NEW k \in Connections, Attach(k) PROVE k = c /\ Room
      BY <1>2, <3>2 DEF Attach, IInv, TypeOK
    <3>3. ASSUME NEW k, attach' = [attach EXCEPT ![k] = "REMOVED"] PROVE FALSE
      BY <1>2, <3>3 DEF IInv, TypeOK
    <3>4. ~Crash
      BY <1>2 DEF Crash
    <3>5. QED BY <1>2, <3>1, <3>2, <3>3, <3>4, PlaceMoves DEF IInv, Places
  <2>2. c \in Waiting /\ Classified(c)
    BY <2>1 DEF Attach, Waiting
  <2>3. ASSUME NEW e \in Connections, classify = <<e>> PROVE FALSE
    <3>1. e \in waits[c] /\ e \in ToSet(classify)
      <4>1. InTurn
        BY <1>2 DEF IInv, Places
      <4>2. QED BY <2>2, <2>3, <4>1 DEF InTurn, ToSet
    <3>2. QED BY <2>2, <3>1 DEF Classified
  <2>4. QED BY <1>2, <2>3 DEF IInv, Places, OnePlace
<1>3. ASSUME MaxPerSession = 1 PROVE IInv /\ [Next]_vars => [\A c \in Connections :
          /\ Len(wire'[c]) > Len(wire[c]) => status[Last(wire'[c])] = "DELIVERING"
          /\ attach[c] # "ATTACHED" /\ attach'[c] = "ATTACHED" => classify = <<>>]_vars
  BY <1>1, <1>2, <1>3
<1>4. QED BY <1>3, Invariance, PTL DEF Spec, AwaitsAreLookedBehind

-----------------------------------------------------------------------------
(* The exposure ledger. *)

\* Where a delivery is, in the words of ExposureLedger, and what the candidate
\* may have been told of it: the delivery itself.
Phase(s) == CASE s = "UNUSED"     -> "ABSENT"
              [] s = "QUEUED"     -> "WAITING"
              [] s = "DELIVERING" -> "UNDER_WAY"
              [] s = "CANCELLED"  -> "WITHDRAWN"
              [] OTHER            -> "DISCLOSED"
phase   == [d \in Deliveries |-> Phase(status[d])]
reveals == [d \in Deliveries |-> IF status[d] = "UNUSED" THEN {} ELSE {d}]
ledger  == {d \in Deliveries : Phase(status[d]) = "DISCLOSED"}

Exposure == INSTANCE ExposureLedger WITH Atoms <- Deliveries, Disclosures <- Deliveries

\* How far a delivery's status gets in one step.  Nothing is disclosed that was
\* not on its way, and what was disclosed is never taken back.
LEMMA StatusMoves ==
  ASSUME TypeOK, Next, NEW d \in Deliveries
  PROVE  Exposure!MayBecome(Phase(status[d]), Phase(status'[d]))
<1> USE DEF Exposure!MayBecome, Phase
<1>1. CASE UNCHANGED status
  BY <1>1
<1>2. CASE \E k \in Deliveries : Queue(k)
  BY <1>2 DEF Queue, TypeOK
<1>3. CASE \E ends \in BOOLEAN : Invalidate(ends)
  BY <1>3 DEF Invalidate, Withdrawn, TypeOK, Status
<1>4. CASE Recover
  BY <1>4 DEF Recover, RecoveredStatus, TypeOK, Status
<1>5. CASE Reconnect
  BY <1>5 DEF Reconnect, TypeOK, Status
<1>6. CASE CancelBeforeExposure
  BY <1>6 DEF CancelBeforeExposure, TypeOK, Status
<1>7. CASE MarkPossiblyExposed
  BY <1>7 DEF MarkPossiblyExposed, Uncertain, TypeOK, Status
<1>8. ASSUME NEW m \in mail, HandleAcknowledgement(m)
      PROVE  Exposure!MayBecome(Phase(status[d]), Phase(status'[d]))
  <2>1. m.delivery \in Deliveries /\ m.kind \in {"EXPOSED", "COMPLETED", "NOT_EXPOSED"}
    BY <1>8, AcknowledgementDoes
  <2>2. status' = IF Accepts(m.kind, status[m.delivery])
                  THEN [status EXCEPT ![m.delivery] = Outcome(m.kind, @)] ELSE status
    BY <1>8 DEF HandleAcknowledgement
  <2>3. CASE Accepts(m.kind, status[m.delivery]) /\ m.delivery = d
    <3>1. status'[d] = Outcome(m.kind, status[d])
      BY <2>2, <2>3 DEF TypeOK
    <3>2. status[d] \in Status
      BY DEF TypeOK
    <3>3. CASE m.kind = "EXPOSED"
      BY <2>3, <3>1, <3>2, <3>3 DEF Accepts, Outcome, Status
    <3>4. CASE m.kind = "COMPLETED"
      BY <2>3, <3>1, <3>2, <3>4 DEF Accepts, Outcome, Status
    <3>5. CASE m.kind = "NOT_EXPOSED"
      BY <2>3, <3>1, <3>2, <3>5 DEF Accepts, Outcome, Status
    <3>6. QED BY <2>1, <3>3, <3>4, <3>5
  <2>4. CASE ~(Accepts(m.kind, status[m.delivery]) /\ m.delivery = d)
    <3>1. status'[d] = status[d]
      BY <2>2, <2>4 DEF TypeOK
    <3>2. QED BY <3>1
  <2>5. QED BY <2>3, <2>4
<1>9. QED
  <2>1. CASE CloseSession \/ Shutdown \/ Publication \/ Classify \/ Crash \/ FinalizeUtterance
    BY <1>1, <2>1 DEF CloseSession, Shutdown, Stop, EndConnections, Stopped, Restart, Crash, Classify,
       FinalizeUtterance, Publication, Begin, Check, Write, Unblock, Settle, Throw, ledgerVars
  <2>2. ASSUME NEW k \in Deliveries, Publish(k) PROVE UNCHANGED status
    BY <2>2 DEF Publish
  <2>3. ASSUME NEW c \in Connections, Request(c) \/ Attach(c) \/ SocketCloses(c) \/ Cleanup(c) \/ Drain(c)
        PROVE  UNCHANGED status
    BY <2>3 DEF Request, Attach, SocketCloses, Cleanup, Drain, ledgerVars
  <2>4. ASSUME NEW c \in Connections, Rendering(c) PROVE UNCHANGED status
    <3>1. UNCHANGED serverFrame
      BY <2>4, RenderingLeavesServer
    <3>2. QED BY <3>1 DEF serverFrame, ledgerVars
  <2>5. QED BY <1>1, <1>2, <1>3, <1>4, <1>5, <1>6, <1>7, <1>8, <2>1, <2>2, <2>3, <2>4 DEF Next, Commands

LEMMA ExposureInit == Init => Exposure!Init
BY DEF Init, Exposure!Init, Phase, phase, reveals, ledger

\* One step of the stream is one step of the exposure ledger, or none.
LEMMA ExposureStep == TypeOK /\ TypeOK' /\ [Next]_vars => [Exposure!Step]_(Exposure!vars)
<1>1. ASSUME UNCHANGED vars PROVE UNCHANGED Exposure!vars
  BY <1>1 DEF vars, ledgerVars, Exposure!vars, phase, reveals, ledger, Phase
<1>2. ASSUME TypeOK, TypeOK', Next PROVE Exposure!Step
  <2> USE <1>2
  <2>1. /\ \A d \in Deliveries : phase[d] = Phase(status[d])
        /\ \A d \in Deliveries : phase'[d] = Phase(status'[d])
    BY DEF phase
  <2>2. /\ \A d \in Deliveries : status[d] \in Status /\ status'[d] \in Status
        /\ \A s \in Status : /\ Phase(s) \in {"ABSENT", "WAITING", "UNDER_WAY", "DISCLOSED", "WITHDRAWN"}
                             /\ Phase(s) = "ABSENT" <=> s = "UNUSED"
    BY DEF TypeOK, Status, Phase
  <2>3. \A d \in Deliveries : Exposure!MayBecome(phase[d], phase'[d])
    BY <2>1, StatusMoves
  <2>4. phase' \in [Deliveries -> {"ABSENT", "WAITING", "UNDER_WAY", "DISCLOSED", "WITHDRAWN"}]
    BY <2>2 DEF phase
  <2>5. reveals' \in [Deliveries -> SUBSET Deliveries]
    BY DEF reveals
  <2>6. ASSUME NEW d \in Deliveries, phase[d] # "ABSENT" PROVE reveals'[d] = reveals[d]
    <3>1. phase'[d] # "ABSENT"
      BY <2>3, <2>6 DEF Exposure!MayBecome
    <3>2. status[d] # "UNUSED" /\ status'[d] # "UNUSED"
      BY <2>1, <2>2, <2>6, <3>1
    <3>3. QED BY <3>2 DEF reveals
  <2>7. ledger' = ledger \cup UNION {reveals[d] : d \in
                    {e \in Deliveries : phase[e] # "DISCLOSED" /\ phase'[e] = "DISCLOSED"}}
    <3> DEFINE New == {e \in Deliveries : phase[e] # "DISCLOSED" /\ phase'[e] = "DISCLOSED"}
    <3>1. \A d \in New : reveals[d] = {d}
      <4> SUFFICES ASSUME NEW d \in New PROVE reveals[d] = {d}
        OBVIOUS
      <4>1. phase[d] = "UNDER_WAY"
        BY <2>3 DEF Exposure!MayBecome
      <4>2. status[d] # "UNUSED"
        BY <2>1, <2>2, <4>1
      <4>3. QED BY <4>2 DEF reveals
    <3>2. ledger = {d \in Deliveries : phase[d] = "DISCLOSED"} /\ ledger' = {d \in Deliveries : phase'[d] = "DISCLOSED"}
      BY <2>1 DEF ledger
    <3>3. \A d \in Deliveries : phase[d] = "DISCLOSED" => phase'[d] = "DISCLOSED"
      BY <2>3 DEF Exposure!MayBecome
    <3>4. ledger' = ledger \cup New
      BY <3>2, <3>3
    <3>5. UNION {reveals[d] : d \in New} = New
      BY <3>1
    <3>6. QED BY <3>4, <3>5
  <2>8. QED BY <2>3, <2>4, <2>5, <2>6, <2>7 DEF Exposure!Step
<1>3. QED BY <1>1, <1>2

\* What the stream makes of its deliveries is what a session promises of them: a
\* delivery is disclosed only when it was on its way, uncertainty is disclosure,
\* and what was disclosed stays in the ledger, through crashes, withdrawals and
\* acknowledgements that come late or not at all.
THEOREM StreamImplementsExposure == ASSUME MaxPerSession = 1 PROVE Spec => Exposure!Spec
<1>1. ASSUME MaxPerSession = 1 PROVE Spec => []TypeOK
  BY <1>1, StreamTypeOK
<1>2. QED BY <1>1, ExposureInit, ExposureStep, PTL DEF Spec, Exposure!Spec
=============================================================================
