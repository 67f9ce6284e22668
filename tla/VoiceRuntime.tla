----------------------------- MODULE VoiceRuntime -----------------------------
(***************************************************************************)
(* The voice runtime of the server (apps/server/src/voice-runtime.ts): the *)
(* microphone streams of a session (VoiceInputCoordinator), the speech     *)
(* synthesised from its texts (VoiceSynthesisCoordinator), the bytes of    *)
(* that speech (EphemeralAudioAssetStore), and what they share: the        *)
(* authority of one session, its writer, and the shutdown.                 *)
(*                                                                         *)
(* A command of the writer waits in commands.  Its execution and what its  *)
(* caller does up to the next await are one step: the promise is settled   *)
(* in the turn of the event loop that ran the transaction.  A stream has   *)
(* one utterance at most, so an utterance is named by its stream.          *)
(*                                                                         *)
(* Abstractions: PCM, transcripts and audio have no content; the batch of  *)
(* events of one worker call is the one event that matters (no batch of    *)
(* the endpointing policy has two); a text is the only one of its          *)
(* generation; the segments of a synthesis are one call of the model, and  *)
(* a request to cancel it settles together with it; a validated generation *)
(* is compatible with the session (what its basis names supersedes it);    *)
(* and EXPOSED stands for COMPLETED too.                                   *)
(***************************************************************************)
EXTENDS Naturals, FiniteSets, Sequences

CONSTANTS
  Streams,               \* identities of microphone streams, each used once
  Texts,                 \* text deliveries, in the order of their turns
  Syntheses,             \* calls of synthesizeSentTextDelivery (a bound)
  MaxConcurrentRequests, \* TTS_LIMITS.maxConcurrentRequests
  MaxAssets,             \* MAX_EPHEMERAL_AUDIO_ASSETS
  MaxFrames,             \* frames after which the worker must decide
  MaxDisturbances,       \* bound on what nobody has to do
  None

ASSUME VoiceAssumption ==
  /\ None \notin Texts
  /\ {MaxConcurrentRequests, MaxAssets, MaxFrames, MaxDisturbances} \subseteq Nat

VARIABLES
  session,    \* "ENDING": completed or archived, onSessionTerminal not called yet
  generation, \* of each text
  text,       \* status of each text delivery
  audio,      \* status of the speech a synthesis queued
  utterance,  \* status of the utterance of a stream
  commands,   \* queue of the session's writer
  stream,     \* context of a stream: bound, or not
  handling,   \* what the operation in flight on a stream waits for
  listening,  \* what the speech worker has heard of a stream
  frames,     \* frames since the stream, or speech on it, began
  job,        \* where a call of synthesizeSentTextDelivery is
  source,     \* the text it reads
  calls,      \* calls of the model that have not settled
  reserved,   \* requests that hold a runtime reservation
  assets,     \* speech whose bytes are in the asset store
  stopping,   \* where the shutdown is
  left        \* disturbances left

authority == <<session, generation, text, audio, utterance>>
input == <<stream, handling, listening, frames>>
speech == <<job, source, calls, reserved>>
voiceVars == <<authority, commands, input, speech, assets, stopping, left>>

Statuses == {"NONE", "QUEUED", "DELIVERING", "EXPOSED", "CANCELLED", "POSSIBLY_EXPOSED"}

VoiceTypeOK ==
  /\ session \in {"ACTIVE", "ENDING", "ENDED"}
  /\ generation \in [Texts -> {"NONE", "VALIDATED", "SUPERSEDED"}]
  /\ text \in [Texts -> Statuses]
  /\ audio \in [Syntheses -> Statuses]
  /\ utterance \in [Streams -> {"NONE", "CAPTURING", "DISCARDED", "FINALIZED", "COMMITTED"}]
  /\ commands \in Seq([do : {"begin", "discard", "finalize", "commit", "revoke"}, of : Streams]
                      \cup [do : {"audio"}, of : Syntheses])
  /\ stream \in [Streams -> {"unopened", "opening", "active", "closed"}]
  /\ handling \in [Streams -> {"nothing", "frame", "flush", "begin", "discard", "finalize", "commit"}]
  /\ listening \in [Streams -> {"silence", "speech", "closed"}]
  /\ frames \in [Streams -> 0 .. MaxFrames]
  /\ job \in [Syntheses -> {"unused", "recovering", "working", "queueing", "publishing", "done"}]
  /\ source \in [Syntheses -> Texts \cup {None}]
  /\ reserved \subseteq Syntheses
  /\ calls \subseteq Syntheses
  /\ assets \subseteq Syntheses
  /\ stopping \in {"no", "input", "draining", "stopped"}
  /\ left \in 0 .. MaxDisturbances

VoiceInit ==
  /\ session = "ACTIVE"
  /\ generation = [t \in Texts |-> "NONE"]
  /\ text = [t \in Texts |-> "NONE"]
  /\ audio = [y \in Syntheses |-> "NONE"]
  /\ utterance = [s \in Streams |-> "NONE"]
  /\ commands = << >>
  /\ stream = [s \in Streams |-> "unopened"]
  /\ handling = [s \in Streams |-> "nothing"]
  /\ listening = [s \in Streams |-> "silence"]
  /\ frames = [s \in Streams |-> 0]
  /\ job = [y \in Syntheses |-> "unused"]
  /\ source = [y \in Syntheses |-> None]
  /\ calls = {}
  /\ reserved = {}
  /\ assets = {}
  /\ stopping = "no"
  /\ left = MaxDisturbances

-----------------------------------------------------------------------------
(* The authority of the session.                                           *)

\* What a change of authority makes of a delivery.
Invalidated(status) ==
  CASE status = "QUEUED" -> "CANCELLED"
    [] status = "DELIVERING" -> "POSSIBLY_EXPOSED"
    [] OTHER -> status

InvalidateOutput ==
  /\ generation' = [t \in Texts |-> IF generation[t] = "VALIDATED" THEN "SUPERSEDED" ELSE generation[t]]
  /\ text' = [t \in Texts |-> Invalidated(text[t])]
  /\ audio' = [y \in Syntheses |-> Invalidated(audio[y])]

\* What may be read aloud: a text of a validated generation that has begun to be delivered.
Speakable(t) == generation[t] = "VALIDATED" /\ text[t] \in {"DELIVERING", "EXPOSED"}

SpeechOf(t) == {y \in Syntheses : source[y] = t /\ audio[y] \notin {"NONE", "CANCELLED"}}

\* The answer to a turn is validated and queued.
Answer(t) ==
  /\ session = "ACTIVE" /\ stopping = "no"
  /\ text[t] = "NONE" /\ t = CHOOSE new \in Texts : text[new] = "NONE"
  /\ \A other \in Texts : generation[other] # "VALIDATED"
  /\ generation' = [generation EXCEPT ![t] = "VALIDATED"]
  /\ text' = [text EXCEPT ![t] = "QUEUED"]
  /\ UNCHANGED <<session, audio, utterance, commands, input, speech, assets, stopping>>

\* A typed turn is committed.
CommitInput ==
  /\ session = "ACTIVE" /\ stopping = "no"
  /\ InvalidateOutput
  /\ UNCHANGED <<session, utterance, commands, input, speech, assets, stopping>>

\* completeSession and archiveSession: refused while an input episode is active.
EndSession ==
  /\ session = "ACTIVE" /\ stopping = "no"
  /\ \A s \in Streams : utterance[s] # "FINALIZED"
  /\ session' = "ENDING"
  /\ InvalidateOutput
  /\ UNCHANGED <<utterance, commands, input, speech, assets, stopping>>

-----------------------------------------------------------------------------
(* Microphone streams.                                                     *)

IsCurrent(s) == stream[s] = "active"

Command(do, of) == [do |-> do, of |-> of]

\* A revoked stream is unbound at once; what it captured is discarded by the writer, and the
\* worker, which is told afterwards, hears nothing more of it.
Revoked(bound) == [s \in Streams |-> IF s \in bound THEN "closed" ELSE stream[s]]

\* Mutant: nobody discards what a revoked stream captured.
NoDiscards(bound) == << >>

Discards(bound) ==
  LET capturing == {s \in bound : utterance[s] = "CAPTURING"}
  IN  IF capturing = {} THEN << >> ELSE << Command("revoke", CHOOSE s \in capturing : TRUE) >>

Bound == {s \in Streams : IsCurrent(s)}

Revoke(bound) ==
  /\ stream' = Revoked(bound)
  /\ listening' = [s \in Streams |-> IF s \in bound THEN "closed" ELSE listening[s]]
  /\ frames' = [s \in Streams |-> IF s \in bound THEN 0 ELSE frames[s]]
  /\ commands' = commands \o Discards(bound)
  /\ UNCHANGED handling

AskStream(s) ==
  /\ s = CHOOSE fresh \in Streams : stream[fresh] = "unopened" \/ \A other \in Streams : stream[other] # "unopened"
  /\ stream[s] = "unopened" /\ stopping = "no"
  /\ stream' = [stream EXCEPT ![s] = "opening"]
  /\ UNCHANGED <<authority, commands, handling, listening, frames, speech, assets, stopping>>

\* After the recovery of the session was awaited.
OpenStream(s) ==
  /\ stream[s] = "opening"
  /\ stream' = [stream EXCEPT ![s] = IF session = "ACTIVE" /\ Bound = {} THEN "active" ELSE "closed"]
  /\ UNCHANGED <<authority, commands, handling, listening, frames, speech, assets, stopping>>

\* The browser sends one frame, or the flush, at a time, and nothing after a failure.
Submit(s, operation) ==
  /\ IsCurrent(s) /\ stopping = "no"
  /\ handling[s] = "nothing" /\ listening[s] # "closed"
  /\ handling' = [handling EXCEPT ![s] = operation]
  /\ UNCHANGED <<authority, commands, stream, listening, frames, speech, assets, stopping>>

SubmitFrame(s) == Submit(s, "frame")
Flush(s) == Submit(s, "flush")

\* The microphone is switched off, the connection of a request is lost, or an opening was
\* abandoned: cancelStream.
CancelStream(s) ==
  /\ IsCurrent(s)
  /\ Revoke({s})
  /\ UNCHANGED <<authority, speech, assets, stopping>>

\* The idle lease runs only while no operation is in flight.
ExpireIdleStream(s) ==
  /\ IsCurrent(s) /\ handling[s] = "nothing"
  /\ Revoke({s})
  /\ UNCHANGED <<authority, speech, assets, stopping>>

\* How the worker may end a stream: only confirmed speech is recognised.  Its waits for the voice
\* activity model ("failed") and for the recognizer ("error") have timers.
Decisions(s) ==
  {"discarded", "failed"}
    \cup IF listening[s] = "speech" THEN {"candidate", "empty", "error"} ELSE {}

\* What the worker makes of a frame or a flush.
Heard(s) ==
  CASE listening[s] = "closed" -> {"failed"}
    [] listening[s] # "closed" /\ handling[s] = "flush" -> Decisions(s)
    [] OTHER -> Decisions(s) \cup (IF listening[s] = "silence" THEN {"started"} ELSE {})
                             \cup (IF frames[s] < MaxFrames THEN {"quiet"} ELSE {})

Listen(s, event) ==
  /\ listening' = [listening EXCEPT ![s] =
                     CASE event = "started" -> "speech" [] event = "quiet" -> @ [] OTHER -> "closed"]
  /\ frames' = [frames EXCEPT ![s] = IF event = "quiet" THEN @ + 1 ELSE 0]

Finish(s) == handling' = [handling EXCEPT ![s] = "nothing"] /\ UNCHANGED <<stream, commands>>

Terminate(s) ==
  /\ stream' = [stream EXCEPT ![s] = "closed"]
  /\ handling' = [handling EXCEPT ![s] = "nothing"]
  /\ UNCHANGED commands

Await(s, do) ==
  /\ handling' = [handling EXCEPT ![s] = do]
  /\ commands' = Append(commands, Command(do, s))
  /\ UNCHANGED stream

ApplyEvent(s, event) ==
  CASE event = "started" -> IF session = "ACTIVE" THEN Await(s, "begin") ELSE Terminate(s)
    [] event = "candidate" -> IF utterance[s] = "NONE" THEN Finish(s) ELSE Await(s, "finalize")
    [] event \in {"empty", "error", "discarded"} ->
         IF utterance[s] = "CAPTURING" THEN Await(s, "discard") ELSE Terminate(s)
    [] OTHER -> Finish(s)

\* Late results of a stream that was revoked meanwhile are not applied.
WorkerAnswers(s) ==
  /\ handling[s] \in {"frame", "flush"}
  /\ \E event \in Heard(s) :
       /\ Listen(s, event)
       /\ IF IsCurrent(s) THEN ApplyEvent(s, event) ELSE Finish(s)
  /\ UNCHANGED <<authority, speech, assets, stopping>>

-----------------------------------------------------------------------------
(* Speech.                                                                 *)

InFlight(t) == \E y \in Syntheses : source[y] = t /\ job[y] \notin {"unused", "done"}

Unused == {y \in Syntheses : job[y] = "unused"}

\* A text was sent, for the first time or again, and its speech is scheduled.
DeliverySent(t) ==
  /\ text[t] \in {"QUEUED", "DELIVERING"} /\ stopping # "stopped"
  /\ text' = [text EXCEPT ![t] = "DELIVERING"]
  /\ IF stopping # "no" \/ InFlight(t)
       THEN UNCHANGED speech
       ELSE /\ Unused # {}
            /\ LET y == CHOOSE y \in Unused : TRUE
               IN  /\ job' = [job EXCEPT ![y] = "recovering"]
                   /\ source' = [source EXCEPT ![y] = t]
            /\ UNCHANGED <<calls, reserved>>
  /\ UNCHANGED <<session, generation, audio, utterance, commands, input, assets, stopping>>

WorkersShut == stopping \in {"draining", "stopped"}

\* Mutant: the speech a text already has is forgotten.
AdmittedAgain(y) ==
  Speakable(source[y]) /\ ~WorkersShut /\ Cardinality(reserved) < MaxConcurrentRequests

Admitted(y) ==
  /\ Speakable(source[y]) /\ SpeechOf(source[y]) = {}
  /\ ~WorkersShut /\ Cardinality(reserved) < MaxConcurrentRequests

\* After the recovery of the session was awaited: the request is made, or refused.
SynthesizeSentTextDelivery(y) ==
  /\ job[y] = "recovering"
  /\ IF Admitted(y)
       THEN /\ job' = [job EXCEPT ![y] = "working"]
            /\ calls' = calls \cup {y}
            /\ reserved' = reserved \cup {y}
       ELSE job' = [job EXCEPT ![y] = "done"] /\ UNCHANGED <<calls, reserved>>
  /\ UNCHANGED <<authority, commands, input, source, assets, stopping>>

\* Mutant: a request in the hands of the model is waited for.
NotCancelled == job

\* A cancelled request is over for its caller.  Its reservation lasts as long as its call.
Cancelled == [y \in Syntheses |-> IF job[y] = "working" THEN "done" ELSE job[y]]

CancelSyntheses == job' = Cancelled /\ UNCHANGED <<source, calls, reserved>>

Register(y) ==
  /\ assets' = assets \cup {y}
  /\ commands' = Append(commands, Command("audio", y))
  /\ job' = [job EXCEPT ![y] = "queueing"]

\* The model may answer late or never.
ModelSettles(y) ==
  /\ y \in calls
  /\ calls' = calls \ {y}
  /\ reserved' = reserved \ {y}
  /\ \/ /\ job[y] = "working"
        /\ Speakable(source[y]) /\ Cardinality(assets) < MaxAssets
        /\ Register(y)
     \/ job' = [job EXCEPT ![y] = "done"] /\ UNCHANGED <<assets, commands>>
  /\ UNCHANGED <<authority, input, source, stopping>>

\* publishDelivery: nobody is attached, or the speech is sent, if its bytes are there.
Published(y) ==
  {audio[y]} \cup CASE audio[y] = "QUEUED" -> {IF y \in assets THEN "DELIVERING" ELSE "CANCELLED"}
                    [] audio[y] = "DELIVERING" -> IF y \in assets THEN {} ELSE {"POSSIBLY_EXPOSED"}
                    [] OTHER -> {}

Publish(y) ==
  /\ \E status \in Published(y) : audio' = [audio EXCEPT ![y] = status]
  /\ UNCHANGED <<session, generation, text, utterance, commands, input, assets, stopping>>

PublishSpeech(y) ==
  /\ job[y] = "publishing"
  /\ job' = [job EXCEPT ![y] = "done"]
  /\ IF stopping = "no" THEN Publish(y) ELSE UNCHANGED <<authority, commands, input, assets, stopping>>
  /\ UNCHANGED <<source, calls, reserved>>

\* A renderer attaches and is sent what waits.
Attach(y) == stopping # "stopped" /\ Publish(y) /\ UNCHANGED speech

\* The browser takes the bytes of the speech it was sent; they are there once.
TakeAsset(y) ==
  /\ audio[y] = "DELIVERING" /\ y \in assets
  /\ assets' = assets \ {y}
  /\ UNCHANGED <<authority, commands, input, speech, stopping>>

\* What becomes of a delivery in the browser, or when its connection is lost.
Ends(deliveries, d, status) ==
  /\ stopping # "stopped"
  /\ deliveries[d] = "DELIVERING"
  /\ deliveries' = [deliveries EXCEPT ![d] = status]
  /\ UNCHANGED <<session, generation, utterance, commands, input, speech, assets, stopping>>

TextEnds(t, status) == Ends(text, t, status) /\ UNCHANGED audio
SpeechEnds(y, status) == Ends(audio, y, status) /\ UNCHANGED text

\* pruneUnauthorizedSessionAssets, with the deliveries as they now are.
Pruned == {y \in assets : audio'[y] \in {"QUEUED", "DELIVERING"}}

-----------------------------------------------------------------------------
(* The writer executes the next command, and its caller goes on.           *)

Next1(do, of) == commands # << >> /\ Head(commands) = Command(do, of)

Returned(s) == handling' = [handling EXCEPT ![s] = "nothing"]

\* beginUtterance.  The stream may have been revoked while the command waited: then nobody else
\* knows of the utterance, and the handler discards it itself.
BeginUtterance(s) ==
  /\ Next1("begin", s)
  /\ IF session # "ACTIVE"
       THEN Returned(s) /\ commands' = Tail(commands) /\ UNCHANGED <<authority, speech, assets>>
       ELSE /\ utterance' = [utterance EXCEPT ![s] = "CAPTURING"]
            /\ InvalidateOutput
            /\ UNCHANGED session
            /\ IF IsCurrent(s)
                 THEN /\ Returned(s) /\ commands' = Tail(commands)
                      /\ CancelSyntheses /\ assets' = Pruned
                 ELSE /\ handling' = [handling EXCEPT ![s] = "discard"]
                      /\ commands' = Append(Tail(commands), Command("discard", s))
                      /\ UNCHANGED <<speech, assets>>
  /\ UNCHANGED <<stream, listening, frames, stopping>>

Discarded(s) == [utterance EXCEPT ![s] = IF @ = "CAPTURING" THEN "DISCARDED" ELSE @]

\* discardUtterance, asked for by the handler of a stream, or by what revoked the stream.
DiscardUtterance(s) ==
  /\ \/ /\ Next1("discard", s)
        /\ Returned(s)
        /\ stream' = [stream EXCEPT ![s] = "closed"]
     \/ Next1("revoke", s) /\ UNCHANGED <<handling, stream>>
  /\ commands' = Tail(commands)
  /\ utterance' = Discarded(s)
  /\ UNCHANGED <<session, generation, text, audio, listening, frames, speech, assets, stopping>>

\* finalizeUtterance.  The episode is committed at once, whether or not the stream is still bound.
FinalizeUtterance(s) ==
  /\ Next1("finalize", s)
  /\ IF session = "ACTIVE" /\ utterance[s] = "CAPTURING"
       THEN /\ utterance' = [utterance EXCEPT ![s] = "FINALIZED"]
            /\ handling' = [handling EXCEPT ![s] = "commit"]
            /\ commands' = Append(Tail(commands), Command("commit", s))
       ELSE Returned(s) /\ commands' = Tail(commands) /\ UNCHANGED utterance
  /\ UNCHANGED <<session, generation, text, audio, stream, listening, frames, speech, assets, stopping>>

CommitInputEpisode(s) ==
  /\ Next1("commit", s)
  /\ Returned(s)
  /\ commands' = Tail(commands)
  /\ IF session = "ACTIVE" /\ utterance[s] = "FINALIZED"
       THEN /\ utterance' = [utterance EXCEPT ![s] = "COMMITTED"]
            /\ stream' = [stream EXCEPT ![s] = "closed"]
            /\ InvalidateOutput
       ELSE UNCHANGED <<utterance, stream, generation, text, audio>>
  /\ UNCHANGED <<session, listening, frames, speech, assets, stopping>>

\* queueAudioDeliveryFromValidatedText.  Bytes nobody will send are given back.
QueueAudioDelivery(y) ==
  /\ Next1("audio", y)
  /\ commands' = Tail(commands)
  /\ IF session = "ACTIVE" /\ Speakable(source[y])
       THEN /\ audio' = [audio EXCEPT ![y] = "QUEUED"]
            /\ job' = [job EXCEPT ![y] = "publishing"]
            /\ UNCHANGED assets
       ELSE /\ assets' = assets \ {y}
            /\ job' = [job EXCEPT ![y] = "done"]
            /\ UNCHANGED audio
  /\ UNCHANGED <<session, generation, text, utterance, input, source, calls, reserved, stopping>>

ExecuteNext ==
  \/ \E s \in Streams : \/ BeginUtterance(s) \/ DiscardUtterance(s)
                        \/ FinalizeUtterance(s) \/ CommitInputEpisode(s)
  \/ \E y \in Syntheses : QueueAudioDelivery(y)

-----------------------------------------------------------------------------
(* The end of the session, and the shutdown.                               *)

HandleSessionTerminal ==
  /\ session = "ENDING"
  /\ session' = "ENDED"
  /\ UNCHANGED <<generation, text, audio, utterance>>
  /\ assets' = Pruned
  /\ Revoke(Bound)
  /\ CancelSyntheses
  /\ UNCHANGED stopping

\* Admission ends, and the streams are revoked.
ShutDown ==
  /\ stopping = "no" /\ session # "ENDING"
  /\ stopping' = "input"
  /\ Revoke(Bound)
  /\ UNCHANGED <<authority, speech, assets>>

\* What was captured is discarded; the workers are shut down.
ShutDownWorkers ==
  /\ stopping = "input"
  /\ \A i \in DOMAIN commands : commands[i].do # "revoke"
  /\ stopping' = "draining"
  /\ CancelSyntheses
  /\ UNCHANGED <<authority, commands, input, assets>>

\* The requests of the browser, the syntheses and the writer are waited for.
FinishStop ==
  /\ stopping = "draining"
  /\ \A s \in Streams : handling[s] = "nothing" /\ stream[s] # "opening"
  /\ \A y \in Syntheses : job[y] \in {"unused", "done"}
  /\ commands = << >>
  /\ stopping' = "stopped"
  /\ assets' = {}
  /\ UNCHANGED <<authority, commands, input, speech>>

Continue ==
  /\ \/ ExecuteNext
     \/ \E s \in Streams : OpenStream(s) \/ WorkerAnswers(s) \/ ExpireIdleStream(s)
     \/ \E y \in Syntheses : SynthesizeSentTextDelivery(y) \/ PublishSpeech(y)
     \/ HandleSessionTerminal \/ ShutDownWorkers \/ FinishStop
  /\ UNCHANGED left

\* What the browser, the orchestrator and the model do.
Proceed ==
  /\ \/ \E s \in Streams : AskStream(s) \/ SubmitFrame(s) \/ Flush(s)
     \/ \E t \in Texts : Answer(t) \/ DeliverySent(t) \/ TextEnds(t, "EXPOSED")
     \/ \E y \in Syntheses : ModelSettles(y) \/ TakeAsset(y) \/ SpeechEnds(y, "EXPOSED")
  /\ UNCHANGED left

\* What need not happen to them.
Disturb ==
  /\ left > 0
  /\ left' = left - 1
  /\ \/ \E s \in Streams : CancelStream(s)
     \/ \E status \in {"CANCELLED", "POSSIBLY_EXPOSED"} :
          \/ \E t \in Texts : TextEnds(t, status)
          \/ \E y \in Syntheses : SpeechEnds(y, status)
     \/ \E y \in Syntheses : Attach(y)
     \/ CommitInput \/ EndSession \/ ShutDown

VoiceNext == Continue \/ Proceed \/ Disturb

VoiceSpec == VoiceInit /\ [][VoiceNext]_voiceVars
FairVoiceSpec == VoiceSpec /\ WF_voiceVars(Continue)

-----------------------------------------------------------------------------
(* Properties.                                                             *)

\* A text is read aloud once however often it is sent, speech that waits to be sent has its
\* bytes in the store whatever was pruned, taken or evicted meanwhile, and speech is only
\* waiting or being heard while the answer it reads is the answer of the session.
\* (synthesizeSentTextDelivery against a text that is sent again, superseded or cancelled
\* while its speech is synthesised and queued.)
SpeechIsBacked ==
  /\ \A t \in Texts : Cardinality(SpeechOf(t)) <= 1
  /\ \A y \in Syntheses :
       /\ audio[y] = "QUEUED" /\ stopping # "stopped" => y \in assets
       /\ audio[y] \in {"QUEUED", "DELIVERING"} =>
            /\ generation[source[y]] = "VALIDATED"
            /\ text[source[y]] \notin {"NONE", "QUEUED"}

\* Whatever becomes of its stream, the browser, the worker or the session, an utterance that
\* began is discarded or committed: none holds the floor for ever.
\* (applyEvents against cancelStream, the idle lease, the end of the session and the shutdown.)
UtteranceIsDecided ==
  \A s \in Streams : utterance[s] \in {"CAPTURING", "FINALIZED"}
                     ~> utterance[s] \in {"DISCARDED", "COMMITTED"}

\* A shutdown that began ends, also when the model, the browser and the renderer never answer.
\* (LocalInterviewTransportRuntime.stopFully.)
VoiceStops == stopping # "no" ~> stopping = "stopped"
=============================================================================
