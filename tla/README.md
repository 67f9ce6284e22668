# Verification of the interview runtime

This directory holds TLA+ modules that model the core of the interview application (a local server, a browser client
and the packages they are built from), TLC configurations that check them on small instances, and proofs that TLAPS
checks for every value of the constants. `PROJECT.json` is the index: components, runs, the source lines behind each
definition, hazards and theorems.

To check a run: `tlc -config MCSessionRegistry.cfg MCSessionRegistry`. To check proofs: `tlapm ServerProofs.tla`.

## 1. The system

A candidate talks, types and draws in a browser. Every input becomes a **command** for one **session**. The server runs
the commands of a session one after the other, appends the events a command yields to an SQLite event store in one
transaction, and keeps the fold of these events as the session's state. A committed input (a **turn**) starts a
**generation**: a model provider proposes an answer, the answer is validated and becomes a **delivery atom**, and the atom
is pushed to the candidate's renderer, which acknowledges what was seen. What may have been seen (the **disclosure
ledger**) limits the hints that follow.

```
 browser                    server                                     packages
 command client  --POST-->  loopback command server --> recovery --->  SessionRuntimeRegistry --> SessionWriter --> SQLite
 renderer client <--SSE---  renderer stream server  <--- publish ---   TurnCoordinator / DeliveryCoordinator / reducer
        \---- acknowledgements (commands) ---/              ^
                            turn orchestrator --> ProviderCoordinator --> provider adapter (CLI or API)
 board sync     --POST-->   board mutations, pictures --> vision coordinator --> vision backend (a managed worker)
                            reasoning analysis --> interpreter, verifier --> student evidence
                            voice runtime --> speech worker, speech synthesiser --> utterances, speech of sent texts
                            local runtime manager --> worker processes      model assets --> cache on disk
```

### Components

| component | state it keeps | operations | talks to | what is hard | correct when |
|---|---|---|---|---|---|
| Session commands and reducer (`turn-coordinator.ts`, `delivery-coordinator.ts`, `policy-output-invalidation.ts`, `events/reducer.ts`) | episodes, turns, revisions, generations, atoms, ledger | about 30 commands | run by the writer | long legal sequences: every command that changes authority must also withdraw what was prepared under the old one | the ledger is what was disclosed; pending output is validated; one live generation, the current one |
| Session writer and event store (`session-writer.ts`, `sqlite-event-store.ts`) | event stream, outcomes of requests, queue, memory | execute, open, close, getStateAfterRequest | SQLite, registry | retries, crashes between steps, a second process on the file | effects happen exactly once; answers are durable; a stale writer stores nothing |
| Session runtime registry (`session-writer.ts`) | one entry per session, memoised promises | get, getAsync, close, closeAll | writers | interleaved openings and closings | one writer per session, none leaks, closing drains |
| Renderer delivery stream (`renderer-stream-server.ts`, `renderer-client.ts`) | connections, what each was sent, one publication queue; the client's cache of deliveries | attach, publish, drain, disconnect, stop; present, acknowledge, retry | writer, command server | sockets that close during awaits, lost acknowledgements, shutdown, crash | nothing is shown twice; what was shown is accounted for; what is on its way is always settled |
| Turn orchestration and recovery (`turn-orchestrator.ts`, `session-recovery-coordinator.ts`, `local-interview-transport-runtime.ts`) | orchestrations in flight, executions, recoveries | orchestrate, cancel, recover, stop, resume | command server, provider, writer | cancellation at every await, a crash at every await, retries of a commit | a turn is answered once or left on purpose; cancelled work ends |
| Provider execution (`provider-coordinator.ts`) | executions, cancellations | start, run, consume, fail, cancel | context compiler, adapter, writer | the provider may never answer; cancellation races admission | each exit leaves the generation settled |
| Loopback command server (`loopback-command-server.ts`) | requests in progress | command, acknowledge, read, stop | all of the above | answers lost after effects | replays are answered from the stored outcome |
| Verification and evidence (`verification-coordinator.ts`) | pending verifications, evidence history | request, admit, discard | verifiers, writer | a verifier is awaited between snapshot and admission | a result is admitted only against what it was computed from |
| Student reasoning analysis (`student-reasoning-analysis-coordinator.ts`, `interpretation-coordinator.ts`) | records of analyses, one execution each | analyze, resume, shut down | provider, verifier, writer | the time limit races the result, corrections race everything | evidence rests on the transcript in force; a time limit is final; an analysis ends decided |
| Context compilation, disclosure validation | none (hashing awaits) | compile, validate | orchestration | staleness across an await | the stored context is the compiled one |
| Policy and evaluation | none | select, evaluate | orchestration | large decision tables | (pure) |
| Whiteboard authority (`authoritative-board-sync.ts`, `useInterviewSession.ts`) | board revision; browser queue of mutations, lifecycle epoch | synchronize, submit, drain, retry | command server | requests lost or served late, epochs overlap | a canvas bound to a revision is the board of that revision; every mutation ends |
| Vision (`whiteboard-vision-coordinator.ts`, `vision-request-manager.ts`, `vision-admission.ts`) | requests, reservations, tombstones, evidence | upload, request, admit, bridge, recover | worker, interpreter, writer | the board moves while the backend looks; stops between the commands | evidence in force shows the board; one observation counts once; backends are bounded |
| Voice input and synthesis (`voice-runtime.ts`, `voice-transport-server.ts`, `tts-request-manager.ts`, `speech-worker.ts`) | streams, what the worker has heard, syntheses, reservations, bytes of speech | open, frame, flush, cancel, expire; synthesise, cancel, take; end of the session, shutdown | workers, writer, renderer stream | a stream is revoked while a command of its waits; a text is superseded while it is read; a model that never answers | an utterance is decided; a text is read once and its bytes are there; model calls are bounded; the shutdown ends |
| Browser audio | capture and playback states | start, stop, play | Web Audio | callbacks after stop | playback is reported as it was |
| Browser session client | view of a session | submit, retry, reattach | servers | retries | one RequestId per logical command |
| Local worker supervision (`local-runtime/manager.ts`) | one record for each component, its process and what it left | start, stop, restart, stopAll, exits | operating system | stop races start, retry, automatic restart and cleanup | no orphan, no double start, what is on record is true |
| Worker process runner (`local-runtime/supervised-process.ts`) | executions under way, pinned identity, quarantine | execute, cancel, deadline, drain | operating system | the executable is replaced, the root exits or is removed at each await; processes that do not die | an outcome says what happened to the child; input goes to the pinned program; nothing starts after a stop |
| Model assets (`model-assets/manager.ts`) | cache, staging, reservations, gates | install, import, remove, clean | disk, network | joined requests, shared limits, crash between steps | limits hold for all, accounting is exact, nothing in use is swept away |
| Provider control plane | selection, readiness | select, probe | adapters | stale readiness | the used provider was admitted |
| Quant sessions (`order-book.ts`, `portfolio-tracker.ts`, `quant-trader-interview.ts`, `quant-trading-coordinator.ts`, `useInterviewSession.ts`) | the book, the portfolio, the stored actions and rounds, what a tab shows | order, quote, cancel; submit an action, play a round, read the state | writer, reducer, command server | accounts over many rounds, two accounts of one round that have to agree, tabs that act on what is stale | the engine and the reducer agree, the limits hold, what is stored can be played again |
| Replay and history, verifiers, catalogue, diagnostics, desktop shell, pages, Python workers, scripts | none or read-only | – | – | – | – |

`PROJECT.json` has a note for each component on what is modelled or why it is not.

## 2. Modules

| module | models | role |
|---|---|---|
| `ExposureLedger` | what deliveries promise | abstract specification |
| `InterviewSession` | the session's state and commands | implements `ExposureLedger` |
| `SessionProofs` | | eleven theorems: eight of `InterviewSession`, three of `BoardSync` |
| `SessionRegistry` | get, getAsync, close, closeAll | |
| `ExactlyOnce` | what the command path promises | abstract specification |
| `SessionWriter` | execute over the event store | implements `ExactlyOnce` |
| `SessionWriterProofs` | | four theorems |
| `RendererStream` | the stream server, the ledger beneath it and the browser's client | composition of three parts |
| `RendererStreamProofs` | | six theorems |
| `TurnOrchestration` | orchestrator, provider execution, recovery, shutdown | composition of four parts |
| `LocalRuntimeManager` | one managed worker process: start, retries, stop, cleanup, restart, stopAll | |
| `LocalRuntimeProofs` | | seven theorems: three on the manager, four on `ModelAssets` |
| `SupervisedProcess` | one bounded child process for each request: identity, isolation, spawn, input, termination, drain | |
| `ExecutionProofs` | | twelve theorems: five on `TurnOrchestration`, seven on `SupervisedProcess` |
| `BoardSync` | the canvas's coordinator, its life in the hook, the network and the server's board | composition of three parts |
| `ModelAssets` | several managers of one cache on disk | |
| `VisionEvidence` | upload, request manager, admission, the bridge to evidence, recovery | composition of four parts |
| `ServerProofs` | | ten theorems: five on `SessionRegistry`, five on `VisionEvidence` |
| `ReasoningAnalysis` | analyze, interpretation, verification, evidence | composition of three parts |
| `SpeechProofs` | | five theorems: three on `ReasoningAnalysis`, two on `VoiceRuntime` |
| `VoiceRuntime` | microphone streams, speech synthesis, the bytes of speech, their shutdown | composition of three parts |
| `OrderBook` | the operations of the order book the game uses, as operators | used by the next |
| `QuantTrading` | the trading game, its coordinator and reducer, tabs that play it | composition of four parts |
| `QuantTradingProofs` | | three theorems |
| `MC…` | constants for TLC | |

The modules meet at named boundaries. `SessionWriter` shows that a command takes effect once and indivisibly; that is why a
command is one action in `InterviewSession`, `RendererStream` and `TurnOrchestration`. `InterviewSession` shows what a
command leaves behind (`Withdraw` in `TurnOrchestration` and `Invalidate` in `RendererStream` are its `Invalidate`, seen
from outside). `SessionRegistry` shows that there is one writer per session, which `RendererStream` uses when it has one
queue of commands. It is also why the durable commands of
`VisionEvidence`, `ReasoningAnalysis` and of the server in `BoardSync` are one action each, and why a command sent again under
its RequestId answers what is stored. What a board change withdraws is `Invalidate` in `InterviewSession`; which evidence it
withdraws is in `VisionEvidence`; how it reaches the server is `BoardSync`. `VoiceRuntime` puts commands of the writer in a
queue, since what happens while one waits is its subject; what a publication goes through is left to `RendererStream`.

### InterviewSession

One action per command. The reducer's fold and the handler are one step, because the writer runs a handler and applies
its events without suspending. Correspondence of the variables: `session` is the status, `episode`, `hasInput`,
`utterance`, `lastTurn` are the maps of input episodes and utterances, `transcriptRevision`, `contextEpoch`,
`boardRevision` the revisions of the state, `generation`, `basis`, `generationAction` the generations with the basis they
were started from, `delivery`, `source`, `medium`, `reveals` the delivery atoms, `ledger` the disclosure ledger.

Decisions of the abstraction:
- A turn is created together with the commit of its episode, so an episode stands for its turn; an input sequence number,
  only compared for equality, stands for the episode committed last.
- Revisions of policy and problem state are part of a basis in the types, but no command emits an event that moves them,
  so they are left out.
- Whether a stale proposal is recorded as rejected is a choice (`RejectStaleProposal`): it depends on the proposal's text.
- `ChangeEvidence` is possible in every status after the start, as in the code.
- `FinalizeUtterance` moves the transcript and withdraws nothing. This is what the code does; the property
  `LiveGenerationIsTheCurrentOne` therefore does not speak of the transcript.
- A formal interpretation leaves its generation `PROPOSAL_RECEIVED`, from which only supersession takes it.

### SessionRegistry

A step is the code between two suspension points. `entry` is the map, a member of `Writers` is one attempt to open a writer
(the opening promise, its token, the writer and its closing promise), `closeAllPromise` the memoised promise of
`closeAll`, `round` what its `Promise.allSettled` waits for, `call` the progress of each caller, `queued`, `sequence` and `log`
what a writer has admitted, has in memory and the store has.

### SessionWriter

`execute` in its three steps: look the request up and run the handler (`Run`, from `IDLE`), append events and outcome in one
transaction (from `HANDLED`), apply and answer (from `COMMITTED` or `FOUND`). `Crash` may come between any two; a second
writer stands for another process on the same file. A fingerprint is a member of `Prints`; using a request again with
another fingerprint is the clash the code answers with a conflict. SQLite is external: a transaction is atomic, durable
and serialised.

### RendererStream

Three parts composed: the server (attach requests, one publication queue, disconnect classification, stop and start), the
ledger and the commands of the writer it awaits, and one renderer client for each connection. An await of the code is a
boundary between steps. `sent` is `sentDeliveryIds`, `hears` the registered close listeners, `pub` where the running
publication stands, `classify` the connections whose uncertainty is being settled, `entry` the client's cache, `mail` the
acknowledgements on their way.

Decisions of the abstraction: the client learns that an acknowledgement was accepted in the step that handles it, or the
answer is lost; a client may be given the next message while an acknowledgement is open; `sent` is emptied once its
connection is classified (the code drops the connection object); heartbeats, framing and authentication are left out, and
the size limit is the set `Oversized`.

### TurnOrchestration

`work` is where the orchestration of each turn stands, with one step for each await; `genOf`, `cancelled` and `cancels` are
the executions and the cancellations that nobody awaits; `recovery` and `requests` are the recovery that commands wait for;
`phase` is the runtime's (`CLOSING`: the command server no longer accepts; `STOPPING`: cancellation was requested).

Decisions of the abstraction: a commit and the start of its orchestration are one step, because the continuations of two
commits run in the order of the commits; no command runs on a session before its recovery has ended; publishing is one
awaited step with three outcomes (`RendererStream` models it), and `SHOWN` means on its way or beyond; what the
policy selects, what the compilers and validators decide and what the provider does are choices.
`retryPendingTurnRecovery`, which only tests call, is left out.

### LocalRuntimeManager

One component of the manager. Four operations may be under way at once, each a promise of its own: `start` is the start sequence
with the process it waits for, its attempts and its backoff (`startPromise`, `operationAbort`), `stop` the stop, `cleanup` the
cleanup after an unexpected exit, `stopAll` the end of the manager. They meet in the record (`state`, `child`, `residual`,
`unverified`, `expectedStop`, `budget`). The operating system is `root` and `tree`: for each process group whether its
root and any member is alive.

Decisions of the abstraction: the root exits, its pipes close and the last member of its group goes in separate steps, at any
time and whatever signal was sent; continuations of settled promises run before the next timer or process event
(`Pending`), a caller may call in between; the platform is POSIX; a health check is one outcome; ownership records, log
streams and the Windows job supervisor are left out.

### SupervisedProcess

One record for each call of `execute`: the stage its promise chain is in, the controller (`aborted`, `why`), the termination that
an event may have started beside it (`cleanup`), and its child (`root`, `descendants`, the `image` it was spawned from). `pinned`
and `hash` are the identity of the executable and the hash that executions share on Windows; `compromised` is the quarantine,
`drain` the drain under way. `Platform` is a constant: on Windows the root is the bootstrap whose job ends with it.

Decisions of the abstraction: one executable; its identity is a version; output counts by whether it exceeds its budget; a
termination ends with a verdict that is true on POSIX and may be pessimistic on Windows. Left out: the compilation of the Windows
bootstrap (`Launch` has its outcomes), an `onProcessStart` that throws, the decoding of stdout.

### BoardSync

`canvas` and `deleted` are the editor, `board`, `history` and `processed` the server, `net` the requests it has not yet served.
`status`, `authority`, `pending`, `recent` and `epoch` are fields of the coordinator, `call` its drain, `sync` the calls of
`synchronize` in their steps, `phase` and `bootstrap` the hook that calls them.

Nothing keeps edits and a `synchronize` apart: the editor may be mounted again whatever is queued, on its way or being compared
(`MountEditor`; `synchronizeWhiteboard` of the hook waits for nothing), and the canvas takes edits meanwhile (`Edit`; `App.tsx`
makes it read-only for neither SYNCED nor PENDING). What this may do to the coordinator is kept in two places. `entry` says of
each promise how it ended: acknowledged, resolved by a `synchronize` that found the board as the canvas was (`MATCHED`),
rejected, or `FORGOTTEN`, when the answer to a mutation that a `synchronize` had resolved takes another off the queue
(`Overtaken`, `Shifted`). `astray` is an auxiliary variable that no step reads: what the coordinator says of the canvas was decided past an
edit, by an overtaken answer, or past a deletion taken for a repetition. The next `synchronize` that nobody edits under clears it.

Decisions of the abstraction: a request may be lost, be served long after its caller gave up, or be served without its answer
arriving; the content of a shape is its revision, and a change of content is a new one, except for an undone
deletion; a fingerprint is the set of operations. A shape that comes back equals what it was (in the code its `lastModifiedAt`
may differ, so the model matches in more cases than the code), and an editor that is mounted again keeps its canvas.

### ModelAssets

`artifacts`, `tombstones`, `debris` and `staging` are the disk. `reservations`, `reservedBytes`, `active`, `limits` and the two
`gate`s are shared by the managers of one cache; `inFlight` and `op` are the map of a manager that joins requests, and the
installation of each entry; `request` is each call of a client, `task` a removal, cleanup or clearing.

Decisions of the abstraction: bytes are units, and a sum over a set is the number of units in it (`Total`), which the provers can
reason about where they cannot about a fold; a scan of the cache is one step and the removal of one entry is one step; a
removal may fail and leave a tombstone; each await of an installation may fail; a crash keeps the disk only. Paths, links
and permissions are left out, and the transfer is a step with outcomes.

### VisionEvidence

`board`, `open`, `req`, `accepted`, `processed` and `history` are durable: the board with each shape's revision and whether it
is in the region, the requests with the revision their result was admitted at and how far their bridge is, and the
evidence. `pc` is where `processRequest` of an upload stands, `slots` and `running` are the reservations of the request
manager and the backends that have not settled, `memory` its tombstones, `recovery` and `pending` the recovery.

Decisions of the abstraction: a picture is the set of shapes of the region with their revisions, which is what freshness
compares; all uploads are about one region and one key, so that they contend; an upload may be repeated by the client with
the same id; the backend answers late, wrongly or never. The uploads of other sessions are a number between none and the limit on
those in flight (`MAX_COORDINATOR_IN_FLIGHT_REQUESTS`, `MaxUploads`), chosen anew at each `Upload`. At the limit `process` refuses before
it looks at anything and remembers nothing, so a client that was told ACCEPTED may be told REJECTED with `RESOURCE_LIMIT`, and one
told that may be told ACCEPTED later: `told` records it as `TURNED_AWAY`, apart from the answers. Other refusals that are not remembered (a
clashing id, an unreadable picture, another interpreter) depend on the content of an upload only and are left out.

### ReasoningAnalysis

`turn`, `epoch`, `open`, `verif` and `history` are durable. `call` is each caller of `analyze`, `run` where the execution of a
record stands, `cancelled` the records whose cancellation was requested, `orphans` the discards that an abandoned analysis
has sent and nobody awaits, `running` the provider invocations that have not settled. An analysis is named by its turn
and epoch, which is what the digest of the code tells apart.

Decisions of the abstraction: the text and its candidates are left out but for whether the verifier confirms the candidate
(`confirms`), drawn once, and whether the supplied and the recomputed result agree (`sound`); all analyses are about the same
claim, so that the evidence of one supersedes that of the other.

### VoiceRuntime

`session`, `generation`, `text`, `audio` and `utterance` are the state the writer keeps, `commands` its queue. `stream` is the
binding of each microphone stream, `handling` what the request in flight on it waits for, `listening` and `frames` the
worker's view of it. `job` is each call of `synthesizeSentTextDelivery`, `calls` and `reserved` the calls of the model and the
reservations of the request manager, `assets` the store of bytes, `stopping` the shutdown.

Decisions of the abstraction: a command and what its caller does up to the next await are one step (the promise is settled in
the turn of the event loop that ran it), a request that is revoked meanwhile is noticed there; a worker answers with the
one event of its batch that matters; a synthesis is one call of the model; publishing is one step with outcomes; the browser
sends a frame at a time and nothing after a failure (`useInterviewVoice.ts:201-296`).

### OrderBook

A book is a record: the two queues, the quotes each maker has on it, and a counter, which is the clock and the source of ids. Each
operation of the class is synchronous and undone as a whole when it throws (`withRollback`), so it is an operator and not an
action. `placeLimitOrder`, `cancelOrder` and `clear`, which the class offers and its tests use, are left out: the game uses
quotes and market orders.

### QuantTrading

`definition` is what the seed decides (who trades in each round, how the fair value moves) and the limits of the family;
`history`, `result` and `status` are what the events of the session fold to. As in the code the server keeps no engine:
`Engine` plays the stored actions from the start, and a command (`Serve`) plays one more and stores what came of it,
together with the end of the session when it is the end of the game. `tab` is what each tab shows, its reads under way
(`current` stands for the epoch that is still the latest), and its action.

Decisions of the abstraction: the random numbers are the choice of `definition`; prices are whole ticks and money is counted in
parts of a tick (`Unit`) in which every average cost is exact, so that the arithmetic of the model has no rounding; the noise
maker quotes at its widest; scores and statistics are left out. A fair value that moves ends the game only in a definition that
has both moves and the stop: the engine supports it, none of the families in production combines them.
The hook alone would let a read be started while an action is under way; the page does not.

## 3. Runs

| run | instance | states | shows |
|---|---|---|---|
| `session` | 2 turns, 2 generations, 2 atoms, 1 disclosure | 917,793 | the validity of output, supersession, and the refinement of `ExposureLedger` |
| `registry` | 2 sessions, 4 attempts to open, 3 calls | 487,704 | writers are current, closing drains, every call returns |
| `writer` | 2 processes, 2 requests, 3 attempts, 2 fingerprints | 885,211 | exactly-once effects across crashes, retries and a second process |
| `renderer` | 1 delivery (speech), 2 connections, 1 retry, 2 disturbances | 862,047 | delivery is accounted for and shown once under disconnects, crash, shutdown; what is awaited ends, uncertainty is resolved |
| `turns` | 2 turns, 3 generations, a change, and a resend, a crash or a stop | 927,582 | one answer per turn, none stranded, no orphaned generation, cancelled work ends |
| `local_runtime` | 2 callers, 2 retries, 2 stops, 1 stopAll | 148,610 | the record is true, a stop leaves nothing and is respected, calls end |
| `board` | 2 shapes, 2 edits, 1 foreign change, 1 visit | 353,728 | what is bound is the board, promises are true, order is kept, mutations end, over overlapping edits, drains and synchronizes |
| `assets` | 2 managers, 2 artifacts, 2 requests, 1 task, 1 crash | 277,296 | limits, accounting, ownership and termination |
| `vision` | 2 uploads, 2 shapes, 1 reservation, 1 answer remembered, room for 2 in flight, 1 stop | 697,833 | freshness, single counting, answers that stand, uploads end |
| `voice` | 1 stream, 2 texts, 2 syntheses, 1 reservation, 1 place for bytes, 3 disturbances | 638,892 | speech is backed, utterances are decided, the shutdown ends |
| `quant` | 3 rounds; 1 tab, 3 quotes, 112 scenarios, or 2 tabs, 2 loads, 2 disturbances, 1 scenario | 125,553 | engine and reducer agree, limits hold, what is stored can be played again, tabs do not go back |
| `reasoning` | 2 calls, 1 in flight, 2 turns, 2 epochs, 1 stop | 327,520 | evidence follows the transcript, decisions, time limits, calls end |

### The properties

- `PendingOutputIsValidated`: queued output and output on its way comes from a validated generation.
  `LiveGenerationIsTheCurrentOne`: one live generation at most, started from the latest turn, board and epoch.
  `ImplementsExposureLedger`: disclosure is counted exactly, and never taken back.
- `LiveWriterIsCurrent`: what a live writer has in memory is the stored stream. `CloseDrains`: a close returns after the
  commands it found. `EveryCallReturns`.
- `ImplementsExactlyOnce`: a request has its effects once, as one group, and is answered with what is stored.
- `ShownIsAccountedFor`: what was shown is in the ledger, or its fate is still to be settled. `ShownOnce`: no delivery is shown
  by two connections. `AwaitsAreLookedBehind`: what was true before an await is looked at again before bytes are written or
  a place is taken. `EverythingAwaitedEnds`, `UncertaintyIsResolved`.
- `NoTurnIsAnsweredTwice`, `NoTurnIsStranded`, `ActiveGenerationIsExecuted`, `CancelledWorkEnds`.
- `RecordIsTrue`: at most one process group is alive and the manager has it on record; what it calls ready runs;
  a component that is stopped has no living process. `NoSpawnOnceStopped`: nothing is spawned
  against a stop. `EveryCallEnds`.
- `BoundCanvasIsAuthority`: the canvas the coordinator binds to a revision is what the board was at it, unless it is `astray`.
  `PromisesAreKept`: a mutation that was acknowledged was committed, a promise is open exactly while its mutation is in the
  queue, none is forgotten unless a `synchronize` resolved another, and the board takes the edits in the order they were
  made. `EveryMutationEnds`.
- `NothingIsSweptAway`: cleaning never takes what an installation uses. `AccountingIsExact`: what is on disk and reserved
  stays within the strictest limit in force, and reservations, their sum, counts and limits agree with the installations
  under way. `OnlyOwnCancellation`: a request is cancelled only by its own signal. `EveryRequestEnds`.
- `EvidenceInForceIsFresh`: evidence drawn from a picture and in force shows the board as it is. `EvidenceIsCountedOnce`: one
  observation is in the history once. `TheAnswerStands`: what a client was told about an upload is never contradicted, except
  by the coordinator's limit on uploads in flight, and who was told ACCEPTED finds it in the record.
  `EveryUploadEnds`.
- `EvidenceOutlivesNoCorrection`: no evidence in force rests on a corrected transcript. `SettledIsDecided`: a settled analysis left
  no pending request. `TimeLimitIsFinal`: after a caller was told of the time limit nothing of its request is admitted.
  `EveryCallEnds`.
- `SpeechIsBacked`: a text is read aloud once, speech that waits has its bytes, and speech is on its way only while the answer it
  reads is in force and has begun to be delivered. `UtteranceIsDecided`: an utterance that began is discarded or committed.
  `VoiceStops`: a shutdown ends.
- `ValidActionsPlay`: the reducer takes whatever the engine makes of a valid action, and no flow of orders carries the position
  beyond a hard limit.
- `HistoryCanBeReplayed`: the stored rounds are what playing them gives, the result is there exactly when the game is over, and so
  is the end of the session. `ShownNeverGoesBack`: no late answer brings an older round back to a tab.

Every property of a run has a mutant in its module (a comment says what the plausible mistake is): with it in the place of the
code's definition TLC finds the property violated under the same configuration.

### SupervisedProcess, beside the runs

`SupervisedProcess` has no run among those of `PROJECT.json`; these configurations are kept for it, and TLC finishes them without an
error; the safety properties are proved besides (section 4). Two executions meet in the quarantine, the shared hash and the drain, which waits for those it found. One replacement
of the executable falls between any two of the three inspections and the spawn.

| configuration | instance | states | properties |
|---|---|---|---|
| `MCSupervisedProcess.cfg` | POSIX, room for one of 2 executions, 1 replacement, 1 drain | 177,071 | `ExecutionsSettle` |
| the same with `MaxActive = 2` | 2 at once | 1,076,351 | `OutcomeIsProven`, `InputOnlyToPinned`, `DirectoriesAreRemoved`, `NoStartAfterStop` |
| the same with `MaxActive = 2`, `Platform = "win32"` | Windows, 2 at once | 281,547 | `TreesAreContained`, `DrainMeansQuiet` |

- `OutcomeIsProven`: an execution that reports an end, a deadline, a cancellation or too much output has left no process.
  `TreesAreContained`: one that is over has left none, or the runner is closed. `InputOnlyToPinned`: what is replaced on disk is not
  given the request. `DirectoriesAreRemoved`. `NoStartAfterStop`: nothing is spawned during a drain or after a quarantine by
  what was on its way. `DrainMeansQuiet`. `ExecutionsSettle`.

### Bounds, and why they are enough

- `session`: supersession needs an older and a newer turn and two generations; speech needs its text (two atoms). One
  disclosure is enough, because the ledger treats disclosures one by one. `MaxTranscript` and `MaxBoard` bound counters that are
  compared only for equality with the value a generation was started from; the proofs hold for every bound.
- `registry`: two calls race for one session and a third closes; a second session is what `closeAll` waits for besides. Four
  attempts to open are more than three calls can need to collide. A call is made once.
- `writer`: one request in two processes and its retry, and a second request that clashes or moves the stream in between.
- `renderer`: the connection that is lost and the one that takes its place. There is one delivery: two would meet only in the
  queue, which is first come first served, and in the client's cache. What the cache forgets when it is full is therefore in
  the model and not in a run. `MaxDisturbances` bounds what nobody has to do: a lost connection, a crash, a stop, a failed
  presentation, a change of authority. Two of them meet in every order (a lost connection and then a crash, a crash and then
  a stop); `MCRendererStreamFaults.cfg`, beside the runs, lets four meet without retries and checks the safety properties
  (3,354,803 states).
- `turns`: supersession needs two turns. `MaxChanges`, `MaxResends`, `MaxCrashes` and `MaxStops` are one each. The constraint
  `OneOther` of the MC module lets a change meet one of the others: it is there to keep a liveness check on the instance possible.
  A used-up bound on generations blocks `StartGeneration`; three are enough for what two turns and the admitted disturbances start.
- `local_runtime`: a start, a second call that joins or restarts, a stop and one that joins it. Two retries reach the retry after
  a retry and an exhausted budget.
- `board`: one shape is there before the session and one is drawn; two edits fill a queue of two. The constraint `AnotherWindow`
  of the MC module lets the other window and the student change the first shape, or the student alone change both. One foreign change makes every
  revision the coordinator knows stale once, and one visit starts a second epoch: over an empty queue, over a queue at work, in the
  comparison of the first, or after a pause.
- `assets`: the two artifacts just fill the cache, so any byte promised twice or not given back shows. Two requests join, or race in
  two managers, and one task cleans beside them. One artifact was left damaged by an earlier run.
- `vision`: the second upload competes for the only reservation and the only place in memory. The shape inside the region is
  deleted and comes back as it was, the other moves in and out (by the constraint `OneDisturbance` of the MC module, where the server does not stop). Two board revisions admit a change before and after an
  admission. `MaxUploads` is two: with the other upload or with those of other sessions the coordinator is full, or not, at any `Upload`.
- `reasoning`: two calls join, replace each other or are refused by the limit. The second turn supersedes, the second epoch is a
  correction.
- `voice`: a session has one stream at a time. Two texts are an answer and the one that supersedes it, two syntheses a text
  read again or each text read. One
  reservation and one place for bytes make the second request meet both limits. `MaxFrames` is after how many quiet frames
  the worker decides (the endpointing policy's maximum), `MaxDisturbances` bounds what nobody has to do: a cancelled stream,
  a connection lost, a renderer that attaches, a typed turn, the end of the session, the shutdown. Three meet in every order.
- `quant`: three rounds open a position, add to it or turn it, and close it. The quotes are one around the fair value, one at the
  other maker's prices, and one that lies above the fair value until it rises, with sizes that differ. The constraint `OneOrShared` of
  the MC module has two halves. One tab loads the state once and plays every flow of three rounds in which somebody comes to trade, and
  one in which nobody comes while a position is open, with a fair value that rises after the first round or falls after the second,
  with the hard limit and the stop or without, and nothing goes wrong: positions are opened, turned and closed, quotes are refused at
  the hard limit, and games are stopped early. Or two tabs share a game: a fill of its first round leaves a position with which the
  hard limit refuses the next quote and the fair value ends the game early; after a pass, the position of the second round is met by
  the quote of the third. The
  second tab plays the same round, or a read of the first is overtaken by another, and lost requests, tabs that leave and
  inputs (`MaxDisturbances`) come two in every order.
- `CHECK_DEADLOCK FALSE` is said where the system may stop: a stopped worker, a canvas nobody edits, a cache nobody asks, a closed registry, a microphone nobody uses, a game nobody plays, a session whose connections have all
  been used, a server that was stopped and whose bounds are used up, a session that is archived.

### Fairness

- `SessionRegistry`: `WF(Continue)`, the event loop runs ready continuations. Callers owe nothing.
- `SessionWriter`: none. Its properties are about what may not happen.
- `RendererStream`: `WF(Continue)`, the continuations of the server (publication, commands, classification, drains, attaches, recovery). The
  publication's fairness includes its backpressure timer. None for clients, sockets, producers, or for `Stop`.
- `TurnOrchestration`: the continuations of orchestration, cancellation and recovery, and those of the shutdown. The
  provider has no fairness: `Resolved`, `Opened` and `Streamed` may never happen. The API adapters have no time limit of
  their own (the CLI adapters do), so the code does not justify more. That the student's reasoning analysis ends is fair,
  because a timer bounds it.
- `LocalRuntimeManager`: the waits of the manager, each of which has a timer, and its queued continuations. Nothing is assumed of the
  processes: neither that they exit nor that they obey a signal.
- `SupervisedProcess`: the file system answers and timers fire (the deadline, those of the terminations, that of the drain).
  Nothing of the processes, which need not exit, read or die.
- `BoardSync`: a request is answered or its connection breaks, and the drain and `synchronize` go on. The server need not
  serve a request.
- `ModelAssets`: the turn of a gate and the I/O of an operation end; a transfer has a timeout (`downloadTimeoutMs`).
- `VisionEvidence`: `WF(Process(r))`, the commands of an upload and the timer of its request. Nothing of the backend, the client or
  the board.
- `VoiceRuntime`: `WF(Continue)`: continuations, the writer, the timers of the worker and of the idle lease. Nothing of the browser, the
  orchestrator or the model: a synthesis may never settle. That frames do not go on for ever is the endpointing policy's
  bound, and that failed ones do not is the browser's, which stops at the first failure.
- `QuantTrading`: none. Everything waits for somebody who need not act.
- `ReasoningAnalysis`: continuations, commands, the timer of each call, and the verifier, which runs in the process on a
  bounded statement. Nothing of the provider.

## 4. Proofs

TLAPS checks 58 theorems in eight modules, and the lemmas below them, for all values of the constants, from these
assumptions only: `None` is not a value of the sets it is used beside, the bounds are natural numbers, the callers of a
manager are finitely many, `Drafts` maps fingerprints to natural numbers, quotes and scenarios are of the form their schemas
require. Two groups of theorems have a hypothesis more, in their statements: those about `RendererStream` `MaxPerSession =
1`; those about `SupervisedProcess` the `ProcessAssumption`
on its constants (their types, and that `None` is none of the values; an `ASSUME` of the module would be evaluated by no run)
and some the platform. They are explained below.

- **`SessionProofs`.** Of `InterviewSession`: `IInv` adds to the type invariant and the four safety invariants `Provenance`:
  a generation that is not unused has a basis, an atom that is not unused has a source that is not unused. Without it
  nothing says that the generation of a pending atom is the one an invalidation supersedes. `InvalidateKeeps` and
  `NothingPending` say once what an invalidation leaves behind; every command that changes authority cites them. From
  `IInv`: `TypeCorrect`, `LedgerCorrect`, `PendingCorrect`, `OneCurrentGeneration`, `TerminalQuiet`. The action properties
  `DisclosureFinal` and `StartsCurrent` and the refinement `SessionImplementsExposure` follow from one lemma on how a step
  may move atoms (`StepMoves`). `StartsCurrent` and `DisclosureFinal` are not checked by a run: TLC has no say in them
  beyond the refinement.
  Of `BoardSync`, whatever edits, mounts and drains overlap: `BoardInv`. `QueueInv` makes the queue what it is used as: it holds
  the pending mutations, each once and the edits in their order, and only its head was sent (`InOrder`: once an edit was sent, no
  earlier one is pending). `DrainInv`: there is a drain while anything is queued, and what it awaits is the head, unless it lost its
  epoch or a `synchronize` has resolved the mutation meanwhile. `SyncInv`: what a `synchronize` compares with was the board.
  `NetInv` says that a request on its way is one a drain sent, so that a late one cannot be taken for the one awaited.
  `ServerInv`: a mutation that was committed, and nothing else of this client, took the board at its base to the board at
  its revision, and the edits in their order; `LateInv` is why that order lasts: a request for an edit has a base too old for the board once a later
  edit was committed. `CanvasInv` is the heart: unless `astray`, the canvas is the board at the authority and what
  the queue will make of it, one mutation after the other (`Chain`). An edit lengthens the chain at its end, an
  acknowledgement shortens it at its start, a comparison that nobody edited under begins it anew. `KeptInv` is what the property says of the
  promises. `Supply`, `Counted` and `RoomInv` show that the bounds leave a RequestId for every
  mutation, a call for every `synchronize`, a revision for every commit and a content for every edit, so that no bound disables what the code would
  do. From it: `BoardTypes`, `BoundIsAuthority` (`BoundCanvasIsAuthority`) and `BoardKeepsPromises` (`PromisesAreKept`).
- **`ServerProofs`.** Of `SessionRegistry`: `Custody` relates the map to the writers in both directions: an entry names a
  writer of its session in the stage the entry says (`EntryOwnsWriter`, `PhaseMatchesStage`), and every writer in use is
  registered (`Registered`). `OneLiveWriter` and `NoLeakedWriter` are its consequences. `LiveWriterIsCurrent` is inductive
  together with it, because only the one live writer appends. `RegistryCloseDrains` needs `DrainInv` besides: a close that
  waits owes nobody but the writer it waits for, a closing that is settled has closed its writer, and a closed writer has
  run all it had admitted. `CloseDrains` alone speaks of the moment a call is done and says nothing of the steps before.
  Of `VisionEvidence`: `VisionIInv` adds three facts to what is in the property: an upload on its way has its picture, only
  an accepted request has a bridge and only its record is in force, and an accepted request was admitted at a revision not
  later than the board's and, if it is the present one, shows the present region (`AdmittedIsFresh`). The last is what the
  two later checks of the bridge rest on: the board is where it was admitted, so what was fresh then is fresh now. A board
  change either leaves the region as it is, or withdraws the evidence. From it: `EvidenceStaysFresh`. `SlotsInv` says that a
  running backend holds a reservation; `BackendsStayBounded` follows by counting. `CountInv` makes the stored answer to the
  command `vision-evidence-commit:<id>` the one account of whether an observation became evidence, and says that the history
  and what the bridge recorded agree with it; `EvidenceCountsOnce` and `CompletionAgrees` follow (the second is why
  recording the end of a bridge never throws). `AnswerInv` says what an answer rests on: an accepted request stays accepted,
  a rejected one was discarded, or was never made of a picture that cannot become current again (`Stands`); and the
  tombstones hold nothing the client was not told (`Kept`). Being turned away at the limit is none of these answers and
  leaves no trace in them (`UploadAnswers`). From it: `AnswersStand`.
- **`SessionWriterProofs`.** `StepIsBacked` says what the store holds at each step of a running attempt (after the
  transaction, the outcome that will be told), `QueuedOnce` that an attempt waits in one queue at one place. With them
  `AnswersDurable`, `OutcomeNeverReplaced` and the refinement `WriterImplementsExactlyOnce`: the transaction is
  `TakeEffect`, the answer is `Tell`, everything else stutters.

- **`ExecutionProofs`.** Of `TurnOrchestration`: `IInv` adds to the type invariant and `ActiveGenerationIsExecuted` two facts. `Custody`: a
  generation belongs to the one orchestration that started it (`turnOf[genOf[t]] = t`), one whose proposal was judged or
  that is being published is not active, and one that is being published was not cancelled. `EpochBound` keeps the context
  epoch within what the bounds let it reach. Without `Custody` the step that ends one orchestration could take the active
  generation of another with it. `Ended` and `Went` say what ending and moving an orchestration leave behind, `Bystanders`
  that the other orchestrations are not touched, and `OrchestrateKeeps` that superseding and starting a turn is one safe
  step; each action has one lemma above them. From `IInv`: `OrchestrationTypeCorrect` and `NoOrphanedGeneration` (the active
  generation always has an orchestration that executes it). The action property `CancelledLeavesNothing` follows from
  `Custody` step by step. `TurnsAnsweredOnce` relates a turn to every generation it ever had: `TwiceInv` says that only an
  admitted proposal gives an answer (`GivenAfterVerdict`), that no work and no generation is of a turn that is not committed
  yet (`Committed`), and that, while a turn is worked on, nothing but the generation in hand has answered it (`OnlyInHand`).
  `LatestTurnNotStranded` needs to know every step of the way. `StrandInv` says, under `Undisturbed`, that nobody cancels
  the work on the latest turn and that its generation is alive until it is judged and then until it has been published
  (`Unhindered`), that work which ended has answered or was left on purpose (`EndedWell`), and that but for crashes nothing
  happened to the session (`Calm`).
  Of `SupervisedProcess`: `ProcessInv` says of each execution on its own (`Sound`) that its child fits its stage (`ChildInv`; on
  Windows the end of the root takes the job with it, `TreeInv`), that what it is going to report was proven when it chose it
  and that what it leaves behind has closed the runner (`EndInv`), and that the version it was spawned from lies between the
  pinned one and the newest (`ProgramInv`). The last is why a comparison after the spawn is enough: versions do not come
  back, so one that still equals the pinned version is the one spawned. Of all executions together it says that whoever is
  on the way while the runner drains, or is closed, knows it (`StopKnown`), and that the drain waits for it (`Awaited`). A
  lemma for each function of the code (`Settled`, `Abort`, `RequestCleanup`, `Finish`, `Throw`) keeps `Sound`, and
  `InvComposed` puts the executions together; each action has one lemma above them. From it `ProcessTypeCorrect`,
  `OutcomesAreProven`, `NoDirectoryIsLeft` and `StoppedStartsNothing` on either platform; `JobsAreContained`
  (`TreesAreContained`) and `DrainLeavesNothing` on Windows, since the finding of section 5 refutes the first of them on
  POSIX; `OnlyPinnedIsFed` (`InputOnlyToPinned`) on POSIX.

- **`SpeechProofs`.** Of `ReasoningAnalysis`: `IInv` adds that a call which waits or gave up knows an execution that was
  started and, when it gave up, was cancelled or is over (`CallsAreBacked`), and that no request is pending before an
  execution makes one or after it settles (`RunFollowsRequest`). From it: `EvidenceFollowsTranscript`,
  `SettledMeansDecided`, and the action property `TimeLimitStands`.
  Of `VoiceRuntime`: `VoiceTypes` and `VoiceSpeechIsBacked`. `SpeechIsBacked` is not inductive: nothing in it says that a
  call finds its text without speech when it comes to queue some. `SpeechInv` follows a call from the text it was made for
  to its command in the queue. A call that was made reads a text that was sent (`ReadsASentText`), a text has one call in
  flight at most (`OneInFlight`), and none while it has speech (`NothingYet`); the command that queues speech is the only
  one of its call, which waits for it (`QueuedOnce`); the bytes of a call that waits are in the store unless the session
  ended, the runtime stopped or the answer was withdrawn, and then nobody wants them (`BytesAreKept`). `OneSpeech` and
  `SpeechIsCurrent` are what the property says.

- **`RendererStreamProofs`.** The hypothesis `MaxPerSession = 1` is what the server is started with
  (`DEFAULT_MAX_CONNECTIONS_PER_SESSION`, `renderer-stream-server.ts:28`), and `Places` rests on it. `IInv` has five parts
  beside the types. `Places`: one connection has the place of the session, attached or being classified, and of two attach
  requests one waits for the other. `Commanding`: what the publication holds at each step, and that the commands in the
  writer are its own, one at most, and those of the classification. `OnItsWay`: what is being delivered was sent on a
  connection that will be asked about it. `WrittenOnce`: a delivery that was not yet written is nowhere on a wire, in a
  client or in the mail, and one that was is at one client only. `Truthful`: the wire, the client's cache and the mail agree
  on each delivery, and what was withdrawn is with no client that would still present it. None of them is inductive without
  the others: a delivery is written once because a reconnect asks the connection it was on before it is written again, a
  withdrawal is safe because the report it rests on is true, and the report is true because the wire is asked first. From
  it: `StreamTypeOK`, `StreamShowsOnce`, `StreamAccountsForTheShown`, `StreamAnswersForDeliveries`, and the action property
  `StreamLooksBehindAwaits`. `StreamImplementsExposure` is the refinement of `ExposureLedger`, the abstract specification
  `InterviewSession` implements too: each delivery reveals itself, and each step of the stream moves it as the ledger allows
  (`StatusMoves`). The two models thus agree on what a delivery may become, though one leaves out the connections and the
  other the proposals. No run checks it.
- **`LocalRuntimeProofs`.** Of the manager: `RecordIsTrue` says that a living process group is on record; `Care` says who
  looks after it while it is not yet. `OnRecord`: a group with a living member is the residual process, or the child's while
  somebody minds it: the handler of its exit (the component is ready), the end of its readiness (a start waits), or a stop
  that is to resume. `Groups`, `Starting`, `Running`, `Cleaning`, `StopInHand` and `Stopped` say what each of the four
  operations knows of the group it works on, and who may be under way beside whom: a backoff runs over nothing alive, a stop
  that is under way has aborted the start, a start that finds itself stopped has a stop to take its process over.
  `ManagerRecordIsTrue` follows, and `ManagerObeysTheStop`: of the steps that spawn only a call of start finds
  `expectedStop` set. That a queued continuation runs before the next timer or process event (`Pending`) is needed: without
  it the pipes of a group could close before the record takes the group over. Of `ModelAssets`: `AInv`. `Queues` makes the
  gates what they are used as: nobody is twice in a gate or in one its stage does not want, and who is inside a section is
  at the head of each gate the section needs. `Kept` says what an installation has staged, promised and found at each stage,
  so that whoever cleans knows what is in use; `Undisturbed`, that a removal which found nothing under way still has nothing
  under way while it holds the gates. `Heard` says that an installation is given up only when nobody waits for it.
  `Accounts` carries the sum of the reservations beside each of them, and `Projected` keeps the arithmetic of an admission
  true from the scan to the reservation, across an await at which others release what they hold. From it: `AssetsTypes`,
  `AssetsAreSafe` (`NothingIsSweptAway`), `AccountsAreExact` (`AccountingIsExact`) and `CancellationIsOwn`
  (`OnlyOwnCancellation`).

- **`QuantTradingProofs`.** The server keeps no engine, so every statement about the game is one about what a history
  replays to. `Engines` names the engines after 0, 1, 2 … rounds; they are followed by induction over the length of the
  history, as a least counterexample in a set of positions (`LeastElement`, `UpTo`), since the provers cannot instantiate
  the induction of the library. `ReplayOneMore` and `ReplayBefore` say what one more round adds and that the earlier ones
  replay as before. `EngineInv` (the game is in the round after the last stored one, unless it is over) makes
  `HistoryCanBeReplayed` inductive: `StoredGamesReplay`. `TabInv` orders what can reach a tab: it waits for one current read
  at most, and for none while an action is under way, and no answer it will look at is behind what it shows. With a game
  that never goes back: `ShownGoesForward`. `ValidActionsArePlayed` follows an action through the book. Between rounds the
  book is empty (`Fresh`); a quote puts the student alone in it (`StudentsOnly`), the other maker joins him for the flow of
  noise, so that a side holds one order of each at most (`Standing`), all of which their owners will withdraw (`Tidy`). A
  flow of orders then brings the student one fill at most, at his price and within his size (`IsFlow`), which is what the
  reducer checks; and the position moves by no more than the quote offers on one side (`Moved`), which is why the check of
  the engine on the quote keeps it within a hard limit. The folds over a queue, a plan and its fills go over two elements at
  most (`TakeFold`, `OnlyFold`, `VolumeFold`, `ApplyFold`), and are unrolled. `EngineIsSound` carries all of it along the
  history.

The type invariants, `LedgerCorrect`, `TerminalQuiet`, `DisclosureFinal`, `StartsCurrent`, `RegistryOneLiveWriter`,
`RegistryNoLeakedWriter`, `AnswersDurable`, `OutcomeNeverReplaced`, `BackendsStayBounded`, `CompletionAgrees`,
`StreamAnswersForDeliveries`, `CancelledLeavesNothing` and the theorems about `SupervisedProcess` are proved for all values of the constants and have no run of
their own.

The proofs changed six definitions. `AwaitedKind` (`RendererStream`) and `Heard` (`VoiceRuntime`) were CASEs whose guards
overlapped, and `NextProc` (`LocalRuntimeManager`) chose a process where there may be none: TLC evaluates these in a way the
logic does not promise. They now say what was meant. `Total` (`ModelAssets`) was a fold and counts units instead, and
`Replay` (`QuantTrading`) is a recursive function for the same reason; `Only` (`OrderBook`) stands where the operator of the
library was opaque to the prover. The runs reach the same states as before.

Only model-checked: liveness (it needs fairness and ENABLED, which the prover does not treat). No property says that the profit and loss of `QuantTrading` are right, only that they are
replayed as they were.

## 5. Findings

These disagreements between the code and what its documents, comments or callers expect are in the models, and shown by configurations
that stand beside those of the runs:
- `authoritative-board-sync.ts:215` (`MCBoardSyncUndo.cfg`): `submit` takes a change for a repetition when its fingerprint is among
  the recent ones. Delete a shape, undo, delete it again: the second deletion has the fingerprint of the first, because the
  restored shape keeps its revision. It is never sent, and the coordinator says that a canvas without the shape is a board that
  has it (`BoundCanvasIsAlwaysAuthority`).
- `supervised-process.ts:800` (`MCSupervisedProcessGroup.cfg`): `packages/local-runtime/README.md:72-73` says that a root which exits
  normally is followed by a check of what is left of its group. The check is reached only when the input was written. A root that
  exits before that makes the write fail; `runChild` leaves through its catch, which looks at the root only, and the execution
  settles while descendants run (`TreesAreContained`). Its outcome is an error, and no other than these errors does it:
  `OutcomeIsProven` holds.
- `session-writer.ts:347` (`MCSessionRegistryCloseAll.cfg`): `closeAll` on an empty registry memoises a promise that is
  already settled; later calls return it and close nothing.
- `renderer-stream-server.ts:535` (`MCRendererStreamPlaces.cfg`): a socket that closes during the awaits of an attach request
  leaves a connection that nobody removes, and it holds the only place of the session.
- `turn-orchestrator.ts:256` (`MCTurnOrchestrationResend.cfg`): a commit of an older turn that is sent again cancels the work
  on the latest turn.
- `local-interview-transport-runtime.ts:276` (`MCTurnOrchestrationShutdown.cfg`): the shutdown waits for requests before it
  requests the cancellation that would release them.
- `authoritative-board-sync.ts:138-147` (`MCBoardSyncMount.cfg`): an edit made while a re-mount's `synchronize` compares the
  canvas it captured is dropped from the queue with the others and its promise resolved, because that canvas still equals the board
  (`ResolvedIsCommitted`). Without a queue the comparison of line 156 binds a canvas that has been edited since.
- `authoritative-board-sync.ts:308` (`MCBoardSyncMount.cfg`): a `synchronize` resolves and removes a mutation whose answer the drain
  still awaits, in the same epoch. The answer then takes the next mutation off the queue: that one is never sent and its promise never settles
  (`NothingIsForgotten`), though `awaitQuiescence` is documented to wait "until every mutation already admitted to this
  coordinator has reached a terminal acknowledgement" (lines 87-91). Line 307 may set the authority back as well.

Seen while modelling, without a configuration: a commit sent again after its answer was shown and superseded is answered again
(`turn-orchestrator.ts:308`, which `NoTurnIsAnsweredTwice` therefore leaves out); a turn that a stop cancelled is not taken
up by a start of the same runtime (`session-recovery-coordinator.ts:253`); `docs/RENDERER_STREAM_TRANSPORT.md:236` lets a
delivery be reissued after a disconnect, the code marks it as possibly seen; after a crash and a correction a pending
verification request of the earlier epoch is never discarded (`docs/FORMAL_INTERPRETATION_ROUTING.md:110` has it discarded),
since nothing names it any more. It does no harm to the evidence, and `SettledIsDecided` speaks of analyses that settled. A crash between
`finalizeUtterance` and `commitInputEpisode` leaves an input episode active that nothing commits, and `completeSession` and
`archiveSession` refuse while one is (`turn-coordinator.ts:653`, `681`). The bytes of speech that is withdrawn stay in the store
until the next onset, the end of the session or a stop; a client that goes on sending frames after failures keeps its
idle lease alive. `whiteboard-vision-coordinator.ts:112` refuses with `RESOURCE_LIMIT`, which a client cannot tell from the refusals with the same
code that are durable (lines 335, 343): an id that was refused may or may not be accepted later, and one that was accepted may be refused.

## 6. Not modelled, and why

Pure text processing (context compilers, disclosure validator, verifiers, parsers), decision tables without state (policy,
evaluation), presentation (pages, the desktop shell), content (problems), read-only projections (replay, diagnostics), build
tooling and the Python workers: there is no behaviour over time to check, or it is outside the repository's control. The
events of Quant sessions are left out of `InterviewSession`: `QuantTrading` has them, and what an end of the session withdraws.
Quant Research (a catalogue of cases and a grammar of answers, one action at a time through the same coordinator's pattern) has no
module. The code is far larger than the models: most of it is such
text, tables, schemas and presentation. Of the parts with behaviour over time, browser audio and the control
plane of providers have no module yet.

## 7. Plan

Done: 1. `InterviewSession` with `ExposureLedger`. 2. `SessionRegistry`. 3. `SessionWriter` with `ExactlyOnce`.
4. `RendererStream`. 5. `TurnOrchestration`. 6. `LocalRuntimeManager`. 7. `BoardSync`. 8. `ModelAssets`. 9. `VisionEvidence`.
10. `ReasoningAnalysis`. 11. `VoiceRuntime`. 12. `SupervisedProcess`. 13. `OrderBook`. 14. `QuantTrading`. Proofs for 1 to 12
and for 14 with 13.

Left, in this order: browser audio; the control plane of providers; Quant Research; the context hashed across an await (`context-coordinator.ts`).
