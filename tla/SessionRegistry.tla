--------------------------- MODULE SessionRegistry ---------------------------
(***************************************************************************)
(* SessionRuntimeRegistry (session-writer.ts): which SessionWriter a       *)
(* session has.  A writer is opened synchronously by get, or by a promise  *)
(* started by getAsync; it is drained by close and closeAll.  Every step   *)
(* below is the code between two suspension points of the event loop, and  *)
(* the steps of different calls interleave freely.                         *)
(*                                                                         *)
(* A member of Writers is one attempt to open a writer: it stands for the  *)
(* opening promise and its token, for the SessionWriter it yields, and for *)
(* the closing promise that later drains that writer.                      *)
(***************************************************************************)
EXTENDS Naturals, FiniteSets

CONSTANTS Sessions, \* session identifiers
          Writers,  \* attempts to open a writer
          Calls,    \* the calls made to the registry, each made once
          None      \* no session, no writer

ASSUME NoneAssumption == None \notin Sessions \cup Writers

VARIABLES entry,           \* entries: what the map holds for each session
          session,         \* the session a writer was opened for
          stage,           \* how far a writer has come
          closing,         \* the state of the promise that closes a writer
          queued,          \* commands a writer has admitted and not yet run
          sequence,        \* the event sequence in a writer's memory
          log,             \* the event sequence in the store
          closingAll,      \* the flag that refuses every new admission
          closeAllPromise, \* "NONE", or the state of the memoised promise
          round,           \* the writers Promise.allSettled waits for
          call             \* the progress of each call

registryVars == <<entry, closingAll, closeAllPromise, round>>
writerVars   == <<session, stage, closing>>
commandVars  == <<queued, sequence, log>>
vars         == <<registryVars, writerVars, commandVars, call>>

Stages == {"UNUSED", "OPENING", "FAILED", "REJECTED", "OPEN", "DRAINING", "CLOSED"}
Absence == [phase |-> "NONE", writer |-> None]
Entry == {Absence} \cup [phase : {"OPENING", "ACTIVE", "CLOSING"}, writer : Writers]
Call == [op : {"NONE", "GET", "CLOSE", "CLOSE_ALL"},
         pc : {"IDLE", "OPENING", "CLOSING", "ALL", "HOLDS", "DONE", "THROWN"},
         session : Sessions \cup {None}, writer : Writers \cup {None}, owed : SUBSET Writers]

\* Every variable holds a value of its kind (session-writer.ts:204-218).
TypeOK ==
    /\ entry \in [Sessions -> Entry]
    /\ session \in [Writers -> Sessions \cup {None}]
    /\ stage \in [Writers -> Stages]
    /\ closing \in [Writers -> {"NONE", "PENDING", "SETTLED", "REJECTED"}]
    /\ queued \in [Writers -> Nat]
    /\ sequence \in [Writers -> Nat]
    /\ log \in [Sessions -> Nat]
    /\ closingAll \in BOOLEAN
    /\ closeAllPromise \in {"NONE", "PENDING", "SETTLED"}
    /\ round \in SUBSET Writers
    /\ call \in [Calls -> Call]

Init ==
    /\ entry = [s \in Sessions |-> Absence]
    /\ session = [w \in Writers |-> None]
    /\ stage = [w \in Writers |-> "UNUSED"]
    /\ closing = [w \in Writers |-> "NONE"]
    /\ queued = [w \in Writers |-> 0]
    /\ sequence = [w \in Writers |-> 0]
    /\ log = [s \in Sessions |-> 0]
    /\ closingAll = FALSE
    /\ closeAllPromise = "NONE"
    /\ round = {}
    /\ call = [c \in Calls |-> [op |-> "NONE", pc |-> "IDLE", session |-> None,
                                writer |-> None, owed |-> {}]]

Live(w) == stage[w] \in {"OPEN", "DRAINING"}
InUse(w) == stage[w] \in {"OPENING", "OPEN", "DRAINING"}
OpenAttempts(S) == {w \in Writers : session[w] \in S /\ InUse(w)}

\* isClosed: an ACTIVE entry whose writer is closed is dropped and reopened.
Absent(s) == \/ entry[s].phase = "NONE"
             \/ entry[s].phase = "ACTIVE" /\ stage[entry[s].writer] # "OPEN"
Active(s) == entry[s].phase = "ACTIVE" /\ stage[entry[s].writer] = "OPEN"

\* A call reaches a new point of its progress.
Reach(c, op, pc, s, w, owed) ==
    call' = [call EXCEPT ![c] = [op |-> op, pc |-> pc, session |-> s, writer |-> w, owed |-> owed]]
Advance(c, pc) ==
    Reach(c, call[c].op, pc, call[c].session, call[c].writer, call[c].owed)

-----------------------------------------------------------------------------
(* Opening *)

\* Mutant: the writer opens without loading the stream.
ConstructEmpty(w, s) == sequence' = [sequence EXCEPT ![w] = 0]

\* The constructor of SessionWriter: load the stream and replay it.
Construct(w, s) == sequence' = [sequence EXCEPT ![w] = log[s]]

Register(s, phase, w) == entry' = [entry EXCEPT ![s] = [phase |-> phase, writer |-> w]]

\* get: return the active writer, or open one in the same step, or throw.
Get(c, s) ==
    /\ call[c].pc = "IDLE"
    /\ \/ /\ ~closingAll /\ Active(s)
          /\ Reach(c, "GET", "HOLDS", s, entry[s].writer, {})
          /\ UNCHANGED <<entry, session, stage, sequence>>
       \/ /\ ~closingAll /\ Absent(s)
          /\ \E w \in Writers :
                /\ stage[w] = "UNUSED"
                /\ stage' = [stage EXCEPT ![w] = "OPEN"]
                /\ session' = [session EXCEPT ![w] = s]
                /\ Construct(w, s)
                /\ Register(s, "ACTIVE", w)
                /\ Reach(c, "GET", "HOLDS", s, w, {})
       \/ /\ closingAll \/ entry[s].phase \in {"OPENING", "CLOSING"}
          /\ Reach(c, "GET", "THROWN", s, None, {})
          /\ UNCHANGED <<entry, session, stage, sequence>>
    /\ UNCHANGED <<closing, queued, log, closingAll, closeAllPromise, round>>

\* The active writer is returned; a promise in the entry is awaited.
AwaitsOrHolds(s) == IF entry[s].phase = "ACTIVE" THEN "HOLDS" ELSE entry[s].phase

\* One pass of getAsync's loop: it ends at an await, a return or a throw.
Look(c, s) ==
    \/ /\ closingAll
       /\ Reach(c, "GET", "THROWN", s, None, {})
       /\ UNCHANGED <<entry, session, stage>>
    \/ /\ ~closingAll /\ Absent(s)
       /\ \E w \in Writers :
             /\ stage[w] = "UNUSED"
             /\ stage' = [stage EXCEPT ![w] = "OPENING"]
             /\ session' = [session EXCEPT ![w] = s]
             /\ Register(s, "OPENING", w)
             /\ Reach(c, "GET", "OPENING", s, w, {})
    \/ /\ ~closingAll /\ ~Absent(s)
       /\ Reach(c, "GET", AwaitsOrHolds(s), s, entry[s].writer, {})
       /\ UNCHANGED <<entry, session, stage>>

GetAsync(c, s) ==
    /\ call[c].pc = "IDLE"
    /\ Look(c, s)
    /\ UNCHANGED <<closing, commandVars, closingAll, closeAllPromise, round>>

\* The opening promise runs its callback: the writer becomes the active one
\* only if the map still holds this very opening.
FinishOpening(w) ==
    /\ stage[w] = "OPENING"
    /\ stage' = [stage EXCEPT ![w] = "OPEN"]
    /\ Construct(w, session[w])
    /\ IF entry[session[w]] = [phase |-> "OPENING", writer |-> w]
       THEN Register(session[w], "ACTIVE", w) ELSE UNCHANGED entry
    /\ UNCHANGED <<session, closing, queued, log, closingAll, closeAllPromise, round, call>>

\* Loading or replaying the stream throws.
FailOpening(w) ==
    /\ stage[w] = "OPENING"
    /\ stage' = [stage EXCEPT ![w] = "FAILED"]
    /\ UNCHANGED <<registryVars, session, closing, commandVars, call>>

\* The catch handler of the opening promise forgets the failed attempt.
ForgetFailedOpening(w) ==
    /\ stage[w] = "FAILED"
    /\ stage' = [stage EXCEPT ![w] = "REJECTED"]
    /\ entry' = IF entry[session[w]] = [phase |-> "OPENING", writer |-> w]
                THEN [entry EXCEPT ![session[w]] = Absence] ELSE entry
    /\ UNCHANGED <<session, closing, commandVars, closingAll, closeAllPromise, round, call>>

\* A promise a getAsync call awaits has settled: it throws, or looks again.
Rejected(c) == \/ call[c].pc = "OPENING" /\ stage[call[c].writer] = "REJECTED"
               \/ call[c].pc = "CLOSING" /\ closing[call[c].writer] = "REJECTED"
Fulfilled(c) == \/ call[c].pc = "OPENING" /\ stage[call[c].writer] \in {"OPEN", "DRAINING", "CLOSED"}
                \/ call[c].pc = "CLOSING" /\ closing[call[c].writer] = "SETTLED"

ResumeGet(c) ==
    /\ call[c].op = "GET"
    /\ \/ /\ Rejected(c)
          /\ Advance(c, "THROWN")
          /\ UNCHANGED <<entry, session, stage>>
       \/ /\ Fulfilled(c)
          /\ Look(c, call[c].session)
    /\ UNCHANGED <<closing, commandVars, closingAll, closeAllPromise, round>>

-----------------------------------------------------------------------------
(* Commands on the writer a call returned *)

\* execute: a writer that no longer accepts commands rejects this one.
Execute(c) ==
    /\ call[c].pc = "HOLDS"
    /\ LET w == call[c].writer
       IN IF stage[w] = "OPEN"
          THEN /\ queued' = [queued EXCEPT ![w] = @ + 1]
               /\ Advance(c, "DONE")
          ELSE /\ Advance(c, "THROWN")
               /\ UNCHANGED queued
    /\ UNCHANGED <<registryVars, writerVars, sequence, log>>

\* The tail runs one command.  A writer whose memory is behind the store gets
\* StaleSessionWriterError and appends nothing, now and ever after.
RunCommand(w) ==
    /\ Live(w) /\ queued[w] > 0
    /\ queued' = [queued EXCEPT ![w] = @ - 1]
    /\ IF sequence[w] = log[session[w]]
       THEN /\ log' = [log EXCEPT ![session[w]] = @ + 1]
            /\ sequence' = [sequence EXCEPT ![w] = @ + 1]
       ELSE UNCHANGED <<log, sequence>>
    /\ UNCHANGED <<registryVars, writerVars, call>>

-----------------------------------------------------------------------------
(* Closing *)

\* The synchronous part of close on the sessions of S: each writer stops
\* accepting commands, and an opening is closed once it has opened.
Closable(S) == {w \in Writers : \E s \in S : /\ entry[s].writer = w
                                             /\ entry[s].phase \in {"OPENING", "ACTIVE"}}

BeginClosing(S) ==
    /\ closing' = [w \in Writers |-> IF w \in Closable(S) THEN "PENDING" ELSE closing[w]]
    /\ stage' = [w \in Writers |->
                    IF \E s \in S : entry[s] = [phase |-> "ACTIVE", writer |-> w]
                    THEN "DRAINING" ELSE stage[w]]
    /\ entry' = [s \in Sessions |->
                    IF s \in S /\ entry[s].phase # "NONE"
                    THEN [entry[s] EXCEPT !.phase = "CLOSING"] ELSE entry[s]]

Close(c, s) ==
    /\ call[c].pc = "IDLE"
    /\ IF entry[s].phase = "NONE"
       THEN /\ Reach(c, "CLOSE", "DONE", s, None, {})
            /\ UNCHANGED <<entry, stage, closing>>
       ELSE /\ BeginClosing({s})
            /\ Reach(c, "CLOSE", "CLOSING", s, entry[s].writer, OpenAttempts({s}))
    /\ UNCHANGED <<session, commandVars, closingAll, closeAllPromise, round>>

\* A closing that awaited the opening now calls writer.close().
CloseOpened(w) ==
    /\ closing[w] = "PENDING" /\ stage[w] = "OPEN"
    /\ stage' = [stage EXCEPT ![w] = "DRAINING"]
    /\ UNCHANGED <<registryVars, session, closing, commandVars, call>>

\* Mutant: close does not await the tail.
DrainedOrNot(w) == TRUE

\* writer.close: the tail is empty, the writer is fully closed.
Drained(w) == queued[w] = 0

FinishDraining(w) ==
    /\ stage[w] = "DRAINING" /\ Drained(w)
    /\ stage' = [stage EXCEPT ![w] = "CLOSED"]
    /\ UNCHANGED <<registryVars, session, closing, commandVars, call>>

\* Mutant: the closing entry is never removed.
SettleInPlace(w) ==
    /\ closing[w] = "PENDING" /\ stage[w] \in {"CLOSED", "REJECTED"}
    /\ closing' = [closing EXCEPT ![w] = IF stage[w] = "CLOSED" THEN "SETTLED" ELSE "REJECTED"]
    /\ UNCHANGED <<entry, session, stage, commandVars, closingAll, closeAllPromise, round, call>>

\* The finally handler: the map forgets this closing, and the promise settles
\* the way the opening it awaited did.
Settle(w) ==
    /\ closing[w] = "PENDING" /\ stage[w] \in {"CLOSED", "REJECTED"}
    /\ closing' = [closing EXCEPT ![w] = IF stage[w] = "CLOSED" THEN "SETTLED" ELSE "REJECTED"]
    /\ entry' = IF entry[session[w]] = [phase |-> "CLOSING", writer |-> w]
                THEN [entry EXCEPT ![session[w]] = Absence] ELSE entry
    /\ UNCHANGED <<session, stage, commandVars, closingAll, closeAllPromise, round, call>>

ResumeClose(c) ==
    /\ call[c].op = "CLOSE" /\ call[c].pc = "CLOSING"
    /\ \/ Rejected(c) /\ Advance(c, "THROWN")
       \/ Fulfilled(c) /\ Advance(c, "DONE")
    /\ UNCHANGED <<registryVars, writerVars, commandVars>>

-----------------------------------------------------------------------------
(* closeAll *)

Present == {s \in Sessions : entry[s].phase # "NONE"}

\* Promise.allSettled over close of every session that has an entry.
BeginRound ==
    /\ BeginClosing(Present)
    /\ round' = {entry[s].writer : s \in Present}

\* The caller awaits the promise unless it is already settled.
AwaitsAll == IF closeAllPromise = "SETTLED" \/ (closeAllPromise = "NONE" /\ Present = {})
             THEN "DONE" ELSE "ALL"

\* With entries in the map the call suspends at its first round.  With none the
\* body and its finally block run before closeAllPromise is assigned, so the
\* assignment leaves a settled promise behind.
CloseAll(c) ==
    /\ call[c].pc = "IDLE"
    /\ Reach(c, "CLOSE_ALL", AwaitsAll, None, None, OpenAttempts(Sessions))
    /\ \/ /\ closeAllPromise # "NONE"
          /\ UNCHANGED <<entry, stage, closing, round, closingAll, closeAllPromise>>
       \/ /\ closeAllPromise = "NONE" /\ Present # {}
          /\ closingAll' = TRUE
          /\ closeAllPromise' = "PENDING"
          /\ BeginRound
       \/ /\ closeAllPromise = "NONE" /\ Present = {}
          /\ closeAllPromise' = "SETTLED"
          /\ UNCHANGED <<entry, stage, closing, round, closingAll>>
    /\ UNCHANGED <<session, commandVars>>

\* A round has settled: throw, start another round, or return.  In the first
\* and the last case the finally block runs.
RoundFailed == \E w \in round : closing[w] = "REJECTED"
RoundOutcome == IF RoundFailed THEN "THROWN" ELSE "DONE"
EndRound ==
    /\ closeAllPromise = "PENDING"
    /\ \A w \in round : closing[w] \in {"SETTLED", "REJECTED"}
    /\ IF ~RoundFailed /\ Present # {}
       THEN /\ BeginRound
            /\ UNCHANGED <<closingAll, closeAllPromise, call>>
       ELSE /\ closingAll' = FALSE
            /\ closeAllPromise' = "NONE"
            /\ round' = {}
            /\ call' = [c \in Calls |->
                          IF call[c].pc # "ALL" THEN call[c]
                          ELSE [call[c] EXCEPT !.pc = RoundOutcome]]
            /\ UNCHANGED <<entry, stage, closing>>
    /\ UNCHANGED <<session, commandVars>>

-----------------------------------------------------------------------------
\* The continuations the event loop owes; the calls themselves are optional.
Continue ==
    \/ \E w \in Writers : \/ FinishOpening(w) \/ FailOpening(w) \/ ForgetFailedOpening(w)
                          \/ RunCommand(w) \/ CloseOpened(w) \/ FinishDraining(w) \/ Settle(w)
    \/ \E c \in Calls : ResumeGet(c) \/ ResumeClose(c)
    \/ EndRound

Next ==
    \/ Continue
    \/ \E c \in Calls : \/ Execute(c) \/ CloseAll(c)
                        \/ \E s \in Sessions : Get(c, s) \/ GetAsync(c, s) \/ Close(c, s)

Spec == Init /\ [][Next]_vars
\* Node runs every ready continuation before it idles.
FairSpec == Spec /\ WF_vars(Continue)

-----------------------------------------------------------------------------
(* Properties *)

\* A session never has two writers that hold or may still run commands: a
\* writer is reopened only after the previous one was drained (D004).
OneLiveWriter ==
    \A v, w \in Writers : Live(v) /\ Live(w) /\ session[v] = session[w] => v = w

\* A writer that may still run commands is the one the map names, so close and
\* closeAll can reach it: no writer leaks out of the registry.
NoLeakedWriter == \A w \in Writers : InUse(w) => entry[session[w]].writer = w

\* The memory of a live writer is never behind the store, so no admitted
\* command dies of StaleSessionWriterError in a single process.
LiveWriterIsCurrent == \A w \in Writers : Live(w) => sequence[w] = log[session[w]]

\* close resolves only when the writers it found have run all they admitted.
CloseDrains ==
    \A c \in Calls : call[c].op = "CLOSE" /\ call[c].pc = "DONE" =>
        \A w \in call[c].owed : stage[w] = "CLOSED" /\ queued[w] = 0

\* closeAll resolves only when every writer that was open or opening is closed
\* (DURABLE_SESSION_RUNTIME.md:138; durable-session-repair-regression.test.ts:215).
CloseAllLeavesNoWriter ==
    \A c \in Calls : call[c].op = "CLOSE_ALL" /\ call[c].pc = "DONE" =>
        \A w \in call[c].owed : stage[w] = "CLOSED"

\* A call that awaits a promise of the registry eventually returns or throws.
Waiting(c) == call[c].pc \in {"OPENING", "CLOSING", "ALL"}
EveryCallReturns == \A c \in Calls : Waiting(c) ~> ~Waiting(c)
=============================================================================
