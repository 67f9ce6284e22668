------------------------- MODULE LocalRuntimeManager -------------------------
(***************************************************************************)
(* LocalRuntimeManager: how one managed worker process is started, watched,*)
(* restarted and stopped.  Four operations can be under way at a time, each*)
(* a promise of its own: the start sequence with its attempts and backoff, *)
(* the stop, the cleanup of what an unexpected exit left behind, and the   *)
(* stopAll of the whole manager.  They meet in the fields of one record.   *)
(*                                                                         *)
(* Every spawn makes a process group.  Its root exits, its pipes close and *)
(* the last member of its group goes in steps of their own, at any time:   *)
(* neither a worker nor its descendants need obey a signal.  Continuations *)
(* of settled promises run before the next timer or process event (Pending *)
(* below); a caller may call in between.  The platform is POSIX.           *)
(***************************************************************************)
EXTENDS Naturals, FiniteSets

CONSTANTS Callers,    \* calls of start and restart
          Signalled,  \* the callers of start that pass an AbortSignal
          MaxRetries, \* restartPolicy.maxRetries, with mode ON_FAILURE
          MaxStops    \* bound: calls of stop

ASSUME CallersAssumption == Signalled \subseteq Callers /\ IsFiniteSet(Callers)
ASSUME BoundsAssumption == MaxRetries \in Nat /\ MaxStops \in Nat

\* Each call of start makes one attempt, and retries share one budget.
Procs == 1 .. Cardinality(Callers) * (1 + MaxRetries)
None  == 0

VARIABLES state,       \* record.state
          child,       \* record.child: a process, or None
          residual,    \* record.residualProcess
          unverified,  \* record.residualTreeUnverified
          expectedStop,\* record.expectedStop
          budget,      \* record.restartBudgetUsed
          start,       \* startPromise and operationAbort: the start sequence
          stop,        \* stopPromise: the stop
          cleanup,     \* cleanupPromise: the process it is cleaning up after
          restartDue,  \* the microtask that follows a cleanup is queued
          stopAll,     \* stopAllPromise, as this component sees it
          stopsLeft,   \* calls of stop still to come
          call,        \* what each caller waits for
          root,        \* the root of each process group
          tree         \* the groups with a living member

record  == <<state, child, residual, unverified, expectedStop, budget>>
os      == <<root, tree>>
vars    == <<record, start, stop, cleanup, restartDue, stopAll, stopsLeft, call, os>>

Errors  == {"RETRYABLE", "FATAL", "CANCELLED"}
NoStart == [at |-> "NONE", proc |-> None, owner |-> {}, aborted |-> FALSE, error |-> "FATAL"]
NoStop  == [at |-> "NONE", proc |-> None]

\* Every variable holds a value of its kind (manager.ts:79-105).
TypeOK ==
    /\ state \in {"STOPPED", "STARTING", "READY", "DEGRADED", "STOPPING", "FAILED"}
    /\ {child, residual, cleanup} \subseteq Procs \cup {None}
    /\ {unverified, expectedStop, restartDue} \subseteq BOOLEAN
    /\ budget \in 0 .. MaxRetries
    /\ start \in [at : {"NONE", "BACKOFF", "WAITING", "CLEANUP"}, proc : Procs \cup {None},
                  owner : SUBSET Callers, aborted : BOOLEAN, error : Errors]
    /\ stop \in [at : {"NONE", "CALLED", "AWAIT", "GRACE", "TERMINATING", "FINISH"},
                 proc : Procs \cup {None}]
    /\ stopAll \in {"UNUSED", "OTHERS", "HERE", "AFTER", "FAILED", "OVER"}
    /\ stopsLeft \in 0 .. MaxStops
    /\ call \in [Callers -> {"IDLE", "STOPPING", "CLEANING", "STARTING", "AGAIN", "DONE"}]
    /\ root \in [Procs -> {"UNUSED", "ALIVE", "EXITED", "CLOSED"}]
    /\ tree \in [Procs -> BOOLEAN]

Init ==
    /\ state = "STOPPED"
    /\ child = None /\ residual = None /\ unverified = FALSE
    /\ expectedStop = FALSE /\ budget = 0
    /\ start = NoStart /\ stop = NoStop /\ cleanup = None /\ restartDue = FALSE
    /\ stopAll = "UNUSED" /\ stopsLeft = MaxStops
    /\ call = [c \in Callers |-> "IDLE"]
    /\ root = [p \in Procs |-> "UNUSED"]
    /\ tree = [p \in Procs |-> FALSE]

-----------------------------------------------------------------------------
(* What the code asks of a process *)

IsChildAlive(p) == p # None /\ root[p] = "ALIVE"
TreeAlive(p)    == p # None /\ tree[p]

\* waitForManagedTreeExit: closed, and nobody is left in its group.
Gone(p) == child # p /\ ~TreeAlive(p)

\* stopAllPromise is set.
StoppingAll == stopAll \in {"OTHERS", "HERE", "AFTER", "FAILED"}

\* A continuation is queued: no timer fires and no process event is read.
Pending ==
    \/ start.at \in {"BACKOFF", "WAITING"} /\ start.aborted
    \/ start.at = "WAITING" /\ root[start.proc] # "ALIVE"
    \/ stop.at = "CALLED"
    \/ stop.at \in {"AWAIT", "FINISH"} /\ start = NoStart /\ cleanup = None
    \/ restartDue
    \/ \E c \in Callers : call[c] = "AGAIN"

Waiters(what, then) == [c \in Callers |-> IF call[c] = what THEN then ELSE call[c]]

-----------------------------------------------------------------------------
(* The start sequence *)

\* The process groups come in their order: p is the next one.
NextProc(p) == root[p] = "UNUSED" /\ \A q \in Procs : root[q] = "UNUSED" => p <= q

\* Mutant: an automatic restart does not ask whether a stop is wanted.
RestartAnyway(expected, spent) == spent < MaxRetries

\* reserveRestart, with what expectedStop and the budget are by then.
MayRestart(expected, spent) == ~expected /\ ~StoppingAll /\ spent < MaxRetries

EndStart ==
    /\ start' = NoStart
    /\ call' = Waiters("STARTING", "DONE")

\* The catch of runStartSequence: an attempt of op ended with error e.
SettleStart(op, e, expected) ==
    /\ expectedStop' = expected
    /\ IF e = "CANCELLED" \/ expected \/ op.aborted
       THEN /\ state' = IF state = "STOPPING" THEN state ELSE "STOPPED"
            /\ EndStart
            /\ UNCHANGED budget
       ELSE /\ state' = "FAILED"
            /\ IF e = "RETRYABLE" /\ MayRestart(expected, budget)
               THEN /\ budget' = budget + 1
                    /\ start' = [op EXCEPT !.at = "BACKOFF", !.proc = None]
                    /\ UNCHANGED call
               ELSE EndStart /\ UNCHANGED budget

\* spawnAndAwaitReadiness up to its first await, in the sequence op: spawn
\* throws, or the process runs, or it exists only to report that it could not.
Attempt(op, expected, spent) ==
    \/ /\ state' = "STARTING" /\ budget' = spent /\ expectedStop' = expected
       /\ \E p \in Procs, up \in BOOLEAN :
            /\ NextProc(p)
            /\ child' = p
            /\ start' = [op EXCEPT !.at = "WAITING", !.proc = p]
            /\ root' = [root EXCEPT ![p] = IF up THEN "ALIVE" ELSE "EXITED"]
            /\ tree' = [tree EXCEPT ![p] = up]
    \/ /\ UNCHANGED <<child, os>>
       /\ state' = "FAILED" /\ expectedStop' = expected
       /\ IF MayRestart(expected, spent)
          THEN budget' = spent + 1 /\ start' = [op EXCEPT !.at = "BACKOFF", !.proc = None]
          ELSE budget' = spent /\ start' = NoStart

\* No tree of an earlier process is known or feared to be alive.
MayStart == ~unverified /\ ~TreeAlive(residual) /\ ~IsChildAlive(child)

\* start: wait for a stop or a cleanup and call again, join a start, be done,
\* be refused, or begin a sequence of one's own.
StartCall(c) ==
    \/ /\ StoppingAll
       /\ call' = [call EXCEPT ![c] = "DONE"]
       /\ UNCHANGED <<record, start, os>>
    \/ /\ ~StoppingAll
       /\ \/ stop.at # "NONE"
          \/ cleanup # None
          \/ start # NoStart
          \/ state \in {"READY", "DEGRADED"}
          \/ ~MayStart
       /\ call' = [call EXCEPT ![c] =
                     CASE stop.at # "NONE" -> "STOPPING"
                       [] stop.at = "NONE" /\ cleanup # None -> "CLEANING"
                       [] stop.at = "NONE" /\ cleanup = None /\ start # NoStart -> "STARTING"
                       [] OTHER -> "DONE"]
       /\ UNCHANGED <<record, start, os>>
    \/ /\ ~StoppingAll /\ stop.at = "NONE" /\ cleanup = None /\ start = NoStart
       /\ state \notin {"READY", "DEGRADED"} /\ MayStart
       /\ residual' = None
       /\ Attempt([NoStart EXCEPT !.owner = {c}], FALSE, 0)
       /\ call' = [call EXCEPT ![c] = IF start' = NoStart THEN "DONE" ELSE "STARTING"]
       /\ UNCHANGED unverified

Start(c) ==
    /\ call[c] \in {"IDLE", "AGAIN"}
    /\ StartCall(c)
    /\ UNCHANGED <<stop, cleanup, restartDue, stopAll, stopsLeft>>

\* A caller gives up: its signal ends its own sequence, or only its waiting.
Abort(c) ==
    /\ c \in Signalled /\ call[c] \in {"STOPPING", "CLEANING", "STARTING"}
    /\ IF call[c] = "STARTING" /\ c \in start.owner
       THEN start' = [start EXCEPT !.aborted = TRUE] /\ UNCHANGED call
       ELSE call' = [call EXCEPT ![c] = "DONE"] /\ UNCHANGED start
    /\ UNCHANGED <<record, stop, cleanup, restartDue, stopAll, stopsLeft, os>>

\* The backoff is over, or was aborted.
BackoffEnds ==
    /\ start.at = "BACKOFF"
    /\ \/ /\ start.aborted
          /\ SettleStart(start, "CANCELLED", expectedStop)
          /\ UNCHANGED <<child, os>>
       \/ /\ ~start.aborted /\ ~Pending
          /\ Attempt(start, expectedStop, budget)
          /\ call' = IF start' = NoStart THEN Waiters("STARTING", "DONE") ELSE call
    /\ UNCHANGED <<residual, unverified, stop, cleanup, restartDue, stopAll, stopsLeft>>

CancelledAfterAwait == start.aborted \/ expectedStop \/ state # "STARTING"

BecomesReady ==
    /\ start.at = "WAITING" /\ ~CancelledAfterAwait
    /\ IsChildAlive(start.proc) /\ child = start.proc
    /\ state' = "READY"
    /\ EndStart
    /\ UNCHANGED <<child, residual, unverified, expectedStop, budget, stop, cleanup, restartDue,
                   stopAll, stopsLeft, os>>

\* Any readiness strategy may fail so: the start was aborted or overtaken by a
\* stop, the process exited or the time is up, or its answer was refused.
ReadinessFails(e) ==
    CASE e = "CANCELLED" -> CancelledAfterAwait
      [] e = "RETRYABLE" -> root[start.proc] # "ALIVE" \/ ~Pending
      [] e = "FATAL"     -> ~Pending

\* Readiness failed with e.  A stop that is under way owns the process; else
\* the attempt is cleaned up first, with expectedStop set for its duration.
AttemptFails(e) ==
    /\ start.at = "WAITING"
    /\ ReadinessFails(e)
    /\ IF expectedStop \/ Gone(start.proc)
       THEN SettleStart(start, e, expectedStop) /\ UNCHANGED <<residual, unverified>>
       ELSE /\ residual' = start.proc /\ unverified' = FALSE /\ expectedStop' = TRUE
            /\ start' = [start EXCEPT !.at = "CLEANUP", !.error = e]
            /\ UNCHANGED <<state, budget, call>>
    /\ UNCHANGED <<child, stop, cleanup, restartDue, stopAll, stopsLeft, os>>

\* cleaned && !signal.aborted fails: somebody wants the component to stop.
KeepsExpectedStop == start.aborted

\* cleanupFailedAttempt ends: nothing is left, or that could not be verified.
AttemptCleaned ==
    /\ start.at = "CLEANUP" /\ ~Pending
    /\ \/ /\ Gone(start.proc)
          /\ residual' = None /\ unverified' = FALSE
          /\ SettleStart(start, start.error, KeepsExpectedStop)
       \/ /\ ~Gone(start.proc)
          /\ unverified' = TRUE /\ state' = "FAILED"
          /\ EndStart
          /\ UNCHANGED <<residual, expectedStop, budget>>
    /\ UNCHANGED <<child, stop, cleanup, restartDue, stopAll, stopsLeft, os>>

MarkDegraded ==
    /\ state \in {"READY", "DEGRADED"} /\ state' = "DEGRADED"
    /\ UNCHANGED <<child, residual, unverified, expectedStop, budget, start, stop, cleanup,
                   restartDue, stopAll, stopsLeft, call, os>>

MarkReady ==
    /\ state \in {"READY", "DEGRADED"} /\ state' = "READY"
    /\ UNCHANGED <<child, residual, unverified, expectedStop, budget, start, stop, cleanup,
                   restartDue, stopAll, stopsLeft, call, os>>

-----------------------------------------------------------------------------
(* The process ends *)

\* handleProcessExit: an exit nobody asked for begins a cleanup.
RootExits(p) ==
    /\ root[p] = "ALIVE" /\ ~Pending
    /\ root' = [root EXCEPT ![p] = "EXITED"]
    /\ \E alone \in BOOLEAN : tree' = [tree EXCEPT ![p] = ~alone]
    /\ IF child = p /\ ~expectedStop /\ state \notin {"STOPPING", "STOPPED", "STARTING"}
       THEN /\ residual' = p /\ unverified' = FALSE /\ state' = "FAILED"
            /\ cleanup' = p
       ELSE UNCHANGED <<residual, unverified, state, cleanup>>
    /\ UNCHANGED <<child, expectedStop, budget, start, stop, restartDue, stopAll, stopsLeft, call>>

\* The last member of the group ends after its root.
TreeEnds(p) ==
    /\ root[p] \in {"EXITED", "CLOSED"} /\ tree[p] /\ ~Pending
    /\ tree' = [tree EXCEPT ![p] = FALSE]
    /\ UNCHANGED <<record, start, stop, cleanup, restartDue, stopAll, stopsLeft, call, root>>

\* handleProcessClose
PipesClose(p) ==
    /\ root[p] = "EXITED" /\ ~Pending
    /\ root' = [root EXCEPT ![p] = "CLOSED"]
    /\ child' = IF child = p THEN None ELSE child
    /\ UNCHANGED <<state, residual, unverified, expectedStop, budget, start, stop, cleanup,
                   restartDue, stopAll, stopsLeft, call, tree>>

\* cleanupUnexpectedExit and what follows its promise.
CleanupEnds ==
    /\ cleanup # None /\ ~Pending
    /\ cleanup' = None
    /\ \/ /\ Gone(cleanup)
          /\ residual' = None /\ unverified' = FALSE /\ restartDue' = TRUE
          /\ call' = Waiters("CLEANING", "AGAIN")
       \/ /\ ~Gone(cleanup)
          /\ unverified' = TRUE
          /\ call' = Waiters("CLEANING", "DONE")
          /\ UNCHANGED <<residual, restartDue>>
    /\ UNCHANGED <<state, child, expectedStop, budget, start, stop, stopAll, stopsLeft, os>>

\* The microtask after a cleanup, and beginAutomaticRestart.
AutomaticRestart ==
    /\ restartDue /\ restartDue' = FALSE
    /\ IF cleanup = None /\ start = NoStart /\ state = "FAILED" /\ MayRestart(expectedStop, budget)
       THEN budget' = budget + 1 /\ start' = [NoStart EXCEPT !.at = "BACKOFF"]
       ELSE UNCHANGED <<budget, start>>
    /\ UNCHANGED <<state, child, residual, unverified, expectedStop, stop, cleanup, stopAll,
                   stopsLeft, call, os>>

-----------------------------------------------------------------------------
(* Stopping *)

\* stop: join the stop that is under way, or queue runStop.
CallStop == stop' = IF stop.at = "NONE" THEN [NoStop EXCEPT !.at = "CALLED"] ELSE stop

Stop ==
    /\ stopsLeft > 0 /\ stopsLeft' = stopsLeft - 1
    /\ CallStop
    /\ UNCHANGED <<record, start, cleanup, restartDue, stopAll, call, os>>

\* restart: stop, then start.
Restart(c) ==
    /\ call[c] = "IDLE" /\ c \notin Signalled
    /\ call' = [call EXCEPT ![c] = "STOPPING"]
    /\ CallStop
    /\ UNCHANGED <<record, start, cleanup, restartDue, stopAll, stopsLeft, os>>

Aborted == IF start = NoStart THEN start ELSE [start EXCEPT !.aborted = TRUE]

\* The head of runStop: abort the start, and take over a living process or
\* wait for the operations that are cleaning up.
BeginStop ==
    /\ expectedStop' = TRUE
    /\ start' = Aborted
    /\ IF IsChildAlive(child)
       THEN /\ residual' = child /\ unverified' = FALSE /\ state' = "STOPPING"
            /\ stop' = [at |-> "GRACE", proc |-> child]
       ELSE /\ stop' = [at |-> "AWAIT", proc |-> child]
            /\ UNCHANGED <<residual, unverified, state>>

RunStop ==
    /\ stop.at = "CALLED"
    /\ BeginStop
    /\ UNCHANGED <<child, budget, cleanup, restartDue, stopAll, stopsLeft, call, os>>

\* The operations it waited for are over: begin again when the process is not
\* the one it saw, terminate what is left of it, or find nothing to do.
StopResumes ==
    /\ stop.at = "AWAIT" /\ start = NoStart /\ cleanup = None
    /\ \/ /\ IF stop.proc # None THEN child # stop.proc ELSE TreeAlive(child)
          /\ BeginStop
       \/ /\ stop.proc # None /\ child = stop.proc
          /\ residual' = child /\ state' = "STOPPING"
          /\ stop' = [at |-> "TERMINATING", proc |-> child]
          /\ UNCHANGED <<unverified, expectedStop, start>>
       \/ /\ stop.proc = None /\ ~TreeAlive(child)
          /\ \/ /\ residual # None /\ (unverified \/ TreeAlive(residual))
                /\ state' = "STOPPING"
                /\ stop' = [at |-> "TERMINATING", proc |-> residual]
             \/ /\ ~unverified /\ ~TreeAlive(residual)
                /\ stop' = [at |-> "FINISH", proc |-> None]
                /\ UNCHANGED state
          /\ UNCHANGED <<residual, unverified, expectedStop, start>>
    /\ UNCHANGED <<child, budget, cleanup, restartDue, stopAll, stopsLeft, call, os>>

\* Mutant: the graceful shutdown has no time limit.
UntimedGrace ==
    /\ stop.at = "GRACE" /\ ~Pending /\ Gone(stop.proc)
    /\ stop' = [stop EXCEPT !.at = "FINISH"]
    /\ UNCHANGED <<record, start, cleanup, restartDue, stopAll, stopsLeft, call, os>>

\* The graceful shutdown worked, or its time is up.
GraceEnds ==
    /\ stop.at = "GRACE" /\ ~Pending
    /\ stop' = [stop EXCEPT !.at = IF Gone(stop.proc) THEN "FINISH" ELSE "TERMINATING"]
    /\ UNCHANGED <<record, start, cleanup, restartDue, stopAll, stopsLeft, call, os>>

\* Mutant: after the forced kill nothing is verified.
Believed(p) == TRUE

\* What terminateManagedTree reports other than UNVERIFIED.
Terminated(p) == Gone(p)

\* terminateManagedTree: the group is gone after SIGTERM or SIGKILL, or the
\* stop fails and the process stays on record.
TerminationEnds ==
    /\ stop.at = "TERMINATING" /\ ~Pending
    /\ IF Terminated(stop.proc)
       THEN /\ stop' = [stop EXCEPT !.at = "FINISH"]
            /\ UNCHANGED <<state, unverified, stopAll, call>>
       ELSE /\ unverified' = TRUE /\ state' = "FAILED"
            /\ stop' = NoStop
            /\ stopAll' = IF stopAll = "HERE" THEN "FAILED" ELSE stopAll
            /\ call' = Waiters("STOPPING", "DONE")
    /\ UNCHANGED <<child, residual, expectedStop, budget, start, cleanup, restartDue, stopsLeft, os>>

\* The stop succeeds once an aborted start is over.
StopEnds ==
    /\ stop.at = "FINISH" /\ start = NoStart
    /\ residual' = None /\ unverified' = FALSE /\ state' = "STOPPED"
    /\ stop' = NoStop
    /\ stopAll' = IF stopAll = "HERE" THEN "AFTER" ELSE stopAll
    /\ call' = Waiters("STOPPING", "AGAIN")
    /\ UNCHANGED <<child, expectedStop, budget, start, cleanup, restartDue, stopsLeft, os>>

\* stopAll stops the components one after the other: others, this one, others.
StopAll ==
    /\ stopAll = "UNUSED" /\ stopAll' = "OTHERS"
    /\ UNCHANGED <<record, start, stop, cleanup, restartDue, stopsLeft, call, os>>

StopAllReachesThis ==
    /\ stopAll = "OTHERS" /\ stopAll' = "HERE"
    /\ CallStop
    /\ UNCHANGED <<record, start, cleanup, restartDue, stopsLeft, call, os>>

StopAllEnds ==
    /\ stopAll \in {"AFTER", "FAILED"} /\ stopAll' = "OVER"
    /\ UNCHANGED <<record, start, stop, cleanup, restartDue, stopsLeft, call, os>>

-----------------------------------------------------------------------------
Sequence == BackoffEnds \/ BecomesReady \/ (\E e \in Errors : AttemptFails(e)) \/ AttemptCleaned
Stopping == RunStop \/ StopResumes \/ GraceEnds \/ TerminationEnds \/ StopEnds
Process  == \E p \in Procs : RootExits(p) \/ TreeEnds(p) \/ PipesClose(p)

Next ==
    \/ \E c \in Callers : Start(c) \/ Restart(c) \/ Abort(c)
    \/ Stop \/ StopAll \/ StopAllReachesThis \/ StopAllEnds
    \/ MarkDegraded \/ MarkReady
    \/ Sequence \/ CleanupEnds \/ AutomaticRestart \/ Stopping
    \/ Process

Spec == Init /\ [][Next]_vars

\* Every wait has a timer and every queued continuation runs; nothing is
\* assumed of the processes.
FairSpec ==
    /\ Spec
    /\ WF_vars(Sequence) /\ WF_vars(Stopping)
    /\ WF_vars(CleanupEnds) /\ WF_vars(AutomaticRestart)
    /\ \A c \in Callers : WF_vars(call[c] = "AGAIN" /\ Start(c))
    /\ WF_vars(StopAllReachesThis \/ StopAllEnds)

-----------------------------------------------------------------------------
(* Properties *)

\* What the manager has on record of a component is true.  At most one process
\* group is alive, and it is the child or the residual process, so that no
\* start, retry or automatic restart spawns beside what an earlier process left
\* and a stop can always reach it; READY and DEGRADED are said only of a
\* process that runs, never while its stop is under way (manager.ts:223-241,
\* 1046-1206); and the manager "never reports success while a managed child is
\* alive": a component that is STOPPED with no stop under way, or that a stopAll
\* has stopped, has no living process (README of local-runtime, manager.ts:336-354).
RecordIsTrue ==
    /\ \A p, q \in Procs : tree[p] /\ tree[q] => p = q /\ p \in {child, residual}
    /\ state \in {"READY", "DEGRADED"} => IsChildAlive(child) /\ ~expectedStop
    /\ (state = "STOPPED" /\ stop = NoStop) \/ stopAll = "AFTER" => \A p \in Procs : ~tree[p]

\* A component that was told to stop is started again only by a call of
\* start: no backoff, retry or automatic restart spawns (manager.ts:689-696).
NoSpawnOnceStopped ==
    [][(\E p \in Procs : root[p] = "UNUSED" /\ root'[p] # "UNUSED") =>
          ~expectedStop \/ \E c \in Callers : call[c] \in {"IDLE", "AGAIN"} /\ call'[c] = "STARTING"]_vars

\* Every call of start, restart and stop is answered, however the processes
\* behave: start, stop and cleanup never wait for one another in a circle.
EveryCallEnds ==
    /\ \A c \in Callers : call[c] \notin {"IDLE", "DONE"} ~> call[c] = "DONE"
    /\ stop # NoStop ~> stop = NoStop
    /\ StoppingAll ~> ~StoppingAll
=============================================================================
