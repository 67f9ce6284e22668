--------------------------- MODULE SupervisedProcess ---------------------------
(***************************************************************************)
(* SupervisedProcessRunner (packages/local-runtime): one bounded child     *)
(* process per request.  An execution checks that the executable is the    *)
(* pinned one, makes its private directories, spawns the child in a group  *)
(* (POSIX) or a job (Windows), checks the executable again, writes stdin,  *)
(* waits for the end, and removes the directories.  A deadline, a cancel,  *)
(* a drain or a failed containment may come between any two of these.      *)
(*                                                                         *)
(* What runs without an await is one step, and so is the settlement of an  *)
(* execution that nothing else can wait for.                               *)
(*                                                                         *)
(* Abstractions: the runner has one executable (a failed containment       *)
(* closes the runner for all of them); an identity is a version, used      *)
(* once; output is counted by whether it exceeds its budget; the process   *)
(* tree is a root and whether it has descendants in the group or the job.  *)
(* On Windows the root is the bootstrap, whose end is the end of its job,  *)
(* and which checks the version of the program by itself.                  *)
(***************************************************************************)
EXTENDS Naturals, FiniteSets

CONSTANTS
  Executions,       \* calls of execute
  Platform,         \* "posix" or "win32"
  MaxActive,        \* MAX_ACTIVE_EXECUTIONS
  MaxReplacements,  \* bound on how often the executable is replaced or removed
  MaxDrains,        \* bound on calls of drain
  None

VARIABLES
  file,         \* version of the executable on disk, or None
  versions,     \* versions it has had
  pinned,       \* pinnedIdentities
  hash,         \* identityInitializations: the hash that Windows adds to the pinned identity
  execution,    \* each call of execute
  compromised,  \* containmentCompromised
  drain,        \* the drain in progress, and what it waits for
  drains        \* calls of drain

processVars == <<file, versions, pinned, hash, execution, compromised, drain, drains>>

Versions == 0 .. MaxReplacements

Errors == {"CAPACITY_EXCEEDED", "INVALID_DEFINITION", "EXECUTABLE_UNAVAILABLE", "EXECUTABLE_UNSAFE",
           "SPAWN_FAILED", "EXECUTION_TIMEOUT", "EXECUTION_CANCELLED", "OUTPUT_LIMIT_EXCEEDED",
           "PROCESS_TREE_CLEANUP_FAILED"}

Stages == {"idle", "inspecting", "joining", "hashing", "rechecking", "isolating", "launching", "verifying",
           "writing", "waiting", "residual", "failing", "terminating", "removing", "settled"}

ProcessTypeOK ==
  /\ file \in Versions \cup {None}
  /\ versions \in Versions
  /\ pinned \in Versions \cup {None}
  /\ hash \in {"none", "hashing", "aborted", "done"}
  /\ execution \in [Executions ->
       [stage : Stages,
        aborted : BOOLEAN,                               \* its controller
        why : Errors \cup {None},                        \* interruptionError
        failure : Errors \cup {"OK"},                    \* what it is about to settle with
        cleanup : {"none", "running", "ended"},          \* cleanupStarted
        root : {"none", "alive", "exited", "signalled"},
        descendants : BOOLEAN,
        image : Versions \cup {None},                    \* the version the child was spawned from
        directories : BOOLEAN,
        outcome : Errors \cup {"OK", None}]]             \* how the caller's promise settled
  /\ compromised \in BOOLEAN
  /\ drain \in [on : BOOLEAN, awaits : SUBSET Executions, hash : BOOLEAN]
  /\ drains \in 0 .. MaxDrains

Idle ==
  [stage |-> "idle", aborted |-> FALSE, why |-> None, failure |-> "OK", cleanup |-> "none", root |-> "none",
   descendants |-> FALSE, image |-> None, directories |-> FALSE, outcome |-> None]

NoDrain == [on |-> FALSE, awaits |-> {}, hash |-> FALSE]

\* The constructor pins the executable it finds, except on Windows, where the first use does.
ProcessInit ==
  /\ file \in {0, None}
  /\ versions = 0
  /\ pinned = IF Platform = "posix" THEN file ELSE None
  /\ hash = IF Platform = "posix" THEN "done" ELSE "none"
  /\ execution = [e \in Executions |-> Idle]
  /\ compromised = FALSE
  /\ drain = NoDrain
  /\ drains = 0

-----------------------------------------------------------------------------
(* The parts of a step, as functions of an execution x.                    *)

Admitted(x) == x.stage \notin {"idle", "settled"}

Active == {e \in Executions : Admitted(execution[e])}

\* The child's tree has ended.
Gone(x) == x.root # "alive" /\ ~x.descendants

\* How the promise of execute settles, given how the operation did.
Outcome(x, result, bad) ==
  CASE bad /\ (x.aborted \/ result # "OK") -> "PROCESS_TREE_CLEANUP_FAILED"
    [] ~bad /\ x.aborted /\ result \in {"OK", "EXECUTION_CANCELLED"} -> x.why
    [] OTHER -> result

\* The runner forgets the execution; what is left of its child, and of its directories, is not its concern.
Settled(x, result, bad) ==
  [x EXCEPT !.stage = "settled", !.outcome = Outcome(x, result, bad),
            !.aborted = FALSE, !.why = None, !.failure = "OK"]

\* requestCleanup: the first failure counts, and one termination of the tree is started.
RequestCleanup(x, failure) ==
  [x EXCEPT !.stage = "failing",
            !.failure = failure,
            !.cleanup = IF @ = "none" THEN "running" ELSE @]

\* The controller is aborted.  A second termination, where one is awaited already, changes nothing.
Abort(x, why, bad) ==
  LET aborted == [x EXCEPT !.aborted = TRUE, !.why = why]
  IN CASE ~Admitted(x) \/ x.aborted -> x
       [] Admitted(x) /\ ~x.aborted /\ x.stage \in {"joining", "hashing"} ->
            Settled(aborted, "EXECUTION_CANCELLED", bad)
       [] Admitted(x) /\ ~x.aborted /\ x.stage \in {"verifying", "writing", "waiting"} ->
            RequestCleanup(aborted, "EXECUTION_CANCELLED")
       [] OTHER -> aborted

AbortHash == hash' = IF hash = "hashing" THEN "aborted" ELSE hash

\* quarantineExecutable, by the execution e that has become x.
Quarantine(e, x) ==
  /\ compromised' = TRUE
  /\ execution' = [f \in Executions |->
                     Abort(IF f = e THEN x ELSE execution[f], "EXECUTION_CANCELLED", TRUE)]
  /\ AbortHash

Become(e, x) ==
  /\ execution' = [execution EXCEPT ![e] = x]
  /\ UNCHANGED <<compromised, hash>>

\* The operation of e ends before there are directories to remove.
Settle(e, result) == Become(e, Settled(execution[e], result, compromised))

\* runChild ends, or was not reached: the directories are removed next.
Finish(e, x, result) ==
  LET finished == [x EXCEPT !.stage = "removing", !.failure = result]
  IN IF result = "PROCESS_TREE_CLEANUP_FAILED" THEN Quarantine(e, finished) ELSE Become(e, finished)

\* The catch of runChild: a root that is still alive is terminated, with its tree; one that is not is left.
Throw(e, x, failure) ==
  IF x.root = "alive"
  THEN Become(e, [x EXCEPT !.stage = "terminating", !.failure = failure])
  ELSE Finish(e, x, failure)

-----------------------------------------------------------------------------
(* Admission and interruption.                                             *)

Execute(e) ==
  /\ execution[e].stage = "idle"
  /\ Become(e, CASE compromised -> Settled(execution[e], "PROCESS_TREE_CLEANUP_FAILED", FALSE)
                 [] ~compromised /\ drain.on -> Settled(execution[e], "EXECUTION_CANCELLED", FALSE)
                 [] ~compromised /\ ~drain.on /\ Cardinality(Active) >= MaxActive ->
                      Settled(execution[e], "CAPACITY_EXCEEDED", FALSE)
                 [] OTHER -> [execution[e] EXCEPT !.stage = "inspecting"])
  /\ UNCHANGED <<file, versions, pinned, drain, drains>>

Interrupt(e, why) ==
  /\ e \in Active
  /\ ~execution[e].aborted
  /\ Become(e, Abort(execution[e], why, compromised))
  /\ UNCHANGED <<file, versions, pinned, drain, drains>>

CancelCall(e) == Interrupt(e, "EXECUTION_CANCELLED")

Deadline(e) == Interrupt(e, "EXECUTION_TIMEOUT")

-----------------------------------------------------------------------------
(* The identity of the executable.                                         *)

Continue(e, stage) == Become(e, [execution[e] EXCEPT !.stage = stage])

\* The identity is pinned, or compared, and hashed unless it was: an aborted execution does not wait for that.
PinOrCompare(e) ==
  IF pinned \notin {None, file}
  THEN Settle(e, "EXECUTABLE_UNSAFE") /\ UNCHANGED pinned
  ELSE /\ pinned' = file
       /\ IF hash = "done"
          THEN Continue(e, "rechecking")
          ELSE /\ execution' = [execution EXCEPT ![e] =
                    IF @.aborted THEN Settled(@, "EXECUTION_CANCELLED", compromised)
                                 ELSE [@ EXCEPT !.stage = "hashing"]]
               /\ hash' = IF hash = "none" THEN "hashing" ELSE hash
               /\ UNCHANGED compromised

Inspect(e) ==
  /\ execution[e].stage = "inspecting"
  /\ CASE file = None -> Settle(e, "EXECUTABLE_UNAVAILABLE") /\ UNCHANGED pinned
       [] file # None /\ hash \in {"hashing", "aborted"} ->
            /\ IF execution[e].aborted THEN Settle(e, "EXECUTION_CANCELLED") ELSE Continue(e, "joining")
            /\ UNCHANGED pinned
       [] OTHER -> PinOrCompare(e)
  /\ UNCHANGED <<file, versions, drain, drains>>

\* initializeWindowsExecutableIdentity ends, for all who wait for it.
HashEnds ==
  /\ hash \in {"hashing", "aborted"}
  /\ \E hashed \in BOOLEAN :
       /\ hashed => hash = "hashing" /\ file = pinned
       /\ hash' = IF hashed THEN "done" ELSE "none"
       /\ execution' = [e \in Executions |->
            CASE execution[e].stage = "hashing" /\ hashed -> [execution[e] EXCEPT !.stage = "rechecking"]
              [] execution[e].stage = "joining" /\ hashed -> [execution[e] EXCEPT !.stage = "inspecting"]
              [] execution[e].stage \in {"hashing", "joining"} /\ ~hashed ->
                   Settled(execution[e], "EXECUTABLE_UNSAFE", compromised)
              [] OTHER -> execution[e]]
  /\ UNCHANGED <<file, versions, pinned, compromised, drain, drains>>

Recheck(e) ==
  /\ execution[e].stage = "rechecking"
  /\ CASE file = None -> Settle(e, "EXECUTABLE_UNAVAILABLE")
       [] file # None /\ file # pinned -> Settle(e, "EXECUTABLE_UNSAFE")
       [] file = pinned /\ execution[e].aborted -> Settle(e, "EXECUTION_CANCELLED")
       [] OTHER -> Continue(e, "isolating")
  /\ UNCHANGED <<file, versions, pinned, drain, drains>>

-----------------------------------------------------------------------------
(* The child.                                                              *)

\* spawn, up to the second inspection of the executable.
Spawn(e, x) ==
  IF file = None
  THEN Finish(e, x, "SPAWN_FAILED")
  ELSE Become(e, [x EXCEPT !.stage = "verifying", !.root = "alive", !.image = file])

\* createExecutionIsolation: what it made before it failed is removed again, or the runner is closed.
IsolationFails(e) ==
  /\ execution[e].stage = "isolating"
  /\ \/ Settle(e, "INVALID_DEFINITION")
     \/ Quarantine(e, Settled([execution[e] EXCEPT !.directories = TRUE], "PROCESS_TREE_CLEANUP_FAILED", TRUE))
  /\ UNCHANGED <<file, versions, pinned, drain, drains>>

Isolate(e) ==
  /\ execution[e].stage = "isolating"
  /\ LET isolated == [execution[e] EXCEPT !.directories = TRUE]
     IN CASE isolated.aborted -> Finish(e, isolated, "EXECUTION_CANCELLED")
          [] ~isolated.aborted /\ Platform = "posix" -> Spawn(e, isolated)
          [] OTHER -> Become(e, [isolated EXCEPT !.stage = "launching"])
  /\ UNCHANGED <<file, versions, pinned, drain, drains>>

\* prepareWindowsSupervisorLaunch, and the spawn of the bootstrap.
Launch(e) ==
  /\ execution[e].stage = "launching"
  /\ IF execution[e].aborted
     THEN Finish(e, execution[e], "EXECUTION_CANCELLED")
     ELSE \/ Finish(e, execution[e], "EXECUTABLE_UNSAFE")
          \/ Spawn(e, execution[e])
  /\ UNCHANGED <<file, versions, pinned, drain, drains>>

\* The executable (on Windows: the bootstrap, which stays) is inspected again, after the spawn.
Verify(e) ==
  /\ execution[e].stage = "verifying"
  /\ CASE Platform = "posix" /\ file = None -> Throw(e, execution[e], "EXECUTABLE_UNAVAILABLE")
       [] Platform = "posix" /\ file # None /\ file # pinned ->
            Become(e, RequestCleanup(execution[e], "EXECUTABLE_UNSAFE"))
       [] OTHER -> Continue(e, "writing")
  /\ UNCHANGED <<file, versions, pinned, drain, drains>>

WriteStdin(e) ==
  /\ execution[e].stage = "writing"
  /\ Continue(e, "waiting")
  /\ UNCHANGED <<file, versions, pinned, drain, drains>>

\* The child does not read: the error event asks for the cleanup, the failed write throws past it.
StdinFails(e) ==
  /\ execution[e].stage = "writing"
  /\ Throw(e, RequestCleanup(execution[e], "SPAWN_FAILED"), "SPAWN_FAILED")
  /\ UNCHANGED <<file, versions, pinned, drain, drains>>

\* stdout or stderr exceeds its budget.
Overflow(e) ==
  /\ execution[e].stage \in {"verifying", "writing", "waiting"}
  /\ Become(e, RequestCleanup(execution[e], "OUTPUT_LIMIT_EXCEEDED"))
  /\ UNCHANGED <<file, versions, pinned, drain, drains>>

\* What the exit of the root means: without an exit code the tree is not known to have ended.
Exited(e, x) == Finish(e, x, IF x.root = "signalled" THEN "PROCESS_TREE_CLEANUP_FAILED" ELSE "OK")

\* The root has exited and its pipes are closed: on POSIX, what is left of the group is killed.
Close(e) ==
  /\ execution[e].stage = "waiting"
  /\ execution[e].root # "alive"
  /\ IF Gone(execution[e]) THEN Exited(e, execution[e]) ELSE Continue(e, "residual")
  /\ UNCHANGED <<file, versions, pinned, drain, drains>>

ResidualEnds(e) ==
  /\ execution[e].stage = "residual"
  /\ IF Gone(execution[e]) THEN Exited(e, execution[e])
                           ELSE Finish(e, execution[e], "PROCESS_TREE_CLEANUP_FAILED")
  /\ UNCHANGED <<file, versions, pinned, drain, drains>>

\* What a termination may report: that the tree has ended, or that it could not tell within its time.
Verdicts(x) ==
  {verdict \in {"verified", "failed"} :
     /\ verdict = "verified" => Gone(x)
     /\ verdict = "failed" /\ Platform = "posix" => ~Gone(x)}

\* The termination requestCleanup started ends; runChild waits for it where it is failing.
CleanupEnds(e) ==
  /\ execution[e].cleanup = "running"
  /\ \E verdict \in Verdicts(execution[e]) :
       LET x == [execution[e] EXCEPT !.cleanup = "ended"]
       IN IF x.stage = "failing"
          THEN Throw(e, x, IF verdict = "verified" THEN x.failure ELSE "PROCESS_TREE_CLEANUP_FAILED")
          ELSE Become(e, x)
  /\ UNCHANGED <<file, versions, pinned, drain, drains>>

\* The termination in the catch of runChild ends.
TerminationEnds(e) ==
  /\ execution[e].stage = "terminating"
  /\ \E verdict \in Verdicts(execution[e]) :
       Finish(e, execution[e], IF verdict = "verified" THEN execution[e].failure ELSE "PROCESS_TREE_CLEANUP_FAILED")
  /\ UNCHANGED <<file, versions, pinned, drain, drains>>

\* cleanupIsolationOrQuarantine, the last step.
Remove(e) ==
  /\ execution[e].stage = "removing"
  /\ Become(e, Settled([execution[e] EXCEPT !.directories = FALSE], execution[e].failure, compromised))
  /\ UNCHANGED <<file, versions, pinned, drain, drains>>

RemovalFails(e) ==
  /\ execution[e].stage = "removing"
  /\ Quarantine(e, Settled(execution[e], "PROCESS_TREE_CLEANUP_FAILED", TRUE))
  /\ UNCHANGED <<file, versions, pinned, drain, drains>>

-----------------------------------------------------------------------------
(* drain.                                                                  *)

Drain ==
  /\ drains < MaxDrains
  /\ ~drain.on
  /\ drains' = drains + 1
  /\ execution' = [e \in Executions |-> Abort(execution[e], "EXECUTION_CANCELLED", compromised)]
  /\ AbortHash
  /\ drain' = [on |-> TRUE, awaits |-> Active, hash |-> hash \in {"hashing", "aborted"}]
  /\ UNCHANGED <<file, versions, pinned, compromised>>

DrainEnds ==
  /\ drain.on
  /\ drain.awaits \cap Active = {}
  /\ drain.hash => hash # "aborted"
  /\ drain' = NoDrain
  /\ UNCHANGED <<file, versions, pinned, hash, execution, compromised, drains>>

DrainTimesOut ==
  /\ drain.on
  /\ drain.awaits \cap Active # {} \/ (drain.hash /\ hash = "aborted")
  /\ compromised' = TRUE
  /\ drain' = NoDrain
  /\ UNCHANGED <<file, versions, pinned, hash, execution, drains>>

-----------------------------------------------------------------------------
(* What the runner does not do itself.                                     *)

Tree(e, x) ==
  /\ execution' = [execution EXCEPT ![e] = x]
  /\ UNCHANGED <<file, versions, pinned, hash, compromised, drain, drains>>

\* The root exits, or is killed; on Windows its job ends with it.
RootExits(e) ==
  /\ execution[e].root = "alive"
  /\ \E how \in IF Platform = "posix" THEN {"exited", "signalled"} ELSE {"exited"} :
       Tree(e, [execution[e] EXCEPT !.root = how, !.descendants = @ /\ Platform = "posix"])

DescendantStarts(e) ==
  /\ execution[e].root = "alive"
  /\ ~execution[e].descendants
  /\ Tree(e, [execution[e] EXCEPT !.descendants = TRUE])

DescendantsExit(e) ==
  /\ execution[e].descendants
  /\ Tree(e, [execution[e] EXCEPT !.descendants = FALSE])

\* The executable is installed, replaced or removed.
Replace ==
  /\ versions < MaxReplacements
  /\ versions' = versions + 1
  /\ file' \in {versions + 1, None} \ {file}
  /\ UNCHANGED <<pinned, hash, execution, compromised, drain, drains>>

ProcessNext ==
  \/ \E e \in Executions :
       \/ Execute(e) \/ CancelCall(e) \/ Deadline(e) \/ Inspect(e) \/ Recheck(e) \/ Isolate(e) \/ IsolationFails(e)
       \/ Launch(e) \/ Verify(e) \/ WriteStdin(e) \/ StdinFails(e) \/ Overflow(e) \/ Close(e) \/ ResidualEnds(e)
       \/ CleanupEnds(e) \/ TerminationEnds(e) \/ Remove(e) \/ RemovalFails(e)
       \/ RootExits(e) \/ DescendantStarts(e) \/ DescendantsExit(e)
  \/ HashEnds \/ Drain \/ DrainEnds \/ DrainTimesOut \/ Replace

\* Timers fire and the calls of the file system end; no process has to end.
ProcessFairness ==
  /\ \A e \in Executions :
       /\ WF_processVars(Deadline(e)) /\ WF_processVars(Inspect(e)) /\ WF_processVars(Recheck(e))
       /\ WF_processVars(Isolate(e) \/ IsolationFails(e)) /\ WF_processVars(Launch(e))
       /\ WF_processVars(Verify(e)) /\ WF_processVars(ResidualEnds(e)) /\ WF_processVars(CleanupEnds(e))
       /\ WF_processVars(TerminationEnds(e))
       /\ WF_processVars(Remove(e) \/ RemovalFails(e))
  /\ WF_processVars(HashEnds)
  /\ WF_processVars(DrainEnds \/ DrainTimesOut)

ProcessSpec == ProcessInit /\ [][ProcessNext]_processVars /\ ProcessFairness

-----------------------------------------------------------------------------
(* Properties.                                                             *)

\* An execution whose outcome says that the child ended, or was stopped in time or for its output, has left
\* no process: a stop in the middle of the group's last processes is not reported as a clean one.
OutcomeIsProven ==
  \A e \in Executions :
    execution[e].outcome \in {"OK", "EXECUTION_TIMEOUT", "EXECUTION_CANCELLED", "OUTPUT_LIMIT_EXCEEDED",
                              "EXECUTABLE_UNSAFE"}
      => Gone(execution[e])

\* "a normally exiting root is followed by a residual process-group check so descendants cannot intentionally
\* remain in that owned group": an execution that is over has left no process, or the runner is closed.
TreesAreContained ==
  \A e \in Executions : execution[e].stage = "settled" => Gone(execution[e]) \/ compromised

\* What a request has to say is written to no other program than the pinned one, whatever happens to the
\* file between the inspections and the spawn.
InputOnlyToPinned ==
  \A e \in Executions :
    execution[e].stage \in {"waiting", "residual"} \/ execution[e].outcome = "OK" => execution[e].image = pinned

\* An execution that is over has left no directory behind (a home with the settings of a provider), or the
\* runner is closed.
DirectoriesAreRemoved ==
  \A e \in Executions : execution[e].stage = "settled" => ~execution[e].directories \/ compromised

\* Nothing is started while the runner drains, nor ever after its containment failed, by whatever was on its
\* way to do so.
NoStartAfterStop ==
  [][\A e \in Executions :
       execution[e].root = "none" /\ execution'[e].root # "none" => ~drain.on /\ ~compromised]_processVars

\* A drain that succeeds has left nothing: no execution on its way, no process, no directory.
DrainMeansQuiet ==
  [][drain.on /\ ~drain'.on /\ ~compromised'
       => \A e \in Executions : e \notin Active /\ Gone(execution[e]) /\ ~execution[e].directories]_processVars

\* Every execution settles, also when its process cannot be killed, and every drain ends.
ExecutionsSettle ==
  /\ \A e \in Executions : e \in Active ~> e \notin Active
  /\ drain.on ~> ~drain.on
=============================================================================
