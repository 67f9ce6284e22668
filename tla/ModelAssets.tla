----------------------------- MODULE ModelAssets -----------------------------
(***************************************************************************)
(* ModelAssets: the cache of model files on disk and the managers of one   *)
(* process that install into it, remove from it and clean it.  Managers    *)
(* share two promise gates (first come, first served), the reservations,   *)
(* the counts of active installations and the limits in force; each has a  *)
(* map of its own that joins requests for one artifact.                    *)
(*                                                                         *)
(* An artifact has a size in abstract units.  A scan of the cache and the  *)
(* removal of one entry are a step each; a removal that fails leaves a     *)
(* tombstone, which counts as used until a cleanup.  A crash keeps the disk*)
(* and loses everything else.  lastFailures and the stages shown by inspect*)
(* are left out, and so is the pruning of shared state that is empty.      *)
(***************************************************************************)
EXTENDS Naturals, Sequences, FiniteSets, Functions

CONSTANTS Managers,   \* the managers of one cache
          Artifacts,  \* installation keys
          Clients,    \* calls of install and importLocal
          Tasks,      \* calls of remove, cleanupTemporary and clearUnused
          Size,       \* bytes of an artifact with its manifest
          Limit,      \* maxCacheBytes of the managers that have one
          Requests,   \* the managers a caller may ask, and for what
          Keeps,      \* the keep-sets clearUnused may be called with
          Damaged,    \* the artifacts an earlier run left corrupt
          MaxCrashes, \* bound: crashes of the process
          Nil

ASSUME SizeAssumption    == Size \in [Artifacts -> Nat \ {0}] /\ IsFiniteSet(Artifacts)
ASSUME LimitAssumption   == /\ DOMAIN Limit \subseteq Managers
                            /\ Limit \in [DOMAIN Limit -> Nat \ {0}]
ASSUME ClientsAssumption == /\ Requests \in [Clients -> SUBSET (Managers \X Artifacts)]
                            /\ Clients \cap Tasks = {} /\ IsFiniteSet(Clients)
                            /\ Nil \notin Clients \cup Artifacts \cup Managers
ASSUME CacheAssumption   == /\ Keeps \subseteq SUBSET Artifacts
                            /\ Damaged \subseteq Artifacts /\ MaxCrashes \in Nat

VARIABLES artifacts,  \* artifacts/: what is under each key
          tombstones, \* artifacts/: bytes of removals that did not finish
          debris,     \* tmp/: bytes of staging directories nobody owns
          staging,    \* tmp/: the staging directory of each installation
          reservations,  \* stagingReservations, by installation
          reservedBytes, \* their sum, kept beside them
          active,     \* activeInstallationCounts
          limits,     \* activeCacheLimitCounts
          gate,       \* who holds and who awaits each gate, in order
          inFlight,   \* each manager's inFlight: the call that made the entry
          op,         \* the installation of each entry
          request,       \* each caller's request
          task,       \* each removal or cleanup
          crashesLeft

disk       == <<artifacts, tombstones, debris, staging>>
shared     == <<reservations, reservedBytes, active, limits>>
assetsVars == <<disk, shared, gate, inFlight, op, request, task, crashesLeft>>

Gates   == {"CAPACITY", "MUTATION"}
Users   == Clients \cup Tasks
NoOp    == [at |-> "NONE", manager |-> Nil, artifact |-> Nil, aborted |-> FALSE, result |-> "NONE"]
NoCall  == [at |-> "IDLE", on |-> Nil]
NoTask  == [at |-> "IDLE", keep |-> {}]
Results == {"OK", "CANCELLED", "FAILED"}

\* Every variable holds a value of its kind (manager.ts:85-110).
AssetsTypeOK ==
    /\ artifacts \in [Artifacts -> {"ABSENT", "CORRUPT", "INSTALLED"}]
    /\ tombstones \in Nat /\ debris \in Nat
    /\ staging \in [Clients -> {"NONE", "PARTIAL", "BAD", "GOOD"}]
    /\ reservations \in [Clients -> Nat] /\ reservedBytes \in Nat
    /\ active \in [Artifacts -> Nat]
    /\ limits \in [Range(Limit) -> Nat]
    /\ gate \in [Gates -> Seq(Users)]
    /\ inFlight \in [Managers -> [Artifacts -> Clients \cup {Nil}]]
    /\ op \in [Clients -> [at : {"NONE", "BEGIN", "CHECK", "RESERVE", "RECORD", "STAGE",
                                 "TRANSFER", "RECONCILE", "REPAIR", "PUBLISH", "RENAME",
                                 "RACED", "RELEASE", "END", "OVER"},
                           manager : Managers \cup {Nil}, artifact : Artifacts \cup {Nil},
                           aborted : BOOLEAN,
                           result : Results \cup {"NONE"}]]
    /\ request \in [Clients -> [at : {"IDLE", "WAITING", "AFTER", "ANSWERED", "CANCELLED",
                                   "WITHDRAWN", "LOST"},
                             on : Clients \cup {Nil}]]
    /\ task \in [Tasks -> [at : {"IDLE", "REMOVE", "REMOVING", "CLEANUP", "CLEANING",
                                 "CLEAR", "CLEARING", "DONE"},
                           keep : SUBSET Artifacts]]
    /\ crashesLeft \in 0 .. MaxCrashes

\* A cache as an earlier run of the program left it.
AssetsInit ==
    /\ artifacts = [a \in Artifacts |-> IF a \in Damaged THEN "CORRUPT" ELSE "ABSENT"]
    /\ debris = 0 /\ tombstones = 0
    /\ staging = [e \in Clients |-> "NONE"]
    /\ reservations = [e \in Clients |-> 0] /\ reservedBytes = 0
    /\ active = [a \in Artifacts |-> 0]
    /\ limits = [l \in Range(Limit) |-> 0]
    /\ gate = [g \in Gates |-> <<>>]
    /\ inFlight = [m \in Managers |-> [a \in Artifacts |-> Nil]]
    /\ op = [e \in Clients |-> NoOp]
    /\ request = [c \in Clients |-> NoCall]
    /\ task = [t \in Tasks |-> NoTask]
    /\ crashesLeft = MaxCrashes

-----------------------------------------------------------------------------
(* The gates: each stage names those it holds, in the order it takes them *)

\* Mutant: a removal takes the mutation gate first.
MutationFirst(stage) ==
    CASE stage \in {"BEGIN", "PUBLISH", "RENAME", "END"}     -> <<"CAPACITY", "MUTATION">>
      [] stage \in {"REMOVE", "REMOVING"}                    -> <<"MUTATION", "CAPACITY">>
      [] stage \in {"RESERVE", "RECORD", "RELEASE"}          -> <<"CAPACITY">>
      [] stage \in {"RECONCILE", "REPAIR", "CLEANUP", "CLEANING", "CLEAR", "CLEARING"}
                                                             -> <<"MUTATION">>
      [] OTHER                                               -> <<>>

\* withCapacityGate and withMutationGate around the sections of the manager.
GatesOf(stage) ==
    CASE stage \in {"BEGIN", "PUBLISH", "RENAME", "END", "REMOVE", "REMOVING"}
                                                             -> <<"CAPACITY", "MUTATION">>
      [] stage \in {"RESERVE", "RECORD", "RELEASE"}          -> <<"CAPACITY">>
      [] stage \in {"RECONCILE", "REPAIR", "CLEANUP", "CLEANING", "CLEAR", "CLEARING"}
                                                             -> <<"MUTATION">>
      [] OTHER                                               -> <<>>

Holds(u, g) == gate[g] # <<>> /\ Head(gate[g]) = u
Awaits(u, g) == \E i \in DOMAIN gate[g] : gate[g][i] = u
Stage(u) == IF u \in Clients THEN op[u].at ELSE task[u].at
Inside(u) == \A g \in Range(GatesOf(Stage(u))) : Holds(u, g)

\* The outer gate is held: queue for the inner one.
Nest(u) ==
    /\ Len(GatesOf(Stage(u))) = 2
    /\ Holds(u, GatesOf(Stage(u))[1]) /\ ~Awaits(u, GatesOf(Stage(u))[2])
    /\ gate' = [gate EXCEPT ![GatesOf(Stage(u))[2]] = Append(@, u)]
    /\ UNCHANGED <<disk, shared, inFlight, op, request, task, crashesLeft>>

\* u releases what it holds and queues for the outer gate of a stage.
Requeue(u, stage) ==
    [g \in Gates |->
        LET others == IF Holds(u, g) THEN Tail(gate[g]) ELSE gate[g]
        IN  IF GatesOf(stage) # <<>> /\ g = GatesOf(stage)[1] THEN Append(others, u)
            ELSE others]

Go(e, stage)         == op' = [op EXCEPT ![e].at = stage] /\ gate' = Requeue(e, stage)
Stay(e, stage)       == op' = [op EXCEPT ![e].at = stage] /\ UNCHANGED gate
Fail(e, stage, with) == /\ op' = [op EXCEPT ![e].at = stage, ![e].result = with]
                        /\ gate' = Requeue(e, stage)

-----------------------------------------------------------------------------
(* What is in the cache *)

Bytes(e)   == Size[op[e].artifact]
Limited(e) == op[e].manager \in DOMAIN Limit
LimitOf(e) == Limit[op[e].manager]

\* The sum of a function to the natural numbers, counted in units: what is
\* known of cardinalities is then known of it.
Total(f) == Cardinality(UNION {{x} \X (1 .. f[x]) : x \in DOMAIN f})

SizeOn(a)     == IF artifacts[a] = "ABSENT" THEN 0 ELSE Size[a]
ArtifactBytes == Total([a \in Artifacts |-> SizeOn(a)])

\* managedCacheBytes: everything but the staging directories that are active.
UsedBytes == ArtifactBytes + tombstones + debris

\* stagingCommitmentBytes: a staging directory holds at most what it reserved.
CommittedBytes == Total(reservations)

\* Mutant: every installation looks at the limit of its own manager.
OwnLimit(e) == IF Limited(e) THEN {LimitOf(e)} ELSE {}

\* activeCacheLimitCounts.keys()
ActiveLimits(e) == {l \in DOMAIN limits : limits[l] > 0}

\* A projection is within the strictest limit in force.
Fits(e, bytes) == \A l \in ActiveLimits(e) : bytes <= l

-----------------------------------------------------------------------------
(* Requests: joinOrStart, waitForEntry *)

\* Mutant: a request joins an installation that is being given up.
JoinAnything(e) == TRUE

\* An entry whose last waiter left is not joined but waited for.
MayJoin(e) == ~op[e].aborted

NewOp(m, a) == [NoOp EXCEPT !.at = "BEGIN", !.manager = m, !.artifact = a]

\* install or importLocal.
Install(c, m, a) ==
    LET e == inFlight[m][a]
    IN  /\ request[c].at = "IDLE" /\ <<m, a>> \in Requests[c]
        /\ \/ /\ e = Nil
              /\ inFlight' = [inFlight EXCEPT ![m][a] = c]
              /\ op' = [op EXCEPT ![c] = NewOp(m, a)]
              /\ request' = [request EXCEPT ![c] = [at |-> "WAITING", on |-> c]]
              /\ gate' = Requeue(c, "BEGIN")
           \/ /\ e # Nil
              /\ request' = [request EXCEPT ![c] = 
                             [at |-> IF MayJoin(e) THEN "WAITING" ELSE "AFTER", on |-> e]]
              /\ UNCHANGED <<inFlight, op, gate>>
        /\ UNCHANGED <<disk, shared, task, crashesLeft>>

WaitersOf(e) == {c \in Clients : request[c].at = "WAITING" /\ request[c].on = e}

\* A caller's signal: the last waiter to leave aborts the installation.
Cancel(c) ==
    /\ request[c].at \in {"WAITING", "AFTER"}
    /\ request' = [request EXCEPT ![c] = [NoCall EXCEPT !.at = "WITHDRAWN"]]
    /\ op' = IF WaitersOf(request[c].on) = {c} THEN [op EXCEPT ![request[c].on].aborted = TRUE]
             ELSE op
    /\ UNCHANGED <<disk, shared, gate, inFlight, task, crashesLeft>>

-----------------------------------------------------------------------------
(* performInstallation *)

CountIn(n) == n + 1

\* beginSharedInstallation.
Begin(e) ==
    /\ op[e].at = "BEGIN" /\ Inside(e)
    /\ active' = [active EXCEPT ![op[e].artifact] = CountIn(@)]
    /\ limits' = IF Limited(e) THEN [limits EXCEPT ![LimitOf(e)] = CountIn(@)]
                 ELSE limits
    /\ Go(e, "CHECK")
    /\ UNCHANGED <<disk, reservations, reservedBytes, inFlight, request, task, crashesLeft>>

\* The first look: it is there, cannot be told (or is called off), or is not.
Check(e) ==
    /\ op[e].at = "CHECK"
    /\ \/ ~op[e].aborted /\ artifacts[op[e].artifact] = "INSTALLED" /\ Fail(e, "END", "OK")
       \/ ~op[e].aborted /\ Fail(e, "END", "FAILED")
       \/ op[e].aborted /\ Fail(e, "END", "CANCELLED")
       \/ ~op[e].aborted /\ artifacts[op[e].artifact] # "INSTALLED" /\ Go(e, "RESERVE")
    /\ UNCHANGED <<disk, shared, inFlight, request, task, crashesLeft>>

\* reserveCapacity up to its last await: limits, then the free disk space.
Reserve(e) ==
    /\ op[e].at = "RESERVE" /\ Inside(e)
    /\ \/ op[e].aborted /\ Fail(e, "END", "CANCELLED")
       \/ ~op[e].aborted /\ Fail(e, "END", "FAILED")
       \/ /\ ~op[e].aborted
          /\ Fits(e, UsedBytes + CommittedBytes + Bytes(e))
          /\ Stay(e, "RECORD")
    /\ UNCHANGED <<disk, shared, inFlight, request, task, crashesLeft>>

\* reserveCapacity after it.
Record(e) ==
    /\ op[e].at = "RECORD"
    /\ \/ /\ op[e].aborted /\ Fail(e, "END", "CANCELLED")
          /\ UNCHANGED <<reservations, reservedBytes>>
       \/ /\ ~op[e].aborted /\ Go(e, "STAGE")
          /\ reservations' = [reservations EXCEPT ![e] = Bytes(e)]
          /\ reservedBytes' = reservedBytes + Bytes(e)
    /\ UNCHANGED <<disk, active, limits, inFlight, request, task, crashesLeft>>

\* The staging directory is made, or that fails.
StageDirectory(e) ==
    /\ op[e].at = "STAGE"
    /\ \/ /\ op[e].aborted /\ Fail(e, "RELEASE", "CANCELLED") /\ UNCHANGED staging
       \/ /\ ~op[e].aborted /\ Fail(e, "RELEASE", "FAILED") /\ UNCHANGED staging
       \/ /\ ~op[e].aborted /\ Go(e, "TRANSFER")
          /\ staging' = [staging EXCEPT ![e] = "PARTIAL"]
    /\ UNCHANGED <<artifacts, tombstones, debris, shared, inFlight, request, task, crashesLeft>>

\* verifyArtifactFileWithIdentity
Verified(content) == content = "GOOD"

\* The transfer ends, fails, times out or is aborted; what came is verified.
Transfer(e) ==
    /\ op[e].at = "TRANSFER"
    /\ \/ /\ op[e].aborted /\ Fail(e, "RELEASE", "CANCELLED") /\ UNCHANGED staging
       \/ /\ ~op[e].aborted /\ Fail(e, "RELEASE", "FAILED") /\ UNCHANGED staging
       \/ \E content \in {"GOOD", "BAD"} :
            /\ ~op[e].aborted
            /\ staging' = [staging EXCEPT ![e] = content]
            /\ IF Verified(content) THEN Go(e, "RECONCILE") ELSE Fail(e, "RELEASE", "FAILED")
    /\ UNCHANGED <<artifacts, tombstones, debris, shared, inFlight, request, task, crashesLeft>>

\* reconcileDestinationForInstall: what is under the key by now.
Reconcile(e) ==
    /\ op[e].at = "RECONCILE" /\ Inside(e)
    /\ \/ op[e].aborted /\ Fail(e, "RELEASE", "CANCELLED")
       \/ ~op[e].aborted /\ Fail(e, "RELEASE", "FAILED")
       \/ /\ ~op[e].aborted
          /\ CASE artifacts[op[e].artifact] = "INSTALLED" -> Fail(e, "RELEASE", "OK")
               [] artifacts[op[e].artifact] = "CORRUPT"   -> Stay(e, "REPAIR")
               [] artifacts[op[e].artifact] = "ABSENT"    -> Go(e, "PUBLISH")
    /\ UNCHANGED <<disk, shared, inFlight, request, task, crashesLeft>>

\* removeEntryInsideRoot: gone, or a tombstone stays, or it could not begin.
RemoveArtifact(a, done) ==
    \/ done /\ artifacts' = [artifacts EXCEPT ![a] = "ABSENT"] /\ UNCHANGED tombstones
    \/ /\ ~done /\ artifacts[a] # "ABSENT"
       /\ \/ UNCHANGED <<artifacts, tombstones>>
          \/ /\ artifacts' = [artifacts EXCEPT ![a] = "ABSENT"]
             /\ tombstones' = tombstones + Size[a]

\* The corrupt entry is removed, in the same section.
Repair(e) ==
    /\ op[e].at = "REPAIR"
    /\ \E done \in BOOLEAN :
         /\ RemoveArtifact(op[e].artifact, done)
         /\ IF done THEN Go(e, "PUBLISH") ELSE Fail(e, "RELEASE", "FAILED")
    /\ UNCHANGED <<debris, staging, shared, inFlight, request, task, crashesLeft>>

\* publishReservedArtifact up to the rename: the limit is looked at again.
Publish(e) ==
    /\ op[e].at = "PUBLISH" /\ Inside(e)
    /\ \/ op[e].aborted /\ Fail(e, "RELEASE", "CANCELLED")
       \/ ~op[e].aborted /\ Fail(e, "RELEASE", "FAILED")
       \/ ~op[e].aborted /\ ~Fits(e, UsedBytes + CommittedBytes) /\ Go(e, "RACED")
       \/ ~op[e].aborted /\ Fits(e, UsedBytes + CommittedBytes) /\ Stay(e, "RENAME")
    /\ UNCHANGED <<disk, shared, inFlight, request, task, crashesLeft>>

\* What the renamed directory holds.
Published(content) == IF content = "GOOD" THEN "INSTALLED" ELSE "CORRUPT"

\* The rename, which a directory in its way fails, and the checks after it.
Rename(e) ==
    /\ op[e].at = "RENAME"
    /\ \/ /\ Go(e, "RACED")
          /\ UNCHANGED <<artifacts, staging, reservations, reservedBytes>>
       \/ /\ artifacts[op[e].artifact] = "ABSENT"
          /\ artifacts' = [artifacts EXCEPT ![op[e].artifact] = Published(staging[e])]
          /\ staging' = [staging EXCEPT ![e] = "NONE"]
          /\ reservations' = [reservations EXCEPT ![e] = 0]
          /\ reservedBytes' = reservedBytes - Bytes(e)
          /\ \/ Fail(e, "END", "OK")
             \/ Fail(e, "RELEASE", "FAILED")
             \/ Go(e, "RACED")
    /\ UNCHANGED <<tombstones, debris, active, limits, inFlight, request, task, crashesLeft>>

\* Publication failed: another installation may have been first.
Raced(e) ==
    /\ op[e].at = "RACED"
    /\ \/ /\ ~op[e].aborted /\ artifacts[op[e].artifact] = "INSTALLED"
          /\ Fail(e, "RELEASE", "OK")
       \/ ~op[e].aborted /\ Fail(e, "RELEASE", "FAILED")
       \/ op[e].aborted /\ Fail(e, "RELEASE", "CANCELLED")
    /\ UNCHANGED <<disk, shared, inFlight, request, task, crashesLeft>>

Returned(e) == [reservations EXCEPT ![e] = 0]

\* releaseCapacity: the staging directory goes with its reservation; what of
\* it cannot be removed stays behind.
Release(e) ==
    /\ op[e].at = "RELEASE" /\ Inside(e)
    /\ reservations' = Returned(e)
    /\ reservedBytes' = reservedBytes - reservations[e]
    /\ staging' = [staging EXCEPT ![e] = "NONE"]
    /\ \/ UNCHANGED debris
       \/ staging[e] # "NONE" /\ debris' = debris + Bytes(e)
    /\ Go(e, "END")
    /\ UNCHANGED <<artifacts, tombstones, active, limits, inFlight, request, task, crashesLeft>>

\* endSharedInstallation; the entry is settled, its waiters are answered, and
\* of those who waited for it to be over the first starts anew.
End(e) ==
    LET m == op[e].manager
        a == op[e].artifact
        again == {c \in Clients : request[c].at = "AFTER" /\ request[c].on = e}
        answer == IF op[e].result = "CANCELLED" THEN "CANCELLED" ELSE "ANSWERED"
        settled == [c \in Clients |-> IF c \in WaitersOf(e)
                                      THEN [NoCall EXCEPT !.at = answer] ELSE request[c]]
        over == [op EXCEPT ![e] = [NoOp EXCEPT !.at = "OVER"]]
    IN  /\ op[e].at = "END" /\ Inside(e)
        /\ active' = [active EXCEPT ![a] = @ - 1]
        /\ limits' = IF Limited(e) THEN [limits EXCEPT ![Limit[m]] = @ - 1] ELSE limits
        /\ IF again = {}
           THEN /\ inFlight' = [inFlight EXCEPT ![m][a] = Nil]
                /\ op' = over /\ request' = settled /\ gate' = Requeue(e, "OVER")
           ELSE \E first \in again :
                /\ inFlight' = [inFlight EXCEPT ![m][a] = first]
                /\ op' = [over EXCEPT ![first] = NewOp(m, a)]
                /\ request' = [c \in Clients |-> IF c \in again
                              THEN [at |-> "WAITING", on |-> first]
                              ELSE settled[c]]
                /\ gate' = [Requeue(e, "OVER") EXCEPT !["CAPACITY"] = Append(@, first)]
        /\ UNCHANGED <<disk, reservations, reservedBytes, task, crashesLeft>>

-----------------------------------------------------------------------------
(* Removal and cleanup *)

Starts(t, stage, keep) == /\ task' = [task EXCEPT ![t] = [at |-> stage, keep |-> keep]]
                          /\ gate' = Requeue(t, stage)
Stays(t, stage) == task' = [task EXCEPT ![t].at = stage] /\ UNCHANGED gate
Done(t)         == Starts(t, "DONE", {})

\* remove of an artifact that this manager is not installing, or
\* cleanupTemporary, or clearUnused.
CallTask(t) ==
    /\ task[t].at = "IDLE"
    /\ \/ \E m \in Managers, a \in Artifacts :
            /\ inFlight[m][a] = Nil
            /\ Starts(t, "REMOVE", Artifacts \ {a})
       \/ Starts(t, "CLEANUP", {})
       \/ \E keep \in Keeps : Starts(t, "CLEAR", keep)
    /\ UNCHANGED <<disk, shared, inFlight, op, request, crashesLeft>>

\* Mutant: an installation under way does not keep a cleanup off.
NeverBusy(of) == FALSE

\* activeInstallationCounts names an artifact of the set.
Busy(of) == \E a \in of : active[a] > 0

EnterTask(t) ==
    /\ task[t].at \in {"REMOVE", "CLEANUP", "CLEAR"} /\ Inside(t)
    /\ IF Busy(IF task[t].at = "REMOVE" THEN Artifacts \ task[t].keep ELSE Artifacts)
       THEN Done(t)
       ELSE Stays(t, CASE task[t].at = "REMOVE" -> "REMOVING"
                       [] task[t].at = "CLEANUP" -> "CLEANING"
                       [] task[t].at = "CLEAR" -> "CLEARING")
    /\ UNCHANGED <<disk, shared, inFlight, op, request, crashesLeft>>

\* remove, after its check.
Remove(t) ==
    /\ task[t].at = "REMOVING"
    /\ \E a \in Artifacts \ task[t].keep, done \in BOOLEAN : RemoveArtifact(a, done)
    /\ Done(t)
    /\ UNCHANGED <<debris, staging, shared, inFlight, op, request, crashesLeft>>

\* cleanupTemporary, after its check: all of tmp/, or it fails halfway.
Cleanup(t) ==
    /\ task[t].at = "CLEANING"
    /\ \/ debris' = 0 /\ staging' = [e \in Clients |-> "NONE"]
       \/ debris' \in 1 .. debris /\ UNCHANGED staging
    /\ Done(t)
    /\ UNCHANGED <<artifacts, tombstones, shared, inFlight, op, request, crashesLeft>>

\* clearUnused, after its check: all but the artifacts to keep, or it fails
\* halfway.
Clear(t) ==
    /\ task[t].at = "CLEARING"
    /\ \E gone \in SUBSET (Artifacts \ task[t].keep) :
         /\ artifacts' = [a \in Artifacts |-> IF a \in gone THEN "ABSENT" ELSE artifacts[a]]
         /\ \/ gone = Artifacts \ task[t].keep /\ tombstones' = 0
            \/ tombstones' \in 1 .. tombstones
    /\ Done(t)
    /\ UNCHANGED <<debris, staging, shared, inFlight, op, request, crashesLeft>>

-----------------------------------------------------------------------------
(* A crash, and the system *)

\* The process dies: staging directories stay behind, as nobody's.
Crash ==
    /\ crashesLeft > 0 /\ crashesLeft' = crashesLeft - 1
    /\ debris' = debris
         + Total([e \in Clients |-> IF staging[e] = "NONE" THEN 0 ELSE Bytes(e)])
    /\ staging' = [e \in Clients |-> "NONE"]
    /\ reservations' = [e \in Clients |-> 0] /\ reservedBytes' = 0
    /\ active' = [a \in Artifacts |-> 0]
    /\ limits' = [l \in Range(Limit) |-> 0]
    /\ gate' = [g \in Gates |-> <<>>]
    /\ inFlight' = [m \in Managers |-> [a \in Artifacts |-> Nil]]
    /\ op' = [e \in Clients |-> NoOp]
    /\ request' = [c \in Clients |-> IF request[c].at \in {"WAITING", "AFTER"}
                                  THEN [NoCall EXCEPT !.at = "LOST"] ELSE request[c]]
    /\ task' = [t \in Tasks |-> IF task[t].at = "IDLE" THEN NoTask
                                ELSE [NoTask EXCEPT !.at = "DONE"]]
    /\ UNCHANGED <<artifacts, tombstones>>

OpStep(e) ==
    \/ Begin(e) \/ Check(e) \/ Reserve(e) \/ Record(e) \/ StageDirectory(e) \/ Transfer(e)
    \/ Reconcile(e) \/ Repair(e) \/ Publish(e) \/ Rename(e) \/ Raced(e) \/ Release(e) \/ End(e)

TaskStep(t) == EnterTask(t) \/ Remove(t) \/ Cleanup(t) \/ Clear(t)

AssetsNext ==
    \/ \E c \in Clients, m \in Managers, a \in Artifacts : Install(c, m, a)
    \/ \E c \in Clients : Cancel(c)
    \/ \E e \in Clients : OpStep(e)
    \/ \E t \in Tasks : CallTask(t)
    \/ \E t \in Tasks : TaskStep(t)
    \/ \E u \in Users : Nest(u)
    \/ Crash

AssetsSpec == AssetsInit /\ [][AssetsNext]_assetsVars

\* The runtime resolves a gate's turn and an operation's I/O; a transfer has a
\* timeout (downloadTimeoutMs).
FairAssetsSpec ==
    /\ AssetsSpec
    /\ \A e \in Clients : WF_assetsVars(OpStep(e))
    /\ \A t \in Tasks : WF_assetsVars(TaskStep(t))
    /\ \A u \in Users : WF_assetsVars(Nest(u))

-----------------------------------------------------------------------------
(* Properties *)

Holding == {"STAGE", "TRANSFER", "RECONCILE", "REPAIR", "PUBLISH", "RENAME", "RACED", "RELEASE"}
Begun(e) == op[e].at \notin {"NONE", "BEGIN", "OVER"}

\* No removal, cleanup or other installation takes from an installation what it
\* has staged, or what it is about to report as installed: what it answers is
\* on the disk, whole and verified, until the answer is out.
NothingIsSweptAway ==
    \A e \in Clients :
        /\ op[e].at \in {"TRANSFER", "RECONCILE", "REPAIR", "PUBLISH", "RENAME"}
             => staging[e] # "NONE"
        /\ op[e].result = "OK" /\ Begun(e) => artifacts[op[e].artifact] = "INSTALLED"

\* The strictest limit in force binds the managers that have a wider one or none:
\* no installation sees the cache beyond the limit of its manager.
WithinLimits ==
    \A e \in Clients :
        Limited(e) /\ op[e].at \in Holding => UsedBytes + CommittedBytes <= LimitOf(e)

\* Every reservation is of an installation under way and of its size, and every
\* staging directory has one.
ReservationsAreExact ==
    \A e \in Clients :
        /\ reservations[e] > 0 => op[e].at \in Holding /\ reservations[e] = Bytes(e)
        /\ reservations[e] = 0 => staging[e] = "NONE"

BegunOn(a)    == {e \in Clients : Begun(e) /\ op[e].artifact = a}
BegunUnder(l) == {e \in Clients : Begun(e) /\ Limited(e) /\ LimitOf(e) = l}

\* The two counts are those of the installations under way.
CountsAreExact ==
    /\ \A a \in Artifacts : active[a] = Cardinality(BegunOn(a))
    /\ \A l \in DOMAIN limits : limits[l] = Cardinality(BegunUnder(l))

\* From its reservation to its end, an installation sees the cache within the
\* limit of its manager, with all that any manager has promised: the strictest
\* limit in force binds the managers that have a wider one or none
\* (reserveCapacity, publishReservedArtifact, README of the package).  And
\* reservations, their sum and the counts are those of the installations under
\* way, whatever ended and however: nothing leaks into later limits, and the
\* errors for lost accounting are never thrown.
AccountingIsExact ==
    /\ WithinLimits
    /\ reservedBytes = CommittedBytes
    /\ ReservationsAreExact
    /\ CountsAreExact

\* No call is answered as cancelled that was not withdrawn: neither the cancellation of
\* another caller of the same artifact nor an installation that is being given
\* up reaches it (README of the package, on reference counting).
OnlyOwnCancellation == \A c \in Clients : request[c].at # "CANCELLED"

\* Every request and every removal or cleanup ends: no order of the two gates,
\* joins and waits for an aborted installation blocks for ever.
EveryRequestEnds ==
    /\ \A c \in Clients : request[c].at \in {"WAITING", "AFTER"} ~> request[c].at \notin {"WAITING", "AFTER"}
    /\ \A t \in Tasks : task[t].at # "IDLE" ~> task[t].at = "DONE"
=============================================================================
