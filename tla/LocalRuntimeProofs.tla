------------------------- MODULE LocalRuntimeProofs -------------------------
(***************************************************************************)
(* What TLAPS proves of the two components that look after the machine the *)
(* program runs on: LocalRuntimeManager, for any callers, any retries and  *)
(* any number of stops, and ModelAssets, for any managers, artifacts,      *)
(* sizes, limits and callers.  The two share nothing.                      *)
(*                                                                         *)
(* Of the manager: what it has on record of a component is true, and one   *)
(* that was told to stop is not started but by a call.  The invariant says *)
(* who is looking after a process group at each moment: the record itself, *)
(* or the start or stop under way.                                         *)
(*                                                                         *)
(* Of the cache: the accounts are exact, nothing that is in use is swept   *)
(* away, and no caller is cancelled by another.  The invariant says that   *)
(* whoever is in a gate is in it once and where its stage wants it, and in *)
(* a section holds the gates of the section; so what an installation looked*)
(* at under a gate is as it was when it acts on it.                        *)
(***************************************************************************)
EXTENDS LocalRuntimeManager, ModelAssets, FiniteSetTheorems, SequenceTheorems, TLAPS

-----------------------------------------------------------------------------
(* LocalRuntimeManager: the inductive invariant. *)

UnderWay == stop.at \notin {"NONE", "CALLED"}
NoTree   == \A p \in Procs : ~tree[p]
Only(q)  == \A p \in Procs : tree[p] => p = q

\* A root is a member of its group, and no group outlives the spawn of another.
Groups ==
    /\ \A p \in Procs : root[p] = "ALIVE" => tree[p]
    /\ child # None => Only(child)

\* Who will look after the child's group without having put it on record: the
\* handler of its exit, the end of its readiness, or a stop that is to resume.
Minded ==
    \/ state \in {"READY", "DEGRADED"}
    \/ start.at = "WAITING"
    \/ stop.at = "AWAIT" /\ start = NoStart /\ cleanup = None

OnRecord == \A p \in Procs : tree[p] => p = residual \/ (p = child /\ Minded)

Starting ==
    /\ start.at = "NONE" => start = NoStart
    /\ start.at = "BACKOFF" => NoTree
    /\ start.at \in {"WAITING", "CLEANUP"} => Only(start.proc)
    /\ start.at = "WAITING" => state # "FAILED"
    /\ start.at \in {"BACKOFF", "WAITING"} /\ expectedStop => UnderWay
    /\ start.at = "CLEANUP" => expectedStop

Running ==
    state \in {"READY", "DEGRADED"} =>
        IsChildAlive(child) /\ ~expectedStop /\ start = NoStart /\ cleanup = None

Cleaning ==
    /\ cleanup # None => start = NoStart /\ Only(cleanup)
    /\ restartDue /\ state = "FAILED" /\ start = NoStart /\ cleanup = None /\ ~expectedStop => NoTree

StopInHand ==
    /\ UnderWay => expectedStop /\ (start = NoStart \/ start.aborted)
    /\ stop.at \in {"GRACE", "TERMINATING"} => Only(stop.proc) /\ Only(residual)
    /\ stop.at = "FINISH" => NoTree

Stopped ==
    /\ state = "STOPPED" /\ ~UnderWay => NoTree
    /\ stopAll = "AFTER" => NoTree /\ start = NoStart

Care == Groups /\ OnRecord /\ Starting /\ Running /\ Cleaning /\ StopInHand /\ Stopped
IInv == TypeOK /\ Care
-----------------------------------------------------------------------------
LEMMA NoneIsNoProcess == None \notin Procs
<1>1. Cardinality(Callers) \in Nat
  BY CallersAssumption, FS_CardinalityType
<1>2. Cardinality(Callers) * (1 + MaxRetries) \in Nat
  BY <1>1, BoundsAssumption
<1>3. QED BY <1>2 DEF Procs, None

StartType == [at : {"NONE", "BACKOFF", "WAITING", "CLEANUP"}, proc : Procs \cup {None},
              owner : SUBSET Callers, aborted : BOOLEAN, error : Errors]

States  == {"STOPPED", "STARTING", "READY", "DEGRADED", "STOPPING", "FAILED"}
Calling == [Callers -> {"IDLE", "STOPPING", "CLEANING", "STARTING", "AGAIN", "DONE"}]
Stops   == [at : {"NONE", "CALLED", "AWAIT", "GRACE", "TERMINATING", "FINISH"}, proc : Procs \cup {None}]
Roots   == [Procs -> {"UNUSED", "ALIVE", "EXITED", "CLOSED"}]
USE DEF States, Calling, Stops, Roots

LEMMA StartTypes ==
  /\ NoStart \in StartType
  /\ \A o \in StartType : /\ [o EXCEPT !.at = "BACKOFF", !.proc = None] \in StartType
                           /\ [o EXCEPT !.aborted = TRUE] \in StartType
                           /\ \A p \in Procs : [o EXCEPT !.at = "WAITING", !.proc = p] \in StartType
                           /\ \A e \in Errors : [o EXCEPT !.at = "CLEANUP", !.error = e] \in StartType
  /\ \A c \in Callers : [NoStart EXCEPT !.owner = {c}] \in StartType
BY DEF StartType, NoStart, Errors

LEMMA InitInductive == Init => IInv
<1> SUFFICES ASSUME Init PROVE IInv
  OBVIOUS
<1>1. TypeOK
  <2>1. budget \in 0 .. MaxRetries /\ stopsLeft \in 0 .. MaxStops
    BY BoundsAssumption DEF Init
  <2>2. start \in StartType
    BY StartTypes DEF Init
  <2>3. {child, residual, cleanup} \subseteq Procs \cup {None}
    BY DEF Init
  <2>4. {unverified, expectedStop, restartDue} \subseteq BOOLEAN
    BY DEF Init
  <2>5. QED BY <2>1, <2>2, <2>3, <2>4 DEF Init, TypeOK, NoStop, StartType
<1>2. Care
  BY DEF Init, Care, Groups, OnRecord, Starting, Running, Cleaning, StopInHand, Stopped, NoTree, Only,
     NoStart, NoStop, UnderWay, Minded
<1>3. QED BY <1>1, <1>2 DEF IInv

-----------------------------------------------------------------------------
(* Every step keeps the types. *)

LEMMA SpendOne == \A b \in 0 .. MaxRetries : b < MaxRetries => b + 1 \in 0 .. MaxRetries
BY BoundsAssumption

LEMMA SettleTypes ==
  ASSUME TypeOK, NEW o \in StartType, NEW e \in Errors, NEW expected \in BOOLEAN,
         SettleStart(o, e, expected)
  PROVE  /\ expectedStop' \in BOOLEAN /\ start' \in StartType
         /\ state' \in States
         /\ budget' \in 0 .. MaxRetries
         /\ call' \in Calling
<1>1. expectedStop' \in BOOLEAN
  BY DEF SettleStart
<1>2. state' \in States
  BY DEF SettleStart, TypeOK
<1>3. budget' = budget \/ (budget < MaxRetries /\ budget' = budget + 1)
  BY DEF SettleStart, MayRestart
<1>4. budget' \in 0 .. MaxRetries
  BY <1>3, SpendOne DEF TypeOK
<1>5. start' \in StartType
  BY StartTypes DEF SettleStart, EndStart
<1>6. call' = call \/ call' = Waiters("STARTING", "DONE")
  BY DEF SettleStart, EndStart
<1>7. QED BY <1>1, <1>2, <1>4, <1>5, <1>6 DEF TypeOK, Waiters

LEMMA AttemptTypes ==
  ASSUME TypeOK, NEW o \in StartType, NEW expected \in BOOLEAN, NEW spent \in 0 .. MaxRetries,
         Attempt(o, expected, spent)
  PROVE  /\ expectedStop' \in BOOLEAN /\ start' \in StartType
         /\ child' \in Procs \cup {None} /\ budget' \in 0 .. MaxRetries
         /\ state' \in States
         /\ root' \in Roots /\ tree' \in [Procs -> BOOLEAN]
<1>1. CASE UNCHANGED <<child, os>>
  <2>1. /\ child' = child /\ root' = root /\ tree' = tree
    BY <1>1 DEF os
  <2>2. budget' = spent \/ (spent < MaxRetries /\ budget' = spent + 1)
    BY DEF Attempt, MayRestart
  <2>3. \/ start' \in {NoStart, [o EXCEPT !.at = "BACKOFF", !.proc = None]}
        \/ \E p \in Procs : start' = [o EXCEPT !.at = "WAITING", !.proc = p]
    BY DEF Attempt
  <2>4. start' \in StartType
    BY <2>3, StartTypes
  <2>5. QED BY <2>1, <2>2, <2>4, SpendOne DEF TypeOK, Attempt
<1>2. CASE /\ state' = "STARTING" /\ budget' = spent /\ expectedStop' = expected
           /\ \E p \in Procs, up \in BOOLEAN :
                 /\ NextProc(p) /\ child' = p
                 /\ start' = [o EXCEPT !.at = "WAITING", !.proc = p]
                 /\ root' = [root EXCEPT ![p] = IF up THEN "ALIVE" ELSE "EXITED"]
                 /\ tree' = [tree EXCEPT ![p] = up]
  <2>1. PICK p \in Procs, up \in BOOLEAN :
                 /\ child' = p
                 /\ start' = [o EXCEPT !.at = "WAITING", !.proc = p]
                 /\ root' = [root EXCEPT ![p] = IF up THEN "ALIVE" ELSE "EXITED"]
                 /\ tree' = [tree EXCEPT ![p] = up]
    BY <1>2
  <2>2. start' \in StartType
    BY <2>1, StartTypes
  <2>3. QED BY <1>2, <2>1, <2>2 DEF TypeOK
<1>3. QED BY <1>1, <1>2 DEF Attempt

LEMMA NextTypes ==
  ASSUME TypeOK, [Next]_vars
  PROVE  TypeOK'
<1> USE DEF record, os
<1>0. start \in StartType /\ NoStart \in StartType
  BY StartTypes DEF TypeOK, StartType
<1>1. ASSUME NEW c \in Callers, Start(c) PROVE TypeOK'
  <2>1. CASE Attempt([NoStart EXCEPT !.owner = {c}], FALSE, 0)
    <3>1. [NoStart EXCEPT !.owner = {c}] \in StartType
      BY StartTypes
    <3>2. 0 \in 0 .. MaxRetries
      BY BoundsAssumption
    <3>3. /\ expectedStop' \in BOOLEAN /\ start' \in StartType
          /\ child' \in Procs \cup {None} /\ budget' \in 0 .. MaxRetries
          /\ state' \in States
          /\ root' \in Roots /\ tree' \in [Procs -> BOOLEAN]
      BY <2>1, <3>1, <3>2, AttemptTypes
    <3>4. call' \in Calling
      BY <1>1 DEF Start, StartCall, TypeOK
    <3>5. residual' \in {residual, None} /\ UNCHANGED <<unverified, stop, cleanup, restartDue, stopAll, stopsLeft>>
      BY <1>1 DEF Start, StartCall
    <3>6. QED BY <3>3, <3>4, <3>5 DEF TypeOK, StartType
  <2>2. CASE UNCHANGED <<record, start, os>>
    <3>1. call' \in Calling
      BY <1>1 DEF Start, StartCall, TypeOK
    <3>2. QED BY <1>1, <2>2, <3>1 DEF TypeOK, Start
  <2>3. QED BY <1>1, <2>1, <2>2 DEF Start, StartCall
<1>2. ASSUME NEW c \in Callers, Restart(c) \/ Abort(c) PROVE TypeOK'
  <2>1. start' \in {start, [start EXCEPT !.aborted = TRUE]}
    BY <1>2 DEF Restart, Abort
  <2>2. start' \in StartType
    BY <2>1, <1>0, StartTypes
  <2>3. stop' \in {stop, [NoStop EXCEPT !.at = "CALLED"]}
    BY <1>2 DEF Restart, Abort, CallStop
  <2>4. stop' \in Stops
    BY <2>3 DEF NoStop, TypeOK
  <2>5. call' \in Calling
    BY <1>2 DEF Restart, Abort, TypeOK
  <2>6. UNCHANGED <<record, cleanup, restartDue, stopAll, stopsLeft, os>>
    BY <1>2 DEF Restart, Abort
  <2>7. QED BY <2>2, <2>4, <2>5, <2>6 DEF TypeOK, StartType
<1>3. ASSUME Stop \/ StopAll \/ StopAllReachesThis \/ StopAllEnds PROVE TypeOK'
  <2>1. stop' \in {stop, [NoStop EXCEPT !.at = "CALLED"]}
    BY <1>3 DEF Stop, StopAll, StopAllReachesThis, StopAllEnds, CallStop
  <2>2. stop' \in Stops
    BY <2>1 DEF NoStop, TypeOK
  <2>3. stopsLeft' = stopsLeft \/ (stopsLeft > 0 /\ stopsLeft' = stopsLeft - 1)
    BY <1>3 DEF Stop, StopAll, StopAllReachesThis, StopAllEnds
  <2>4. stopsLeft' \in 0 .. MaxStops
    BY <2>3, BoundsAssumption DEF TypeOK
  <2>5. stopAll' \in {stopAll, "OTHERS", "HERE", "OVER"}
    BY <1>3 DEF Stop, StopAll, StopAllReachesThis, StopAllEnds
  <2>6. UNCHANGED <<record, start, cleanup, restartDue, call, os>>
    BY <1>3 DEF Stop, StopAll, StopAllReachesThis, StopAllEnds
  <2>7. QED BY <2>2, <2>4, <2>5, <2>6 DEF TypeOK
<1>4. CASE MarkDegraded \/ MarkReady
  BY <1>4 DEF MarkDegraded, MarkReady, TypeOK
<1>5. CASE BackoffEnds
  <2>1. UNCHANGED <<residual, unverified, stop, cleanup, restartDue, stopAll, stopsLeft>>
    BY <1>5 DEF BackoffEnds
  <2>2. CASE SettleStart(start, "CANCELLED", expectedStop) /\ UNCHANGED <<child, os>>
    <3>1. "CANCELLED" \in Errors /\ expectedStop \in BOOLEAN
      BY DEF TypeOK, Errors
    <3>2. QED BY <1>0, <2>1, <2>2, <3>1, SettleTypes DEF TypeOK, StartType
  <2>3. CASE /\ Attempt(start, expectedStop, budget)
             /\ call' = IF start' = NoStart THEN Waiters("STARTING", "DONE") ELSE call
    <3>1. expectedStop \in BOOLEAN /\ budget \in 0 .. MaxRetries
      BY DEF TypeOK
    <3>2. call' \in Calling
      BY <2>3 DEF Waiters, TypeOK
    <3>3. /\ expectedStop' \in BOOLEAN /\ start' \in StartType
          /\ child' \in Procs \cup {None} /\ budget' \in 0 .. MaxRetries
          /\ state' \in States
          /\ root' \in Roots /\ tree' \in [Procs -> BOOLEAN]
      BY <1>0, <2>3, <3>1, AttemptTypes
    <3>4. QED BY <2>1, <3>2, <3>3 DEF TypeOK, StartType
  <2>4. QED BY <1>5, <2>2, <2>3 DEF BackoffEnds
<1>6. CASE BecomesReady
  <2>1. call' \in Calling
    BY <1>6 DEF BecomesReady, EndStart, Waiters, TypeOK
  <2>2. QED BY <1>0, <1>6, <2>1 DEF BecomesReady, EndStart, TypeOK, StartType
<1>7. ASSUME NEW e \in Errors, AttemptFails(e) PROVE TypeOK'
  <2>1. UNCHANGED <<child, stop, cleanup, restartDue, stopAll, stopsLeft, os>>
    BY <1>7 DEF AttemptFails
  <2>2. CASE SettleStart(start, e, expectedStop) /\ UNCHANGED <<residual, unverified>>
    <3>1. expectedStop \in BOOLEAN
      BY DEF TypeOK
    <3>2. QED BY <1>0, <2>1, <2>2, <3>1, SettleTypes DEF TypeOK, StartType
  <2>3. CASE /\ residual' = start.proc /\ unverified' = FALSE /\ expectedStop' = TRUE
             /\ start' = [start EXCEPT !.at = "CLEANUP", !.error = e]
             /\ UNCHANGED <<state, budget, call>>
    <3>1. start' \in StartType
      <4>1. start \in StartType /\ start' = [start EXCEPT !.at = "CLEANUP", !.error = e]
        BY <1>0, <2>3
      <4>2. [start EXCEPT !.at = "CLEANUP", !.error = e] \in StartType
        BY <4>1 DEF StartType
      <4>3. QED BY <4>1, <4>2
    <3>2. residual' \in Procs \cup {None}
      BY <1>0, <2>3 DEF StartType
    <3>3. {child', residual', cleanup'} \subseteq Procs \cup {None}
      BY <2>1, <3>2 DEF TypeOK
    <3>4. {unverified', expectedStop', restartDue'} \subseteq BOOLEAN
      BY <2>1, <2>3 DEF TypeOK
    <3>5. QED BY <2>1, <2>3, <3>1, <3>3, <3>4 DEF TypeOK, StartType
  <2>4. QED BY <1>7, <2>2, <2>3 DEF AttemptFails
<1>8. CASE AttemptCleaned
  <2>1. UNCHANGED <<child, stop, cleanup, restartDue, stopAll, stopsLeft, os>>
    BY <1>8 DEF AttemptCleaned
  <2>2. CASE residual' = None /\ unverified' = FALSE /\ SettleStart(start, start.error, KeepsExpectedStop)
    <3>1. start.error \in Errors /\ KeepsExpectedStop \in BOOLEAN
      BY <1>0 DEF StartType, KeepsExpectedStop
    <3>2. /\ expectedStop' \in BOOLEAN /\ start' \in StartType
          /\ state' \in States
          /\ budget' \in 0 .. MaxRetries
          /\ call' \in Calling
      BY <1>0, <2>2, <3>1, SettleTypes
    <3>3. QED BY <2>1, <2>2, <3>2 DEF TypeOK, StartType
  <2>3. CASE unverified' = TRUE /\ state' = "FAILED" /\ EndStart /\ UNCHANGED <<residual, expectedStop, budget>>
    <3>1. call' \in Calling
      BY <2>3 DEF EndStart, Waiters, TypeOK
    <3>2. start' \in StartType
      BY <1>0, <2>3 DEF EndStart
    <3>3. QED BY <2>1, <2>3, <3>1, <3>2 DEF TypeOK, StartType
  <2>4. QED BY <1>8, <2>2, <2>3 DEF AttemptCleaned
<1>9. CASE CleanupEnds
  <2>1. call' \in Calling
    BY <1>9 DEF CleanupEnds, Waiters, TypeOK
  <2>2. /\ cleanup' = None /\ residual' \in {residual, None} /\ unverified' \in {TRUE, FALSE}
        /\ restartDue' \in {restartDue, TRUE}
    BY <1>9 DEF CleanupEnds
  <2>3. UNCHANGED <<state, child, expectedStop, budget, start, stop, stopAll, stopsLeft, os>>
    BY <1>9 DEF CleanupEnds
  <2>4. {child', residual', cleanup'} \subseteq Procs \cup {None}
    BY <2>2, <2>3 DEF TypeOK
  <2>5. {unverified', expectedStop', restartDue'} \subseteq BOOLEAN
    BY <2>2, <2>3 DEF TypeOK
  <2>6. QED BY <2>1, <2>2, <2>3, <2>4, <2>5 DEF TypeOK
<1>10. CASE AutomaticRestart
  <2>1. budget' = budget \/ (budget < MaxRetries /\ budget' = budget + 1)
    BY <1>10 DEF AutomaticRestart, MayRestart
  <2>2. budget' \in 0 .. MaxRetries
    BY <2>1, SpendOne DEF TypeOK
  <2>3. [NoStart EXCEPT !.at = "BACKOFF"] \in StartType
    BY DEF StartType, NoStart, Errors
  <2>4. start' \in StartType
    BY <1>0, <1>10, <2>3 DEF AutomaticRestart
  <2>5. QED BY <1>10, <2>2, <2>4 DEF AutomaticRestart, TypeOK, StartType
<1>11. CASE RunStop \/ StopResumes
  <2>1. start' \in {start, [start EXCEPT !.aborted = TRUE]}
    BY <1>11 DEF RunStop, StopResumes, BeginStop, Aborted
  <2>2. start' \in StartType
    BY <2>1, <1>0, StartTypes
  <2>3. residual' \in {residual, child} /\ unverified' \in {unverified, FALSE}
    BY <1>11 DEF RunStop, StopResumes, BeginStop
  <2>4. stop' \in {[at |-> a, proc |-> p] : a \in {"AWAIT", "GRACE", "TERMINATING", "FINISH"},
                                            p \in {child, residual, None}}
    BY <1>11 DEF RunStop, StopResumes, BeginStop
  <2>5. stop' \in Stops
    BY <2>4 DEF TypeOK
  <2>6. state' \in {state, "STOPPING"} /\ expectedStop' \in {expectedStop, TRUE}
    BY <1>11 DEF RunStop, StopResumes, BeginStop
  <2>7. UNCHANGED <<child, budget, cleanup, restartDue, stopAll, stopsLeft, call, os>>
    BY <1>11 DEF RunStop, StopResumes
  <2>8. residual' \in Procs \cup {None} /\ unverified' \in BOOLEAN
    BY <2>3 DEF TypeOK
  <2>9. /\ state' \in {"STOPPED", "STARTING", "READY", "DEGRADED", "STOPPING", "FAILED"}
        /\ expectedStop' \in BOOLEAN
    BY <2>6 DEF TypeOK
  <2>10. QED BY <2>2, <2>5, <2>7, <2>8, <2>9 DEF TypeOK, StartType
<1>12. CASE GraceEnds \/ TerminationEnds \/ StopEnds
  <2>1. stop' = NoStop \/ \E a \in {"FINISH", "TERMINATING"} : stop' = [stop EXCEPT !.at = a]
    BY <1>12 DEF GraceEnds, TerminationEnds, StopEnds
  <2>2. stop' \in Stops
    BY <2>1 DEF TypeOK, NoStop
  <2>3. call' \in Calling
    BY <1>12 DEF GraceEnds, TerminationEnds, StopEnds, Waiters, TypeOK
  <2>4. residual' \in {residual, None} /\ unverified' \in BOOLEAN /\ state' \in {state, "FAILED", "STOPPED"}
        /\ stopAll' \in {stopAll, "AFTER", "FAILED"}
    BY <1>12 DEF GraceEnds, TerminationEnds, StopEnds, TypeOK
  <2>5. UNCHANGED <<child, expectedStop, budget, start, cleanup, restartDue, stopsLeft, os>>
    BY <1>12 DEF GraceEnds, TerminationEnds, StopEnds
  <2>6. QED BY <2>2, <2>3, <2>4, <2>5 DEF TypeOK
<1>13. ASSUME NEW p \in Procs, RootExits(p) \/ TreeEnds(p) \/ PipesClose(p) PROVE TypeOK'
  <2>1. tree' \in [Procs -> BOOLEAN] /\ root' \in Roots
    BY <1>13 DEF RootExits, TreeEnds, PipesClose, TypeOK
  <2>2. /\ residual' \in {residual, p} /\ unverified' \in {unverified, FALSE} /\ state' \in {state, "FAILED"}
        /\ cleanup' \in {cleanup, p} /\ child' \in {child, None}
    BY <1>13 DEF RootExits, TreeEnds, PipesClose
  <2>3. UNCHANGED <<expectedStop, budget, start, stop, restartDue, stopAll, stopsLeft, call>>
    BY <1>13 DEF RootExits, TreeEnds, PipesClose
  <2>4. {child', residual', cleanup'} \subseteq Procs \cup {None}
    BY <2>2 DEF TypeOK
  <2>5. unverified' \in BOOLEAN
    BY <2>2 DEF TypeOK
  <2>6. QED BY <2>1, <2>2, <2>3, <2>4, <2>5 DEF TypeOK
<1>14. CASE UNCHANGED vars
  BY <1>14 DEF vars, TypeOK
<1>15. QED
  BY <1>1, <1>2, <1>3, <1>4, <1>5, <1>6, <1>7, <1>8, <1>9, <1>10, <1>11, <1>12, <1>13, <1>14
  DEF Next, Sequence, Stopping, Process

HIDE DEF States, Calling, Stops, Roots

-----------------------------------------------------------------------------
(* What the parts of the invariant say together. *)

LEMMA StartingKnown ==
  ASSUME IInv
  PROVE  /\ start = NoStart <=> start.at = "NONE"
         /\ start.at \in {"BACKOFF", "WAITING", "CLEANUP"} => cleanup = None
         /\ start.at \in {"BACKOFF", "WAITING", "CLEANUP"} => state \notin {"READY", "DEGRADED"}
         /\ start.at \in {"BACKOFF", "WAITING"} /\ expectedStop => Pending
<1>1. start = NoStart <=> start.at = "NONE"
  BY DEF IInv, Care, Starting, NoStart
<1>2. QED BY <1>1 DEF IInv, Care, Starting, Running, Cleaning, StopInHand, Pending

\* Nothing of an earlier process is left where the code lets itself start.
LEMMA MayStartAlone ==
  ASSUME IInv, ~UnderWay, cleanup = None, start = NoStart, state \notin {"READY", "DEGRADED"}, MayStart
  PROVE  NoTree
BY NoneIsNoProcess DEF IInv, Care, OnRecord, Minded, MayStart, UnderWay, NoTree, TreeAlive, NoStart

\* A process that is gone was the only one.
LEMMA GoneIsAlone ==
  ASSUME NEW p, Only(p), p # None, Gone(p)
  PROVE  NoTree
BY DEF Only, Gone, TreeAlive, NoTree

LEMMA NoneIsAlone == ASSUME Only(None) PROVE NoTree
BY NoneIsNoProcess DEF Only, NoTree

-----------------------------------------------------------------------------
(* The start sequence keeps the invariant. *)

LEMMA AttemptCares ==
  ASSUME IInv, NoTree, ~UnderWay, cleanup = None, ~StoppingAll \/ start.at = "BACKOFF",
         state \notin {"READY", "DEGRADED"},
         NEW o \in StartType, Attempt(o, FALSE, budget) \/ Attempt(o, FALSE, 0),
         UNCHANGED <<stop, cleanup, restartDue, stopAll>>
  PROVE  Care'
<1> USE DEF IInv, Care
<1>1. stopAll # "AFTER"
  BY DEF Stopped, NoStart, StoppingAll
<1>2. CASE /\ UNCHANGED <<child, os>> /\ state' = "FAILED" /\ expectedStop' = FALSE
           /\ start' = NoStart \/ start' = [o EXCEPT !.at = "BACKOFF", !.proc = None]
  <2>1. NoTree' /\ UNCHANGED <<child, root, tree>>
    BY <1>2 DEF NoTree, os
  <2>2. start' = NoStart \/ start'.at = "BACKOFF"
    BY <1>2 DEF StartType
  <2>3. Groups' /\ OnRecord'
    BY <2>1 DEF Groups, OnRecord, NoTree, Only
  <2>4. Starting' /\ Running' /\ Cleaning'
    BY <1>2, <2>1, <2>2 DEF Starting, Running, Cleaning, NoStart
  <2>5. StopInHand' /\ Stopped'
    BY <1>1, <1>2, <2>1 DEF StopInHand, Stopped, UnderWay
  <2>6. QED BY <2>3, <2>4, <2>5
<1>3. ASSUME NEW p \in Procs, NEW up \in BOOLEAN,
             /\ state' = "STARTING" /\ expectedStop' = FALSE /\ child' = p
             /\ start' = [o EXCEPT !.at = "WAITING", !.proc = p]
             /\ root' = [root EXCEPT ![p] = IF up THEN "ALIVE" ELSE "EXITED"]
             /\ tree' = [tree EXCEPT ![p] = up]
      PROVE  Care'
  <2>1. start'.at = "WAITING" /\ start'.proc = p
    BY <1>3 DEF StartType
  <2>2. \A q \in Procs : tree'[q] => q = p /\ up
    BY <1>3 DEF NoTree, TypeOK
  <2>3. \A q \in Procs : root'[q] = "ALIVE" => tree'[q]
    BY <1>3, NoneIsNoProcess DEF Groups, TypeOK, NoTree
  <2>4. Groups' /\ OnRecord'
    BY <1>3, <2>1, <2>2, <2>3 DEF Groups, OnRecord, Only, Minded
  <2>5. Starting' /\ Running'
    BY <1>3, <2>1, <2>2 DEF Starting, Running, Only
  <2>6. Cleaning' /\ StopInHand' /\ Stopped'
    BY <1>1, <1>3 DEF Cleaning, StopInHand, Stopped, UnderWay
  <2>7. QED BY <2>4, <2>5, <2>6
<1>4. \/ /\ UNCHANGED <<child, os>> /\ state' = "FAILED" /\ expectedStop' = FALSE
         /\ start' = NoStart \/ start' = [o EXCEPT !.at = "BACKOFF", !.proc = None]
      \/ \E p \in Procs, up \in BOOLEAN :
             /\ state' = "STARTING" /\ expectedStop' = FALSE /\ child' = p
             /\ start' = [o EXCEPT !.at = "WAITING", !.proc = p]
             /\ root' = [root EXCEPT ![p] = IF up THEN "ALIVE" ELSE "EXITED"]
             /\ tree' = [tree EXCEPT ![p] = up]
  BY DEF Attempt
<1>5. QED BY <1>2, <1>3, <1>4

LEMMA StartCares ==
  ASSUME IInv, NEW c \in Callers, Start(c)
  PROVE  Care'
<1>1. CASE UNCHANGED <<record, start, os>>
  <2>1. UNCHANGED <<record, start, os, stop, cleanup, restartDue, stopAll>>
    BY <1>1 DEF Start
  <2>2. QED BY <2>1 DEF record, os, IInv, Care, Groups, OnRecord, Starting, Running, Cleaning, StopInHand,
        Stopped, UnderWay, NoTree, Only, Minded, IsChildAlive
<1>2. CASE /\ ~StoppingAll /\ stop.at = "NONE" /\ cleanup = None /\ start = NoStart
           /\ state \notin {"READY", "DEGRADED"} /\ MayStart
           /\ Attempt([NoStart EXCEPT !.owner = {c}], FALSE, 0)
  <2>1. ~UnderWay
    BY <1>2 DEF UnderWay
  <2>2. NoTree
    BY <1>2, <2>1, MayStartAlone
  <2>3. [NoStart EXCEPT !.owner = {c}] \in StartType
    BY StartTypes
  <2>4. UNCHANGED <<stop, cleanup, restartDue, stopAll>>
    BY DEF Start
  <2>5. QED BY <1>2, <2>1, <2>2, <2>3, <2>4, AttemptCares
<1>3. QED BY <1>1, <1>2 DEF Start, StartCall

LEMMA BackoffCares ==
  ASSUME IInv, BackoffEnds
  PROVE  Care'
<1>1. /\ start.at = "BACKOFF" /\ NoTree /\ cleanup = None /\ state \notin {"READY", "DEGRADED"}
      /\ UNCHANGED <<residual, stop, cleanup, restartDue, stopAll>>
  BY StartingKnown DEF BackoffEnds, IInv, Care, Starting
<1>2. CASE ~start.aborted /\ Attempt(start, expectedStop, budget) /\ ~Pending
  <2>1. expectedStop = FALSE
    BY <1>1, <1>2, StartingKnown DEF IInv, TypeOK
  <2>2. ~UnderWay
    BY <2>1 DEF IInv, Care, StopInHand
  <2>3. start \in StartType
    BY DEF IInv, TypeOK, StartType
  <2>4. QED BY <1>1, <1>2, <2>1, <2>2, <2>3, AttemptCares
<1>3. CASE SettleStart(start, "CANCELLED", expectedStop) /\ UNCHANGED <<child, os>>
  <2>1. /\ NoTree' /\ start' = NoStart /\ state' \in {state, "STOPPED"} /\ expectedStop' = expectedStop
        /\ UNCHANGED <<child, root, tree>>
    BY <1>1, <1>3 DEF SettleStart, EndStart, NoTree, os
  <2>2. Groups' /\ OnRecord'
    BY <2>1 DEF IInv, Care, Groups, OnRecord, NoTree, Only
  <2>3. Starting' /\ Running' /\ Cleaning'
    BY <1>1, <2>1 DEF Starting, Running, Cleaning, NoStart
  <2>4. StopInHand' /\ Stopped'
    BY <1>1, <2>1 DEF StopInHand, Stopped, UnderWay, IInv, Care, NoTree, Only
  <2>5. QED BY <2>2, <2>3, <2>4 DEF Care
<1>4. QED BY <1>2, <1>3 DEF BackoffEnds

LEMMA ReadyCares ==
  ASSUME IInv, BecomesReady \/ MarkReady \/ MarkDegraded
  PROVE  Care'
<1> USE DEF IInv, Care
<1>1. CASE BecomesReady
  <2>1. /\ start.at = "WAITING" /\ IsChildAlive(child) /\ ~expectedStop /\ cleanup = None
        /\ state' = "READY" /\ start' = NoStart
        /\ UNCHANGED <<child, residual, expectedStop, stop, cleanup, restartDue, stopAll, root, tree>>
    BY <1>1, StartingKnown DEF BecomesReady, EndStart, CancelledAfterAwait, os
  <2>2. Groups' /\ OnRecord'
    BY <2>1 DEF Groups, OnRecord, Only, Minded
  <2>3. Starting' /\ Running' /\ Cleaning'
    BY <2>1 DEF Starting, Running, Cleaning, NoStart, IsChildAlive
  <2>4. StopInHand' /\ Stopped'
    BY <2>1 DEF StopInHand, Stopped, UnderWay, NoTree, Only
  <2>5. QED BY <2>2, <2>3, <2>4
<1>2. CASE MarkReady \/ MarkDegraded
  <2>1. /\ state \in {"READY", "DEGRADED"} /\ state' \in {"READY", "DEGRADED"}
        /\ UNCHANGED <<child, residual, expectedStop, start, stop, cleanup, restartDue, stopAll, root, tree>>
    BY <1>2 DEF MarkReady, MarkDegraded, os
  <2>2. Groups' /\ OnRecord'
    BY <2>1 DEF Groups, OnRecord, Only, Minded
  <2>3. Starting' /\ Running' /\ Cleaning'
    BY <2>1 DEF Starting, Running, Cleaning, IsChildAlive, NoTree, Only, UnderWay, NoStart
  <2>4. StopInHand' /\ Stopped'
    BY <2>1 DEF StopInHand, Stopped, UnderWay, NoTree, Only
  <2>5. QED BY <2>2, <2>3, <2>4
<1>3. QED BY <1>1, <1>2

\* An attempt or its cleanup settles with nothing left alive.
LEMMA SettleCares ==
  ASSUME IInv, NoTree, start # NoStart, NEW e, NEW expected \in BOOLEAN,
         UnderWay => expected /\ start.aborted,
         SettleStart(start, e, expected), residual' \in {residual, None},
         UNCHANGED <<child, stop, cleanup, restartDue, stopAll, os>>
  PROVE  Care'
<1> USE DEF IInv, Care
<1>0. start.at \in {"BACKOFF", "WAITING", "CLEANUP"}
  BY StartingKnown DEF TypeOK
<1>1. /\ NoTree' /\ cleanup = None /\ stopAll # "AFTER"
      /\ UNCHANGED <<child, root, tree, stop, cleanup, restartDue, stopAll>>
  BY <1>0, StartingKnown DEF NoTree, os, Stopped
<1>2. /\ start' = NoStart \/ (start'.at = "BACKOFF" /\ ~expected)
      /\ state' \notin {"READY", "DEGRADED"} /\ expectedStop' = expected
  BY <1>0, StartingKnown DEF SettleStart, EndStart, TypeOK
<1>3. Groups' /\ OnRecord'
  BY <1>1 DEF Groups, OnRecord, NoTree, Only
<1>4. Starting' /\ Running' /\ Cleaning'
  BY <1>1, <1>2 DEF Starting, Running, Cleaning, NoStart
<1>5. UnderWay' => start' = NoStart
  BY <1>1, <1>2 DEF UnderWay
<1>6. StopInHand' /\ Stopped'
  BY <1>1, <1>2, <1>5 DEF StopInHand, Stopped, UnderWay, NoTree, Only
<1>7. QED BY <1>3, <1>4, <1>6

LEMMA AttemptFailsCares ==
  ASSUME IInv, NEW e \in Errors, AttemptFails(e)
  PROVE  Care'
<1> USE DEF IInv, Care
<1>1. /\ start.at = "WAITING" /\ start # NoStart /\ Only(start.proc) /\ cleanup = None
      /\ state \notin {"READY", "DEGRADED", "FAILED"}
      /\ UNCHANGED <<child, stop, cleanup, restartDue, stopAll, root, tree>>
  BY StartingKnown DEF AttemptFails, Starting, os
<1>2. CASE ~expectedStop /\ Gone(start.proc)
  <2>1. NoTree
    BY <1>1, <1>2, GoneIsAlone, NoneIsAlone
  <2>2. ~UnderWay /\ expectedStop \in BOOLEAN
    BY <1>2 DEF StopInHand, TypeOK
  <2>3. QED BY <1>1, <1>2, <2>1, <2>2, SettleCares DEF AttemptFails
<1>3. CASE expectedStop
  <2>1. UnderWay /\ start.aborted
    BY <1>1, <1>3 DEF Starting, StopInHand
  <2>2. /\ start' = NoStart /\ expectedStop' /\ state' \in {"STOPPING", "STOPPED"}
        /\ residual' = residual
    BY <1>3, <2>1 DEF AttemptFails, SettleStart, EndStart
  <2>3. Groups'
    BY <1>1 DEF Groups, Only
  <2>4. OnRecord'
    <3>1. CASE stop.at = "AWAIT"
      BY <1>1, <2>2, <3>1 DEF OnRecord, Minded
    <3>2. CASE stop.at \in {"GRACE", "TERMINATING", "FINISH"}
      BY <1>1, <2>2, <3>2 DEF OnRecord, StopInHand, Only, NoTree
    <3>3. QED BY <2>1, <3>1, <3>2 DEF UnderWay, TypeOK
  <2>5. Starting' /\ Running' /\ Cleaning'
    BY <1>1, <2>2 DEF Starting, Running, Cleaning, NoStart
  <2>6. StopInHand' /\ Stopped'
    BY <1>1, <2>1, <2>2 DEF StopInHand, Stopped, UnderWay, NoTree, Only
  <2>7. QED BY <2>3, <2>4, <2>5, <2>6
<1>4. CASE ~expectedStop /\ ~Gone(start.proc)
  <2>1. /\ residual' = start.proc /\ expectedStop' /\ start'.at = "CLEANUP" /\ start'.proc = start.proc
        /\ start'.aborted = start.aborted /\ state' = state /\ ~UnderWay
    BY <1>4 DEF AttemptFails, StopInHand, TypeOK
  <2>2. Groups' /\ OnRecord'
    BY <1>1, <2>1 DEF Groups, OnRecord, Only
  <2>3. Starting' /\ Running' /\ Cleaning'
    BY <1>1, <2>1 DEF Starting, Running, Cleaning, Only
  <2>4. StopInHand' /\ Stopped'
    BY <1>1, <2>1 DEF StopInHand, Stopped, UnderWay, NoTree
  <2>5. QED BY <2>2, <2>3, <2>4
<1>5. QED BY <1>2, <1>3, <1>4

LEMMA AttemptCleanedCares ==
  ASSUME IInv, AttemptCleaned
  PROVE  Care'
<1> USE DEF IInv, Care
<1>1. /\ start.at = "CLEANUP" /\ start # NoStart /\ Only(start.proc) /\ cleanup = None /\ expectedStop
      /\ state \notin {"READY", "DEGRADED"} /\ ~Pending
      /\ UNCHANGED <<child, stop, cleanup, restartDue, stopAll, os>>
  BY StartingKnown DEF AttemptCleaned, Starting
<1>2. UnderWay => start.aborted
  BY <1>1 DEF StopInHand
<1>3. CASE residual' = None /\ Gone(start.proc) /\ SettleStart(start, start.error, KeepsExpectedStop)
  <2>1. NoTree
    BY <1>1, <1>3, GoneIsAlone, NoneIsAlone
  <2>2. KeepsExpectedStop \in BOOLEAN
    BY DEF KeepsExpectedStop, TypeOK
  <2>3. UnderWay => KeepsExpectedStop /\ start.aborted
    BY <1>2 DEF KeepsExpectedStop
  <2>4. QED BY <1>1, <1>3, <2>1, <2>2, <2>3, SettleCares
<1>4. CASE state' = "FAILED" /\ EndStart /\ UNCHANGED <<residual, expectedStop, budget>>
  <2>1. start' = NoStart /\ expectedStop' /\ residual' = residual /\ UNCHANGED <<child, root, tree>>
    BY <1>1, <1>4 DEF EndStart, os
  <2>2. Groups' /\ OnRecord'
    BY <1>1, <2>1 DEF Groups, OnRecord, Only, Minded
  <2>3. Starting' /\ Running' /\ Cleaning'
    BY <1>1, <1>4, <2>1 DEF Starting, Running, Cleaning, NoStart
  <2>4. StopInHand' /\ Stopped'
    BY <1>1, <1>4, <2>1 DEF StopInHand, Stopped, UnderWay, NoTree, Only
  <2>5. QED BY <2>2, <2>3, <2>4
<1>5. QED BY <1>3, <1>4 DEF AttemptCleaned

\* A signal marks a start as aborted, and a call of stop queues one.
LEMMA CallsCare ==
  ASSUME IInv, \/ Stop \/ StopAll \/ StopAllReachesThis \/ StopAllEnds
               \/ \E c \in Callers : Restart(c) \/ Abort(c)
  PROVE  Care'
<1> USE DEF IInv, Care
<1>1. /\ start' = start \/ (start # NoStart /\ start' = [start EXCEPT !.aborted = TRUE])
      /\ stop' = stop \/ (stop.at = "NONE" /\ stop' = [NoStop EXCEPT !.at = "CALLED"])
      /\ stopAll' = stopAll \/ stopAll' # "AFTER"
      /\ UNCHANGED <<record, cleanup, restartDue, os>>
  <2>1. CASE \E c \in Callers : Abort(c)
    <3>1. PICK c \in Callers : Abort(c)
      BY <2>1
    <3>2. CASE call[c] = "STARTING" /\ c \in start.owner
      <4>1. start # NoStart
        BY <3>2 DEF NoStart
      <4>2. QED BY <3>1, <3>2, <4>1 DEF Abort
    <3>3. CASE start' = start
      BY <3>1, <3>3 DEF Abort
    <3>4. QED BY <3>1, <3>2, <3>3 DEF Abort
  <2>2. CASE \E c \in Callers : Restart(c)
    BY <2>2 DEF Restart, CallStop
  <2>3. QED BY <2>1, <2>2 DEF Stop, StopAll, StopAllReachesThis, StopAllEnds, CallStop
<1>2. /\ start'.at = start.at /\ start'.proc = start.proc
      /\ start'.aborted \/ start'.aborted = start.aborted
      /\ start' = NoStart <=> start = NoStart
  BY <1>1, StartingKnown DEF NoStart, TypeOK
<1>3. UNCHANGED <<state, child, residual, expectedStop, root, tree>>
  BY <1>1 DEF record, os
<1>4. UnderWay' <=> UnderWay
  BY <1>1 DEF UnderWay, NoStop
<1>5. stop' = stop \/ stop'.at = "CALLED"
  BY <1>1 DEF NoStop
<1>6. Groups' /\ OnRecord'
  <2>1. Groups'
    BY <1>3 DEF Groups, Only
  <2>2. Minded => Minded'
    BY <1>1, <1>2, <1>3, <1>5 DEF Minded
  <2>3. OnRecord'
    BY <1>3, <2>2 DEF OnRecord
  <2>4. QED BY <2>1, <2>3
<1>7. Starting' /\ Running' /\ Cleaning'
  <2>1. Starting'
    BY <1>2, <1>3, <1>4, StartingKnown DEF Starting, Only, NoTree, NoStart
  <2>2. Running'
    BY <1>1, <1>2, <1>3 DEF Running, IsChildAlive
  <2>3. Cleaning'
    BY <1>1, <1>2, <1>3 DEF Cleaning, Only, NoTree
  <2>4. QED BY <2>1, <2>2, <2>3
<1>8. StopInHand'
  BY <1>1, <1>2, <1>3, <1>4, <1>5 DEF StopInHand, Only, NoTree
<1>9. Stopped'
  BY <1>1, <1>2, <1>3, <1>4 DEF Stopped, NoTree
<1>10. QED BY <1>6, <1>7, <1>8, <1>9

-----------------------------------------------------------------------------
(* The end of a process, its cleanup, and the restart that follows. *)

LEMMA RootExitsCares ==
  ASSUME IInv, NEW p \in Procs, RootExits(p)
  PROVE  Care'
<1> USE DEF IInv, Care
<1>1. /\ root[p] = "ALIVE" /\ tree[p] /\ ~Pending
      /\ UNCHANGED <<child, expectedStop, start, stop, restartDue, stopAll>>
  BY DEF RootExits, Groups
<1>2. \A q \in Procs : /\ tree'[q] => tree[q]
                       /\ q # p => root'[q] = root[q]
                       /\ root'[q] = "ALIVE" => root[q] = "ALIVE" /\ q # p
  BY <1>1 DEF RootExits, TypeOK
<1>3. \A q \in Procs : q # p => tree'[q] = tree[q]
  BY DEF RootExits, TypeOK
<1>4. Groups'
  BY <1>1, <1>2, <1>3 DEF Groups, Only
<1>5. CASE child = p /\ ~expectedStop /\ state \notin {"STOPPING", "STOPPED", "STARTING"}
  <2>1. residual' = p /\ state' = "FAILED" /\ cleanup' = p /\ Only(p) /\ ~UnderWay /\ p # None
    BY <1>5, NoneIsNoProcess DEF RootExits, Groups, StopInHand
  <2>2. start = NoStart
    <3>1. state \in {"READY", "DEGRADED", "FAILED"}
      BY <1>5 DEF TypeOK
    <3>2. start.at \notin {"BACKOFF", "WAITING", "CLEANUP"}
      BY <1>1, <1>5, <3>1, StartingKnown DEF Starting, NoTree
    <3>3. QED BY <3>2, StartingKnown DEF TypeOK
  <2>3. OnRecord'
    BY <1>2, <2>1 DEF OnRecord, Only
  <2>4. Starting' /\ Running'
    BY <1>1, <2>1, <2>2 DEF Starting, Running, NoStart
  <2>5. Cleaning'
    BY <1>1, <1>2, <2>1, <2>2, NoneIsNoProcess DEF Cleaning, Only
  <2>6. StopInHand' /\ Stopped'
    BY <1>1, <1>2, <2>1, <2>2 DEF StopInHand, Stopped, UnderWay, NoTree
  <2>7. QED BY <1>4, <2>3, <2>4, <2>5, <2>6
<1>6. CASE ~(child = p /\ ~expectedStop /\ state \notin {"STOPPING", "STOPPED", "STARTING"})
  <2>1. UNCHANGED <<residual, state, cleanup>>
    BY <1>6 DEF RootExits
  <2>2. OnRecord'
    BY <1>1, <1>2, <2>1 DEF OnRecord, Minded
  <2>3. Starting' /\ Cleaning'
    BY <1>1, <1>2, <2>1 DEF Starting, Cleaning, Only, NoTree, UnderWay
  <2>4. Running'
    <3>1. CASE state \notin {"READY", "DEGRADED"}
      BY <2>1, <3>1 DEF Running
    <3>2. CASE state \in {"READY", "DEGRADED"}
      <4>1. IsChildAlive(child) /\ child # p
        BY <1>6, <3>2 DEF Running
      <4>2. IsChildAlive(child)'
        BY <1>1, <1>2, <4>1 DEF IsChildAlive, TypeOK
      <4>3. QED BY <1>1, <2>1, <3>2, <4>2 DEF Running
    <3>3. QED BY <3>1, <3>2
  <2>5. StopInHand' /\ Stopped'
    BY <1>1, <1>2, <2>1 DEF StopInHand, Stopped, UnderWay, NoTree, Only
  <2>6. QED BY <1>4, <2>2, <2>3, <2>4, <2>5
<1>7. QED BY <1>5, <1>6

LEMMA TreeEndsCares ==
  ASSUME IInv, NEW p \in Procs, TreeEnds(p)
  PROVE  Care'
<1> USE DEF IInv, Care
<1>1. /\ \A q \in Procs : tree'[q] => tree[q]
      /\ \A q \in Procs : root[q] = "ALIVE" => (tree'[q] <=> tree[q])
      /\ UNCHANGED <<state, child, residual, expectedStop, start, stop, cleanup, restartDue, stopAll, root>>
  BY DEF TreeEnds, record, TypeOK
<1>2. Groups' /\ OnRecord'
  BY <1>1 DEF Groups, OnRecord, Only, Minded
<1>3. Starting' /\ Cleaning'
  BY <1>1 DEF Starting, Cleaning, Only, NoTree, UnderWay
<1>4. Running'
  BY <1>1 DEF Running, IsChildAlive
<1>5. StopInHand' /\ Stopped'
  BY <1>1 DEF StopInHand, Stopped, UnderWay, NoTree, Only
<1>6. QED BY <1>2, <1>3, <1>4, <1>5

\* The pipes of a group that is still alive close only when it is on record.
LEMMA PipesCloseCares ==
  ASSUME IInv, NEW p \in Procs, PipesClose(p)
  PROVE  Care'
<1> USE DEF IInv, Care
<1>1. /\ root[p] = "EXITED" /\ ~Pending /\ child' \in {child, None} /\ (child' # child => child = p)
      /\ UNCHANGED <<state, residual, expectedStop, start, stop, cleanup, restartDue, stopAll, tree>>
  BY DEF PipesClose
<1>2. /\ \A q \in Procs : root'[q] = "ALIVE" <=> root[q] = "ALIVE"
      /\ \A q \in Procs : q # p => root'[q] = root[q]
  BY DEF PipesClose, TypeOK
<1>3. Groups'
  BY <1>1, <1>2 DEF Groups, Only
<1>4. OnRecord'
  <2>1. SUFFICES ASSUME NEW q \in Procs, tree[q], q # residual PROVE q = child' /\ Minded
    BY <1>1 DEF OnRecord, Minded
  <2>2. q = child /\ Minded
    BY <2>1 DEF OnRecord
  <2>3. CASE child = p
    <3>1. state \notin {"READY", "DEGRADED"}
      BY <1>1, <2>3 DEF Running, IsChildAlive
    <3>2. start.at # "WAITING"
      BY <1>1, <2>1, <2>2, <2>3 DEF Starting, Only, Pending
    <3>3. ~(stop.at = "AWAIT" /\ start = NoStart /\ cleanup = None)
      BY <1>1 DEF Pending
    <3>4. QED BY <2>2, <3>1, <3>2, <3>3 DEF Minded
  <2>4. CASE child # p
    BY <1>1, <2>2, <2>4
  <2>5. QED BY <2>3, <2>4
<1>5. Starting' /\ Cleaning'
  BY <1>1 DEF Starting, Cleaning, Only, NoTree, UnderWay
<1>6. Running'
  <2>1. state \in {"READY", "DEGRADED"} => child # p
    BY <1>1 DEF Running, IsChildAlive
  <2>2. state \in {"READY", "DEGRADED"} => child' = child /\ child' # None /\ child' \in Procs
    BY <1>1, <2>1 DEF Running, IsChildAlive, TypeOK
  <2>3. QED BY <1>1, <1>2, <2>2 DEF Running, IsChildAlive
<1>7. StopInHand' /\ Stopped'
  BY <1>1 DEF StopInHand, Stopped, UnderWay, NoTree, Only
<1>8. QED BY <1>3, <1>4, <1>5, <1>6, <1>7

LEMMA CleanupCares ==
  ASSUME IInv, CleanupEnds \/ AutomaticRestart
  PROVE  Care'
<1> USE DEF IInv, Care
<1>1. CASE CleanupEnds
  <2>1. /\ cleanup # None /\ start = NoStart /\ Only(cleanup) /\ state \notin {"READY", "DEGRADED"}
        /\ cleanup' = None /\ ~Pending /\ ~restartDue
        /\ UNCHANGED <<state, child, expectedStop, start, stop, stopAll, root, tree>>
    BY <1>1 DEF CleanupEnds, Cleaning, Running, Pending, os
  <2>2. CASE Gone(cleanup)
    <3>1. NoTree
      BY <2>1, <2>2, GoneIsAlone
    <3>2. Groups' /\ OnRecord'
      BY <2>1, <3>1 DEF Groups, OnRecord, Only, NoTree
    <3>3. Starting' /\ Running' /\ Cleaning'
      BY <2>1, <3>1 DEF Starting, Running, Cleaning, NoTree, Only, NoStart
    <3>4. StopInHand' /\ Stopped'
      BY <2>1, <3>1 DEF StopInHand, Stopped, UnderWay, NoTree, Only
    <3>5. QED BY <3>2, <3>3, <3>4
  <2>3. CASE UNCHANGED <<residual, restartDue>>
    <3>1. Groups' /\ OnRecord'
      BY <2>1, <2>3 DEF Groups, OnRecord, Only, Minded
    <3>2. Starting' /\ Running' /\ Cleaning'
      BY <2>1, <2>3 DEF Starting, Running, Cleaning, Only, NoTree, UnderWay, NoStart
    <3>3. StopInHand' /\ Stopped'
      BY <2>1, <2>3 DEF StopInHand, Stopped, UnderWay, NoTree, Only
    <3>4. QED BY <3>1, <3>2, <3>3
  <2>4. QED BY <1>1, <2>2, <2>3 DEF CleanupEnds
<1>2. CASE AutomaticRestart
  <2>1. /\ restartDue' = FALSE
        /\ UNCHANGED <<state, child, residual, expectedStop, stop, cleanup, stopAll, root, tree>>
    BY <1>2 DEF AutomaticRestart, os
  <2>2. CASE start' = start
    <3>1. Groups' /\ OnRecord'
      BY <2>1, <2>2 DEF Groups, OnRecord, Only, Minded
    <3>2. Starting' /\ Running' /\ Cleaning'
      BY <2>1, <2>2 DEF Starting, Running, Cleaning, Only, NoTree, UnderWay, NoStart, IsChildAlive
    <3>3. StopInHand' /\ Stopped'
      BY <2>1, <2>2 DEF StopInHand, Stopped, UnderWay, NoTree, Only
    <3>4. QED BY <3>1, <3>2, <3>3
  <2>3. CASE /\ cleanup = None /\ start = NoStart /\ state = "FAILED" /\ MayRestart(expectedStop, budget)
             /\ start' = [NoStart EXCEPT !.at = "BACKOFF"]
    <3>1. NoTree /\ ~expectedStop /\ ~StoppingAll
      BY <1>2, <2>3 DEF MayRestart, AutomaticRestart, Cleaning
    <3>2. start'.at = "BACKOFF" /\ ~UnderWay
      BY <2>3, <3>1 DEF NoStart, StopInHand
    <3>3. Groups' /\ OnRecord'
      BY <2>1, <3>1 DEF Groups, OnRecord, Only, NoTree
    <3>4. Starting' /\ Running' /\ Cleaning'
      BY <2>1, <2>3, <3>1, <3>2 DEF Starting, Running, Cleaning, NoTree
    <3>5. StopInHand' /\ Stopped'
      BY <2>1, <2>3, <3>1, <3>2 DEF StopInHand, Stopped, UnderWay, NoTree, StoppingAll
    <3>6. QED BY <3>3, <3>4, <3>5
  <2>4. QED BY <1>2, <2>2, <2>3 DEF AutomaticRestart
<1>3. QED BY <1>1, <1>2

-----------------------------------------------------------------------------
(* Stopping keeps the invariant. *)

\* A living process is taken over; else the stop waits, and minds the child.
LEMMA BeginStopCares ==
  ASSUME IInv, BeginStop, UNCHANGED <<child, cleanup, restartDue, stopAll, os>>
  PROVE  Care'
<1> USE DEF IInv, Care
<1>1. /\ expectedStop' = TRUE /\ start'.at = start.at /\ start'.proc = start.proc
      /\ start' = NoStart \/ start'.aborted
      /\ start = NoStart <=> start' = NoStart
      /\ UNCHANGED <<child, cleanup, restartDue, stopAll, root, tree>>
  <2>1. start = NoStart => start' = NoStart
    BY DEF BeginStop, Aborted
  <2>2. start # NoStart => /\ start.at # "NONE" /\ start'.aborted
                         /\ start'.at = start.at /\ start'.proc = start.proc
    BY StartingKnown DEF BeginStop, Aborted, TypeOK
  <2>3. QED BY <2>1, <2>2 DEF BeginStop, os, NoStart
<1>2. Groups'
  BY <1>1 DEF Groups, Only
<1>3. CASE IsChildAlive(child)
  <2>1. /\ residual' = child /\ state' = "STOPPING" /\ stop'.at = "GRACE" /\ stop'.proc = child /\ Only(child)
    BY <1>3 DEF BeginStop, Groups, IsChildAlive
  <2>2. ~NoTree
    BY <1>3 DEF IsChildAlive, Groups, NoTree, TypeOK
  <2>3. OnRecord'
    BY <1>1, <2>1 DEF OnRecord, Only
  <2>4. Starting' /\ Running' /\ Cleaning'
    BY <1>1, <2>1 DEF Starting, Running, Cleaning, Only, NoTree, UnderWay, NoStart
  <2>5. StopInHand' /\ Stopped'
    BY <1>1, <2>1, <2>2 DEF StopInHand, Stopped, UnderWay, NoTree, Only
  <2>6. QED BY <1>2, <2>3, <2>4, <2>5
<1>4. CASE ~IsChildAlive(child)
  <2>1. residual' = residual /\ state' = state /\ stop'.at = "AWAIT" /\ state \notin {"READY", "DEGRADED"}
    BY <1>4 DEF BeginStop, Running
  <2>2. Minded => Minded'
    BY <1>1, <2>1 DEF Minded
  <2>3. OnRecord'
    BY <1>1, <2>1, <2>2 DEF OnRecord
  <2>4. Starting' /\ Running' /\ Cleaning'
    BY <1>1, <2>1 DEF Starting, Running, Cleaning, Only, NoTree, UnderWay, NoStart
  <2>5. StopInHand' /\ Stopped'
    BY <1>1, <2>1 DEF StopInHand, Stopped, UnderWay, NoTree, Only
  <2>6. QED BY <1>2, <2>3, <2>4, <2>5
<1>5. QED BY <1>3, <1>4

LEMMA StopResumesCares ==
  ASSUME IInv, RunStop \/ StopResumes
  PROVE  Care'
<1> USE DEF IInv, Care
<1>1. CASE BeginStop
  BY <1>1, BeginStopCares DEF RunStop, StopResumes
<1>2. CASE StopResumes /\ ~BeginStop
  <2>1. /\ stop.at = "AWAIT" /\ start = NoStart /\ cleanup = None /\ UnderWay /\ expectedStop
        /\ state \notin {"READY", "DEGRADED"}
        /\ UNCHANGED <<child, expectedStop, start, cleanup, restartDue, stopAll, root, tree>>
    BY <1>2 DEF StopResumes, UnderWay, StopInHand, Running, os
  <2>2. Groups'
    BY <2>1 DEF Groups, Only
  <2>3. CASE /\ child # None /\ residual' = child /\ state' = "STOPPING"
             /\ stop' = [at |-> "TERMINATING", proc |-> child]
    <3>1. Only(child)
      BY <2>3 DEF Groups
    <3>2. OnRecord' /\ Starting' /\ Running' /\ Cleaning'
      BY <2>1, <2>3, <3>1 DEF OnRecord, Starting, Running, Cleaning, Only, NoTree, NoStart
    <3>3. StopInHand' /\ Stopped'
      BY <2>1, <2>3, <3>1 DEF StopInHand, Stopped, UnderWay, NoTree, Only
    <3>4. QED BY <2>2, <3>2, <3>3
  <2>4. CASE /\ ~TreeAlive(child) /\ residual' = residual
             /\ \/ state' = "STOPPING" /\ stop' = [at |-> "TERMINATING", proc |-> residual]
                \/ ~TreeAlive(residual) /\ stop' = [at |-> "FINISH", proc |-> None] /\ state' = state
    <3>1. Only(residual)
      BY <2>4, NoneIsNoProcess DEF OnRecord, Only, TreeAlive
    <3>2. ~TreeAlive(residual) => NoTree
      BY <3>1, NoneIsNoProcess DEF Only, TreeAlive, NoTree
    <3>3. OnRecord' /\ Starting' /\ Running' /\ Cleaning'
      BY <2>1, <2>4, <3>1 DEF OnRecord, Starting, Running, Cleaning, Only, NoTree, NoStart
    <3>4. StopInHand' /\ Stopped'
      BY <2>1, <2>4, <3>1, <3>2 DEF StopInHand, Stopped, UnderWay, NoTree, Only
    <3>5. QED BY <2>2, <3>3, <3>4
  <2>5. QED BY <1>2, <2>3, <2>4 DEF StopResumes
<1>3. QED BY <1>1, <1>2 DEF RunStop

LEMMA StopEndsCares ==
  ASSUME IInv, GraceEnds \/ TerminationEnds \/ StopEnds
  PROVE  Care'
<1> USE DEF IInv, Care
<1>1. UnderWay /\ expectedStop /\ (start = NoStart \/ start.aborted) /\ state \notin {"READY", "DEGRADED"}
  BY DEF GraceEnds, TerminationEnds, StopEnds, UnderWay, StopInHand, Running
<1>2. UNCHANGED <<child, expectedStop, start, cleanup, restartDue, root, tree>>
  BY DEF GraceEnds, TerminationEnds, StopEnds, os, record
<1>3. stop.at \in {"GRACE", "TERMINATING"} /\ Gone(stop.proc) => NoTree
  BY GoneIsAlone, NoneIsAlone DEF StopInHand
<1>4. Groups'
  BY <1>2 DEF Groups, Only
<1>5. CASE GraceEnds \/ (TerminationEnds /\ stop' # NoStop)
  <2>1. /\ stop.at \in {"GRACE", "TERMINATING"} /\ stop'.at \in {"FINISH", "TERMINATING"}
        /\ stop'.proc = stop.proc
        /\ stop'.at = "FINISH" => Gone(stop.proc)
        /\ UNCHANGED <<state, residual, stopAll>>
    BY <1>5 DEF GraceEnds, TerminationEnds, Terminated, record, TypeOK
  <2>2. OnRecord' /\ Starting' /\ Running' /\ Cleaning'
    BY <1>1, <1>2, <2>1 DEF OnRecord, Minded, Starting, Running, Cleaning, Only, NoTree, UnderWay
  <2>3. StopInHand' /\ Stopped'
    BY <1>1, <1>2, <1>3, <2>1 DEF StopInHand, Stopped, UnderWay, NoTree, Only
  <2>4. QED BY <1>4, <2>2, <2>3
<1>6. CASE TerminationEnds /\ stop' = NoStop
  <2>1. /\ stop.at = "TERMINATING" /\ ~Pending /\ residual' = residual /\ stop'.at = "NONE"
        /\ stopAll' # "AFTER" \/ stopAll' = stopAll
    BY <1>6 DEF TerminationEnds, NoStop
  <2>2. state' = "FAILED"
    <3>1. [stop EXCEPT !.at = "FINISH"].at = "FINISH"
      BY DEF TypeOK
    <3>2. QED BY <1>6, <3>1 DEF TerminationEnds, NoStop
  <2>3. start.at \notin {"BACKOFF", "WAITING"} /\ Only(residual)
    BY <1>1, <2>1, StartingKnown DEF StopInHand
  <2>4. OnRecord' /\ Starting' /\ Running' /\ Cleaning'
    BY <1>1, <1>2, <2>1, <2>2, <2>3 DEF OnRecord, Starting, Running, Cleaning, Only, NoTree
  <2>5. StopInHand' /\ Stopped'
    BY <1>1, <1>2, <2>1, <2>2 DEF StopInHand, Stopped, UnderWay, NoTree
  <2>6. QED BY <1>4, <2>4, <2>5
<1>7. CASE StopEnds
  <2>1. /\ NoTree /\ start = NoStart /\ residual' = None /\ state' = "STOPPED" /\ stop'.at = "NONE"
    BY <1>7 DEF StopEnds, StopInHand, NoStop
  <2>2. NoTree'
    BY <1>2, <2>1 DEF NoTree
  <2>3. OnRecord' /\ Starting' /\ Running' /\ Cleaning'
    BY <1>1, <1>2, <2>1, <2>2 DEF OnRecord, Starting, Running, Cleaning, Only, NoTree, NoStart
  <2>4. StopInHand' /\ Stopped'
    BY <1>2, <2>1, <2>2 DEF StopInHand, Stopped, UnderWay
  <2>5. QED BY <1>4, <2>3, <2>4
<1>8. QED BY <1>5, <1>6, <1>7

LEMMA NextInductive == ASSUME IInv, [Next]_vars PROVE IInv'
<1>1. TypeOK'
  BY NextTypes DEF IInv
<1>2. ASSUME UNCHANGED vars PROVE Care'
  <2>1. UNCHANGED <<state, child, residual, expectedStop, start, stop, cleanup, restartDue, stopAll, root, tree>>
    BY <1>2 DEF vars, record, os
  <2>2. Groups' /\ OnRecord' /\ Running' /\ Cleaning'
    BY <2>1 DEF IInv, Care, Groups, OnRecord, Running, Cleaning, NoTree, Only, Minded, IsChildAlive
  <2>3. Starting' /\ StopInHand' /\ Stopped'
    BY <2>1 DEF IInv, Care, Starting, StopInHand, Stopped, NoTree, Only, UnderWay
  <2>4. QED BY <2>2, <2>3 DEF Care
<1>3. ASSUME Next PROVE Care'
  <2>1. CASE \/ \E c \in Callers : Start(c) \/ Restart(c) \/ Abort(c)
             \/ Stop \/ StopAll \/ StopAllReachesThis \/ StopAllEnds
    BY <2>1, StartCares, CallsCare
  <2>2. CASE MarkDegraded \/ MarkReady \/ Sequence
    BY <2>2, BackoffCares, ReadyCares, AttemptFailsCares, AttemptCleanedCares DEF Sequence
  <2>3. CASE CleanupEnds \/ AutomaticRestart \/ Stopping
    BY <2>3, CleanupCares, StopResumesCares, StopEndsCares DEF Stopping
  <2>4. CASE Process
    BY <2>4, RootExitsCares, TreeEndsCares, PipesCloseCares DEF Process
  <2>5. QED BY <1>3, <2>1, <2>2, <2>3, <2>4 DEF Next
<1>4. Care'
  BY <1>2, <1>3 DEF IInv
<1>5. QED BY <1>1, <1>4 DEF IInv

LEMMA Inductive == Spec => []IInv
<1>1. QED BY InitInductive, NextInductive, PTL DEF Spec

-----------------------------------------------------------------------------
(* The theorems. *)

\* Every variable of a managed component holds a value of its kind
\* (manager.ts:79-105); the restart budget in particular is never overdrawn.
THEOREM ManagerTypeOK == Spec => []TypeOK
<1>1. IInv => TypeOK
  BY DEF IInv
<1>2. QED BY <1>1, Inductive, PTL

\* What the manager has on record is true: one process group at most, which the
\* record names; READY of a process that runs; STOPPED of none (manager.ts:223-241,
\* 336-354, 1046-1206).
THEOREM ManagerRecordIsTrue == Spec => []RecordIsTrue
<1>1. IInv => RecordIsTrue
  <2> SUFFICES ASSUME IInv PROVE RecordIsTrue
    OBVIOUS
  <2> USE DEF IInv, Care
  <2>1. ASSUME NEW p \in Procs, NEW q \in Procs, tree[p], tree[q] PROVE p = q /\ p \in {child, residual}
    BY <2>1, NoneIsNoProcess DEF Groups, OnRecord, Only
  <2>2. state \in {"READY", "DEGRADED"} => IsChildAlive(child) /\ ~expectedStop
    BY DEF Running
  <2>3. (state = "STOPPED" /\ stop = NoStop) \/ stopAll = "AFTER" => \A p \in Procs : ~tree[p]
    BY DEF Stopped, NoTree, UnderWay, NoStop
  <2>4. QED BY <2>1, <2>2, <2>3 DEF RecordIsTrue
<1>2. QED BY <1>1, Inductive, PTL

\* A step that spawns is a call of start, or the end of a backoff of a component
\* that nobody has told to stop (manager.ts:689-696).
LEMMA SpawnIsAskedFor ==
  ASSUME IInv, Next, NEW p \in Procs, root[p] = "UNUSED", root'[p] # "UNUSED"
  PROVE  ~expectedStop \/ \E c \in Callers : call[c] \in {"IDLE", "AGAIN"} /\ call'[c] = "STARTING"
<1>0. root' # root
  OBVIOUS
<1>1. CASE \E c \in Callers : Start(c)
  <2>1. PICK c \in Callers : Start(c)
    BY <1>1
  <2>2. /\ Attempt([NoStart EXCEPT !.owner = {c}], FALSE, 0)
        /\ call' = [call EXCEPT ![c] = IF start' = NoStart THEN "DONE" ELSE "STARTING"]
    BY <1>0, <2>1 DEF Start, StartCall, os
  <2>3. start'.at = "WAITING"
    BY <1>0, <2>2 DEF Attempt, os, NoStart
  <2>4. start' # NoStart
    BY <2>3 DEF NoStart
  <2>5. call'[c] = "STARTING"
    BY <2>2, <2>4 DEF IInv, TypeOK
  <2>6. QED BY <2>1, <2>5 DEF Start
<1>2. CASE BackoffEnds
  <2>1. start.at = "BACKOFF" /\ ~start.aborted
    BY <1>0, <1>2 DEF BackoffEnds, os
  <2>2. QED BY <2>1, StartingKnown DEF IInv, Care, Starting, StopInHand, NoStart
<1>3. ASSUME NEW q \in Procs, RootExits(q) \/ TreeEnds(q) \/ PipesClose(q) PROVE FALSE
  <2>1. \A r \in Procs : root[r] = "UNUSED" => root'[r] = "UNUSED"
    BY <1>3 DEF RootExits, TreeEnds, PipesClose, IInv, TypeOK
  <2>2. QED BY <2>1
<1>4. CASE \/ \E c \in Callers : Restart(c) \/ Abort(c)
           \/ Stop \/ StopAll \/ StopAllReachesThis \/ StopAllEnds \/ MarkDegraded \/ MarkReady
           \/ BecomesReady \/ (\E e \in Errors : AttemptFails(e)) \/ AttemptCleaned
           \/ CleanupEnds \/ AutomaticRestart \/ Stopping
  BY <1>0, <1>4 DEF Restart, Abort, Stop, StopAll, StopAllReachesThis, StopAllEnds, MarkDegraded, MarkReady,
     BecomesReady, AttemptFails, AttemptCleaned, CleanupEnds, AutomaticRestart, Stopping, RunStop, StopResumes,
     GraceEnds, TerminationEnds, StopEnds, os
<1>5. QED BY <1>1, <1>2, <1>3, <1>4 DEF Next, Sequence, Process

\* A component that was told to stop is started again only by a call of start: no
\* backoff, retry or automatic restart spawns (manager.ts:689-696).
THEOREM ManagerObeysTheStop == Spec => NoSpawnOnceStopped
<1>1. ASSUME IInv, [Next]_vars
      PROVE  [(\E p \in Procs : root[p] = "UNUSED" /\ root'[p] # "UNUSED") =>
                 ~expectedStop \/ \E c \in Callers : call[c] \in {"IDLE", "AGAIN"} /\ call'[c] = "STARTING"]_vars
  BY <1>1, SpawnIsAskedFor
<1>2. QED BY <1>1, Inductive, PTL DEF Spec, NoSpawnOnceStopped

-----------------------------------------------------------------------------
(* ModelAssets: the inductive invariant. *)

HIDE DEF States, Calling, Stops, Roots

Sections == {"RECORD", "REPAIR", "RENAME", "REMOVING", "CLEANING", "CLEARING"}
Whole    == {"RECONCILE", "REPAIR", "PUBLISH", "RENAME"}
Staged   == Whole \cup {"TRANSFER"}
Fetched  == Staged \cup {"STAGE"}
Wants(u) == Range(GatesOf(Stage(u)))
In(v, q) == \E i \in DOMAIN q : q[i] = v
Heads(v, q)  == q # <<>> /\ Head(q) = v
Distinct(q) == \A i, j \in DOMAIN q : q[i] = q[j] => i = j

Queues ==
    /\ \A u \in Users, g \in Gates : In(u, gate[g]) => g \in Wants(u)
    /\ \A g \in Gates : Distinct(gate[g])
    /\ \A u \in Users : Stage(u) \in Sections => \A g \in Wants(u) : Heads(u, gate[g])

\* A request waits for an installation that is not being given up, and what is
\* called off was.
Heard ==
    \A c \in Clients :
        /\ request[c].at \in {"IDLE", "AFTER"} => op[c].at = "NONE"
        /\ request[c].at \in {"WAITING", "AFTER"} => request[c].on \in Clients
        /\ request[c].at # "CANCELLED"
        /\ op[c].at \notin {"NONE", "OVER"} => op[c].manager \in Managers /\ op[c].artifact \in Artifacts
        /\ op[c].aborted => \A d \in Clients : request[d].at = "WAITING" => request[d].on # c
        /\ op[c].at = "BEGIN" => op[c].result = "NONE"
        /\ op[c].result = "CANCELLED" => op[c].aborted

\* What an installation has staged, promised and found.
Kept(e) ==
    /\ op[e].at \in Staged => staging[e] # "NONE"
    /\ op[e].at \in Whole => staging[e] = "GOOD"
    /\ op[e].at \in Fetched => reservations[e] = Bytes(e)
    /\ reservations[e] > 0 => op[e].at \in Holding /\ reservations[e] = Bytes(e)
    /\ reservations[e] = 0 => staging[e] = "NONE"
    /\ op[e].at = "REPAIR" => artifacts[op[e].artifact] # "INSTALLED"
    /\ op[e].result = "OK" /\ Begun(e) => artifacts[op[e].artifact] = "INSTALLED"

Safekeeping == \A e \in Clients : Kept(e)

\* A removal or cleanup that found nothing under way has nothing under way.
Undisturbed ==
    \A t \in Tasks, e \in Clients :
        Begun(e) => /\ task[t].at \notin {"CLEANING", "CLEARING"}
                    /\ task[t].at = "REMOVING" => op[e].artifact \in task[t].keep

Projected ==
    \A e \in Clients : op[e].at = "RECORD" => Fits(e, UsedBytes + CommittedBytes + Bytes(e))

Accounts == WithinLimits /\ reservedBytes = CommittedBytes /\ Projected

AInv == AssetsTypeOK /\ Queues /\ Heard /\ Safekeeping /\ Undisturbed /\ CountsAreExact /\ Accounts
-----------------------------------------------------------------------------
(* Sums, counted in units. *)

UnitsOf(f, x) == {x} \X (1 .. f[x])
Units(f)      == UNION {UnitsOf(f, x) : x \in DOMAIN f}

LEMMA UnitsOfOne ==
  ASSUME NEW f, NEW x, f[x] \in Nat
  PROVE  IsFiniteSet(UnitsOf(f, x)) /\ Cardinality(UnitsOf(f, x)) = f[x]
<1>1. IsFiniteSet({x}) /\ Cardinality({x}) = 1
  BY FS_Singleton
<1>2. IsFiniteSet(1 .. f[x]) /\ Cardinality(1 .. f[x]) = f[x]
  <2>1. f[x] \in Int /\ 1 \in Int
    OBVIOUS
  <2>2. IsFiniteSet(1 .. f[x]) /\ Cardinality(1 .. f[x]) = IF 1 > f[x] THEN 0 ELSE f[x] - 1 + 1
    BY <2>1, FS_Interval, Zenon
  <2>3. QED BY <2>2
<1>3. /\ IsFiniteSet({x} \X (1 .. f[x]))
      /\ Cardinality({x} \X (1 .. f[x])) = Cardinality({x}) * Cardinality(1 .. f[x])
  BY <1>1, <1>2, FS_Product, Zenon
<1>4. QED BY <1>1, <1>2, <1>3 DEF UnitsOf

LEMMA UnitsAreFinite ==
  ASSUME NEW S, IsFiniteSet(S), NEW f, DOMAIN f = S, \A x \in S : f[x] \in Nat
  PROVE  IsFiniteSet(Units(f))
<1> DEFINE T == {UnitsOf(f, x) : x \in S}
           g == [x \in S |-> UnitsOf(f, x)]
<1>1. g \in Surjection(S, T)
  BY DEF Surjection
<1>2. IsFiniteSet(T)
  BY <1>1, FS_Surjection, Zenon
<1>3. \A t \in T : IsFiniteSet(t)
  BY UnitsOfOne
<1>4. IsFiniteSet(UNION T)
  BY <1>2, <1>3, FS_UNION, Zenon
<1>5. QED BY <1>4 DEF Units

LEMMA TotalIsNatural ==
  ASSUME NEW S, IsFiniteSet(S), NEW f \in [S -> Nat]
  PROVE  /\ IsFiniteSet(Units(f)) /\ Total(f) \in Nat
         /\ Total(f) = Cardinality(Units(f))
<1>1. IsFiniteSet(Units(f))
  BY UnitsAreFinite
<1>2. Total(f) = Cardinality(Units(f))
  BY DEF Total, Units, UnitsOf
<1>3. QED BY <1>1, <1>2, FS_CardinalityType

\* Only one summand changes.
LEMMA TotalOfUpdate ==
  ASSUME NEW S, IsFiniteSet(S), NEW f \in [S -> Nat], NEW g \in [S -> Nat], NEW e \in S,
         \A x \in S : x # e => g[x] = f[x]
  PROVE  Total(g) = Total(f) - f[e] + g[e]
<1> DEFINE R == UNION {UnitsOf(f, x) : x \in S \ {e}}
<1>1. IsFiniteSet(R)
  <2>1. R \subseteq Units(f)
    BY DEF Units
  <2>2. QED BY <2>1, TotalIsNatural, FS_Subset
<1>2. ASSUME NEW h \in [S -> Nat], \A x \in S : x # e => h[x] = f[x]
      PROVE  Total(h) = Cardinality(R) + h[e]
  <2>1. Units(h) = R \cup UnitsOf(h, e)
    <3>1. \A x \in S : x # e => UnitsOf(h, x) = UnitsOf(f, x)
      BY <1>2 DEF UnitsOf
    <3>2. ASSUME NEW u PROVE u \in Units(h) <=> \E x \in S : u \in UnitsOf(h, x)
      BY DEF Units
    <3>3. ASSUME NEW u PROVE u \in R <=> \E x \in S : x # e /\ u \in UnitsOf(f, x)
      OBVIOUS
    <3>4. ASSUME NEW u PROVE u \in Units(h) <=> u \in R \/ u \in UnitsOf(h, e)
      BY <3>1, <3>2, <3>3
    <3>5. QED BY <3>4
  <2>2. R \cap UnitsOf(h, e) = {}
    BY DEF UnitsOf
  <2>3. IsFiniteSet(UnitsOf(h, e)) /\ Cardinality(UnitsOf(h, e)) = h[e]
    BY UnitsOfOne
  <2>4. Cardinality(R \cup UnitsOf(h, e))
          = Cardinality(R) + Cardinality(UnitsOf(h, e)) - Cardinality(R \cap UnitsOf(h, e))
    BY <1>1, <2>3, FS_Union, Zenon
  <2>5. Cardinality(R \cap UnitsOf(h, e)) = 0
    BY <2>2, FS_EmptySet
  <2>6. Total(h) = Cardinality(R \cup UnitsOf(h, e))
    BY <2>1, TotalIsNatural
  <2>7. Cardinality(R) \in Nat
    BY <1>1, FS_CardinalityType
  <2>8. QED BY <2>3, <2>4, <2>5, <2>6, <2>7
<1>3. Total(f) = Cardinality(R) + f[e] /\ Total(g) = Cardinality(R) + g[e]
  BY <1>2
<1>4. Cardinality(R) \in Nat /\ f[e] \in Nat /\ g[e] \in Nat
  BY <1>1, FS_CardinalityType
<1>5. QED BY <1>3, <1>4

LEMMA TotalIsMonotone ==
  ASSUME NEW S, IsFiniteSet(S), NEW f \in [S -> Nat], NEW g \in [S -> Nat],
         \A x \in S : f[x] <= g[x]
  PROVE  Total(f) <= Total(g)
<1>1. Units(f) \subseteq Units(g)
  <2> SUFFICES ASSUME NEW x \in S, NEW u \in UnitsOf(f, x) PROVE u \in UnitsOf(g, x)
    BY DEF Units
  <2>1. f[x] \in Nat /\ g[x] \in Nat /\ f[x] <= g[x]
    OBVIOUS
  <2>2. 1 .. f[x] \subseteq 1 .. g[x]
    BY <2>1
  <2>3. QED BY <2>2 DEF UnitsOf
<1>2. QED BY <1>1, TotalIsNatural, FS_Subset

LEMMA TotalOfNothing ==
  ASSUME NEW S, NEW f \in [S -> Nat], \A x \in S : f[x] = 0
  PROVE  Total(f) = 0
<1>1. Units(f) = {}
  BY DEF Units, UnitsOf
<1>2. Total(f) = Cardinality(Units(f))
  BY DEF Total, Units, UnitsOf
<1>3. QED BY <1>1, <1>2, FS_EmptySet

-----------------------------------------------------------------------------
(* The gates. *)

LEMMA Leaves ==
  ASSUME NEW q \in Seq(Users), Distinct(q), NEW u, Heads(u, q)
  PROVE  /\ Tail(q) \in Seq(Users) /\ Distinct(Tail(q)) /\ ~In(u, Tail(q))
         /\ \A v : In(v, Tail(q)) => In(v, q)
<1>1. q # <<>> /\ q[1] = u
  BY DEF Heads
<1>2. /\ Tail(q) \in Seq(Users) /\ Len(q) \in Nat \ {0} /\ Len(Tail(q)) = Len(q) - 1
      /\ \A i \in 1 .. Len(Tail(q)) : Tail(q)[i] = q[i + 1]
  BY <1>1, HeadTailProperties, LenProperties, EmptySeq
<1>3. DOMAIN q = 1 .. Len(q) /\ DOMAIN Tail(q) = 1 .. Len(q) - 1
  BY <1>2, LenProperties
<1>4. ASSUME NEW i \in 1 .. Len(q) - 1
      PROVE  i + 1 \in 1 .. Len(q) /\ i + 1 # 1 /\ Tail(q)[i] = q[i + 1]
  BY <1>2, <1>4
<1>5. Distinct(Tail(q))
  <2> SUFFICES ASSUME NEW i \in 1 .. Len(q) - 1, NEW j \in 1 .. Len(q) - 1, Tail(q)[i] = Tail(q)[j]
               PROVE  i = j
    BY <1>3 DEF Distinct
  <2>1. q[i + 1] = q[j + 1]
    BY <1>4
  <2>2. i + 1 = j + 1
    BY <1>3, <1>4, <2>1 DEF Distinct
  <2>3. QED BY <1>2, <2>2
<1>6. ~In(u, Tail(q))
  <2> SUFFICES ASSUME NEW i \in 1 .. Len(q) - 1, Tail(q)[i] = u PROVE FALSE
    BY <1>3 DEF In
  <2>1. q[i + 1] = q[1] /\ 1 \in DOMAIN q /\ i + 1 \in DOMAIN q
    BY <1>1, <1>2, <1>3, <1>4
  <2>2. QED BY <1>4, <2>1 DEF Distinct
<1>7. \A v : In(v, Tail(q)) => In(v, q)
  BY <1>3, <1>4 DEF In
<1>8. QED BY <1>2, <1>5, <1>6, <1>7

LEMMA Joins ==
  ASSUME NEW q \in Seq(Users), Distinct(q), NEW u \in Users, ~In(u, q)
  PROVE  /\ Append(q, u) \in Seq(Users) /\ Distinct(Append(q, u))
         /\ \A v : In(v, Append(q, u)) <=> In(v, q) \/ v = u
         /\ \A v : Heads(v, q) => Heads(v, Append(q, u))
<1>1. /\ Append(q, u) \in Seq(Users) /\ Len(Append(q, u)) = Len(q) + 1
      /\ \A i \in 1 .. Len(q) : Append(q, u)[i] = q[i]
      /\ Append(q, u)[Len(q) + 1] = u
  BY AppendProperties
<1>2. Len(q) \in Nat /\ DOMAIN q = 1 .. Len(q) /\ DOMAIN Append(q, u) = 1 .. Len(q) + 1
  BY <1>1, LenProperties
<1>3. ASSUME NEW i \in 1 .. Len(q) + 1
      PROVE  \/ i \in 1 .. Len(q) /\ Append(q, u)[i] = q[i] /\ q[i] # u
             \/ i = Len(q) + 1 /\ Append(q, u)[i] = u
  BY <1>1, <1>2 DEF In
<1>4. Distinct(Append(q, u))
  BY <1>2, <1>3 DEF Distinct
<1>5. ASSUME NEW v PROVE In(v, Append(q, u)) <=> In(v, q) \/ v = u
  <2>1. ASSUME In(v, Append(q, u)) PROVE In(v, q) \/ v = u
    BY <1>2, <1>3, <2>1 DEF In
  <2>2. ASSUME In(v, q) PROVE In(v, Append(q, u))
    BY <1>1, <1>2, <2>2 DEF In
  <2>3. In(u, Append(q, u))
    BY <1>1, <1>2 DEF In
  <2>4. QED BY <2>1, <2>2, <2>3
<1>6. ASSUME NEW v, Heads(v, q) PROVE Heads(v, Append(q, u))
  <2>1. q # <<>> /\ q[1] = v
    BY <1>6 DEF Heads
  <2>2. 1 \in 1 .. Len(q)
    BY <1>2, <2>1, EmptySeq
  <2>3. Append(q, u) # <<>> /\ Append(q, u)[1] = v
    BY <1>1, <1>2, <2>1, <2>2, EmptySeq
  <2>4. QED BY <2>3 DEF Heads
<1>7. QED BY <1>1, <1>4, <1>5, <1>6

\* u is nowhere in line behind another.
Free(u) == \A g \in Gates : In(u, gate[g]) => Heads(u, gate[g])

LEMMA StageGates ==
  /\ \A s \in {"BEGIN", "PUBLISH", "RENAME", "END", "REMOVE", "REMOVING"} :
        /\ GatesOf(s) = <<"CAPACITY", "MUTATION">>
        /\ Range(GatesOf(s)) = {"CAPACITY", "MUTATION"}
  /\ \A s \in {"RESERVE", "RECORD", "RELEASE"} :
        GatesOf(s) = <<"CAPACITY">> /\ Range(GatesOf(s)) = {"CAPACITY"}
  /\ \A s \in {"RECONCILE", "REPAIR", "CLEANUP", "CLEANING", "CLEAR", "CLEARING"} :
        GatesOf(s) = <<"MUTATION">> /\ Range(GatesOf(s)) = {"MUTATION"}
  /\ \A s \in {"NONE", "CHECK", "STAGE", "TRANSFER", "RACED", "OVER", "IDLE", "DONE"} :
        GatesOf(s) = <<>> /\ Range(GatesOf(s)) = {}
<1>1. \A s \in {"BEGIN", "PUBLISH", "RENAME", "END", "REMOVE", "REMOVING"} :
         GatesOf(s) = <<"CAPACITY", "MUTATION">>
  BY DEF GatesOf
<1>2. \A s \in {"RESERVE", "RECORD", "RELEASE"} : GatesOf(s) = <<"CAPACITY">>
  BY DEF GatesOf
<1>3. \A s \in {"RECONCILE", "REPAIR", "CLEANUP", "CLEANING", "CLEAR", "CLEARING"} :
         GatesOf(s) = <<"MUTATION">>
  BY DEF GatesOf
<1>4. \A s \in {"NONE", "CHECK", "STAGE", "TRANSFER", "RACED", "OVER", "IDLE", "DONE"} :
         GatesOf(s) = <<>>
  BY DEF GatesOf
<1>5. /\ Range(<<"CAPACITY", "MUTATION">>) = {"CAPACITY", "MUTATION"}
      /\ Range(<<"CAPACITY">>) = {"CAPACITY"} /\ Range(<<"MUTATION">>) = {"MUTATION"}
      /\ Range(<<>>) = {}
  BY DEF Range
<1>6. QED BY <1>1, <1>2, <1>3, <1>4, <1>5

LEMMA StageOf ==
  /\ \A e \in Clients : Stage(e) = op[e].at /\ Stage(e)' = op'[e].at
  /\ \A t \in Tasks : Stage(t) = task[t].at /\ Stage(t)' = task'[t].at /\ t \notin Clients
BY ClientsAssumption DEF Stage

\* One that acts in a section, or at a stage that needs no gate, blocks no gate
\* by moving on.
LEMMA FreeToMove ==
  ASSUME Queues, NEW u \in Users,
         Inside(u) \/ Stage(u) \in Sections \/ GatesOf(Stage(u)) = <<>>
  PROVE  Free(u)
<1> SUFFICES ASSUME NEW g \in Gates, In(u, gate[g]) PROVE Heads(u, gate[g])
  BY DEF Free
<1>1. g \in Wants(u)
  BY DEF Queues
<1>2. CASE Inside(u)
  BY <1>1, <1>2 DEF Inside, Wants, Holds, Heads
<1>3. CASE Stage(u) \in Sections
  BY <1>1, <1>3 DEF Queues
<1>4. CASE GatesOf(Stage(u)) = <<>>
  BY <1>1, <1>4 DEF Wants, Range
<1>5. QED BY <1>2, <1>3, <1>4

\* What u does to the gates when it moves on to a stage.
LEMMA RequeueDoes ==
  ASSUME AssetsTypeOK, Queues, NEW u \in Users, Free(u), NEW s, NEW g \in Gates
  PROVE  LET q == Requeue(u, s)[g]
         IN  /\ q \in Seq(Users) /\ Distinct(q)
             /\ \A v : v # u /\ In(v, q) => In(v, gate[g])
             /\ In(u, q) => g \in Range(GatesOf(s))
             /\ \A v : v # u /\ Heads(v, gate[g]) => Heads(v, q)
<1> DEFINE others == IF Holds(u, g) THEN Tail(gate[g]) ELSE gate[g]
           q == Requeue(u, s)[g]
<1>1. gate[g] \in Seq(Users) /\ Distinct(gate[g])
  BY DEF AssetsTypeOK, Queues
<1>2. /\ others \in Seq(Users) /\ Distinct(others) /\ ~In(u, others)
      /\ \A v : In(v, others) => In(v, gate[g])
      /\ \A v : v # u /\ Heads(v, gate[g]) => Heads(v, others)
  <2>1. CASE Heads(u, gate[g])
    <3>1. others = Tail(gate[g])
      BY <2>1 DEF Holds, Heads
    <3>2. \A v : Heads(v, gate[g]) => v = u
      BY <2>1 DEF Heads
    <3>3. QED BY <1>1, <2>1, <3>1, <3>2, Leaves
  <2>2. CASE ~Heads(u, gate[g])
    <3>1. others = gate[g]
      BY <2>2 DEF Holds, Heads
    <3>2. ~In(u, gate[g])
      BY <2>2 DEF Free
    <3>3. QED BY <1>1, <3>1, <3>2
  <2>3. QED BY <2>1, <2>2
<1>3. q = IF GatesOf(s) # <<>> /\ g = GatesOf(s)[1] THEN Append(others, u) ELSE others
  BY DEF Requeue
<1>4. CASE q = others
  BY <1>2, <1>4
<1>5. CASE GatesOf(s) # <<>> /\ g = GatesOf(s)[1] /\ q = Append(others, u)
  <2>1. g \in Range(GatesOf(s))
    <3>1. GatesOf(s) \in {<<"CAPACITY", "MUTATION">>, <<"CAPACITY">>, <<"MUTATION">>}
      BY <1>5 DEF GatesOf
    <3>2. QED BY <1>5, <3>1 DEF Range
  <2>2. /\ Append(others, u) \in Seq(Users) /\ Distinct(Append(others, u))
        /\ \A v : In(v, Append(others, u)) <=> In(v, others) \/ v = u
        /\ \A v : Heads(v, others) => Heads(v, Append(others, u))
    <3> HIDE DEF others, q
    <3>1. QED BY <1>2, Joins
  <2>3. QED BY <1>2, <1>5, <2>1, <2>2
<1>6. QED BY <1>3, <1>4, <1>5

LEMMA MovesOn ==
  ASSUME AssetsTypeOK, Queues, NEW u \in Users, Free(u), NEW s, s \notin Sections,
         gate' = Requeue(u, s), Stage(u)' = s, \A v \in Users : v # u => Stage(v)' = Stage(v)
  PROVE  gate' \in [Gates -> Seq(Users)] /\ Queues'
<1>1. ASSUME NEW g \in Gates
      PROVE  /\ gate'[g] \in Seq(Users) /\ Distinct(gate'[g])
             /\ \A v : v # u /\ In(v, gate'[g]) => In(v, gate[g])
             /\ In(u, gate'[g]) => g \in Range(GatesOf(s))
             /\ \A v : v # u /\ Heads(v, gate[g]) => Heads(v, gate'[g])
  BY RequeueDoes, Zenon
<1>2. gate' \in [Gates -> Seq(Users)]
  <2>1. gate' = [g \in Gates |-> gate'[g]]
    BY DEF Requeue
  <2>2. QED BY <1>1, <2>1
<1>3. ASSUME NEW v \in Users, NEW g \in Gates, In(v, gate'[g]) PROVE g \in Wants(v)'
  BY <1>1, <1>3 DEF Queues, Wants
<1>4. ASSUME NEW v \in Users, Stage(v)' \in Sections, NEW g \in Wants(v)' PROVE Heads(v, gate'[g])
  <2>1. v # u /\ g \in Wants(v) /\ Stage(v) \in Sections
    BY <1>4 DEF Wants
  <2>2. g \in Gates
    BY <2>1, StageGates DEF Wants, Sections, Gates
  <2>3. QED BY <1>1, <2>1, <2>2 DEF Queues
<1>5. QED BY <1>1, <1>2, <1>3, <1>4 DEF Queues, Distinct, In, Heads

LEMMA StaysInside ==
  ASSUME AssetsTypeOK, Queues, NEW u \in Users, Inside(u), GatesOf(Stage(u))' = GatesOf(Stage(u)),
         gate' = gate, \A v \in Users : v # u => Stage(v)' = Stage(v)
  PROVE  gate' \in [Gates -> Seq(Users)] /\ Queues'
<1>1. \A v \in Users : Wants(v)' = Wants(v)
  BY DEF Wants, Range
<1>2. ASSUME NEW v \in Users, Stage(v)' \in Sections, NEW g \in Wants(v) PROVE Heads(v, gate[g])
  BY <1>2 DEF Inside, Wants, Holds, Heads, Queues
<1>3. QED BY <1>1, <1>2 DEF AssetsTypeOK, Queues, Distinct, In, Heads

-----------------------------------------------------------------------------
(* The steps of an installation. *)

OpTypes == [at : {"NONE", "BEGIN", "CHECK", "RESERVE", "RECORD", "STAGE", "TRANSFER", "RECONCILE",
                  "REPAIR", "PUBLISH", "RENAME", "RACED", "RELEASE", "END", "OVER"},
            manager : Managers \cup {Nil}, artifact : Artifacts \cup {Nil}, aborted : BOOLEAN,
            result : Results \cup {"NONE"}]
UnderWayStages == {"CHECK", "RESERVE", "RECORD", "STAGE", "TRANSFER", "RECONCILE", "REPAIR",
                   "PUBLISH", "RENAME", "RACED", "RELEASE", "END"}

\* Installation e, which has been begun or is being begun, comes to stage s with
\* result r; it is cancelled only when it was called off.
Advances(e, s, r) ==
    /\ s \in UnderWayStages /\ r \in Results \cup {"NONE"}
    /\ op[e].at \in UnderWayStages \cup {"BEGIN"}
    /\ op' \in [Clients -> OpTypes]
    /\ op'[e].at = s /\ op'[e].result = r /\ op'[e].manager = op[e].manager
    /\ op'[e].artifact = op[e].artifact /\ op'[e].aborted = op[e].aborted
    /\ \A x \in Clients : x # e => op'[x] = op[x]
    /\ r = "CANCELLED" => op[e].aborted \/ r = op[e].result
    /\ \/ gate' = Requeue(e, s) /\ s \notin Sections
       \/ gate' = gate /\ Inside(e) /\ GatesOf(s) = GatesOf(op[e].at)

LEMMA Advancing ==
  ASSUME AssetsTypeOK, NEW e \in Clients, NEW s \in UnderWayStages,
         op[e].at \in UnderWayStages \cup {"BEGIN"}
  PROVE  /\ Go(e, s) /\ s \notin Sections => Advances(e, s, op[e].result)
         /\ \A r \in Results : Fail(e, s, r) /\ s \notin Sections /\ (r = "CANCELLED" => op[e].aborted)
                => Advances(e, s, r)
         /\ Stay(e, s) /\ Inside(e) /\ GatesOf(s) = GatesOf(op[e].at) => Advances(e, s, op[e].result)
<1>1. op \in [Clients -> OpTypes]
  BY DEF AssetsTypeOK, OpTypes
<1>2. ASSUME op' = [op EXCEPT ![e].at = s]
      PROVE  /\ op' \in [Clients -> OpTypes]
             /\ op'[e].at = s /\ op'[e].result = op[e].result /\ op'[e].manager = op[e].manager
             /\ op'[e].artifact = op[e].artifact /\ op'[e].aborted = op[e].aborted
             /\ \A x \in Clients : x # e => op'[x] = op[x]
  BY <1>1, <1>2 DEF OpTypes, UnderWayStages
<1>3. ASSUME NEW r \in Results, op' = [op EXCEPT ![e].at = s, ![e].result = r]
      PROVE  /\ op' \in [Clients -> OpTypes]
             /\ op'[e].at = s /\ op'[e].result = r /\ op'[e].manager = op[e].manager
             /\ op'[e].artifact = op[e].artifact /\ op'[e].aborted = op[e].aborted
             /\ \A x \in Clients : x # e => op'[x] = op[x]
  <2>1. op[e] \in OpTypes /\ op'[e] = [op[e] EXCEPT !.at = s, !.result = r]
    BY <1>1, <1>3
  <2>2. [op[e] EXCEPT !.at = s, !.result = r] \in OpTypes
    BY <2>1 DEF OpTypes, UnderWayStages, Results
  <2>3. op' \in [Clients -> OpTypes] /\ \A x \in Clients : x # e => op'[x] = op[x]
    BY <1>1, <1>3, <2>1, <2>2
  <2>4. /\ op'[e].at = s /\ op'[e].result = r /\ op'[e].manager = op[e].manager
        /\ op'[e].artifact = op[e].artifact /\ op'[e].aborted = op[e].aborted
    BY <2>1 DEF OpTypes
  <2>5. QED BY <2>3, <2>4
<1>4. op[e].result \in Results \cup {"NONE"}
  BY <1>1 DEF OpTypes
<1>5. ASSUME Go(e, s), s \notin Sections PROVE Advances(e, s, op[e].result)
  BY <1>2, <1>4, <1>5 DEF Advances, Go
<1>6. ASSUME NEW r \in Results, Fail(e, s, r), s \notin Sections, r = "CANCELLED" => op[e].aborted
      PROVE  Advances(e, s, r)
  BY <1>3, <1>6 DEF Advances, Fail
<1>7. ASSUME Stay(e, s), Inside(e), GatesOf(s) = GatesOf(op[e].at)
      PROVE  Advances(e, s, op[e].result)
  BY <1>2, <1>4, <1>7 DEF Advances, Stay
<1>8. QED BY <1>5, <1>6, <1>7

Others == UNCHANGED <<inFlight, request, task, crashesLeft>>

\* Each step of an installation but its last, and what of it concerns the op.
LEMMA OpStepAdvances ==
  ASSUME AssetsTypeOK, Queues, Heard, NEW e \in Clients, OpStep(e), ~End(e)
  PROVE  Others /\ Free(e) /\ \E s \in UnderWayStages, r \in Results \cup {"NONE"} : Advances(e, s, r)
<1> DEFINE Moving == \E s \in UnderWayStages, r \in Results \cup {"NONE"} : Advances(e, s, r)
<1>1. e \in Users /\ Stage(e) = op[e].at
  BY StageOf DEF Users
<1>2. ASSUME NEW s \in UnderWayStages, op[e].at \in UnderWayStages \cup {"BEGIN"},
             \/ Go(e, s) /\ s \notin Sections
             \/ \E r \in Results : Fail(e, s, r) /\ s \notin Sections /\ (r = "CANCELLED" => op[e].aborted)
             \/ Stay(e, s) /\ Inside(e) /\ GatesOf(s) = GatesOf(op[e].at)
      PROVE  Moving
  <2>1. op[e].result \in Results \cup {"NONE"}
    BY DEF AssetsTypeOK
  <2>2. CASE Go(e, s) /\ s \notin Sections
    BY <1>2, <2>1, <2>2, Advancing
  <2>3. ASSUME NEW r \in Results, Fail(e, s, r), s \notin Sections, r = "CANCELLED" => op[e].aborted
        PROVE  Moving
    BY <1>2, <2>3, Advancing
  <2>4. CASE Stay(e, s) /\ Inside(e) /\ GatesOf(s) = GatesOf(op[e].at)
    BY <1>2, <2>1, <2>4, Advancing
  <2>5. QED BY <1>2, <2>2, <2>3, <2>4
<1>3. CASE Begin(e)
  <2>1. Go(e, "CHECK") /\ op[e].at = "BEGIN" /\ Inside(e) /\ Others
    BY <1>3 DEF Begin, Others
  <2>2. Moving
    BY <1>2, <2>1 DEF UnderWayStages, Sections
  <2>3. QED BY <1>1, <2>1, <2>2, FreeToMove
<1>4. CASE Check(e)
  <2>1. op[e].at = "CHECK" /\ Others
    BY <1>4 DEF Check, Others
  <2>2. \/ Go(e, "RESERVE") \/ Fail(e, "END", "OK") \/ Fail(e, "END", "FAILED")
        \/ op[e].aborted /\ Fail(e, "END", "CANCELLED")
    BY <1>4 DEF Check
  <2>3. Moving
    BY <1>2, <2>1, <2>2 DEF UnderWayStages, Sections, Results
  <2>4. QED BY <1>1, <2>1, <2>3, FreeToMove, StageGates
<1>5. CASE Reserve(e)
  <2>1. op[e].at = "RESERVE" /\ Inside(e) /\ Others
    BY <1>5 DEF Reserve, Others
  <2>2. \/ op[e].aborted /\ Fail(e, "END", "CANCELLED")
        \/ Fail(e, "END", "FAILED")
        \/ Stay(e, "RECORD") /\ GatesOf("RECORD") = GatesOf(op[e].at)
    BY <1>5, StageGates DEF Reserve
  <2>3. Moving
    BY <1>2, <2>1, <2>2 DEF UnderWayStages, Sections, Results
  <2>4. QED BY <1>1, <2>1, <2>3, FreeToMove
<1>6. CASE Record(e)
  <2>1. op[e].at = "RECORD" /\ Others
    BY <1>6 DEF Record, Others
  <2>2. Go(e, "STAGE") \/ (op[e].aborted /\ Fail(e, "END", "CANCELLED"))
    BY <1>6 DEF Record
  <2>3. Moving
    BY <1>2, <2>1, <2>2 DEF UnderWayStages, Sections, Results
  <2>4. QED BY <1>1, <2>1, <2>3, FreeToMove DEF Sections
<1>7. CASE StageDirectory(e)
  <2>1. op[e].at = "STAGE" /\ Others
    BY <1>7 DEF StageDirectory, Others
  <2>2. \/ Go(e, "TRANSFER") \/ Fail(e, "RELEASE", "FAILED")
        \/ op[e].aborted /\ Fail(e, "RELEASE", "CANCELLED")
    BY <1>7 DEF StageDirectory
  <2>3. Moving
    BY <1>2, <2>1, <2>2 DEF UnderWayStages, Sections, Results
  <2>4. QED BY <1>1, <2>1, <2>3, FreeToMove, StageGates
<1>8. CASE Transfer(e)
  <2>1. op[e].at = "TRANSFER" /\ Others
    BY <1>8 DEF Transfer, Others
  <2>2. \/ Go(e, "RECONCILE") \/ Fail(e, "RELEASE", "FAILED")
        \/ op[e].aborted /\ Fail(e, "RELEASE", "CANCELLED")
    BY <1>8 DEF Transfer
  <2>3. Moving
    BY <1>2, <2>1, <2>2 DEF UnderWayStages, Sections, Results
  <2>4. QED BY <1>1, <2>1, <2>3, FreeToMove, StageGates
<1>9. CASE Reconcile(e)
  <2>1. op[e].at = "RECONCILE" /\ Inside(e) /\ Others
    BY <1>9 DEF Reconcile, Others
  <2>2. \/ op[e].aborted /\ Fail(e, "RELEASE", "CANCELLED")
        \/ Fail(e, "RELEASE", "FAILED")
        \/ Fail(e, "RELEASE", "OK") \/ Go(e, "PUBLISH")
        \/ Stay(e, "REPAIR") /\ GatesOf("REPAIR") = GatesOf(op[e].at)
    <3>1. artifacts[op[e].artifact] \in {"ABSENT", "CORRUPT", "INSTALLED"}
      BY <2>1 DEF AssetsTypeOK, Heard
    <3>2. GatesOf("REPAIR") = GatesOf("RECONCILE")
      BY StageGates
    <3>3. CASE artifacts[op[e].artifact] = "INSTALLED"
      BY <1>9, <3>3 DEF Reconcile
    <3>4. CASE artifacts[op[e].artifact] = "CORRUPT"
      BY <1>9, <2>1, <3>2, <3>4 DEF Reconcile
    <3>5. CASE artifacts[op[e].artifact] = "ABSENT"
      BY <1>9, <3>5 DEF Reconcile
    <3>6. QED BY <3>1, <3>3, <3>4, <3>5
  <2>3. Moving
    BY <1>2, <2>1, <2>2 DEF UnderWayStages, Sections, Results
  <2>4. QED BY <1>1, <2>1, <2>3, FreeToMove
<1>10. CASE Repair(e)
  <2>1. op[e].at = "REPAIR" /\ Others
    BY <1>10 DEF Repair, Others
  <2>2. Go(e, "PUBLISH") \/ Fail(e, "RELEASE", "FAILED")
    BY <1>10 DEF Repair
  <2>3. Moving
    BY <1>2, <2>1, <2>2 DEF UnderWayStages, Sections, Results
  <2>4. QED BY <1>1, <2>1, <2>3, FreeToMove DEF Sections
<1>11. CASE Publish(e)
  <2>1. op[e].at = "PUBLISH" /\ Inside(e) /\ Others
    BY <1>11 DEF Publish, Others
  <2>2. \/ op[e].aborted /\ Fail(e, "RELEASE", "CANCELLED")
        \/ Fail(e, "RELEASE", "FAILED")
        \/ Go(e, "RACED")
        \/ Stay(e, "RENAME") /\ GatesOf("RENAME") = GatesOf(op[e].at)
    BY <1>11, StageGates DEF Publish
  <2>3. Moving
    BY <1>2, <2>1, <2>2 DEF UnderWayStages, Sections, Results
  <2>4. QED BY <1>1, <2>1, <2>3, FreeToMove
<1>12. CASE Rename(e)
  <2>1. op[e].at = "RENAME" /\ Others
    BY <1>12 DEF Rename, Others
  <2>2. Go(e, "RACED") \/ Fail(e, "END", "OK") \/ Fail(e, "RELEASE", "FAILED")
    BY <1>12 DEF Rename
  <2>3. Moving
    BY <1>2, <2>1, <2>2 DEF UnderWayStages, Sections, Results
  <2>4. QED BY <1>1, <2>1, <2>3, FreeToMove DEF Sections
<1>13. CASE Raced(e)
  <2>1. op[e].at = "RACED" /\ Others
    BY <1>13 DEF Raced, Others
  <2>2. \/ Fail(e, "RELEASE", "OK") \/ Fail(e, "RELEASE", "FAILED")
        \/ op[e].aborted /\ Fail(e, "RELEASE", "CANCELLED")
    BY <1>13 DEF Raced
  <2>3. Moving
    BY <1>2, <2>1, <2>2 DEF UnderWayStages, Sections, Results
  <2>4. QED BY <1>1, <2>1, <2>3, FreeToMove, StageGates
<1>14. CASE Release(e)
  <2>1. op[e].at = "RELEASE" /\ Inside(e) /\ Others /\ Go(e, "END")
    BY <1>14 DEF Release, Others
  <2>2. Moving
    BY <1>2, <2>1 DEF UnderWayStages, Sections
  <2>3. QED BY <1>1, <2>1, <2>2, FreeToMove
<1>15. QED BY <1>3, <1>4, <1>5, <1>6, <1>7, <1>8, <1>9, <1>10, <1>11, <1>12, <1>13, <1>14 DEF OpStep

\* The order of the gates and what requests wait for survive such a step.
LEMMA OrderAfterOpStep ==
  ASSUME AssetsTypeOK, Queues, Heard, NEW e \in Clients, OpStep(e), ~End(e)
  PROVE  /\ op' \in [Clients -> OpTypes] /\ gate' \in [Gates -> Seq(Users)]
         /\ Queues' /\ Heard'
<1>1. Others /\ Free(e) /\ \E s \in UnderWayStages, r \in Results \cup {"NONE"} : Advances(e, s, r)
  BY OpStepAdvances
<1>2. PICK s \in UnderWayStages, r \in Results \cup {"NONE"} : Advances(e, s, r)
  BY <1>1
<1>3. e \in Users /\ Stage(e) = op[e].at /\ Stage(e)' = s
  BY <1>2, StageOf DEF Users, Advances
<1>4. \A v \in Users : v # e => Stage(v)' = Stage(v)
  <2>1. \A v \in Clients : v # e => Stage(v)' = Stage(v)
    BY <1>2, StageOf DEF Advances
  <2>2. \A v \in Tasks : Stage(v)' = Stage(v)
    BY <1>1, StageOf DEF Others
  <2>3. QED BY <2>1, <2>2 DEF Users
<1>5. gate' \in [Gates -> Seq(Users)] /\ Queues'
  <2>1. CASE gate' = Requeue(e, s) /\ s \notin Sections
    BY <1>1, <1>3, <1>4, <2>1, MovesOn
  <2>2. CASE gate' = gate /\ Inside(e) /\ GatesOf(s) = GatesOf(op[e].at)
    <3>1. GatesOf(Stage(e))' = GatesOf(Stage(e))
      BY <1>3, <2>2
    <3>2. QED BY <1>3, <1>4, <2>2, <3>1, StaysInside
  <2>3. QED BY <1>2, <2>1, <2>2 DEF Advances
<1>6. Heard'
  <2> SUFFICES ASSUME NEW c \in Clients
               PROVE  /\ request[c].at \in {"IDLE", "AFTER"} => op'[c].at = "NONE"
                      /\ op'[c].at \notin {"NONE", "OVER"} =>
                             op'[c].manager \in Managers /\ op'[c].artifact \in Artifacts
                      /\ op'[c].aborted => \A d \in Clients : request[d].at = "WAITING" => request[d].on # c
                      /\ op'[c].at = "BEGIN" => op'[c].result = "NONE"
                      /\ op'[c].result = "CANCELLED" => op'[c].aborted
    BY <1>1 DEF Heard, Others
  <2>1. CASE c = e
    <3>1. op[c].at \notin {"NONE", "OVER"} /\ op'[c].at # "BEGIN"
      BY <1>2, <2>1 DEF Advances, UnderWayStages
    <3>2. QED BY <1>2, <2>1, <3>1 DEF Advances, Heard
  <2>2. CASE c # e
    BY <1>2, <2>2 DEF Advances, Heard
  <2>3. QED BY <2>1, <2>2
<1>7. QED BY <1>2, <1>5, <1>6 DEF Advances

LEMMA BegunStages ==
  ASSUME AssetsTypeOK
  PROVE  \A x \in Clients : Begun(x) <=> op[x].at \in UnderWayStages
BY DEF AssetsTypeOK, Begun, UnderWayStages

LEMMA BegunSets ==
  /\ \A a : IsFiniteSet(BegunOn(a)) /\ Cardinality(BegunOn(a)) \in Nat
  /\ \A l : IsFiniteSet(BegunUnder(l)) /\ Cardinality(BegunUnder(l)) \in Nat
<1>1. \A a : BegunOn(a) \in SUBSET Clients
  BY DEF BegunOn
<1>2. \A l : BegunUnder(l) \in SUBSET Clients
  BY DEF BegunUnder
<1>3. \A T \in SUBSET Clients : IsFiniteSet(T) /\ Cardinality(T) \in Nat
  BY ClientsAssumption, FS_Subset, FS_CardinalityType
<1>4. QED BY <1>1, <1>2, <1>3

LEMMA LimitIsKnown ==
  ASSUME NEW e \in Clients, Limited(e)
  PROVE  LimitOf(e) \in Range(Limit) /\ LimitOf(e) \in Nat /\ op[e].manager \in DOMAIN Limit
BY LimitAssumption DEF Limited, LimitOf, Range

LEMMA CountsAfterBegin ==
  ASSUME AssetsTypeOK, Heard, CountsAreExact, NEW e \in Clients, Begin(e),
         op' \in [Clients -> OpTypes]
  PROVE  /\ CountsAreExact'
         /\ active' \in [Artifacts -> Nat] /\ limits' \in [Range(Limit) -> Nat]
<1> DEFINE a == op[e].artifact
<1>1. /\ op[e].at = "BEGIN" /\ op'[e].at = "CHECK" /\ a \in Artifacts
      /\ op'[e].artifact = a /\ op'[e].manager = op[e].manager
      /\ \A x \in Clients : x # e => op'[x] = op[x]
  <2>1. op \in [Clients -> OpTypes]
    BY DEF AssetsTypeOK, OpTypes
  <2>2. op[e].at = "BEGIN" /\ op' = [op EXCEPT ![e].at = "CHECK"]
    BY DEF Begin, Go
  <2>3. a \in Artifacts
    BY <2>2 DEF Heard
  <2>4. /\ op'[e].at = "CHECK" /\ op'[e].artifact = a /\ op'[e].manager = op[e].manager
        /\ \A x \in Clients : x # e => op'[x] = op[x]
    BY <2>1, <2>2 DEF OpTypes
  <2>5. QED BY <2>2, <2>3, <2>4
<1>2. ~Begun(e) /\ Begun(e)'
  BY <1>1 DEF Begun
<1>3. ASSUME NEW b \in Artifacts
      PROVE  active'[b] = Cardinality(BegunOn(b)') /\ active'[b] \in Nat
  <2>1. BegunOn(b)' = IF b = a THEN BegunOn(b) \cup {e} ELSE BegunOn(b)
    BY <1>1, <1>2 DEF BegunOn, Begun
  <2>2. e \notin BegunOn(b)
    BY <1>2 DEF BegunOn
  <2>3. Cardinality(BegunOn(b)') = IF b = a THEN Cardinality(BegunOn(b)) + 1 ELSE Cardinality(BegunOn(b))
    BY <2>1, <2>2, BegunSets, FS_AddElement
  <2>4. active'[b] = IF b = a THEN active[b] + 1 ELSE active[b]
    BY <1>1 DEF Begin, CountIn, AssetsTypeOK
  <2>5. QED BY <2>3, <2>4, BegunSets DEF CountsAreExact
<1>4. DOMAIN limits = Range(Limit) /\ DOMAIN limits' = Range(Limit) /\ limits' = [l \in Range(Limit) |-> limits'[l]]
  BY DEF Begin, AssetsTypeOK
<1>5. ASSUME NEW l \in Range(Limit)
      PROVE  limits'[l] = Cardinality(BegunUnder(l)') /\ limits'[l] \in Nat
  <2> DEFINE mine == Limited(e) /\ LimitOf(e) = l
  <2>1. BegunUnder(l)' = IF mine THEN BegunUnder(l) \cup {e} ELSE BegunUnder(l)
    BY <1>1, <1>2 DEF BegunUnder, Begun, Limited, LimitOf
  <2>2. e \notin BegunUnder(l)
    BY <1>2 DEF BegunUnder
  <2>3. Cardinality(BegunUnder(l)') = IF mine THEN Cardinality(BegunUnder(l)) + 1 ELSE Cardinality(BegunUnder(l))
    BY <2>1, <2>2, BegunSets, FS_AddElement
  <2>4. limits'[l] = IF mine THEN limits[l] + 1 ELSE limits[l]
    BY <1>4 DEF Begin, CountIn, AssetsTypeOK
  <2>5. limits[l] = Cardinality(BegunUnder(l))
    BY <1>4 DEF CountsAreExact
  <2>6. QED BY <2>3, <2>4, <2>5, BegunSets
<1>6. active' = [b \in Artifacts |-> active'[b]]
  BY DEF Begin, AssetsTypeOK
<1>7. QED BY <1>3, <1>4, <1>5, <1>6 DEF CountsAreExact

\* A step that begins and ends no installation leaves the counts as they are.
LEMMA CountsStay ==
  ASSUME CountsAreExact, UNCHANGED <<active, limits>>,
         \A x \in Clients : /\ Begun(x)' <=> Begun(x)
                            /\ Begun(x) => op'[x].artifact = op[x].artifact /\ op'[x].manager = op[x].manager
  PROVE  CountsAreExact'
<1>1. \A a : BegunOn(a)' = BegunOn(a)
  BY DEF BegunOn
<1>2. \A l : BegunUnder(l)' = BegunUnder(l)
  BY DEF BegunUnder, Limited, LimitOf
<1>3. QED BY <1>1, <1>2 DEF CountsAreExact

LEMMA CountsAfterOpStep ==
  ASSUME AssetsTypeOK, Queues, Heard, CountsAreExact, NEW e \in Clients, OpStep(e), ~End(e)
  PROVE  /\ CountsAreExact'
         /\ active' \in [Artifacts -> Nat] /\ limits' \in [Range(Limit) -> Nat]
<1>1. PICK s \in UnderWayStages, r \in Results \cup {"NONE"} : Advances(e, s, r)
  BY OpStepAdvances
<1>2. CASE Begin(e)
  BY <1>1, <1>2, CountsAfterBegin DEF Advances
<1>3. CASE ~Begin(e)
  <2>1. UNCHANGED <<active, limits>>
    BY <1>3 DEF OpStep, Check, Reserve, Record, StageDirectory, Transfer, Reconcile, Repair, Publish,
       Rename, Raced, Release, shared
  <2>2. op[e].at # "BEGIN"
    BY <1>3 DEF OpStep, Check, Reserve, Record, StageDirectory, Transfer, Reconcile, Repair, Publish,
       Rename, Raced, Release
  <2>3. \A x \in Clients : /\ Begun(x)' <=> Begun(x)
                           /\ Begun(x) => op'[x].artifact = op[x].artifact /\ op'[x].manager = op[x].manager
    BY <1>1, <2>2 DEF Advances, Begun, UnderWayStages
  <2>4. QED BY <2>1, <2>3, CountsStay DEF AssetsTypeOK
<1>4. QED BY <1>2, <1>3

\* An installation begins only when no removal or cleanup is in its section.
LEMMA UndisturbedAfterOpStep ==
  ASSUME AssetsTypeOK, Queues, Heard, Undisturbed, NEW e \in Clients, OpStep(e), ~End(e)
  PROVE  Undisturbed'
<1>1. Others /\ \E s \in UnderWayStages, r \in Results \cup {"NONE"} : Advances(e, s, r)
  BY OpStepAdvances
<1>2. PICK s \in UnderWayStages, r \in Results \cup {"NONE"} : Advances(e, s, r)
  BY <1>1
<1> SUFFICES ASSUME NEW t \in Tasks, NEW x \in Clients, Begun(x)'
             PROVE  /\ task[t].at \notin {"CLEANING", "CLEARING"}
                    /\ task[t].at = "REMOVING" => op'[x].artifact \in task[t].keep
  BY <1>1 DEF Undisturbed, Others
<1>3. CASE x # e
  BY <1>2, <1>3 DEF Advances, Begun, Undisturbed
<1>4. CASE x = e /\ op[e].at # "BEGIN"
  BY <1>2, <1>4 DEF Advances, Begun, Undisturbed, UnderWayStages
<1>5. CASE x = e /\ op[e].at = "BEGIN"
  <2>1. Inside(e) /\ Stage(e) = "BEGIN"
    BY <1>5, StageOf DEF OpStep, Begin, Check, Reserve, Record, StageDirectory, Transfer, Reconcile, Repair,
       Publish, Rename, Raced, Release
  <2>2. Heads(e, gate["MUTATION"])
    BY <2>1, StageGates DEF Inside, Holds, Heads
  <2>3. ASSUME task[t].at \in {"CLEANING", "CLEARING", "REMOVING"} PROVE FALSE
    <3>1. t \in Users /\ Stage(t) = task[t].at /\ t # e
      BY StageOf DEF Users
    <3>2. Stage(t) \in Sections /\ "MUTATION" \in Wants(t)
      BY <2>3, <3>1, StageGates DEF Wants, Sections
    <3>3. Heads(t, gate["MUTATION"])
      BY <3>1, <3>2 DEF Queues
    <3>4. QED BY <2>2, <3>1, <3>3 DEF Heads
  <2>4. QED BY <2>3
<1>6. QED BY <1>3, <1>4, <1>5

-----------------------------------------------------------------------------
(* The disk, the reservations and the sums. *)

ArtifactTypes == [Artifacts -> {"ABSENT", "CORRUPT", "INSTALLED"}]
StagingTypes  == [Clients -> {"NONE", "PARTIAL", "BAD", "GOOD"}]
DiskTypes ==
    /\ artifacts \in ArtifactTypes /\ tombstones \in Nat /\ debris \in Nat
    /\ staging \in StagingTypes /\ reservations \in [Clients -> Nat]

LEMMA DiskIsTyped == AssetsTypeOK => DiskTypes
BY DEF AssetsTypeOK, DiskTypes, ArtifactTypes, StagingTypes

LEMMA BytesOfOne ==
  ASSUME Heard, NEW e \in Clients, op[e].at \notin {"NONE", "OVER"}
  PROVE  op[e].artifact \in Artifacts /\ Bytes(e) \in Nat \ {0}
BY SizeAssumption DEF Heard, Bytes

LEMMA SizesOfAll == artifacts \in ArtifactTypes => [a \in Artifacts |-> SizeOn(a)] \in [Artifacts -> Nat]
BY SizeAssumption DEF SizeOn

LEMMA SumsAreNatural ==
  ASSUME DiskTypes
  PROVE  ArtifactBytes \in Nat /\ UsedBytes \in Nat /\ CommittedBytes \in Nat
<1>1. ArtifactBytes \in Nat
  BY SizesOfAll, SizeAssumption, TotalIsNatural DEF DiskTypes, ArtifactBytes
<1>2. CommittedBytes \in Nat
  BY ClientsAssumption, TotalIsNatural DEF DiskTypes, CommittedBytes
<1>3. QED BY <1>1, <1>2 DEF UsedBytes, DiskTypes

LEMMA SumsAreNaturalAfter ==
  ASSUME DiskTypes'
  PROVE  ArtifactBytes' \in Nat /\ UsedBytes' \in Nat /\ CommittedBytes' \in Nat
<1>1. [a \in Artifacts |-> SizeOn(a)'] \in [Artifacts -> Nat]
  BY SizeAssumption DEF SizeOn, DiskTypes
<1>2. ArtifactBytes' = Total([a \in Artifacts |-> SizeOn(a)'])
  BY DEF ArtifactBytes, Total
<1>3. ArtifactBytes' \in Nat
  BY <1>1, <1>2, SizeAssumption, TotalIsNatural
<1>4. CommittedBytes' \in Nat
  <2>1. CommittedBytes' = Total(reservations')
    BY DEF CommittedBytes, Total
  <2>2. QED BY <2>1, ClientsAssumption, TotalIsNatural DEF DiskTypes
<1>5. UsedBytes' = ArtifactBytes' + tombstones' + debris'
  BY DEF UsedBytes
<1>6. tombstones' \in Nat /\ debris' \in Nat
  BY DEF DiskTypes
<1>7. UsedBytes' \in Nat
  <2>1. \A x, y, z \in Nat : x + y + z \in Nat
    OBVIOUS
  <2>2. ArtifactBytes' + tombstones' + debris' \in Nat
    BY <1>3, <1>6, <2>1
  <2>3. QED BY <1>5, <2>2
<1>8. QED BY <1>3, <1>4, <1>7

LEMMA OneArtifactChanges ==
  ASSUME DiskTypes, artifacts' \in ArtifactTypes, NEW a \in Artifacts,
         \A b \in Artifacts : b # a => artifacts'[b] = artifacts[b]
  PROVE  /\ ArtifactBytes' = ArtifactBytes - SizeOn(a) + SizeOn(a)'
         /\ SizeOn(a) \in Nat /\ SizeOn(a)' \in Nat
<1> DEFINE f == [b \in Artifacts |-> SizeOn(b)]
           g == [b \in Artifacts |-> SizeOn(b)']
<1>1. f \in [Artifacts -> Nat] /\ g \in [Artifacts -> Nat]
  BY SizeAssumption DEF SizeOn
<1>2. \A b \in Artifacts : b # a => g[b] = f[b]
  BY DEF SizeOn
<1>3. ArtifactBytes = Total(f) /\ ArtifactBytes' = Total(g)
  BY DEF ArtifactBytes, Total
<1>4. Total(g) = Total(f) - f[a] + g[a]
  <2> HIDE DEF f, g
  <2>1. QED BY <1>1, <1>2, SizeAssumption, TotalOfUpdate
<1>5. f[a] = SizeOn(a) /\ g[a] = SizeOn(a)'
  OBVIOUS
<1>6. SizeOn(a) \in Nat /\ SizeOn(a)' \in Nat
  BY SizeAssumption DEF SizeOn
<1>7. QED BY <1>3, <1>4, <1>5, <1>6

LEMMA OneReservationChanges ==
  ASSUME DiskTypes, NEW e \in Clients, NEW n \in Nat, reservations' = [reservations EXCEPT ![e] = n]
  PROVE  CommittedBytes' = CommittedBytes - reservations[e] + n /\ reservations' \in [Clients -> Nat]
<1> DEFINE f == reservations
           g == [reservations EXCEPT ![e] = n]
<1>1. f \in [Clients -> Nat] /\ g \in [Clients -> Nat] /\ g[e] = n /\ \A x \in Clients : x # e => g[x] = f[x]
  BY DEF DiskTypes
<1>2. CommittedBytes = Total(f) /\ CommittedBytes' = Total(g)
  BY DEF CommittedBytes, Total
<1>3. Total(g) = Total(f) - f[e] + g[e]
  <2> HIDE DEF f, g
  <2>1. IsFiniteSet(Clients)
    BY ClientsAssumption
  <2>2. QED BY <1>1, <2>1, TotalOfUpdate
<1>4. QED BY <1>1, <1>2, <1>3

\* A removal turns what was under a key into nothing, or into a tombstone.
LEMMA RemovalUses ==
  ASSUME DiskTypes, NEW a \in Artifacts, NEW done \in BOOLEAN, RemoveArtifact(a, done)
  PROVE  /\ artifacts' \in ArtifactTypes /\ tombstones' \in Nat
         /\ ArtifactBytes' + tombstones' <= ArtifactBytes + tombstones
         /\ \A b \in Artifacts : b # a => artifacts'[b] = artifacts[b]
         /\ artifacts'[a] \in {artifacts[a], "ABSENT"}
<1>1. /\ artifacts' \in ArtifactTypes
      /\ \A b \in Artifacts : b # a => artifacts'[b] = artifacts[b]
      /\ artifacts'[a] \in {artifacts[a], "ABSENT"}
  BY DEF RemoveArtifact, DiskTypes, ArtifactTypes
<1>2. /\ ArtifactBytes' = ArtifactBytes - SizeOn(a) + SizeOn(a)'
      /\ SizeOn(a) \in Nat /\ SizeOn(a)' \in Nat
  BY <1>1, OneArtifactChanges
<1>3. ArtifactBytes \in Nat /\ tombstones \in Nat /\ Size[a] \in Nat
  BY SumsAreNatural, SizeAssumption DEF DiskTypes
<1>4. CASE artifacts'[a] = "ABSENT" /\ tombstones' = tombstones
  <2>1. SizeOn(a)' = 0
    BY <1>4 DEF SizeOn
  <2>2. QED BY <1>1, <1>2, <1>3, <1>4, <2>1
<1>5. CASE artifacts' = artifacts /\ tombstones' = tombstones
  <2>1. SizeOn(a)' = SizeOn(a)
    BY <1>5 DEF SizeOn
  <2>2. QED BY <1>1, <1>2, <1>3, <1>5, <2>1
<1>6. CASE artifacts[a] # "ABSENT" /\ artifacts'[a] = "ABSENT" /\ tombstones' = tombstones + Size[a]
  <2>1. SizeOn(a)' = 0 /\ SizeOn(a) = Size[a]
    BY <1>6 DEF SizeOn
  <2>2. QED BY <1>1, <1>2, <1>3, <1>6, <2>1
<1>7. QED BY <1>4, <1>5, <1>6 DEF RemoveArtifact, DiskTypes, ArtifactTypes

LEMMA LimitsAreNatural == \A l \in Range(Limit) : l \in Nat
BY LimitAssumption DEF Range

\* The accounts survive a step after which no more is used or promised, and no
\* installation has come to hold a reservation.
LEMMA AccountsStay ==
  ASSUME AssetsTypeOK, DiskTypes', Heard, Accounts,
         UsedBytes' + CommittedBytes' <= UsedBytes + CommittedBytes, reservedBytes' = CommittedBytes',
         \A x \in Clients :
            /\ op'[x].at \in Holding => op[x].at \in Holding
            /\ op'[x].at \in Holding \cup {"RECORD"} =>
                  /\ op'[x].artifact = op[x].artifact /\ op'[x].manager = op[x].manager
                  /\ op[x].at \notin {"NONE", "OVER"}
            /\ op'[x].at = "RECORD" =>
                  limits' = limits /\ Fits(x, UsedBytes + CommittedBytes + Bytes(x))
  PROVE  Accounts'
<1>1. DiskTypes
  BY DiskIsTyped
<1>2. UsedBytes \in Nat /\ CommittedBytes \in Nat /\ UsedBytes' \in Nat /\ CommittedBytes' \in Nat
  BY <1>1, SumsAreNatural, SumsAreNaturalAfter
<1>3. \A x \in Clients : op'[x].manager = op[x].manager =>
         (Limited(x)' <=> Limited(x)) /\ LimitOf(x)' = LimitOf(x)
  BY DEF Limited, LimitOf
<1>4. WithinLimits'
  <2> SUFFICES ASSUME NEW x \in Clients, Limited(x)', op'[x].at \in Holding
               PROVE  UsedBytes' + CommittedBytes' <= LimitOf(x)'
    BY DEF WithinLimits
  <2>1. Limited(x) /\ op[x].at \in Holding /\ LimitOf(x)' = LimitOf(x)
    BY <1>3
  <2>2. UsedBytes + CommittedBytes <= LimitOf(x) /\ LimitOf(x) \in Nat
    BY <2>1, LimitIsKnown DEF Accounts, WithinLimits
  <2>3. \A u, c, v, d, l \in Nat : u + c <= v + d /\ v + d <= l => u + c <= l
    OBVIOUS
  <2>4. UsedBytes' + CommittedBytes' <= LimitOf(x)
    BY <1>2, <2>2, <2>3
  <2>5. QED BY <2>1, <2>4
<1>5. Projected'
  <2> SUFFICES ASSUME NEW x \in Clients, op'[x].at = "RECORD", NEW l \in DOMAIN limits', limits'[l] > 0
               PROVE  UsedBytes' + CommittedBytes' + Bytes(x)' <= l
    BY DEF Projected, Fits, ActiveLimits
  <2>1. limits' = limits /\ UsedBytes + CommittedBytes + Bytes(x) <= l
    BY DEF Fits, ActiveLimits
  <2>2. l \in Nat
    BY <2>1, LimitsAreNatural DEF AssetsTypeOK
  <2>3. Bytes(x) \in Nat /\ Bytes(x)' = Bytes(x)
    BY BytesOfOne DEF Bytes
  <2>4. \A u, c, v, d, b, n \in Nat : u + c <= v + d /\ v + d + b <= n => u + c + b <= n
    OBVIOUS
  <2>5. UsedBytes' + CommittedBytes' + Bytes(x) <= l
    BY <1>2, <2>1, <2>2, <2>3, <2>4
  <2>6. QED BY <2>3, <2>5
<1>6. QED BY <1>4, <1>5 DEF Accounts

LEMMA OpFields ==
  ASSUME AssetsTypeOK, NEW e \in Clients, NEW s
  PROVE  /\ Go(e, s) => op'[e].at = s /\ op'[e].result = op[e].result
         /\ Stay(e, s) => op'[e].at = s /\ op'[e].result = op[e].result
         /\ \A r : Fail(e, s, r) => op'[e].at = s /\ op'[e].result = r
<1>1. op \in [Clients -> OpTypes]
  BY DEF AssetsTypeOK, OpTypes
<1>2. QED BY <1>1 DEF Go, Stay, Fail, OpTypes

\* What another installation keeps when its directory and reservation are left
\* alone, and what it has found is still so.
LEMMA OthersAreKept ==
  ASSUME NEW x \in Clients, Kept(x), op'[x] = op[x], staging'[x] = staging[x],
         reservations'[x] = reservations[x],
         Begun(x) /\ artifacts[op[x].artifact] = "INSTALLED" => artifacts'[op[x].artifact] = "INSTALLED",
         op[x].at = "REPAIR" /\ artifacts[op[x].artifact] # "INSTALLED" =>
            artifacts'[op[x].artifact] # "INSTALLED"
  PROVE  Kept(x)'
<1>1. Bytes(x)' = Bytes(x) /\ (Begun(x)' <=> Begun(x))
  BY DEF Bytes, Begun
<1>2. QED BY <1>1 DEF Kept

\* A look at the cache, or the beginning.
LEMMA LooksOnly ==
  ASSUME AssetsTypeOK, Queues, Heard, Safekeeping, Accounts, NEW e \in Clients,
         Begin(e) \/ Check(e) \/ Reserve(e) \/ Reconcile(e) \/ Publish(e) \/ Raced(e)
  PROVE  DiskTypes' /\ Safekeeping' /\ Accounts'
<1>1. OpStep(e) /\ ~End(e)
  BY DEF OpStep, Begin, Check, Reserve, Reconcile, Publish, Raced, End
<1>2. PICK s \in UnderWayStages, r \in Results \cup {"NONE"} : Advances(e, s, r)
  BY <1>1, OpStepAdvances
<1>3. UNCHANGED <<disk, reservations, reservedBytes>>
  BY DEF Begin, Check, Reserve, Reconcile, Publish, Raced, disk, shared
<1>4. DiskTypes'
  BY <1>3, DiskIsTyped DEF DiskTypes, disk
<1>5. Bytes(e)' = Bytes(e) /\ op'[e].artifact = op[e].artifact
  BY <1>2 DEF Bytes, Advances
<1>6. \/ op'[e].at \in {"CHECK", "RESERVE", "RECORD", "RACED", "PUBLISH", "RENAME"}
         /\ op'[e].result = op[e].result
      \/ op'[e].at = "REPAIR" /\ op'[e].result = op[e].result /\ artifacts[op[e].artifact] # "INSTALLED"
      \/ op'[e].at \in {"END", "RELEASE"} /\ op'[e].result # "OK"
      \/ op'[e].at \in {"END", "RELEASE"} /\ artifacts[op[e].artifact] = "INSTALLED"
  <2>1. CASE Begin(e)
    BY <2>1, OpFields DEF Begin
  <2>2. CASE Check(e)
    <3>1. \/ op'[e].at = "END" /\ artifacts[op[e].artifact] = "INSTALLED"
          \/ op'[e].at = "END" /\ op'[e].result \in {"FAILED", "CANCELLED"}
          \/ op'[e].at = "RESERVE" /\ op'[e].result = op[e].result
      BY <2>2, OpFields DEF Check
    <3>2. QED BY <3>1
  <2>3. CASE Reserve(e)
    <3>1. \/ op'[e].at = "END" /\ op'[e].result \in {"FAILED", "CANCELLED"}
          \/ op'[e].at = "RECORD" /\ op'[e].result = op[e].result
      BY <2>3, OpFields DEF Reserve
    <3>2. QED BY <3>1
  <2>4. CASE Reconcile(e)
    <3>1. artifacts[op[e].artifact] \in {"ABSENT", "CORRUPT", "INSTALLED"}
      BY <2>4 DEF AssetsTypeOK, Heard, Reconcile
    <3>2. CASE artifacts[op[e].artifact] = "INSTALLED"
      BY <2>4, <3>2, OpFields DEF Reconcile
    <3>3. CASE artifacts[op[e].artifact] = "CORRUPT"
      BY <2>4, <3>3, OpFields DEF Reconcile
    <3>4. CASE artifacts[op[e].artifact] = "ABSENT"
      <4>1. \/ op'[e].at = "RELEASE" /\ op'[e].result \in {"FAILED", "CANCELLED"}
            \/ op'[e].at = "PUBLISH" /\ op'[e].result = op[e].result
        BY <2>4, <3>4, OpFields DEF Reconcile
      <4>2. QED BY <4>1
    <3>5. QED BY <3>1, <3>2, <3>3, <3>4
  <2>5. CASE Publish(e)
    <3>1. \/ op'[e].at = "RELEASE" /\ op'[e].result \in {"FAILED", "CANCELLED"}
          \/ op'[e].at \in {"RACED", "RENAME"} /\ op'[e].result = op[e].result
      BY <2>5, OpFields DEF Publish
    <3>2. QED BY <3>1
  <2>6. CASE Raced(e)
    <3>1. \/ op'[e].at = "RELEASE" /\ artifacts[op[e].artifact] = "INSTALLED"
          \/ op'[e].at = "RELEASE" /\ op'[e].result \in {"FAILED", "CANCELLED"}
      BY <2>6, OpFields DEF Raced
    <3>2. QED BY <3>1
  <2>7. QED BY <2>1, <2>2, <2>3, <2>4, <2>5, <2>6
<1>7. \/ op[e].at = "BEGIN" /\ op'[e].at = "CHECK"
      \/ op[e].at = "CHECK" /\ op'[e].at \in {"END", "RESERVE"}
      \/ op[e].at = "RESERVE" /\ op'[e].at \in {"END", "RECORD"}
      \/ op[e].at = "RECONCILE" /\ op'[e].at \in {"RELEASE", "REPAIR", "PUBLISH"}
      \/ op[e].at = "PUBLISH" /\ op'[e].at \in {"RELEASE", "RACED", "RENAME"}
      \/ op[e].at = "RACED" /\ op'[e].at = "RELEASE"
  <2>1. CASE Begin(e)
    BY <2>1, OpFields DEF Begin
  <2>2. CASE Check(e)
    BY <2>2, OpFields DEF Check
  <2>3. CASE Reserve(e)
    BY <2>3, OpFields DEF Reserve
  <2>4. CASE Reconcile(e)
    <3>1. op[e].at = "RECONCILE"
      BY <2>4 DEF Reconcile
    <3>2. artifacts[op[e].artifact] \in {"ABSENT", "CORRUPT", "INSTALLED"}
      BY <3>1 DEF AssetsTypeOK, Heard
    <3>3. CASE artifacts[op[e].artifact] = "INSTALLED"
      BY <2>4, <3>1, <3>3, OpFields DEF Reconcile
    <3>4. CASE artifacts[op[e].artifact] = "CORRUPT"
      BY <2>4, <3>1, <3>4, OpFields DEF Reconcile
    <3>5. CASE artifacts[op[e].artifact] = "ABSENT"
      BY <2>4, <3>1, <3>5, OpFields DEF Reconcile
    <3>6. QED BY <3>2, <3>3, <3>4, <3>5
  <2>5. CASE Publish(e)
    BY <2>5, OpFields DEF Publish
  <2>6. CASE Raced(e)
    BY <2>6, OpFields DEF Raced
  <2>7. QED BY <2>1, <2>2, <2>3, <2>4, <2>5, <2>6
<1>8. Safekeeping'
  <2>1. ASSUME NEW x \in Clients, x # e PROVE Kept(x)'
    BY <1>2, <1>3, <2>1, OthersAreKept DEF Safekeeping, Advances, disk
  <2>2. Kept(e)'
    <3>1. Kept(e) /\ UNCHANGED <<artifacts, staging, reservations>>
      BY <1>3 DEF Safekeeping, disk
    <3>2. /\ op'[e].at \in Staged => op[e].at \in Staged
          /\ op'[e].at \in Whole => op[e].at \in Whole
          /\ op'[e].at \in Fetched => op[e].at \in Fetched
          /\ op[e].at \in Holding => op'[e].at \in Holding
      BY <1>7 DEF Staged, Whole, Fetched, Holding
    <3>3. op'[e].result = "OK" => artifacts[op[e].artifact] = "INSTALLED" \/ op[e].at = "BEGIN"
      BY <1>6, <1>7, <3>1 DEF Kept, Begun
    <3>4. op'[e].result = "OK" => artifacts[op[e].artifact] = "INSTALLED"
      <4>1. op[e].at = "BEGIN" => op[e].result # "OK"
        BY DEF Heard
      <4>2. QED BY <1>6, <1>7, <3>3, <4>1
    <3>5. op'[e].at = "REPAIR" => artifacts[op[e].artifact] # "INSTALLED"
      BY <1>6
    <3>6. QED BY <1>5, <3>1, <3>2, <3>4, <3>5 DEF Kept
  <2>3. QED BY <2>1, <2>2 DEF Safekeeping
<1>9. Accounts'
  <2>1. UsedBytes' = UsedBytes /\ CommittedBytes' = CommittedBytes
    BY <1>3 DEF UsedBytes, CommittedBytes, ArtifactBytes, Total, SizeOn, disk
  <2>2. UsedBytes \in Nat /\ CommittedBytes \in Nat
    BY SumsAreNatural, DiskIsTyped
  <2>3. ASSUME NEW x \in Clients, op'[x].at = "RECORD"
        PROVE  limits' = limits /\ Fits(x, UsedBytes + CommittedBytes + Bytes(x))
    <3>1. CASE x = e
      <4>1. Reserve(e)
        BY <1>7, <2>3, <3>1 DEF Begin, Check, Reserve, Reconcile, Publish, Raced
      <4>2. Fits(e, UsedBytes + CommittedBytes + Bytes(e)) /\ limits' = limits
        BY <2>3, <3>1, <4>1, OpFields DEF Reserve, shared
      <4>3. QED BY <3>1, <4>2
    <3>2. CASE x # e
      <4>1. op[x].at = "RECORD" /\ Fits(x, UsedBytes + CommittedBytes + Bytes(x))
        BY <1>2, <2>3, <3>2 DEF Advances, Accounts, Projected
      <4>2. Heads(x, gate["CAPACITY"])
        <5>1. x \in Users /\ Stage(x) \in Sections /\ "CAPACITY" \in Wants(x)
          BY <4>1, StageOf, StageGates DEF Users, Sections, Wants
        <5>2. QED BY <5>1 DEF Queues
      <4>3. ~Begin(e)
        <5>1. ASSUME Begin(e) PROVE Heads(e, gate["CAPACITY"])
          BY <5>1, StageOf, StageGates DEF Begin, Inside, Holds, Heads
        <5>2. QED BY <3>2, <4>2, <5>1 DEF Heads
      <4>4. QED BY <4>1, <4>3 DEF Check, Reserve, Reconcile, Publish, Raced, shared
    <3>3. QED BY <3>1, <3>2
  <2>4. ASSUME NEW x \in Clients
        PROVE  /\ op'[x].at \in Holding => op[x].at \in Holding
               /\ op'[x].at \in Holding \cup {"RECORD"} =>
                     /\ op'[x].artifact = op[x].artifact /\ op'[x].manager = op[x].manager
                     /\ op[x].at \notin {"NONE", "OVER"}
    BY <1>2, <1>7 DEF Advances, Holding
  <2>5. reservedBytes' = CommittedBytes' /\ UsedBytes' + CommittedBytes' <= UsedBytes + CommittedBytes
    BY <1>3, <2>1, <2>2 DEF Accounts
  <2>6. QED BY <1>4, <2>3, <2>4, <2>5, AccountsStay
<1>10. QED BY <1>4, <1>8, <1>9

\* The making and the filling of the staging directory.
LEMMA StagesOnly ==
  ASSUME AssetsTypeOK, Queues, Heard, Safekeeping, Accounts, NEW e \in Clients,
         StageDirectory(e) \/ Transfer(e)
  PROVE  DiskTypes' /\ Safekeeping' /\ Accounts'
<1>1. OpStep(e) /\ ~End(e) /\ op[e].at \in {"STAGE", "TRANSFER"}
  BY DEF OpStep, StageDirectory, Transfer, End
<1>2. PICK s \in UnderWayStages, r \in Results \cup {"NONE"} : Advances(e, s, r)
  BY <1>1, OpStepAdvances
<1>3. UNCHANGED <<artifacts, tombstones, debris, shared>>
  BY DEF StageDirectory, Transfer
<1>4. \/ /\ op'[e].at = "RELEASE" /\ op'[e].result # "OK"
         /\ (staging' = staging \/ staging' = [staging EXCEPT ![e] = "BAD"])
      \/ /\ op'[e].at = "TRANSFER" /\ op'[e].result = op[e].result
         /\ staging' = [staging EXCEPT ![e] = "PARTIAL"]
      \/ /\ op'[e].at = "RECONCILE" /\ op'[e].result = op[e].result
         /\ staging' = [staging EXCEPT ![e] = "GOOD"]
  <2>1. CASE StageDirectory(e)
    <3>1. \/ op'[e].at = "RELEASE" /\ op'[e].result \in {"FAILED", "CANCELLED"} /\ staging' = staging
          \/ /\ op'[e].at = "TRANSFER" /\ op'[e].result = op[e].result
             /\ staging' = [staging EXCEPT ![e] = "PARTIAL"]
      BY <2>1, OpFields DEF StageDirectory
    <3>2. QED BY <3>1
  <2>2. CASE Transfer(e)
    <3>1. \/ op'[e].at = "RELEASE" /\ op'[e].result \in {"FAILED", "CANCELLED"} /\ staging' = staging
          \/ /\ op'[e].at = "RECONCILE" /\ op'[e].result = op[e].result
             /\ staging' = [staging EXCEPT ![e] = "GOOD"]
          \/ /\ op'[e].at = "RELEASE" /\ op'[e].result = "FAILED"
             /\ staging' = [staging EXCEPT ![e] = "BAD"]
      BY <2>2, OpFields DEF Transfer, Verified
    <3>2. QED BY <3>1
  <2>3. QED BY <2>1, <2>2
<1>5. /\ staging' \in StagingTypes /\ \A x \in Clients : x # e => staging'[x] = staging[x]
      /\ op'[e].at \in Staged => staging'[e] # "NONE"
      /\ op'[e].at \in Whole => staging'[e] = "GOOD"
  <2>1. staging \in StagingTypes
    BY DEF AssetsTypeOK, StagingTypes
  <2>2. CASE op'[e].at = "RELEASE" /\ (staging' = staging \/ staging' = [staging EXCEPT ![e] = "BAD"])
    BY <2>1, <2>2 DEF StagingTypes, Staged, Whole
  <2>3. CASE op'[e].at = "TRANSFER" /\ staging' = [staging EXCEPT ![e] = "PARTIAL"]
    BY <2>1, <2>3 DEF StagingTypes, Staged, Whole
  <2>4. CASE op'[e].at = "RECONCILE" /\ staging' = [staging EXCEPT ![e] = "GOOD"]
    BY <2>1, <2>4 DEF StagingTypes, Staged, Whole
  <2>5. QED BY <1>4, <2>2, <2>3, <2>4
<1>6. DiskTypes'
  BY <1>3, <1>5, DiskIsTyped DEF DiskTypes, shared
<1>7. Safekeeping'
  <2>1. ASSUME NEW x \in Clients, x # e PROVE Kept(x)'
    BY <1>2, <1>3, <1>5, <2>1, OthersAreKept DEF Safekeeping, Advances, shared
  <2>2. Kept(e)'
    <3>1. Kept(e) /\ UNCHANGED <<artifacts, reservations>> /\ Bytes(e)' = Bytes(e)
          /\ op'[e].artifact = op[e].artifact
      BY <1>2, <1>3 DEF Safekeeping, shared, Bytes, Advances
    <3>2. reservations[e] = Bytes(e) /\ Bytes(e) \in Nat \ {0}
      BY <1>1, <3>1, BytesOfOne DEF Kept, Fetched, Staged
    <3>3. op'[e].result = "OK" => artifacts[op[e].artifact] = "INSTALLED"
      BY <1>1, <1>4, <3>1 DEF Kept, Begun
    <3>4. op'[e].at \in Holding /\ op'[e].at # "REPAIR"
      BY <1>4 DEF Holding
    <3>5. QED BY <1>5, <3>1, <3>2, <3>3, <3>4 DEF Kept
  <2>3. QED BY <2>1, <2>2 DEF Safekeeping
<1>8. Accounts'
  <2>1. UsedBytes' = UsedBytes /\ CommittedBytes' = CommittedBytes
    BY <1>3 DEF UsedBytes, CommittedBytes, ArtifactBytes, Total, SizeOn, shared
  <2>2. UsedBytes \in Nat /\ CommittedBytes \in Nat
    BY SumsAreNatural, DiskIsTyped
  <2>3. ASSUME NEW x \in Clients
        PROVE  /\ op'[x].at \in Holding => op[x].at \in Holding
               /\ op'[x].at \in Holding \cup {"RECORD"} =>
                     /\ op'[x].artifact = op[x].artifact /\ op'[x].manager = op[x].manager
                     /\ op[x].at \notin {"NONE", "OVER"}
               /\ op'[x].at = "RECORD" => op[x].at = "RECORD"
    BY <1>1, <1>2, <1>4 DEF Advances, Holding
  <2>4. ASSUME NEW x \in Clients, op'[x].at = "RECORD"
        PROVE  limits' = limits /\ Fits(x, UsedBytes + CommittedBytes + Bytes(x))
    BY <1>3, <2>3, <2>4 DEF shared, Accounts, Projected
  <2>5. reservedBytes' = CommittedBytes' /\ UsedBytes' + CommittedBytes' <= UsedBytes + CommittedBytes
    BY <1>3, <2>1, <2>2 DEF Accounts, shared
  <2>6. QED BY <1>6, <2>3, <2>4, <2>5, AccountsStay
<1>9. QED BY <1>6, <1>7, <1>8

\* The reservation: the one step after which more is promised.
LEMMA RecordsOne ==
  ASSUME AssetsTypeOK, Queues, Heard, Safekeeping, CountsAreExact, Accounts, NEW e \in Clients, Record(e)
  PROVE  DiskTypes' /\ Safekeeping' /\ Accounts'
<1>1. OpStep(e) /\ ~End(e) /\ op[e].at = "RECORD"
  BY DEF OpStep, Record, End
<1>2. PICK s \in UnderWayStages, r \in Results \cup {"NONE"} : Advances(e, s, r)
  BY <1>1, OpStepAdvances
<1>3. UNCHANGED <<disk, active, limits>>
  BY DEF Record
<1>4. \/ /\ op'[e].at = "END" /\ op'[e].result = "CANCELLED"
         /\ UNCHANGED <<reservations, reservedBytes>>
      \/ /\ op'[e].at = "STAGE" /\ op'[e].result = op[e].result
         /\ reservations' = [reservations EXCEPT ![e] = Bytes(e)]
         /\ reservedBytes' = reservedBytes + Bytes(e)
  BY OpFields DEF Record
<1>5. DiskTypes /\ Bytes(e) \in Nat \ {0}
  BY <1>1, DiskIsTyped, BytesOfOne
<1>6. reservations[e] = 0 /\ staging[e] = "NONE"
  <2>1. ~(reservations[e] > 0) /\ reservations[e] \in Nat
    BY <1>1, <1>5 DEF Safekeeping, Kept, Holding, DiskTypes
  <2>2. reservations[e] = 0
    BY <2>1
  <2>3. QED BY <2>2 DEF Safekeeping, Kept
<1>7. /\ reservations' \in [Clients -> Nat] /\ reservedBytes' = CommittedBytes'
      /\ op'[e].at = "STAGE" => CommittedBytes' = CommittedBytes + Bytes(e)
      /\ op'[e].at = "END" => CommittedBytes' = CommittedBytes
      /\ \A x \in Clients : x # e => reservations'[x] = reservations[x]
      /\ op'[e].at = "STAGE" => reservations'[e] = Bytes(e)
      /\ op'[e].at = "END" => reservations'[e] = 0
  <2>1. CASE op'[e].at = "END" /\ UNCHANGED <<reservations, reservedBytes>>
    <3>1. CommittedBytes' = CommittedBytes
      BY <2>1 DEF CommittedBytes, Total
    <3>2. QED BY <1>5, <1>6, <2>1, <3>1 DEF DiskTypes, Accounts
  <2>2. CASE /\ op'[e].at = "STAGE" /\ reservations' = [reservations EXCEPT ![e] = Bytes(e)]
             /\ reservedBytes' = reservedBytes + Bytes(e)
    <3>1. CommittedBytes' = CommittedBytes - reservations[e] + Bytes(e) /\ reservations' \in [Clients -> Nat]
      BY <1>5, <2>2, OneReservationChanges
    <3>2. CommittedBytes' = CommittedBytes + Bytes(e)
      BY <1>5, <1>6, <3>1, SumsAreNatural
    <3>3. reservedBytes' = CommittedBytes'
      BY <2>2, <3>2 DEF Accounts
    <3>4. QED BY <1>5, <2>2, <3>1, <3>2, <3>3 DEF DiskTypes
  <2>3. QED BY <1>4, <2>1, <2>2
<1>8. DiskTypes'
  BY <1>3, <1>5, <1>7 DEF DiskTypes, disk
<1>9. Safekeeping'
  <2>1. ASSUME NEW x \in Clients, x # e PROVE Kept(x)'
    BY <1>2, <1>3, <1>7, <2>1, OthersAreKept DEF Safekeeping, Advances, disk
  <2>2. Kept(e)'
    <3>1. Kept(e) /\ UNCHANGED <<artifacts, staging>> /\ Bytes(e)' = Bytes(e)
          /\ op'[e].artifact = op[e].artifact
      BY <1>2, <1>3 DEF Safekeeping, disk, Bytes, Advances
    <3>2. op'[e].result = "OK" => artifacts[op[e].artifact] = "INSTALLED"
      BY <1>1, <1>4, <3>1 DEF Kept, Begun
    <3>3. op'[e].at \in {"END", "STAGE"}
      BY <1>4
    <3>4. QED BY <1>5, <1>6, <1>7, <3>1, <3>2, <3>3 DEF Kept, Staged, Whole, Fetched, Holding
  <2>3. QED BY <2>1, <2>2 DEF Safekeeping
<1>10. UsedBytes' = UsedBytes /\ UsedBytes \in Nat /\ CommittedBytes \in Nat
  <2>1. UsedBytes' = UsedBytes
    BY <1>3 DEF UsedBytes, ArtifactBytes, Total, SizeOn, disk
  <2>2. QED BY <1>5, <2>1, SumsAreNatural
<1>11. WithinLimits'
  <2> SUFFICES ASSUME NEW x \in Clients, Limited(x)', op'[x].at \in Holding
               PROVE  UsedBytes' + CommittedBytes' <= LimitOf(x)'
    BY DEF WithinLimits
  <2>1. op'[x].manager = op[x].manager /\ (x # e => op[x].at \in Holding)
    BY <1>2 DEF Advances
  <2>2. Limited(x) /\ LimitOf(x)' = LimitOf(x) /\ Begun(x)
    <3>1. Begun(x)
      BY <1>1, <2>1 DEF Begun, Holding
    <3>2. QED BY <2>1, <3>1 DEF Limited, LimitOf
  <2>3. CASE op'[e].at = "END"
    <3>1. x # e
      BY <2>3 DEF Holding
    <3>2. UsedBytes + CommittedBytes <= LimitOf(x)
      BY <2>1, <2>2, <3>1 DEF Accounts, WithinLimits
    <3>3. QED BY <1>7, <1>10, <2>2, <2>3, <3>2
  <2>4. CASE op'[e].at = "STAGE"
    <3>1. LimitOf(x) \in DOMAIN limits /\ x \in BegunUnder(LimitOf(x))
      BY <2>2, LimitIsKnown DEF BegunUnder, AssetsTypeOK
    <3>2. limits[LimitOf(x)] = Cardinality(BegunUnder(LimitOf(x)))
      BY <3>1 DEF CountsAreExact
    <3>3. limits[LimitOf(x)] \in Nat /\ limits[LimitOf(x)] # 0
      BY <3>1, <3>2, BegunSets, FS_EmptySet
    <3>4. LimitOf(x) \in ActiveLimits(e)
      BY <3>1, <3>3 DEF ActiveLimits
    <3>5. UsedBytes + CommittedBytes + Bytes(e) <= LimitOf(x)
      BY <1>1, <3>4 DEF Accounts, Projected, Fits
    <3>6. \A u, c, b \in Nat : u + (c + b) = u + c + b
      OBVIOUS
    <3>7. UsedBytes + (CommittedBytes + Bytes(e)) <= LimitOf(x)
      BY <1>5, <1>10, <3>5, <3>6
    <3>8. QED BY <1>7, <1>10, <2>2, <2>4, <3>7
  <2>5. QED BY <1>4, <2>3, <2>4
<1>12. Projected'
  <2> SUFFICES ASSUME NEW x \in Clients, op'[x].at = "RECORD" PROVE FALSE
    BY DEF Projected
  <2>1. x # e /\ op[x].at = "RECORD"
    BY <1>2, <1>4 DEF Advances
  <2>2. /\ x \in Users /\ Stage(x) \in Sections /\ "CAPACITY" \in Wants(x)
        /\ e \in Users /\ Stage(e) \in Sections /\ "CAPACITY" \in Wants(e)
    BY <1>1, <2>1, StageOf, StageGates DEF Users, Sections, Wants
  <2>3. Heads(x, gate["CAPACITY"]) /\ Heads(e, gate["CAPACITY"])
    BY <2>2 DEF Queues
  <2>4. QED BY <2>1, <2>3 DEF Heads
<1>13. QED BY <1>7, <1>8, <1>9, <1>11, <1>12 DEF Accounts

\* The corrupt entry goes, or stays: nobody counted on it.
LEMMA RepairsOne ==
  ASSUME AssetsTypeOK, Queues, Heard, Safekeeping, Accounts, NEW e \in Clients, Repair(e)
  PROVE  DiskTypes' /\ Safekeeping' /\ Accounts'
<1> DEFINE a == op[e].artifact
<1>1. OpStep(e) /\ ~End(e) /\ op[e].at = "REPAIR"
  BY DEF OpStep, Repair, End
<1>2. PICK s \in UnderWayStages, r \in Results \cup {"NONE"} : Advances(e, s, r)
  BY <1>1, OpStepAdvances
<1>3. UNCHANGED <<debris, staging, shared>>
  BY DEF Repair
<1>4. DiskTypes /\ a \in Artifacts
  BY <1>1, DiskIsTyped, BytesOfOne
<1>5. PICK done \in BOOLEAN :
         /\ RemoveArtifact(a, done)
         /\ IF done THEN Go(e, "PUBLISH") ELSE Fail(e, "RELEASE", "FAILED")
  BY DEF Repair
<1>6. /\ artifacts' \in ArtifactTypes /\ tombstones' \in Nat
      /\ ArtifactBytes' + tombstones' <= ArtifactBytes + tombstones
      /\ \A b \in Artifacts : b # a => artifacts'[b] = artifacts[b]
      /\ artifacts'[a] \in {artifacts[a], "ABSENT"}
  BY <1>4, <1>5, RemovalUses
<1>7. artifacts[a] # "INSTALLED" /\ op[e].result # "OK" /\ staging[e] = "GOOD"
      /\ reservations[e] = Bytes(e)
  BY <1>1 DEF Safekeeping, Kept, Begun, Fetched, Staged, Whole
<1>8. \/ op'[e].at = "PUBLISH" /\ op'[e].result = op[e].result
      \/ op'[e].at = "RELEASE" /\ op'[e].result = "FAILED"
  BY <1>5, OpFields
<1>9. DiskTypes'
  BY <1>3, <1>4, <1>6 DEF DiskTypes, shared
<1>10. Safekeeping'
  <2>1. ASSUME NEW x \in Clients, x # e PROVE Kept(x)'
    <3>1. op[x].at \notin {"NONE", "OVER"} => op[x].artifact \in Artifacts
      BY DEF Heard
    <3>2. /\ Begun(x) /\ artifacts[op[x].artifact] = "INSTALLED" => artifacts'[op[x].artifact] = "INSTALLED"
          /\ op[x].at = "REPAIR" /\ artifacts[op[x].artifact] # "INSTALLED" =>
                artifacts'[op[x].artifact] # "INSTALLED"
      BY <1>6, <1>7, <3>1 DEF Begun
    <3>3. op'[x] = op[x] /\ staging'[x] = staging[x] /\ reservations'[x] = reservations[x] /\ Kept(x)
      BY <1>2, <1>3, <2>1 DEF Advances, shared, Safekeeping
    <3>4. QED BY <3>2, <3>3, OthersAreKept
  <2>2. Kept(e)'
    <3>1. Bytes(e)' = Bytes(e) /\ UNCHANGED <<staging, reservations>> /\ Bytes(e) \in Nat \ {0}
      BY <1>1, <1>2, <1>3, BytesOfOne DEF Bytes, Advances, shared
    <3>2. op'[e].result # "OK" /\ op'[e].at \in {"PUBLISH", "RELEASE"}
      BY <1>7, <1>8
    <3>3. QED BY <1>7, <3>1, <3>2 DEF Kept, Holding
  <2>3. QED BY <2>1, <2>2 DEF Safekeeping
<1>11. Accounts'
  <2>1. CommittedBytes' = CommittedBytes
    BY <1>3 DEF CommittedBytes, Total, shared
  <2>2. ArtifactBytes \in Nat /\ ArtifactBytes' \in Nat /\ CommittedBytes \in Nat
    BY <1>4, <1>9, SumsAreNatural, SumsAreNaturalAfter
  <2>3. UsedBytes = ArtifactBytes + tombstones + debris /\ UsedBytes' = ArtifactBytes' + tombstones' + debris
    BY <1>3 DEF UsedBytes
  <2>4. \A p, q, x, y, d, c \in Nat : p + q <= x + y => p + q + d + c <= x + y + d + c
    OBVIOUS
  <2>5. tombstones \in Nat /\ debris \in Nat
    BY <1>4 DEF DiskTypes
  <2>6. ArtifactBytes' + tombstones' + debris + CommittedBytes <= ArtifactBytes + tombstones + debris + CommittedBytes
    BY <1>6, <2>2, <2>4, <2>5
  <2>7. UsedBytes' + CommittedBytes' <= UsedBytes + CommittedBytes
    BY <2>1, <2>3, <2>6
  <2>8. reservedBytes' = CommittedBytes'
    BY <1>3, <2>1 DEF Accounts, shared
  <2>9. ASSUME NEW x \in Clients
        PROVE  /\ op'[x].at \in Holding => op[x].at \in Holding
               /\ op'[x].at \in Holding \cup {"RECORD"} =>
                     /\ op'[x].artifact = op[x].artifact /\ op'[x].manager = op[x].manager
                     /\ op[x].at \notin {"NONE", "OVER"}
               /\ op'[x].at = "RECORD" => op[x].at = "RECORD"
    BY <1>1, <1>2, <1>8 DEF Advances, Holding
  <2>10. ASSUME NEW x \in Clients, op'[x].at = "RECORD"
         PROVE  limits' = limits /\ Fits(x, UsedBytes + CommittedBytes + Bytes(x))
    BY <1>3, <2>9, <2>10 DEF shared, Accounts, Projected
  <2>11. QED BY <1>9, <2>7, <2>8, <2>9, <2>10, AccountsStay
<1>12. QED BY <1>9, <1>10, <1>11

\* The directory goes with its reservation: what it held may stay, as debris.
LEMMA ReleasesOne ==
  ASSUME AssetsTypeOK, Queues, Heard, Safekeeping, Accounts, NEW e \in Clients, Release(e)
  PROVE  DiskTypes' /\ Safekeeping' /\ Accounts'
<1>1. OpStep(e) /\ ~End(e) /\ op[e].at = "RELEASE"
  BY DEF OpStep, Release, End
<1>2. PICK s \in UnderWayStages, r \in Results \cup {"NONE"} : Advances(e, s, r)
  BY <1>1, OpStepAdvances
<1>3. UNCHANGED <<artifacts, tombstones, active, limits>>
  BY DEF Release
<1>4. DiskTypes /\ Bytes(e) \in Nat \ {0}
  BY <1>1, DiskIsTyped, BytesOfOne
<1>5. op'[e].at = "END" /\ op'[e].result = op[e].result
  BY OpFields DEF Release
<1>6. /\ reservations' = [reservations EXCEPT ![e] = 0]
      /\ reservedBytes' = reservedBytes - reservations[e]
      /\ staging' = [staging EXCEPT ![e] = "NONE"]
      /\ \/ debris' = debris
         \/ staging[e] # "NONE" /\ debris' = debris + Bytes(e)
  BY DEF Release, Returned
<1>7. CommittedBytes' = CommittedBytes - reservations[e] + 0 /\ reservations' \in [Clients -> Nat]
  BY <1>4, <1>6, OneReservationChanges
<1>8. reservations[e] \in Nat /\ CommittedBytes \in Nat /\ UsedBytes \in Nat /\ debris \in Nat
      /\ ArtifactBytes \in Nat /\ tombstones \in Nat
  BY <1>4, SumsAreNatural DEF DiskTypes
<1>9. DiskTypes'
  <2>1. debris' \in Nat
    BY <1>4, <1>8, <1>6
  <2>2. staging' \in StagingTypes
    BY <1>4, <1>6 DEF DiskTypes, StagingTypes
  <2>3. QED BY <1>3, <1>4, <1>7, <2>1, <2>2 DEF DiskTypes
<1>10. Safekeeping'
  <2>1. ASSUME NEW x \in Clients, x # e PROVE Kept(x)'
    <3>1. staging'[x] = staging[x] /\ reservations'[x] = reservations[x]
      BY <1>4, <1>6, <2>1 DEF DiskTypes, StagingTypes
    <3>2. QED BY <1>2, <1>3, <2>1, <3>1, OthersAreKept DEF Safekeeping, Advances
  <2>2. Kept(e)'
    <3>1. staging'[e] = "NONE" /\ reservations'[e] = 0
      BY <1>4, <1>6 DEF DiskTypes, StagingTypes
    <3>2. op[e].result = "OK" => artifacts[op[e].artifact] = "INSTALLED"
      BY <1>1 DEF Safekeeping, Kept, Begun
    <3>3. op'[e].artifact = op[e].artifact
      BY <1>2 DEF Advances
    <3>4. QED BY <1>3, <1>5, <3>1, <3>2, <3>3 DEF Kept, Staged, Whole, Fetched, Holding
  <2>3. QED BY <2>1, <2>2 DEF Safekeeping
<1>11. Accounts'
  <2>1. CommittedBytes' = CommittedBytes - reservations[e]
    BY <1>7, <1>8
  <2>2. reservedBytes' = CommittedBytes'
    BY <1>6, <2>1 DEF Accounts
  <2>3. UsedBytes' = ArtifactBytes + tombstones + debris'
    BY <1>3 DEF UsedBytes, ArtifactBytes, SizeOn, Total
  <2>4. UsedBytes = ArtifactBytes + tombstones + debris
    BY DEF UsedBytes
  <2>5. UsedBytes' + CommittedBytes' <= UsedBytes + CommittedBytes
    <3>1. \A p, t, d, c, n \in Nat : /\ p + t + (d + n) + (c - n) <= p + t + d + c
                                     /\ p + t + d + (c - n) <= p + t + d + c
      OBVIOUS
    <3>2. CASE debris' = debris
      BY <1>8, <2>1, <2>3, <2>4, <3>1, <3>2
    <3>3. CASE staging[e] # "NONE" /\ debris' = debris + Bytes(e)
      <4>1. reservations[e] = Bytes(e)
        BY <1>8, <3>3 DEF Safekeeping, Kept
      <4>2. QED BY <1>8, <2>1, <2>3, <2>4, <3>1, <3>3, <4>1
    <3>4. QED BY <1>6, <3>2, <3>3
  <2>6. ASSUME NEW x \in Clients
        PROVE  /\ op'[x].at \in Holding => op[x].at \in Holding
               /\ op'[x].at \in Holding \cup {"RECORD"} =>
                     /\ op'[x].artifact = op[x].artifact /\ op'[x].manager = op[x].manager
                     /\ op[x].at \notin {"NONE", "OVER"}
               /\ op'[x].at = "RECORD" => op[x].at = "RECORD"
    BY <1>2, <1>5 DEF Advances, Holding
  <2>7. ASSUME NEW x \in Clients, op'[x].at = "RECORD"
        PROVE  limits' = limits /\ Fits(x, UsedBytes + CommittedBytes + Bytes(x))
    BY <1>3, <2>6, <2>7 DEF Accounts, Projected
  <2>8. QED BY <1>9, <2>2, <2>5, <2>6, <2>7, AccountsStay
<1>12. QED BY <1>9, <1>10, <1>11

\* The rename turns what was reserved into what is used.
LEMMA RenamesOne ==
  ASSUME AssetsTypeOK, Queues, Heard, Safekeeping, Accounts, NEW e \in Clients, Rename(e)
  PROVE  DiskTypes' /\ Safekeeping' /\ Accounts'
<1> DEFINE a == op[e].artifact
<1>1. OpStep(e) /\ ~End(e) /\ op[e].at = "RENAME"
  BY DEF OpStep, Rename, End
<1>2. PICK s \in UnderWayStages, r \in Results \cup {"NONE"} : Advances(e, s, r)
  BY <1>1, OpStepAdvances
<1>3. UNCHANGED <<tombstones, debris, active, limits>>
  BY DEF Rename
<1>4. DiskTypes /\ a \in Artifacts /\ Bytes(e) \in Nat \ {0} /\ Bytes(e) = Size[a]
  BY <1>1, DiskIsTyped, BytesOfOne DEF Bytes
<1>5. /\ reservations[e] = Bytes(e) /\ staging[e] = "GOOD"
      /\ op[e].result = "OK" => artifacts[a] = "INSTALLED"
  BY <1>1 DEF Safekeeping, Kept, Begun, Fetched, Staged, Whole
<1>6. \/ op'[e].at = "END" /\ op'[e].result = "OK"
      \/ op'[e].at = "RELEASE" /\ op'[e].result = "FAILED"
      \/ op'[e].at = "RACED" /\ op'[e].result = op[e].result
  BY OpFields DEF Rename
<1>7. \/ /\ op'[e].at = "RACED" /\ op'[e].result = op[e].result
         /\ UNCHANGED <<artifacts, staging, reservations, reservedBytes>>
      \/ /\ artifacts[a] = "ABSENT" /\ artifacts' = [artifacts EXCEPT ![a] = "INSTALLED"]
         /\ staging' = [staging EXCEPT ![e] = "NONE"]
         /\ reservations' = [reservations EXCEPT ![e] = 0]
         /\ reservedBytes' = reservedBytes - Bytes(e)
  BY <1>5, OpFields DEF Rename, Published
<1>8. ASSUME NEW x \in Clients
      PROVE  /\ op'[x].at \in Holding => op[x].at \in Holding
             /\ op'[x].at \in Holding \cup {"RECORD"} =>
                   /\ op'[x].artifact = op[x].artifact /\ op'[x].manager = op[x].manager
                   /\ op[x].at \notin {"NONE", "OVER"}
             /\ op'[x].at = "RECORD" => op[x].at = "RECORD"
  BY <1>1, <1>2, <1>6 DEF Advances, Holding
<1>9. ASSUME NEW x \in Clients, op'[x].at = "RECORD"
      PROVE  limits' = limits /\ Fits(x, UsedBytes + CommittedBytes + Bytes(x))
  BY <1>3, <1>8, <1>9 DEF Accounts, Projected
<1>10. UsedBytes \in Nat /\ CommittedBytes \in Nat /\ ArtifactBytes \in Nat
  BY <1>4, SumsAreNatural
<1>11. op'[e].artifact = a /\ Bytes(e)' = Bytes(e)
  BY <1>2 DEF Advances, Bytes
<1>12. CASE /\ op'[e].at = "RACED" /\ op'[e].result = op[e].result
            /\ UNCHANGED <<artifacts, staging, reservations, reservedBytes>>
  <2>1. DiskTypes'
    BY <1>3, <1>4, <1>12 DEF DiskTypes
  <2>2. ASSUME NEW x \in Clients, x # e PROVE Kept(x)'
    BY <1>2, <1>12, <2>2, OthersAreKept DEF Safekeeping, Advances
  <2>3. Kept(e)'
    BY <1>4, <1>5, <1>11, <1>12 DEF Kept, Staged, Whole, Fetched, Holding
  <2>4. UsedBytes' = UsedBytes /\ CommittedBytes' = CommittedBytes
    BY <1>3, <1>12 DEF UsedBytes, CommittedBytes, ArtifactBytes, Total, SizeOn
  <2>5. reservedBytes' = CommittedBytes' /\ UsedBytes' + CommittedBytes' <= UsedBytes + CommittedBytes
    BY <1>10, <1>12, <2>4 DEF Accounts
  <2>6. Accounts'
    BY <1>8, <1>9, <2>1, <2>5, AccountsStay
  <2>7. QED BY <2>1, <2>2, <2>3, <2>6 DEF Safekeeping
<1>13. CASE /\ artifacts[a] = "ABSENT" /\ artifacts' = [artifacts EXCEPT ![a] = "INSTALLED"]
            /\ staging' = [staging EXCEPT ![e] = "NONE"]
            /\ reservations' = [reservations EXCEPT ![e] = 0]
            /\ reservedBytes' = reservedBytes - Bytes(e)
  <2>1. /\ artifacts' \in ArtifactTypes /\ artifacts'[a] = "INSTALLED"
        /\ \A b \in Artifacts : b # a => artifacts'[b] = artifacts[b]
    BY <1>4, <1>13 DEF DiskTypes, ArtifactTypes
  <2>2. /\ staging' \in StagingTypes /\ staging'[e] = "NONE" /\ reservations'[e] = 0
        /\ \A x \in Clients : x # e => staging'[x] = staging[x] /\ reservations'[x] = reservations[x]
    BY <1>4, <1>13 DEF DiskTypes, StagingTypes
  <2>3. CommittedBytes' = CommittedBytes - reservations[e] + 0 /\ reservations' \in [Clients -> Nat]
    BY <1>4, <1>13, OneReservationChanges
  <2>4. DiskTypes'
    BY <1>3, <1>4, <2>1, <2>2, <2>3 DEF DiskTypes
  <2>5. ASSUME NEW x \in Clients, x # e PROVE Kept(x)'
    <3>1. op[x].at \notin {"NONE", "OVER"} => op[x].artifact \in Artifacts
      BY DEF Heard
    <3>2. Begun(x) /\ artifacts[op[x].artifact] = "INSTALLED" => artifacts'[op[x].artifact] = "INSTALLED"
      BY <2>1, <3>1 DEF Begun
    <3>3. op[x].at # "REPAIR"
      <4>1. ASSUME op[x].at = "REPAIR" PROVE FALSE
        <5>1. /\ x \in Users /\ Stage(x) \in Sections /\ "MUTATION" \in Wants(x)
              /\ e \in Users /\ Stage(e) \in Sections /\ "MUTATION" \in Wants(e)
          BY <1>1, <4>1, StageOf, StageGates DEF Users, Sections, Wants
        <5>2. Heads(x, gate["MUTATION"]) /\ Heads(e, gate["MUTATION"])
          BY <5>1 DEF Queues
        <5>3. QED BY <2>5, <5>2 DEF Heads
      <4>2. QED BY <4>1
    <3>4. op'[x] = op[x] /\ Kept(x)
      BY <1>2, <2>5 DEF Advances, Safekeeping
    <3>5. QED BY <2>2, <2>5, <3>2, <3>3, <3>4, OthersAreKept
  <2>6. Kept(e)'
    <3>1. op'[e].at \in {"END", "RELEASE", "RACED"}
      BY <1>6
    <3>2. QED BY <1>11, <2>1, <2>2, <3>1 DEF Kept, Staged, Whole, Fetched
  <2>7. ArtifactBytes' = ArtifactBytes - 0 + Bytes(e)
    <3>1. PICK b \in Artifacts : b = a
      BY <1>4
    <3>2. SizeOn(b) = 0 /\ SizeOn(b)' = Bytes(e)
      BY <1>4, <1>13, <2>1, <3>1 DEF SizeOn
    <3>3. ArtifactBytes' = ArtifactBytes - SizeOn(b) + SizeOn(b)'
      BY <1>4, <2>1, <3>1, OneArtifactChanges
    <3>4. QED BY <3>2, <3>3
  <2>8. ArtifactBytes' = ArtifactBytes + Bytes(e) /\ CommittedBytes' = CommittedBytes - Bytes(e)
    <3>1. CommittedBytes' = CommittedBytes - Bytes(e) + 0
      BY <1>5, <2>3
    <3>2. QED BY <1>4, <1>10, <2>7, <3>1
  <2>9. /\ UsedBytes' = ArtifactBytes' + tombstones + debris
        /\ UsedBytes = ArtifactBytes + tombstones + debris
        /\ tombstones \in Nat /\ debris \in Nat
    BY <1>3, <1>4 DEF UsedBytes, DiskTypes
  <2>10. UsedBytes' + CommittedBytes' <= UsedBytes + CommittedBytes
    <3>1. \A p, t, d, c, n \in Nat : p + n + t + d + (c - n) <= p + t + d + c
      OBVIOUS
    <3>2. ArtifactBytes + Bytes(e) + tombstones + debris + (CommittedBytes - Bytes(e))
            <= ArtifactBytes + tombstones + debris + CommittedBytes
      BY <1>4, <1>10, <2>9, <3>1
    <3>3. QED BY <2>8, <2>9, <3>2
  <2>11. reservedBytes' = CommittedBytes'
    BY <1>13, <2>8 DEF Accounts
  <2>12. Accounts'
    BY <1>8, <1>9, <2>4, <2>10, <2>11, AccountsStay
  <2>13. QED BY <2>4, <2>5, <2>6, <2>12 DEF Safekeeping
<1>14. QED BY <1>7, <1>12, <1>13

LEMMA DiskAfterOpStep ==
  ASSUME AssetsTypeOK, Queues, Heard, Safekeeping, CountsAreExact, Accounts,
         NEW e \in Clients, OpStep(e), ~End(e)
  PROVE  DiskTypes' /\ Safekeeping' /\ Accounts'
<1>1. CASE Begin(e) \/ Check(e) \/ Reserve(e) \/ Reconcile(e) \/ Publish(e) \/ Raced(e)
  BY <1>1, LooksOnly
<1>2. CASE StageDirectory(e) \/ Transfer(e)
  BY <1>2, StagesOnly
<1>3. CASE Record(e)
  BY <1>3, RecordsOne
<1>4. CASE Repair(e)
  BY <1>4, RepairsOne
<1>5. CASE Rename(e)
  BY <1>5, RenamesOne
<1>6. CASE Release(e)
  BY <1>6, ReleasesOne
<1>7. QED BY <1>1, <1>2, <1>3, <1>4, <1>5, <1>6 DEF OpStep

-----------------------------------------------------------------------------
(* The end of an installation. *)

\* e is over; whoever starts anew had nothing under way.
Ends(e) ==
    /\ op[e].at = "END" /\ Inside(e) /\ op' \in [Clients -> OpTypes]
    /\ op'[e].at = "OVER" /\ ~op'[e].aborted /\ op'[e].result = "NONE"
    /\ \A x \in Clients : x # e =>
          \/ op'[x] = op[x]
          \/ /\ op[x].at = "NONE" /\ op'[x].at = "BEGIN" /\ ~op'[x].aborted /\ op'[x].result = "NONE"
             /\ op'[x].manager \in Managers /\ op'[x].artifact \in Artifacts

AfterOf(e) == {c \in Clients : request[c].at = "AFTER" /\ request[c].on = e}
AnswerOf(e) == IF op[e].result = "CANCELLED" THEN "CANCELLED" ELSE "ANSWERED"
SettledBy(e) == [c \in Clients |-> IF c \in WaitersOf(e)
                                   THEN [NoCall EXCEPT !.at = AnswerOf(e)] ELSE request[c]]
OverBy(e) == [op EXCEPT ![e] = [NoOp EXCEPT !.at = "OVER"]]
RequestTypes == [at : {"IDLE", "WAITING", "AFTER", "ANSWERED", "CANCELLED", "WITHDRAWN", "LOST"},
                 on : Clients \cup {Nil}]
InFlightTypes == [Managers -> [Artifacts -> Clients \cup {Nil}]]

\* The two ways an installation ends.
EndsLast(e) ==
    /\ inFlight' = [inFlight EXCEPT ![op[e].manager][op[e].artifact] = Nil]
    /\ op' = OverBy(e) /\ request' = SettledBy(e) /\ gate' = Requeue(e, "OVER")
EndsFor(e, first) ==
    /\ first \in AfterOf(e)
    /\ inFlight' = [inFlight EXCEPT ![op[e].manager][op[e].artifact] = first]
    /\ op' = [OverBy(e) EXCEPT ![first] = NewOp(op[e].manager, op[e].artifact)]
    /\ request' = [c \in Clients |-> IF c \in AfterOf(e) THEN [at |-> "WAITING", on |-> first]
                                     ELSE SettledBy(e)[c]]
    /\ gate' = [Requeue(e, "OVER") EXCEPT !["CAPACITY"] = Append(@, first)]

LEMMA EndsEitherWay ==
  ASSUME NEW e \in Clients, End(e)
  PROVE  /\ op[e].at = "END" /\ Inside(e)
         /\ EndsLast(e) \/ \E first \in AfterOf(e) : EndsFor(e, first)
         /\ UNCHANGED <<disk, reservations, reservedBytes, task, crashesLeft>>
BY DEF End, EndsLast, EndsFor, AfterOf, SettledBy, AnswerOf, OverBy

LEMMA Settles ==
  ASSUME AssetsTypeOK, Heard, NEW e \in Clients, op[e].at = "END", NEW c \in Clients
  PROVE  /\ SettledBy(e)[c] \in RequestTypes
         /\ \/ SettledBy(e)[c] = request[c] /\ c \notin WaitersOf(e)
            \/ SettledBy(e)[c].at = "ANSWERED"
<1>1. request[c] \in RequestTypes
  BY DEF AssetsTypeOK, RequestTypes
<1>2. CASE c \notin WaitersOf(e)
  BY <1>1, <1>2 DEF SettledBy
<1>3. CASE c \in WaitersOf(e)
  <2>1. ~op[e].aborted
    BY <1>3 DEF Heard, WaitersOf
  <2>2. AnswerOf(e) = "ANSWERED"
    BY <2>1 DEF Heard, AnswerOf
  <2>3. SettledBy(e)[c] = [at |-> "ANSWERED", on |-> Nil]
    BY <1>3, <2>2 DEF SettledBy, NoCall
  <2>4. QED BY <2>3 DEF RequestTypes
<1>4. QED BY <1>2, <1>3

LEMMA OverOf ==
  ASSUME AssetsTypeOK, NEW e \in Clients
  PROVE  /\ OverBy(e) \in [Clients -> OpTypes] /\ OverBy(e)[e] = [NoOp EXCEPT !.at = "OVER"]
         /\ OverBy(e)[e].at = "OVER" /\ ~OverBy(e)[e].aborted /\ OverBy(e)[e].result = "NONE"
         /\ \A x \in Clients : x # e => OverBy(e)[x] = op[x]
<1>1. op \in [Clients -> OpTypes]
  BY DEF AssetsTypeOK, OpTypes
<1>2. [NoOp EXCEPT !.at = "OVER"] \in OpTypes
  BY DEF NoOp, OpTypes
<1>3. QED BY <1>1, <1>2 DEF OverBy, NoOp

LEMMA NewOpIs ==
  ASSUME NEW m \in Managers, NEW a \in Artifacts
  PROVE  /\ NewOp(m, a) \in OpTypes /\ NewOp(m, a).at = "BEGIN" /\ NewOp(m, a).manager = m
         /\ NewOp(m, a).artifact = a /\ ~NewOp(m, a).aborted /\ NewOp(m, a).result = "NONE"
BY DEF NewOp, NoOp, OpTypes

LEMMA EndDoes ==
  ASSUME AssetsTypeOK, Heard, NEW e \in Clients, End(e)
  PROVE  Ends(e) /\ request' \in [Clients -> RequestTypes] /\ inFlight' \in InFlightTypes /\ Heard'
<1> DEFINE m == op[e].manager
           a == op[e].artifact
<1>1. op[e].at = "END" /\ Inside(e)
  BY EndsEitherWay
<1>2. m \in Managers /\ a \in Artifacts
  BY <1>1 DEF Heard
<1>3. inFlight \in InFlightTypes /\ op \in [Clients -> OpTypes] /\ request \in [Clients -> RequestTypes]
  BY DEF AssetsTypeOK, InFlightTypes, OpTypes, RequestTypes
<1>4. CASE EndsLast(e)
  <2>1. Ends(e)
    BY <1>1, <1>4, OverOf DEF Ends, EndsLast
  <2>2. ASSUME NEW c \in Clients
        PROVE  /\ request'[c] \in RequestTypes
               /\ \/ request'[c] = request[c] /\ c \notin WaitersOf(e)
                  \/ request'[c].at = "ANSWERED"
    BY <1>1, <1>4, Settles DEF EndsLast
  <2>3. request' \in [Clients -> RequestTypes]
    <3>1. request' = [c \in Clients |-> request'[c]]
      BY <1>4 DEF EndsLast, SettledBy
    <3>2. QED BY <2>2, <3>1
  <2>4. inFlight' \in InFlightTypes
    BY <1>2, <1>3, <1>4 DEF EndsLast, InFlightTypes
  <2>5. Heard'
    <3> SUFFICES ASSUME NEW c \in Clients
                 PROVE  /\ request'[c].at \in {"IDLE", "AFTER"} => op'[c].at = "NONE"
                        /\ request'[c].at \in {"WAITING", "AFTER"} => request'[c].on \in Clients
                        /\ request'[c].at # "CANCELLED"
                        /\ op'[c].at \notin {"NONE", "OVER"} =>
                               op'[c].manager \in Managers /\ op'[c].artifact \in Artifacts
                        /\ op'[c].aborted =>
                               \A d \in Clients : request'[d].at = "WAITING" => request'[d].on # c
                        /\ op'[c].at = "BEGIN" => op'[c].result = "NONE"
                        /\ op'[c].result = "CANCELLED" => op'[c].aborted
      BY DEF Heard
    <3>1. CASE c = e
      <4>1. op'[c].at = "OVER" /\ ~op'[c].aborted /\ op'[c].result = "NONE"
        BY <2>1, <3>1 DEF Ends
      <4>2. request[c].at \notin {"IDLE", "AFTER"} /\ request[c].at # "CANCELLED"
            /\ (request[c].at = "WAITING" => request[c].on \in Clients)
        BY <1>1, <3>1 DEF Heard
      <4>3. QED BY <2>2, <4>1, <4>2
    <3>2. CASE c # e
      <4>1. op'[c] = op[c]
        BY <1>4, <3>2, OverOf DEF EndsLast
      <4>2. QED BY <2>2, <4>1 DEF Heard
    <3>3. QED BY <3>1, <3>2
  <2>6. QED BY <2>1, <2>3, <2>4, <2>5
<1>5. ASSUME NEW first \in AfterOf(e), EndsFor(e, first)
      PROVE  Ends(e) /\ request' \in [Clients -> RequestTypes] /\ inFlight' \in InFlightTypes /\ Heard'
  <2>1. first \in Clients /\ op[first].at = "NONE" /\ first # e
    BY <1>1 DEF AfterOf, Heard
  <2>2. /\ op' \in [Clients -> OpTypes] /\ op'[e] = OverBy(e)[e] /\ op'[first] = NewOp(m, a)
        /\ \A x \in Clients : x \notin {e, first} => op'[x] = op[x]
    BY <1>2, <1>5, <2>1, OverOf, NewOpIs DEF EndsFor
  <2>3. /\ op'[first].at = "BEGIN" /\ ~op'[first].aborted /\ op'[first].result = "NONE"
        /\ op'[first].manager \in Managers /\ op'[first].artifact \in Artifacts
    BY <1>2, <2>2, NewOpIs
  <2>4. Ends(e)
    BY <1>1, <2>1, <2>2, <2>3, OverOf DEF Ends
  <2>5. ASSUME NEW c \in Clients
        PROVE  /\ request'[c] \in RequestTypes
               /\ \/ c \in AfterOf(e) /\ request'[c].at = "WAITING" /\ request'[c].on = first
                  \/ c \notin AfterOf(e) /\ request'[c] = request[c] /\ c \notin WaitersOf(e)
                  \/ c \notin AfterOf(e) /\ request'[c].at = "ANSWERED"
    <3>1. CASE c \in AfterOf(e)
      <4>1. request'[c] = [at |-> "WAITING", on |-> first]
        BY <1>5, <3>1 DEF EndsFor
      <4>2. QED BY <2>1, <3>1, <4>1 DEF RequestTypes
    <3>2. CASE c \notin AfterOf(e)
      <4>1. request'[c] = SettledBy(e)[c]
        BY <1>5, <3>2 DEF EndsFor
      <4>2. QED BY <1>1, <3>2, <4>1, Settles
    <3>3. QED BY <3>1, <3>2
  <2>6. request' \in [Clients -> RequestTypes]
    <3>1. request' = [c \in Clients |-> request'[c]]
      BY <1>5 DEF EndsFor
    <3>2. QED BY <2>5, <3>1
  <2>7. inFlight' \in InFlightTypes
    BY <1>2, <1>3, <1>5, <2>1 DEF EndsFor, InFlightTypes
  <2>8. Heard'
    <3> SUFFICES ASSUME NEW c \in Clients
                 PROVE  /\ request'[c].at \in {"IDLE", "AFTER"} => op'[c].at = "NONE"
                        /\ request'[c].at \in {"WAITING", "AFTER"} => request'[c].on \in Clients
                        /\ request'[c].at # "CANCELLED"
                        /\ op'[c].at \notin {"NONE", "OVER"} =>
                               op'[c].manager \in Managers /\ op'[c].artifact \in Artifacts
                        /\ op'[c].aborted =>
                               \A d \in Clients : request'[d].at = "WAITING" => request'[d].on # c
                        /\ op'[c].at = "BEGIN" => op'[c].result = "NONE"
                        /\ op'[c].result = "CANCELLED" => op'[c].aborted
      BY DEF Heard
    <3>1. request'[c].at \in {"WAITING", "AFTER"} => request'[c].on \in Clients
      BY <2>1, <2>5 DEF Heard
    <3>2. request'[c].at # "CANCELLED"
      BY <2>5 DEF Heard
    <3>3. request'[c].at \in {"IDLE", "AFTER"} => request'[c] = request[c] /\ c # first /\ op[c].at = "NONE"
      BY <1>5, <2>5 DEF Heard
    <3>4. CASE c = e
      <4>1. op'[c].at = "OVER" /\ ~op'[c].aborted /\ op'[c].result = "NONE"
        BY <2>4, <3>4 DEF Ends
      <4>2. request'[c].at \notin {"IDLE", "AFTER"}
        BY <1>1, <3>3, <3>4
      <4>3. QED BY <3>1, <3>2, <4>1, <4>2
    <3>5. CASE c = first
      BY <2>3, <3>1, <3>2, <3>3, <3>5
    <3>6. CASE c \notin {e, first}
      <4>1. op'[c] = op[c]
        BY <2>2, <3>6
      <4>2. op[c].aborted => \A d \in Clients : request'[d].at = "WAITING" => request'[d].on # c
        BY <2>5, <3>6 DEF Heard
      <4>3. QED BY <3>1, <3>2, <3>3, <4>1, <4>2 DEF Heard
    <3>7. QED BY <3>4, <3>5, <3>6
  <2>9. QED BY <2>4, <2>6, <2>7, <2>8
<1>6. QED BY <1>4, <1>5, EndsEitherWay

LEMMA EndKeepsOrder ==
  ASSUME AssetsTypeOK, Queues, Heard, NEW e \in Clients, End(e)
  PROVE  gate' \in [Gates -> Seq(Users)] /\ Queues'
<1>1. op[e].at = "END" /\ Inside(e) /\ UNCHANGED task /\ e \in Users
  BY EndsEitherWay DEF Users
<1>2. Ends(e)
  BY EndDoes
<1>3. Free(e)
  BY <1>1, FreeToMove
<1>4. Stage(e)' = "OVER" /\ "OVER" \notin Sections
  BY <1>2, StageOf DEF Ends, Sections
<1>5. \A t \in Tasks : Stage(t)' = Stage(t)
  BY <1>1, StageOf
<1>6. CASE EndsLast(e)
  <2>1. \A v \in Users : v # e => Stage(v)' = Stage(v)
    <3>1. \A x \in Clients : x # e => op'[x] = op[x]
      BY <1>6, OverOf DEF EndsLast
    <3>2. QED BY <1>5, <3>1, StageOf DEF Users
  <2>2. gate' = Requeue(e, "OVER")
    BY <1>6 DEF EndsLast
  <2>3. QED BY <1>1, <1>3, <1>4, <2>1, <2>2, MovesOn
<1>7. ASSUME NEW first \in AfterOf(e), EndsFor(e, first)
      PROVE  gate' \in [Gates -> Seq(Users)] /\ Queues'
  <2>1. /\ first \in Clients /\ first \in Users /\ op[first].at = "NONE" /\ first # e
    BY <1>1 DEF AfterOf, Heard, Users
  <2>2. /\ \A v \in Users : v \notin {e, first} => Stage(v)' = Stage(v)
        /\ Stage(first)' = "BEGIN" /\ Stage(first) = "NONE"
    <3>1. op[e].manager \in Managers /\ op[e].artifact \in Artifacts
      BY <1>1 DEF Heard
    <3>2. op'[first].at = "BEGIN" /\ \A x \in Clients : x \notin {e, first} => op'[x] = op[x]
      BY <1>7, <2>1, <3>1, OverOf, NewOpIs DEF EndsFor
    <3>3. QED BY <1>5, <2>1, <3>2, StageOf DEF Users
  <2>3. \A g \in Gates : ~In(first, gate[g])
    <3>1. Wants(first) = {}
      BY <2>2, StageGates DEF Wants
    <3>2. QED BY <2>1, <3>1 DEF Queues
  <2> DEFINE q(g) == Requeue(e, "OVER")[g]
  <2>4. ASSUME NEW g \in Gates
        PROVE  /\ q(g) \in Seq(Users) /\ Distinct(q(g))
               /\ \A v : v # e /\ In(v, q(g)) => In(v, gate[g])
               /\ ~In(e, q(g))
               /\ \A v : v # e /\ Heads(v, gate[g]) => Heads(v, q(g))
    <3>1. Range(GatesOf("OVER")) = {}
      BY StageGates
    <3>2. QED BY <1>1, <1>3, <3>1, RequeueDoes
  <2>5. ASSUME NEW g \in Gates
        PROVE  gate'[g] = IF g = "CAPACITY" THEN Append(q(g), first) ELSE q(g)
    <3>1. gate' = [Requeue(e, "OVER") EXCEPT !["CAPACITY"] = Append(@, first)]
      BY <1>7 DEF EndsFor
    <3>2. DOMAIN Requeue(e, "OVER") = Gates
      BY DEF Requeue
    <3>3. QED BY <3>1, <3>2
  <2>6. ASSUME NEW g \in Gates
        PROVE  /\ gate'[g] \in Seq(Users) /\ Distinct(gate'[g])
               /\ \A v : In(v, gate'[g]) => v # e /\ (In(v, gate[g]) \/ (v = first /\ g = "CAPACITY"))
               /\ \A v : v # e /\ Heads(v, gate[g]) => Heads(v, gate'[g])
    <3>1. ~In(first, q(g))
      BY <2>1, <2>3, <2>4
    <3>2. /\ Append(q(g), first) \in Seq(Users) /\ Distinct(Append(q(g), first))
          /\ \A v : In(v, Append(q(g), first)) <=> In(v, q(g)) \/ v = first
          /\ \A v : Heads(v, q(g)) => Heads(v, Append(q(g), first))
      <4>1. q(g) \in Seq(Users) /\ Distinct(q(g))
        BY <2>4
      <4> HIDE DEF q
      <4>2. QED BY <2>1, <3>1, <4>1, Joins
    <3> HIDE DEF q
    <3>3. CASE g = "CAPACITY"
      BY <2>1, <2>4, <2>5, <3>2, <3>3
    <3>4. CASE g # "CAPACITY"
      BY <2>4, <2>5, <3>4
    <3>5. QED BY <3>3, <3>4
  <2>7. gate' \in [Gates -> Seq(Users)]
    <3>1. gate' = [g \in Gates |-> gate'[g]]
      BY <1>7 DEF EndsFor, Requeue
    <3>2. QED BY <2>6, <3>1
  <2>8. ASSUME NEW v \in Users, NEW g \in Gates, In(v, gate'[g]) PROVE g \in Wants(v)'
    <3>1. v # e /\ (In(v, gate[g]) \/ (v = first /\ g = "CAPACITY"))
      BY <2>6, <2>8
    <3>2. CASE v = first
      <4>1. g = "CAPACITY"
        BY <2>3, <3>1, <3>2
      <4>2. QED BY <2>2, <3>2, <4>1, StageGates DEF Wants
    <3>3. CASE v # first
      BY <2>2, <3>1, <3>3 DEF Queues, Wants
    <3>4. QED BY <3>2, <3>3
  <2>9. ASSUME NEW v \in Users, Stage(v)' \in Sections, NEW g \in Wants(v)' PROVE Heads(v, gate'[g])
    <3>1. v \notin {e, first}
      BY <1>4, <2>2, <2>9 DEF Sections
    <3>2. Stage(v) \in Sections /\ g \in Wants(v)
      BY <2>2, <2>9, <3>1 DEF Wants
    <3>3. g \in Gates
      BY <3>2, StageGates DEF Wants, Sections, Gates
    <3>4. QED BY <2>6, <3>1, <3>2, <3>3 DEF Queues
  <2>10. QED BY <2>6, <2>7, <2>8, <2>9 DEF Queues, Distinct, In, Heads
<1>8. QED BY <1>6, <1>7, EndsEitherWay

LEMMA EndKeepsCounts ==
  ASSUME AssetsTypeOK, Heard, CountsAreExact, NEW e \in Clients, End(e), Ends(e)
  PROVE  /\ CountsAreExact'
         /\ active' \in [Artifacts -> Nat] /\ limits' \in [Range(Limit) -> Nat]
<1> DEFINE a == op[e].artifact
<1>1. /\ a \in Artifacts /\ Begun(e) /\ ~Begun(e)'
      /\ active' = [active EXCEPT ![a] = @ - 1]
      /\ limits' = IF Limited(e) THEN [limits EXCEPT ![LimitOf(e)] = @ - 1] ELSE limits
  BY DEF End, Ends, Begun, Heard, LimitOf
<1>2. ASSUME NEW x \in Clients, x # e
      PROVE  /\ Begun(x)' <=> Begun(x)
             /\ Begun(x) => op'[x] = op[x]
  BY <1>2 DEF Ends, Begun
<1>3. ASSUME NEW b \in Artifacts
      PROVE  active'[b] = Cardinality(BegunOn(b)') /\ active'[b] \in Nat
  <2>1. BegunOn(b)' = IF b = a THEN BegunOn(b) \ {e} ELSE BegunOn(b)
    BY <1>1, <1>2 DEF BegunOn
  <2>2. b = a => e \in BegunOn(b)
    BY <1>1 DEF BegunOn
  <2>3. Cardinality(BegunOn(b)') = IF b = a THEN Cardinality(BegunOn(b)) - 1 ELSE Cardinality(BegunOn(b))
    BY <2>1, <2>2, BegunSets, FS_RemoveElement
  <2>4. active'[b] = IF b = a THEN active[b] - 1 ELSE active[b]
    BY <1>1 DEF AssetsTypeOK
  <2>5. active'[b] = Cardinality(BegunOn(b)')
    BY <2>3, <2>4 DEF CountsAreExact
  <2>6. QED
    <3>1. BegunOn(b)' \in SUBSET Clients
      BY DEF BegunOn
    <3>2. QED BY <2>5, <3>1, ClientsAssumption, FS_Subset, FS_CardinalityType
<1>4. DOMAIN limits = Range(Limit) /\ DOMAIN limits' = Range(Limit) /\ limits' = [l \in Range(Limit) |-> limits'[l]]
  BY <1>1 DEF AssetsTypeOK
<1>5. ASSUME NEW l \in Range(Limit)
      PROVE  limits'[l] = Cardinality(BegunUnder(l)') /\ limits'[l] \in Nat
  <2> DEFINE mine == Limited(e) /\ LimitOf(e) = l
  <2>1. BegunUnder(l)' = IF mine THEN BegunUnder(l) \ {e} ELSE BegunUnder(l)
    BY <1>1, <1>2 DEF BegunUnder, Limited, LimitOf
  <2>2. mine => e \in BegunUnder(l)
    BY <1>1 DEF BegunUnder
  <2>3. Cardinality(BegunUnder(l)') = IF mine THEN Cardinality(BegunUnder(l)) - 1 ELSE Cardinality(BegunUnder(l))
    BY <2>1, <2>2, BegunSets, FS_RemoveElement
  <2>4. limits'[l] = IF mine THEN limits[l] - 1 ELSE limits[l]
    BY <1>1, <1>4 DEF AssetsTypeOK
  <2>5. limits[l] = Cardinality(BegunUnder(l))
    BY <1>4 DEF CountsAreExact
  <2>6. limits'[l] = Cardinality(BegunUnder(l)')
    BY <2>3, <2>4, <2>5
  <2>7. QED
    <3>1. BegunUnder(l)' \in SUBSET Clients
      BY DEF BegunUnder
    <3>2. QED BY <2>6, <3>1, ClientsAssumption, FS_Subset, FS_CardinalityType
<1>6. active' = [b \in Artifacts |-> active'[b]]
  BY <1>1 DEF AssetsTypeOK
<1>7. QED BY <1>3, <1>4, <1>5, <1>6 DEF CountsAreExact

LEMMA EndKeepsTheRest ==
  ASSUME AssetsTypeOK, Queues, Heard, Safekeeping, Undisturbed, Accounts, NEW e \in Clients, End(e), Ends(e)
  PROVE  Undisturbed' /\ DiskTypes' /\ Safekeeping' /\ Accounts'
<1>1. op[e].at = "END" /\ UNCHANGED <<disk, reservations, reservedBytes, task>>
  BY EndsEitherWay
<1>2. DiskTypes /\ DiskTypes'
  BY <1>1, DiskIsTyped DEF DiskTypes, disk
<1>3. ASSUME NEW x \in Clients
      PROVE  /\ Begun(x)' => Begun(x) /\ op'[x] = op[x]
             /\ op'[x].at \notin {"NONE", "BEGIN", "OVER"} => op'[x] = op[x]
  BY DEF Ends, Begun
<1>4. Undisturbed'
  BY <1>1, <1>3 DEF Undisturbed
<1>5. Safekeeping'
  <2> SUFFICES ASSUME NEW x \in Clients PROVE Kept(x)'
    BY DEF Safekeeping
  <2>1. Kept(x) /\ UNCHANGED <<artifacts, staging, reservations>>
    BY <1>1 DEF Safekeeping, disk
  <2>2. CASE op'[x] = op[x]
    BY <2>1, <2>2, OthersAreKept
  <2>3. CASE op'[x] # op[x]
    <3>1. op[x].at \in {"NONE", "END"} /\ op'[x].at \in {"BEGIN", "OVER"} /\ op'[x].result = "NONE"
      BY <1>1, <2>3 DEF Ends
    <3>2. ~(reservations[x] > 0) /\ reservations[x] \in Nat
      BY <1>2, <2>1, <3>1 DEF Kept, Holding, DiskTypes
    <3>3. reservations'[x] = 0 /\ staging'[x] = "NONE"
      BY <2>1, <3>2 DEF Kept
    <3>4. QED BY <3>1, <3>3 DEF Kept, Staged, Whole, Fetched
  <2>4. QED BY <2>2, <2>3
<1>6. Accounts'
  <2>1. UsedBytes' = UsedBytes /\ CommittedBytes' = CommittedBytes
    BY <1>1 DEF UsedBytes, CommittedBytes, ArtifactBytes, Total, SizeOn, disk
  <2>2. UsedBytes \in Nat /\ CommittedBytes \in Nat
    BY <1>2, SumsAreNatural
  <2>3. ASSUME NEW x \in Clients
        PROVE  /\ op'[x].at \in Holding => op[x].at \in Holding
               /\ op'[x].at \in Holding \cup {"RECORD"} =>
                     /\ op'[x].artifact = op[x].artifact /\ op'[x].manager = op[x].manager
                     /\ op[x].at \notin {"NONE", "OVER"}
               /\ op'[x].at = "RECORD" => op[x].at = "RECORD" /\ x # e
    BY <1>1, <1>3 DEF Holding, Ends
  <2>4. ASSUME NEW x \in Clients, op'[x].at = "RECORD" PROVE FALSE
    <3>1. op[x].at = "RECORD" /\ x # e
      BY <2>3, <2>4
    <3>2. /\ x \in Users /\ Stage(x) \in Sections /\ "CAPACITY" \in Wants(x)
      BY <3>1, StageOf, StageGates DEF Users, Sections, Wants
    <3>3. Heads(x, gate["CAPACITY"])
      BY <3>2 DEF Queues
    <3>4. Heads(e, gate["CAPACITY"])
      BY <1>1, StageOf, StageGates DEF Ends, Inside, Holds, Heads
    <3>5. QED BY <3>1, <3>3, <3>4 DEF Heads
  <2>5. reservedBytes' = CommittedBytes' /\ UsedBytes' + CommittedBytes' <= UsedBytes + CommittedBytes
    BY <1>1, <2>1, <2>2 DEF Accounts
  <2>6. QED BY <1>2, <2>3, <2>4, <2>5, AccountsStay
<1>7. QED BY <1>2, <1>4, <1>5, <1>6

-----------------------------------------------------------------------------
(* Requests, removals and cleanups, and a crash. *)

TaskTypes == [at : {"IDLE", "REMOVE", "REMOVING", "CLEANUP", "CLEANING", "CLEAR", "CLEARING", "DONE"},
              keep : SUBSET Artifacts]

LEMMA TypesAre ==
  ASSUME AssetsTypeOK
  PROVE  /\ op \in [Clients -> OpTypes] /\ gate \in [Gates -> Seq(Users)]
         /\ active \in [Artifacts -> Nat] /\ limits \in [Range(Limit) -> Nat]
         /\ inFlight \in InFlightTypes /\ request \in [Clients -> RequestTypes]
         /\ task \in [Tasks -> TaskTypes] /\ crashesLeft \in 0 .. MaxCrashes /\ DiskTypes
BY DiskIsTyped DEF AssetsTypeOK, OpTypes, InFlightTypes, RequestTypes, TaskTypes

LEMMA TypesAgain ==
  ASSUME DiskTypes', op' \in [Clients -> OpTypes], gate' \in [Gates -> Seq(Users)],
         active' \in [Artifacts -> Nat], limits' \in [Range(Limit) -> Nat],
         inFlight' \in InFlightTypes, request' \in [Clients -> RequestTypes],
         task' \in [Tasks -> TaskTypes], crashesLeft' \in 0 .. MaxCrashes, Accounts'
  PROVE  AssetsTypeOK'
<1>1. reservedBytes' \in Nat
  BY SumsAreNaturalAfter DEF Accounts
<1>2. QED BY <1>1 DEF AssetsTypeOK, DiskTypes, ArtifactTypes, StagingTypes, OpTypes, InFlightTypes,
      RequestTypes, TaskTypes

\* Nothing of a step that touches neither the disk nor the shared state, and of
\* the installations at most begins one or calls one off.
LEMMA LittleChanges ==
  ASSUME AssetsTypeOK, Heard, Safekeeping, CountsAreExact, Accounts, UNCHANGED <<disk, shared>>,
         \A x \in Clients :
            \/ op[x].at = "NONE" /\ op'[x].at = "BEGIN" /\ op'[x].result = "NONE"
            \/ /\ op'[x].at = op[x].at /\ op'[x].result = op[x].result
               /\ op'[x].manager = op[x].manager /\ op'[x].artifact = op[x].artifact
  PROVE  /\ DiskTypes' /\ Safekeeping' /\ CountsAreExact' /\ Accounts'
         /\ active' \in [Artifacts -> Nat] /\ limits' \in [Range(Limit) -> Nat]
<1>1. DiskTypes /\ DiskTypes'
  BY DiskIsTyped DEF DiskTypes, disk, shared
<1>2. UNCHANGED <<artifacts, tombstones, debris, staging, reservations, reservedBytes, active, limits>>
  BY DEF disk, shared
<1>3. Safekeeping'
  <2> SUFFICES ASSUME NEW x \in Clients PROVE Kept(x)'
    BY DEF Safekeeping
  <2>1. Kept(x)
    BY DEF Safekeeping
  <2>2. CASE op[x].at = "NONE" /\ op'[x].at = "BEGIN" /\ op'[x].result = "NONE"
    <3>1. ~(reservations[x] > 0) /\ reservations[x] \in Nat
      BY <1>1, <2>1, <2>2 DEF Kept, Holding, DiskTypes
    <3>2. reservations'[x] = 0 /\ staging'[x] = "NONE"
      BY <1>2, <2>1, <3>1 DEF Kept
    <3>3. QED BY <2>2, <3>2 DEF Kept, Staged, Whole, Fetched
  <2>3. CASE /\ op'[x].at = op[x].at /\ op'[x].result = op[x].result
             /\ op'[x].manager = op[x].manager /\ op'[x].artifact = op[x].artifact
    <3>1. Bytes(x)' = Bytes(x) /\ (Begun(x)' <=> Begun(x))
      BY <2>3 DEF Bytes, Begun
    <3>2. QED BY <1>2, <2>1, <2>3, <3>1 DEF Kept
  <2>4. QED BY <2>2, <2>3
<1>4. CountsAreExact'
  <2>1. \A x \in Clients : /\ Begun(x)' <=> Begun(x)
                           /\ Begun(x) => op'[x].artifact = op[x].artifact /\ op'[x].manager = op[x].manager
    BY DEF Begun
  <2>2. QED BY <1>2, <2>1, CountsStay
<1>5. Accounts'
  <2>1. UsedBytes' = UsedBytes /\ CommittedBytes' = CommittedBytes
    BY <1>2 DEF UsedBytes, CommittedBytes, ArtifactBytes, Total, SizeOn
  <2>2. UsedBytes \in Nat /\ CommittedBytes \in Nat
    BY <1>1, SumsAreNatural
  <2>3. ASSUME NEW x \in Clients
        PROVE  /\ op'[x].at \in Holding => op[x].at \in Holding
               /\ op'[x].at \in Holding \cup {"RECORD"} =>
                     /\ op'[x].artifact = op[x].artifact /\ op'[x].manager = op[x].manager
                     /\ op[x].at \notin {"NONE", "OVER"}
               /\ op'[x].at = "RECORD" => op[x].at = "RECORD"
    BY DEF Holding
  <2>4. ASSUME NEW x \in Clients, op'[x].at = "RECORD"
        PROVE  limits' = limits /\ Fits(x, UsedBytes + CommittedBytes + Bytes(x))
    BY <1>2, <2>3, <2>4 DEF Accounts, Projected
  <2>5. reservedBytes' = CommittedBytes' /\ UsedBytes' + CommittedBytes' <= UsedBytes + CommittedBytes
    BY <1>2, <2>1, <2>2 DEF Accounts
  <2>6. QED BY <1>1, <2>3, <2>4, <2>5, AccountsStay
<1>6. QED BY <1>1, <1>2, <1>3, <1>4, <1>5 DEF AssetsTypeOK

LEMMA UndisturbedStays ==
  ASSUME Undisturbed, UNCHANGED task,
         \A x \in Clients :
            \/ op'[x].at \in {"NONE", "BEGIN", "OVER"}
            \/ op'[x].at = op[x].at /\ op'[x].artifact = op[x].artifact
  PROVE  Undisturbed'
BY DEF Undisturbed, Begun

LEMMA InstallKeeps ==
  ASSUME AInv, NEW c \in Clients, NEW m \in Managers, NEW a \in Artifacts, Install(c, m, a)
  PROVE  AInv'
<1> USE DEF AInv
<1> DEFINE e == inFlight[m][a]
<1>1. /\ request[c].at = "IDLE" /\ op[c].at = "NONE" /\ e \in Clients \cup {Nil}
      /\ UNCHANGED <<disk, shared, task, crashesLeft>>
  BY TypesAre DEF Install, Heard, InFlightTypes
<1>2. CASE /\ inFlight' = [inFlight EXCEPT ![m][a] = c] /\ op' = [op EXCEPT ![c] = NewOp(m, a)]
           /\ request' = [request EXCEPT ![c] = [at |-> "WAITING", on |-> c]]
           /\ gate' = Requeue(c, "BEGIN")
  <2>1. /\ inFlight' \in InFlightTypes /\ op' \in [Clients -> OpTypes] /\ op'[c] = NewOp(m, a)
        /\ \A x \in Clients : x # c => op'[x] = op[x]
    BY <1>2, TypesAre, NewOpIs DEF InFlightTypes
  <2>2. /\ request' \in [Clients -> RequestTypes] /\ request'[c].at = "WAITING" /\ request'[c].on = c
        /\ \A x \in Clients : x # c => request'[x] = request[x]
    BY <1>2, TypesAre DEF RequestTypes
  <2>3. /\ op'[c].at = "BEGIN" /\ ~op'[c].aborted /\ op'[c].result = "NONE"
        /\ op'[c].manager \in Managers /\ op'[c].artifact \in Artifacts
    BY <2>1, NewOpIs
  <2>4. gate' \in [Gates -> Seq(Users)] /\ Queues'
    <3>1. c \in Users /\ Stage(c) = "NONE" /\ Stage(c)' = "BEGIN" /\ "BEGIN" \notin Sections
      BY <1>1, <2>3, StageOf DEF Users, Sections
    <3>2. \A v \in Users : v # c => Stage(v)' = Stage(v)
      BY <1>1, <2>1, StageOf DEF Users
    <3>3. Free(c)
      BY <3>1, StageGates, FreeToMove
    <3>4. QED BY <1>2, <3>1, <3>2, <3>3, MovesOn
  <2>5. Heard'
    <3> SUFFICES ASSUME NEW d \in Clients
                 PROVE  /\ request'[d].at \in {"IDLE", "AFTER"} => op'[d].at = "NONE"
                        /\ request'[d].at \in {"WAITING", "AFTER"} => request'[d].on \in Clients
                        /\ request'[d].at # "CANCELLED"
                        /\ op'[d].at \notin {"NONE", "OVER"} =>
                               op'[d].manager \in Managers /\ op'[d].artifact \in Artifacts
                        /\ op'[d].aborted =>
                               \A x \in Clients : request'[x].at = "WAITING" => request'[x].on # d
                        /\ op'[d].at = "BEGIN" => op'[d].result = "NONE"
                        /\ op'[d].result = "CANCELLED" => op'[d].aborted
      BY DEF Heard
    <3>1. CASE d = c
      BY <2>2, <2>3, <3>1
    <3>2. CASE d # c
      <4>1. op'[d] = op[d] /\ request'[d] = request[d]
        BY <2>1, <2>2, <3>2
      <4>2. op[d].aborted => \A x \in Clients : request'[x].at = "WAITING" => request'[x].on # d
        BY <2>2, <3>2 DEF Heard
      <4>3. QED BY <4>1, <4>2 DEF Heard
    <3>3. QED BY <3>1, <3>2
  <2>6. /\ DiskTypes' /\ Safekeeping' /\ CountsAreExact' /\ Accounts'
        /\ active' \in [Artifacts -> Nat] /\ limits' \in [Range(Limit) -> Nat]
    BY <1>1, <2>1, <2>3, LittleChanges
  <2>7. Undisturbed'
    BY <1>1, <2>1, <2>3, UndisturbedStays
  <2>8. task' \in [Tasks -> TaskTypes] /\ crashesLeft' \in 0 .. MaxCrashes
    BY <1>1, TypesAre
  <2>9. QED BY <2>1, <2>2, <2>4, <2>5, <2>6, <2>7, <2>8, TypesAgain
<1>3. CASE /\ e # Nil
           /\ request' = [request EXCEPT ![c] =
                 [at |-> IF MayJoin(e) THEN "WAITING" ELSE "AFTER", on |-> e]]
           /\ UNCHANGED <<inFlight, op, gate>>
  <2>1. e \in Clients
    BY <1>1, <1>3
  <2>2. /\ request' \in [Clients -> RequestTypes] /\ request'[c].on = e
        /\ request'[c].at = IF op[e].aborted THEN "AFTER" ELSE "WAITING"
        /\ \A x \in Clients : x # c => request'[x] = request[x]
    BY <1>3, <2>1, TypesAre DEF RequestTypes, MayJoin
  <2>3. Heard'
    <3> SUFFICES ASSUME NEW d \in Clients
                 PROVE  /\ request'[d].at \in {"IDLE", "AFTER"} => op[d].at = "NONE"
                        /\ request'[d].at \in {"WAITING", "AFTER"} => request'[d].on \in Clients
                        /\ request'[d].at # "CANCELLED"
                        /\ op[d].aborted =>
                               \A x \in Clients : request'[x].at = "WAITING" => request'[x].on # d
      BY <1>3 DEF Heard
    <3>1. op[d].aborted => \A x \in Clients : request'[x].at = "WAITING" => request'[x].on # d
      BY <2>2 DEF Heard
    <3>2. CASE d = c
      BY <1>1, <2>1, <2>2, <3>1, <3>2
    <3>3. CASE d # c
      BY <2>2, <3>1, <3>3 DEF Heard
    <3>4. QED BY <3>2, <3>3
  <2>4. /\ DiskTypes' /\ Safekeeping' /\ CountsAreExact' /\ Accounts'
        /\ active' \in [Artifacts -> Nat] /\ limits' \in [Range(Limit) -> Nat]
    BY <1>1, <1>3, LittleChanges
  <2>5. Undisturbed'
    BY <1>1, <1>3, UndisturbedStays
  <2>6. Queues' /\ gate' \in [Gates -> Seq(Users)]
    BY <1>1, <1>3, TypesAre DEF Queues, Wants, Stage, In, Heads, Distinct
  <2>7. /\ task' \in [Tasks -> TaskTypes] /\ crashesLeft' \in 0 .. MaxCrashes /\ inFlight' \in InFlightTypes
        /\ op' \in [Clients -> OpTypes]
    BY <1>1, <1>3, TypesAre
  <2>8. QED BY <2>2, <2>3, <2>4, <2>5, <2>6, <2>7, TypesAgain
<1>4. QED BY <1>2, <1>3 DEF Install

LEMMA CancelKeeps ==
  ASSUME AInv, NEW c \in Clients, Cancel(c)
  PROVE  AInv'
<1> USE DEF AInv
<1> DEFINE e == request[c].on
<1>1. /\ request[c].at \in {"WAITING", "AFTER"} /\ e \in Clients
      /\ UNCHANGED <<disk, shared, gate, inFlight, task, crashesLeft>>
  BY DEF Cancel, Heard
<1>2. /\ request' \in [Clients -> RequestTypes] /\ request'[c].at = "WITHDRAWN"
      /\ \A x \in Clients : x # c => request'[x] = request[x]
  <2>1. request' = [request EXCEPT ![c] = [NoCall EXCEPT !.at = "WITHDRAWN"]]
    BY DEF Cancel
  <2>2. [NoCall EXCEPT !.at = "WITHDRAWN"] = [at |-> "WITHDRAWN", on |-> Nil]
    BY DEF NoCall
  <2>3. QED BY <2>1, <2>2, TypesAre DEF RequestTypes
<1>3. /\ op' \in [Clients -> OpTypes]
      /\ \A x \in Clients :
            /\ op'[x].at = op[x].at /\ op'[x].result = op[x].result
            /\ op'[x].manager = op[x].manager /\ op'[x].artifact = op[x].artifact
            /\ \/ op'[x].aborted = op[x].aborted
               \/ x = e /\ WaitersOf(e) = {c} /\ op'[x].aborted
  <2>1. op \in [Clients -> OpTypes]
    BY TypesAre
  <2>2. CASE WaitersOf(e) = {c} /\ op' = [op EXCEPT ![e].aborted = TRUE]
    <3>1. op[e] \in OpTypes /\ op'[e] = [op[e] EXCEPT !.aborted = TRUE]
      BY <1>1, <2>1, <2>2
    <3>2. [op[e] EXCEPT !.aborted = TRUE] \in OpTypes
      BY <3>1 DEF OpTypes
    <3>3. op' \in [Clients -> OpTypes] /\ \A x \in Clients : x # e => op'[x] = op[x]
      BY <2>1, <2>2, <3>2
    <3>4. /\ op'[e].at = op[e].at /\ op'[e].result = op[e].result /\ op'[e].aborted
          /\ op'[e].manager = op[e].manager /\ op'[e].artifact = op[e].artifact
      BY <3>1 DEF OpTypes
    <3>5. QED BY <2>2, <3>3, <3>4
  <2>3. CASE op' = op
    BY <2>1, <2>3
  <2>4. QED BY <2>2, <2>3 DEF Cancel
<1>4. Heard'
  <2> SUFFICES ASSUME NEW d \in Clients
               PROVE  /\ request'[d].at \in {"IDLE", "AFTER"} => op'[d].at = "NONE"
                      /\ request'[d].at \in {"WAITING", "AFTER"} => request'[d].on \in Clients
                      /\ request'[d].at # "CANCELLED"
                      /\ op'[d].at \notin {"NONE", "OVER"} =>
                             op'[d].manager \in Managers /\ op'[d].artifact \in Artifacts
                      /\ op'[d].aborted =>
                             \A x \in Clients : request'[x].at = "WAITING" => request'[x].on # d
                      /\ op'[d].at = "BEGIN" => op'[d].result = "NONE"
                      /\ op'[d].result = "CANCELLED" => op'[d].aborted
    BY DEF Heard
  <2>1. ASSUME op'[d].aborted, NEW x \in Clients, request'[x].at = "WAITING" PROVE request'[x].on # d
    <3>1. x # c /\ request'[x] = request[x]
      BY <1>2, <2>1
    <3>2. CASE op[d].aborted
      BY <2>1, <3>1, <3>2 DEF Heard
    <3>3. CASE d = e /\ WaitersOf(e) = {c}
      BY <2>1, <3>1, <3>3 DEF WaitersOf
    <3>4. QED BY <1>3, <2>1, <3>2, <3>3
  <2>2. CASE d = c
    BY <1>2, <1>3, <2>1, <2>2 DEF Heard
  <2>3. CASE d # c
    BY <1>2, <1>3, <2>1, <2>3 DEF Heard
  <2>4. QED BY <2>2, <2>3
<1>5. /\ DiskTypes' /\ Safekeeping' /\ CountsAreExact' /\ Accounts'
      /\ active' \in [Artifacts -> Nat] /\ limits' \in [Range(Limit) -> Nat]
  BY <1>1, <1>3, LittleChanges
<1>6. Undisturbed'
  BY <1>1, <1>3, UndisturbedStays
<1>7. Queues' /\ gate' \in [Gates -> Seq(Users)]
  <2>1. \A u \in Users : Stage(u)' = Stage(u)
    BY <1>1, <1>3, StageOf DEF Users
  <2>2. QED BY <1>1, <2>1, TypesAre DEF Queues, Wants, In, Heads, Distinct
<1>8. task' \in [Tasks -> TaskTypes] /\ crashesLeft' \in 0 .. MaxCrashes /\ inFlight' \in InFlightTypes
  BY <1>1, TypesAre
<1>9. QED BY <1>2, <1>3, <1>4, <1>5, <1>6, <1>7, <1>8, TypesAgain

\* A step that leaves the installations and all they look at as they are.
LEMMA NothingElseChanges ==
  ASSUME AInv, UNCHANGED <<disk, shared, inFlight, op, request, crashesLeft>>,
         gate' \in [Gates -> Seq(Users)], Queues', task' \in [Tasks -> TaskTypes], Undisturbed'
  PROVE  AInv'
<1> USE DEF AInv
<1>1. Heard'
  BY DEF Heard
<1>2. /\ DiskTypes' /\ Safekeeping' /\ CountsAreExact' /\ Accounts'
      /\ active' \in [Artifacts -> Nat] /\ limits' \in [Range(Limit) -> Nat]
  BY LittleChanges
<1>3. /\ inFlight' \in InFlightTypes /\ op' \in [Clients -> OpTypes]
      /\ request' \in [Clients -> RequestTypes] /\ crashesLeft' \in 0 .. MaxCrashes
  BY TypesAre
<1>4. QED BY <1>1, <1>2, <1>3, TypesAgain

LEMMA NestKeeps ==
  ASSUME AInv, NEW u \in Users, Nest(u)
  PROVE  AInv'
<1> USE DEF AInv
<1> DEFINE n == GatesOf(Stage(u))[2]
<1>1. /\ UNCHANGED <<disk, shared, inFlight, op, request, crashesLeft>> /\ UNCHANGED task
      /\ gate' = [gate EXCEPT ![n] = Append(@, u)] /\ ~Awaits(u, n)
      /\ Len(GatesOf(Stage(u))) = 2
  BY DEF Nest
<1>2. GatesOf(Stage(u)) = <<"CAPACITY", "MUTATION">>
  BY <1>1 DEF GatesOf
<1>3. n = "MUTATION" /\ n \in Gates /\ n \in Wants(u)
  BY <1>2 DEF Gates, Wants, Range
<1>4. gate \in [Gates -> Seq(Users)] /\ ~In(u, gate[n]) /\ Distinct(gate[n])
  BY <1>1, <1>3, TypesAre DEF Awaits, In, Queues
<1>5. ASSUME NEW g \in Gates
      PROVE  /\ gate'[g] \in Seq(Users) /\ Distinct(gate'[g])
             /\ \A v : In(v, gate'[g]) => In(v, gate[g]) \/ (v = u /\ g = n)
             /\ \A v : Heads(v, gate[g]) => Heads(v, gate'[g])
  <2>1. CASE g = n
    <3>1. gate'[g] = Append(gate[g], u) /\ gate[g] \in Seq(Users) /\ Distinct(gate[g]) /\ ~In(u, gate[g])
      BY <1>1, <1>4, <2>1
    <3>2. /\ Append(gate[g], u) \in Seq(Users) /\ Distinct(Append(gate[g], u))
          /\ \A v : In(v, Append(gate[g], u)) <=> In(v, gate[g]) \/ v = u
          /\ \A v : Heads(v, gate[g]) => Heads(v, Append(gate[g], u))
      BY <3>1, Joins
    <3>3. QED BY <2>1, <3>1, <3>2
  <2>2. CASE g # n
    <3>1. gate'[g] = gate[g]
      BY <1>1, <1>4, <2>2
    <3>2. QED BY <1>4, <3>1 DEF Queues
  <2>3. QED BY <2>1, <2>2
<1>6. gate' \in [Gates -> Seq(Users)]
  <2>1. gate' = [g \in Gates |-> gate'[g]]
    BY <1>1, <1>4
  <2>2. QED BY <1>5, <2>1
<1>7. \A v \in Users : Stage(v)' = Stage(v)
  BY <1>1 DEF Stage
<1>8. \A v \in Users : Wants(v)' = Wants(v)
  BY <1>7 DEF Wants
<1>9. Queues'
  <2>1. \A v \in Users, g \in Gates : In(v, gate'[g]) => g \in Wants(v)
    BY <1>3, <1>5 DEF Queues
  <2>2. ASSUME NEW v \in Users, Stage(v) \in Sections, NEW g \in Wants(v) PROVE Heads(v, gate'[g])
    <3>1. g \in Gates
      BY <2>2, StageGates DEF Wants, Sections, Gates
    <3>2. QED BY <1>5, <2>2, <3>1 DEF Queues
  <2>3. QED BY <1>5, <1>7, <1>8, <2>1, <2>2 DEF Queues, In, Distinct, Heads
<1>10. Undisturbed'
  BY <1>1 DEF Undisturbed, Begun
<1>11. task' \in [Tasks -> TaskTypes]
  BY <1>1, TypesAre
<1>12. QED BY <1>1, <1>6, <1>9, <1>10, <1>11, NothingElseChanges

\* A removal or cleanup moves on to a stage outside the sections.
LEMMA TaskMovesOn ==
  ASSUME AInv, NEW t \in Tasks, NEW s \in {"REMOVE", "CLEANUP", "CLEAR", "DONE"}, NEW k \in SUBSET Artifacts,
         Starts(t, s, k), UNCHANGED op,
         Inside(t) \/ Stage(t) \in Sections \/ GatesOf(Stage(t)) = <<>>
  PROVE  /\ gate' \in [Gates -> Seq(Users)] /\ Queues' /\ task' \in [Tasks -> TaskTypes]
         /\ task'[t].at = s /\ \A x \in Tasks : x # t => task'[x] = task[x]
<1> USE DEF AInv
<1>1. t \in Users /\ Free(t)
  <2>1. t \in Users
    BY DEF Users
  <2>2. QED BY <2>1, FreeToMove
<1>2. /\ task' \in [Tasks -> TaskTypes] /\ task'[t].at = s
      /\ \A x \in Tasks : x # t => task'[x] = task[x]
  <2>1. task' = [task EXCEPT ![t] = [at |-> s, keep |-> k]] /\ task \in [Tasks -> TaskTypes]
    BY TypesAre DEF Starts
  <2>2. [at |-> s, keep |-> k] \in TaskTypes
    BY DEF TaskTypes
  <2>3. QED BY <2>1, <2>2
<1>3. Stage(t)' = s /\ s \notin Sections
  BY <1>2, StageOf DEF Sections
<1>4. \A v \in Users : v # t => Stage(v)' = Stage(v)
  BY <1>2, StageOf DEF Users
<1>5. gate' = Requeue(t, s)
  BY DEF Starts
<1>6. QED BY <1>1, <1>2, <1>3, <1>4, <1>5, MovesOn

LEMMA CallTaskKeeps ==
  ASSUME AInv, NEW t \in Tasks, CallTask(t)
  PROVE  AInv'
<1>1. /\ UNCHANGED <<disk, shared, inFlight, op, request, crashesLeft>> /\ UNCHANGED op
      /\ task[t].at = "IDLE"
  BY DEF CallTask
<1>2. PICK s \in {"REMOVE", "CLEANUP", "CLEAR", "DONE"}, k \in SUBSET Artifacts : Starts(t, s, k) /\ s # "DONE"
  <2>1. CASE \E m \in Managers, a \in Artifacts : Starts(t, "REMOVE", Artifacts \ {a})
    BY <2>1
  <2>2. CASE Starts(t, "CLEANUP", {})
    BY <2>2
  <2>3. CASE \E keep \in Keeps : Starts(t, "CLEAR", keep)
    BY <2>3, CacheAssumption
  <2>4. QED BY <2>1, <2>2, <2>3 DEF CallTask
<1>3. GatesOf(Stage(t)) = <<>>
  BY <1>1, StageOf, StageGates
<1>4. /\ gate' \in [Gates -> Seq(Users)] /\ Queues' /\ task' \in [Tasks -> TaskTypes]
      /\ task'[t].at = s /\ \A x \in Tasks : x # t => task'[x] = task[x]
  BY <1>1, <1>2, <1>3, TaskMovesOn
<1>5. Undisturbed'
  <2>1. \A x \in Clients : (Begun(x)' <=> Begun(x)) /\ op'[x] = op[x]
    BY <1>1 DEF Begun
  <2>2. task'[t].at \notin {"CLEANING", "CLEARING", "REMOVING"}
    BY <1>2, <1>4
  <2>3. QED BY <1>4, <2>1, <2>2 DEF AInv, Undisturbed
<1>6. QED BY <1>1, <1>4, <1>5, NothingElseChanges

LEMMA BusyWhileBegun ==
  ASSUME AInv, NEW x \in Clients, Begun(x), NEW of, op[x].artifact \in of, of \subseteq Artifacts
  PROVE  Busy(of)
<1>1. op[x].artifact \in Artifacts /\ x \in BegunOn(op[x].artifact)
  BY DEF BegunOn
<1>2. active[op[x].artifact] = Cardinality(BegunOn(op[x].artifact))
  BY <1>1 DEF AInv, CountsAreExact
<1>3. active[op[x].artifact] \in Nat /\ active[op[x].artifact] # 0
  BY <1>1, <1>2, BegunSets, FS_EmptySet
<1>4. QED BY <1>3 DEF Busy

LEMMA EnterTaskKeeps ==
  ASSUME AInv, NEW t \in Tasks, EnterTask(t)
  PROVE  AInv'
<1> DEFINE of == IF task[t].at = "REMOVE" THEN Artifacts \ task[t].keep ELSE Artifacts
<1>1. /\ UNCHANGED <<disk, shared, inFlight, op, request, crashesLeft>> /\ UNCHANGED op
      /\ task[t].at \in {"REMOVE", "CLEANUP", "CLEAR"} /\ Inside(t)
  BY DEF EnterTask
<1>2. \A x \in Clients : (Begun(x)' <=> Begun(x)) /\ op'[x] = op[x]
  BY <1>1 DEF Begun
<1>3. CASE Done(t)
  <2>1. /\ gate' \in [Gates -> Seq(Users)] /\ Queues' /\ task' \in [Tasks -> TaskTypes]
        /\ task'[t].at = "DONE" /\ \A x \in Tasks : x # t => task'[x] = task[x]
    BY <1>1, <1>3, TaskMovesOn DEF Done
  <2>2. Undisturbed'
    BY <1>2, <2>1 DEF AInv, Undisturbed
  <2>3. QED BY <1>1, <2>1, <2>2, NothingElseChanges
<1>4. ASSUME ~Busy(of), NEW s \in {"REMOVING", "CLEANING", "CLEARING"}, Stays(t, s),
             \/ task[t].at = "REMOVE" /\ s = "REMOVING"
             \/ task[t].at = "CLEANUP" /\ s = "CLEANING"
             \/ task[t].at = "CLEAR" /\ s = "CLEARING"
      PROVE  AInv'
  <2>1. /\ task' \in [Tasks -> TaskTypes] /\ task'[t].at = s /\ task'[t].keep = task[t].keep
        /\ \A x \in Tasks : x # t => task'[x] = task[x]
    <3>1. task \in [Tasks -> TaskTypes] /\ task' = [task EXCEPT ![t].at = s]
      BY <1>4, TypesAre DEF AInv, Stays
    <3>2. s \in {"IDLE", "REMOVE", "REMOVING", "CLEANUP", "CLEANING", "CLEAR", "CLEARING", "DONE"}
      OBVIOUS
    <3>3. QED BY <3>1, <3>2 DEF TaskTypes
  <2>2. gate' \in [Gates -> Seq(Users)] /\ Queues'
    <3>1. t \in Users /\ Stage(t) = task[t].at /\ Stage(t)' = s
      BY <2>1, StageOf DEF Users
    <3>2. GatesOf(Stage(t))' = GatesOf(Stage(t))
      BY <1>4, <3>1, StageGates
    <3>3. \A v \in Users : v # t => Stage(v)' = Stage(v)
      BY <1>1, <2>1, StageOf DEF Users
    <3>4. QED BY <1>1, <1>4, <3>1, <3>2, <3>3, StaysInside DEF AInv, Stays
  <2>3. Undisturbed'
    <3> SUFFICES ASSUME NEW x \in Tasks, NEW e \in Clients, Begun(e)
                 PROVE  /\ task'[x].at \notin {"CLEANING", "CLEARING"}
                        /\ task'[x].at = "REMOVING" => op[e].artifact \in task'[x].keep
      BY <1>2 DEF Undisturbed
    <3>1. CASE x # t
      BY <2>1, <3>1 DEF AInv, Undisturbed
    <3>2. CASE x = t
      <4>1. op[e].artifact \in Artifacts
        BY DEF AInv, Heard, Begun
      <4>2. of \subseteq Artifacts /\ op[e].artifact \notin of
        BY <1>4, <4>1, BusyWhileBegun
      <4>3. task[t].at = "REMOVE" /\ op[e].artifact \in task[t].keep
        BY <4>1, <4>2
      <4>4. QED BY <1>4, <2>1, <3>2, <4>3
    <3>3. QED BY <3>1, <3>2
  <2>4. QED BY <1>1, <2>1, <2>2, <2>3, NothingElseChanges
<1>5. \/ Done(t)
      \/ ~Busy(of) /\ task[t].at = "REMOVE" /\ Stays(t, "REMOVING")
      \/ ~Busy(of) /\ task[t].at = "CLEANUP" /\ Stays(t, "CLEANING")
      \/ ~Busy(of) /\ task[t].at = "CLEAR" /\ Stays(t, "CLEARING")
  <2>1. CASE Busy(of)
    BY <2>1 DEF EnterTask
  <2>2. CASE ~Busy(of)
    <3>1. CASE task[t].at = "REMOVE"
      BY <2>2, <3>1 DEF EnterTask
    <3>2. CASE task[t].at = "CLEANUP"
      BY <2>2, <3>2 DEF EnterTask
    <3>3. CASE task[t].at = "CLEAR"
      BY <2>2, <3>3 DEF EnterTask
    <3>4. QED BY <1>1, <3>1, <3>2, <3>3
  <2>3. QED BY <2>1, <2>2
<1>6. QED BY <1>3, <1>4, <1>5

\* A removal or cleanup in its section does its work and leaves it.
LEMMA WorkIsDone ==
  ASSUME AInv, NEW t \in Tasks, Remove(t) \/ Cleanup(t) \/ Clear(t)
  PROVE  /\ UNCHANGED <<shared, inFlight, op, request, crashesLeft>>
         /\ task[t].at \in {"REMOVING", "CLEANING", "CLEARING"}
         /\ gate' \in [Gates -> Seq(Users)] /\ Queues' /\ task' \in [Tasks -> TaskTypes]
         /\ Undisturbed' /\ Heard' /\ CountsAreExact'
<1>1. /\ UNCHANGED <<shared, inFlight, op, request, crashesLeft>> /\ UNCHANGED op /\ UNCHANGED <<active, limits>>
      /\ task[t].at \in {"REMOVING", "CLEANING", "CLEARING"} /\ Done(t)
  BY DEF Remove, Cleanup, Clear, shared
<1>2. Stage(t) \in Sections
  BY <1>1, StageOf DEF Sections
<1>3. /\ gate' \in [Gates -> Seq(Users)] /\ Queues' /\ task' \in [Tasks -> TaskTypes]
      /\ task'[t].at = "DONE" /\ \A x \in Tasks : x # t => task'[x] = task[x]
  BY <1>1, <1>2, TaskMovesOn DEF Done
<1>4. \A x \in Clients : (Begun(x)' <=> Begun(x)) /\ op'[x] = op[x]
  BY <1>1 DEF Begun
<1>5. Undisturbed'
  BY <1>3, <1>4 DEF AInv, Undisturbed
<1>6. Heard'
  BY <1>1 DEF AInv, Heard
<1>7. CountsAreExact'
  BY <1>1, <1>4, CountsStay DEF AInv
<1>8. QED BY <1>1, <1>3, <1>5, <1>6, <1>7

\* What is left to see of such a step: the disk.
LEMMA DiskOnly ==
  ASSUME AInv, UNCHANGED <<shared, inFlight, op, request, crashesLeft>>,
         gate' \in [Gates -> Seq(Users)], Queues', task' \in [Tasks -> TaskTypes],
         Undisturbed', Heard', CountsAreExact', DiskTypes', Safekeeping', UsedBytes' <= UsedBytes
  PROVE  AInv'
<1> USE DEF AInv
<1>1. UNCHANGED <<reservations, reservedBytes, active, limits>> /\ UNCHANGED op
  BY DEF shared
<1>2. CommittedBytes' = CommittedBytes
  BY <1>1 DEF CommittedBytes, Total
<1>3. UsedBytes \in Nat /\ UsedBytes' \in Nat /\ CommittedBytes \in Nat
  BY TypesAre, SumsAreNatural, SumsAreNaturalAfter
<1>4. reservedBytes' = CommittedBytes' /\ UsedBytes' + CommittedBytes' <= UsedBytes + CommittedBytes
  <2>1. reservedBytes = CommittedBytes
    BY DEF Accounts
  <2>2. \A u, v, c \in Nat : u <= v => u + c <= v + c
    OBVIOUS
  <2>3. UsedBytes' + CommittedBytes <= UsedBytes + CommittedBytes
    BY <1>3, <2>2
  <2>4. QED BY <1>1, <1>2, <2>1, <2>3
<1>5. ASSUME NEW x \in Clients
      PROVE  /\ op'[x].at \in Holding => op[x].at \in Holding
             /\ op'[x].at \in Holding \cup {"RECORD"} =>
                   /\ op'[x].artifact = op[x].artifact /\ op'[x].manager = op[x].manager
                   /\ op[x].at \notin {"NONE", "OVER"}
             /\ op'[x].at = "RECORD" => op[x].at = "RECORD"
  BY <1>1 DEF Holding
<1>6. ASSUME NEW x \in Clients, op'[x].at = "RECORD"
      PROVE  limits' = limits /\ Fits(x, UsedBytes + CommittedBytes + Bytes(x))
  BY <1>1, <1>5, <1>6 DEF Accounts, Projected
<1>7. Accounts'
  BY <1>4, <1>5, <1>6, AccountsStay
<1>8. /\ inFlight' \in InFlightTypes /\ op' \in [Clients -> OpTypes]
      /\ request' \in [Clients -> RequestTypes] /\ crashesLeft' \in 0 .. MaxCrashes
      /\ active' \in [Artifacts -> Nat] /\ limits' \in [Range(Limit) -> Nat]
  BY <1>1, TypesAre
<1>9. QED BY <1>7, <1>8, TypesAgain

LEMMA RemoveKeeps ==
  ASSUME AInv, NEW t \in Tasks, Remove(t)
  PROVE  AInv'
<1>1. /\ UNCHANGED <<shared, inFlight, op, request, crashesLeft>> /\ UNCHANGED op
      /\ gate' \in [Gates -> Seq(Users)] /\ Queues' /\ task' \in [Tasks -> TaskTypes]
      /\ Undisturbed' /\ Heard' /\ CountsAreExact'
  BY WorkIsDone
<1>2. task[t].at = "REMOVING" /\ UNCHANGED <<debris, staging>> /\ UNCHANGED reservations
  BY DEF Remove, shared
<1>3. PICK a \in Artifacts \ task[t].keep, done \in BOOLEAN : RemoveArtifact(a, done)
  BY DEF Remove
<1>4. DiskTypes
  BY TypesAre DEF AInv
<1>5. /\ artifacts' \in ArtifactTypes /\ tombstones' \in Nat
      /\ ArtifactBytes' + tombstones' <= ArtifactBytes + tombstones
      /\ \A b \in Artifacts : b # a => artifacts'[b] = artifacts[b]
      /\ artifacts'[a] \in {artifacts[a], "ABSENT"}
  BY <1>3, <1>4, RemovalUses
<1>6. DiskTypes'
  BY <1>2, <1>4, <1>5 DEF DiskTypes
<1>7. Safekeeping'
  <2> SUFFICES ASSUME NEW x \in Clients PROVE Kept(x)'
    BY DEF Safekeeping
  <2>1. op[x].at \notin {"NONE", "OVER"} => op[x].artifact \in Artifacts
    BY DEF AInv, Heard
  <2>2. Begun(x) /\ artifacts[op[x].artifact] = "INSTALLED" => artifacts'[op[x].artifact] = "INSTALLED"
    <3>1. Begun(x) => op[x].artifact \in task[t].keep
      BY <1>2 DEF AInv, Undisturbed
    <3>2. QED BY <1>3, <1>5, <2>1, <3>1 DEF Begun
  <2>3. op[x].at = "REPAIR" /\ artifacts[op[x].artifact] # "INSTALLED" =>
          artifacts'[op[x].artifact] # "INSTALLED"
    BY <1>5, <2>1
  <2>4. QED BY <1>1, <1>2, <2>2, <2>3, OthersAreKept DEF AInv, Safekeeping
<1>8. UsedBytes' <= UsedBytes
  <2>1. ArtifactBytes \in Nat /\ ArtifactBytes' \in Nat /\ tombstones \in Nat /\ debris \in Nat
    BY <1>4, <1>6, SumsAreNatural, SumsAreNaturalAfter DEF DiskTypes
  <2>2. UsedBytes = ArtifactBytes + tombstones + debris /\ UsedBytes' = ArtifactBytes' + tombstones' + debris
    BY <1>2 DEF UsedBytes
  <2>3. \A p, q, x, y, d \in Nat : p + q <= x + y => p + q + d <= x + y + d
    OBVIOUS
  <2>4. QED BY <1>5, <2>1, <2>2, <2>3
<1>9. QED BY <1>1, <1>6, <1>7, <1>8, DiskOnly

LEMMA NobodyBegun ==
  ASSUME AInv, NEW t \in Tasks, task[t].at \in {"CLEANING", "CLEARING"}
  PROVE  \A x \in Clients : op[x].at \in {"NONE", "BEGIN", "OVER"} /\ reservations[x] = 0
<1> SUFFICES ASSUME NEW x \in Clients PROVE op[x].at \in {"NONE", "BEGIN", "OVER"} /\ reservations[x] = 0
  OBVIOUS
<1>1. op[x].at \in {"NONE", "BEGIN", "OVER"}
  BY DEF AInv, Undisturbed, Begun
<1>2. ~(reservations[x] > 0) /\ reservations[x] \in Nat
  BY <1>1, TypesAre DEF AInv, Safekeeping, Kept, Holding, DiskTypes
<1>3. QED BY <1>1, <1>2

LEMMA CleanupKeeps ==
  ASSUME AInv, NEW t \in Tasks, Cleanup(t)
  PROVE  AInv'
<1>1. /\ UNCHANGED <<shared, inFlight, op, request, crashesLeft>> /\ UNCHANGED op
      /\ gate' \in [Gates -> Seq(Users)] /\ Queues' /\ task' \in [Tasks -> TaskTypes]
      /\ Undisturbed' /\ Heard' /\ CountsAreExact'
  BY WorkIsDone
<1>2. task[t].at = "CLEANING" /\ UNCHANGED <<artifacts, tombstones>> /\ UNCHANGED reservations
  BY DEF Cleanup, shared
<1>3. \/ debris' = 0 /\ staging' = [e \in Clients |-> "NONE"]
      \/ debris' \in 1 .. debris /\ UNCHANGED staging
  BY DEF Cleanup
<1>4. DiskTypes
  BY TypesAre DEF AInv
<1>5. debris' \in Nat /\ debris' <= debris /\ staging' \in StagingTypes
  BY <1>3, <1>4 DEF DiskTypes, StagingTypes
<1>6. DiskTypes'
  BY <1>2, <1>4, <1>5 DEF DiskTypes
<1>7. Safekeeping'
  <2> SUFFICES ASSUME NEW x \in Clients PROVE Kept(x)'
    BY DEF Safekeeping
  <2>1. op'[x].at \in {"NONE", "BEGIN", "OVER"} /\ reservations'[x] = 0
    BY <1>1, <1>2, NobodyBegun
  <2>2. staging'[x] = "NONE"
    BY <1>2, <1>3, <2>1 DEF AInv, Safekeeping, Kept
  <2>3. QED BY <2>1, <2>2 DEF Kept, Staged, Whole, Fetched, Begun
<1>8. UsedBytes' <= UsedBytes
  <2>1. ArtifactBytes' = ArtifactBytes
    BY <1>2 DEF ArtifactBytes, Total, SizeOn
  <2>2. ArtifactBytes \in Nat /\ tombstones \in Nat /\ debris \in Nat
    BY <1>4, SumsAreNatural DEF DiskTypes
  <2>3. UsedBytes = ArtifactBytes + tombstones + debris /\ UsedBytes' = ArtifactBytes + tombstones + debris'
    BY <1>2, <2>1 DEF UsedBytes
  <2>4. \A p, q, d, n \in Nat : n <= d => p + q + n <= p + q + d
    OBVIOUS
  <2>5. QED BY <1>5, <2>2, <2>3, <2>4
<1>9. QED BY <1>1, <1>6, <1>7, <1>8, DiskOnly

LEMMA ClearKeeps ==
  ASSUME AInv, NEW t \in Tasks, Clear(t)
  PROVE  AInv'
<1>1. /\ UNCHANGED <<shared, inFlight, op, request, crashesLeft>> /\ UNCHANGED op
      /\ gate' \in [Gates -> Seq(Users)] /\ Queues' /\ task' \in [Tasks -> TaskTypes]
      /\ Undisturbed' /\ Heard' /\ CountsAreExact'
  BY WorkIsDone
<1>2. task[t].at = "CLEARING" /\ UNCHANGED <<debris, staging>> /\ UNCHANGED reservations
  BY DEF Clear, shared
<1>3. PICK gone \in SUBSET (Artifacts \ task[t].keep) :
         /\ artifacts' = [a \in Artifacts |-> IF a \in gone THEN "ABSENT" ELSE artifacts[a]]
         /\ \/ gone = Artifacts \ task[t].keep /\ tombstones' = 0
            \/ tombstones' \in 1 .. tombstones
  BY DEF Clear
<1>4. DiskTypes
  BY TypesAre DEF AInv
<1>5. tombstones' \in Nat /\ tombstones' <= tombstones /\ artifacts' \in ArtifactTypes
  BY <1>3, <1>4 DEF DiskTypes, ArtifactTypes
<1>6. DiskTypes'
  BY <1>2, <1>4, <1>5 DEF DiskTypes
<1>7. Safekeeping'
  <2> SUFFICES ASSUME NEW x \in Clients PROVE Kept(x)'
    BY DEF Safekeeping
  <2>1. op'[x].at \in {"NONE", "BEGIN", "OVER"} /\ reservations'[x] = 0
    BY <1>1, <1>2, NobodyBegun
  <2>2. staging'[x] = "NONE"
    BY <1>2, <2>1 DEF AInv, Safekeeping, Kept
  <2>3. QED BY <2>1, <2>2 DEF Kept, Staged, Whole, Fetched, Begun
<1>8. UsedBytes' <= UsedBytes
  <2> DEFINE f == [a \in Artifacts |-> SizeOn(a)']
             g == [a \in Artifacts |-> SizeOn(a)]
  <2>1. f \in [Artifacts -> Nat] /\ g \in [Artifacts -> Nat] /\ \A a \in Artifacts : f[a] <= g[a]
    <3>1. f \in [Artifacts -> Nat] /\ g \in [Artifacts -> Nat]
      BY SizeAssumption DEF SizeOn
    <3>2. ASSUME NEW a \in Artifacts PROVE f[a] <= g[a]
      <4>1. Size[a] \in Nat /\ artifacts'[a] \in {"ABSENT", artifacts[a]}
        BY <1>3, SizeAssumption
      <4>2. QED BY <4>1 DEF SizeOn
    <3>3. QED BY <3>1, <3>2
  <2>2. ArtifactBytes' = Total(f) /\ ArtifactBytes = Total(g)
    BY DEF ArtifactBytes, Total
  <2>3. ArtifactBytes' <= ArtifactBytes
    <3> HIDE DEF f, g
    <3>1. QED BY <2>1, <2>2, SizeAssumption, TotalIsMonotone
  <2>4. ArtifactBytes \in Nat /\ ArtifactBytes' \in Nat /\ tombstones \in Nat /\ debris \in Nat
    BY <1>4, <1>6, SumsAreNatural, SumsAreNaturalAfter DEF DiskTypes
  <2>5. UsedBytes = ArtifactBytes + tombstones + debris /\ UsedBytes' = ArtifactBytes' + tombstones' + debris
    BY <1>2 DEF UsedBytes
  <2>6. \A p, q, x, y, d \in Nat : p <= x /\ q <= y => p + q + d <= x + y + d
    OBVIOUS
  <2>7. QED BY <1>5, <2>3, <2>4, <2>5, <2>6
<1>9. QED BY <1>1, <1>6, <1>7, <1>8, DiskOnly

\* A crash keeps the disk: what was staged is nobody's, and nothing is promised.
LEMMA CrashKeeps ==
  ASSUME AInv, Crash
  PROVE  AInv'
<1>1. DiskTypes
  BY TypesAre DEF AInv
<1>2. /\ op' = [e \in Clients |-> NoOp] /\ staging' = [e \in Clients |-> "NONE"]
      /\ reservations' = [e \in Clients |-> 0] /\ reservedBytes' = 0
      /\ active' = [a \in Artifacts |-> 0] /\ limits' = [l \in Range(Limit) |-> 0]
      /\ gate' = [g \in Gates |-> <<>>]
      /\ inFlight' = [m \in Managers |-> [a \in Artifacts |-> Nil]]
      /\ UNCHANGED <<artifacts, tombstones>>
  BY DEF Crash
<1>3. \A x \in Clients : /\ op'[x] = NoOp /\ op'[x].at = "NONE" /\ ~op'[x].aborted /\ op'[x].result = "NONE"
                         /\ staging'[x] = "NONE" /\ reservations'[x] = 0
  BY <1>2 DEF NoOp
<1>4. debris' \in Nat
  <2> DEFINE f == [e \in Clients |-> IF staging[e] = "NONE" THEN 0 ELSE Bytes(e)]
  <2>1. ASSUME NEW e \in Clients, staging[e] # "NONE" PROVE Bytes(e) \in Nat
    <3>1. reservations[e] \in Nat /\ reservations[e] # 0
      BY <1>1, <2>1 DEF AInv, Safekeeping, Kept, DiskTypes
    <3>2. reservations[e] = Bytes(e)
      BY <3>1 DEF AInv, Safekeeping, Kept
    <3>3. QED BY <3>1, <3>2
  <2>2. f \in [Clients -> Nat]
    BY <2>1
  <2>3. Total(f) \in Nat
    <3> HIDE DEF f
    <3>1. IsFiniteSet(Clients)
      BY ClientsAssumption
    <3>2. QED BY <2>2, <3>1, TotalIsNatural
  <2>4. debris' = debris + Total(f)
    BY DEF Crash
  <2>5. debris \in Nat
    BY <1>1 DEF DiskTypes
  <2> HIDE DEF f
  <2>6. QED BY <2>3, <2>4, <2>5
<1>5. DiskTypes'
  BY <1>1, <1>2, <1>4 DEF DiskTypes, StagingTypes
<1>6. Safekeeping'
  BY <1>3 DEF Safekeeping, Kept, Staged, Whole, Fetched, Begun
<1>7. CountsAreExact'
  <2>1. \A a : BegunOn(a)' = {}
    BY <1>3 DEF BegunOn, Begun
  <2>2. \A l : BegunUnder(l)' = {}
    BY <1>3 DEF BegunUnder, Begun
  <2>3. Cardinality({}) = 0
    BY FS_EmptySet
  <2>4. QED BY <1>2, <2>1, <2>2, <2>3 DEF CountsAreExact
<1>8. Accounts'
  <2>1. CommittedBytes' = 0
    <3> DEFINE z == [e \in Clients |-> 0]
    <3>1. z \in [Clients -> Nat] /\ \A x \in Clients : z[x] = 0
      OBVIOUS
    <3>2. CommittedBytes' = Total(z)
      BY <1>2 DEF CommittedBytes, Total
    <3>3. Total(z) = 0
      <4> HIDE DEF z
      <4>1. QED BY <3>1, TotalOfNothing
    <3>4. QED BY <3>2, <3>3
  <2>2. WithinLimits' /\ Projected'
    BY <1>3 DEF WithinLimits, Projected, Holding
  <2>3. QED BY <1>2, <2>1, <2>2 DEF Accounts
<1>9. /\ op' \in [Clients -> OpTypes] /\ inFlight' \in InFlightTypes
      /\ active' \in [Artifacts -> Nat] /\ limits' \in [Range(Limit) -> Nat]
  <2>1. NoOp \in OpTypes
    BY DEF NoOp, OpTypes
  <2>2. QED BY <1>2, <2>1 DEF InFlightTypes
<1>10. request' \in [Clients -> RequestTypes]
       /\ \A c \in Clients : request'[c].at \notin {"WAITING", "AFTER", "CANCELLED"}
  <2>1. request \in [Clients -> RequestTypes] /\ \A c \in Clients : request[c].at # "CANCELLED"
    BY TypesAre DEF AInv, Heard
  <2>2. [NoCall EXCEPT !.at = "LOST"] = [at |-> "LOST", on |-> Nil]
    BY DEF NoCall
  <2>3. request' = [c \in Clients |-> IF request[c].at \in {"WAITING", "AFTER"}
                                      THEN [NoCall EXCEPT !.at = "LOST"] ELSE request[c]]
    BY DEF Crash
  <2>4. ASSUME NEW c \in Clients
        PROVE request'[c] \in RequestTypes /\ request'[c].at \notin {"WAITING", "AFTER", "CANCELLED"}
    <3>1. CASE request[c].at \in {"WAITING", "AFTER"}
      <4>1. request'[c] = [at |-> "LOST", on |-> Nil]
        BY <2>2, <2>3, <3>1
      <4>2. QED BY <4>1 DEF RequestTypes
    <3>2. CASE request[c].at \notin {"WAITING", "AFTER"}
      BY <2>1, <2>3, <3>2
    <3>3. QED BY <3>1, <3>2
  <2>5. request' = [c \in Clients |-> request'[c]]
    BY <2>3
  <2>6. QED BY <2>4, <2>5
<1>11. Heard'
  BY <1>3, <1>10 DEF Heard
<1>12. task' \in [Tasks -> TaskTypes] /\ Undisturbed'
  <2>1. task' = [t \in Tasks |-> IF task[t].at = "IDLE" THEN NoTask ELSE [NoTask EXCEPT !.at = "DONE"]]
    BY DEF Crash
  <2>2. NoTask \in TaskTypes /\ [NoTask EXCEPT !.at = "DONE"] \in TaskTypes
    BY DEF NoTask, TaskTypes
  <2>3. QED BY <1>3, <2>1, <2>2 DEF Undisturbed, Begun
<1>13. gate' \in [Gates -> Seq(Users)] /\ Queues'
  <2>1. \A g \in Gates : gate'[g] = <<>>
    BY <1>2
  <2>2. \A v \in Users : Stage(v)' \notin Sections
    <3>1. \A x \in Clients : Stage(x)' \notin Sections
      BY <1>3, StageOf DEF Sections
    <3>2. \A t \in Tasks : task'[t].at \in {"IDLE", "DONE"}
      BY DEF Crash, NoTask
    <3>3. \A t \in Tasks : Stage(t)' \notin Sections
      BY <3>2, StageOf DEF Sections
    <3>4. QED BY <3>1, <3>3 DEF Users
  <2>3. QED BY <1>2, <2>1, <2>2 DEF Queues, In, Distinct
<1>14. crashesLeft' \in 0 .. MaxCrashes
  BY CacheAssumption, TypesAre DEF AInv, Crash
<1>15. QED BY <1>5, <1>6, <1>7, <1>8, <1>9, <1>10, <1>11, <1>12, <1>13, <1>14, TypesAgain DEF AInv

LEMMA OpStepKeeps ==
  ASSUME AInv, NEW e \in Clients, OpStep(e)
  PROVE  AInv'
<1> USE DEF AInv
<1>1. CASE End(e)
  <2>1. Ends(e) /\ request' \in [Clients -> RequestTypes] /\ inFlight' \in InFlightTypes /\ Heard'
    BY <1>1, EndDoes
  <2>2. gate' \in [Gates -> Seq(Users)] /\ Queues'
    BY <1>1, EndKeepsOrder
  <2>3. CountsAreExact' /\ active' \in [Artifacts -> Nat] /\ limits' \in [Range(Limit) -> Nat]
    BY <1>1, <2>1, EndKeepsCounts
  <2>4. Undisturbed' /\ DiskTypes' /\ Safekeeping' /\ Accounts'
    BY <1>1, <2>1, EndKeepsTheRest
  <2>5. op' \in [Clients -> OpTypes] /\ task' \in [Tasks -> TaskTypes] /\ crashesLeft' \in 0 .. MaxCrashes
    BY <1>1, <2>1, EndsEitherWay, TypesAre DEF Ends
  <2>6. QED BY <2>1, <2>2, <2>3, <2>4, <2>5, TypesAgain
<1>2. CASE ~End(e)
  <2>1. op' \in [Clients -> OpTypes] /\ gate' \in [Gates -> Seq(Users)] /\ Queues' /\ Heard'
    BY <1>2, OrderAfterOpStep
  <2>2. CountsAreExact' /\ active' \in [Artifacts -> Nat] /\ limits' \in [Range(Limit) -> Nat]
    BY <1>2, CountsAfterOpStep
  <2>3. Undisturbed'
    BY <1>2, UndisturbedAfterOpStep
  <2>4. DiskTypes' /\ Safekeeping' /\ Accounts'
    BY <1>2, DiskAfterOpStep
  <2>5. /\ inFlight' \in InFlightTypes /\ request' \in [Clients -> RequestTypes]
        /\ task' \in [Tasks -> TaskTypes] /\ crashesLeft' \in 0 .. MaxCrashes
    BY <1>2, OpStepAdvances, TypesAre DEF Others
  <2>6. QED BY <2>1, <2>2, <2>3, <2>4, <2>5, TypesAgain
<1>3. QED BY <1>1, <1>2

-----------------------------------------------------------------------------
(* The invariant, and what it says. *)

LEMMA AssetsStart == AssetsInit => AInv
<1> SUFFICES ASSUME AssetsInit PROVE AInv
  OBVIOUS
<1>1. \A x \in Clients : op[x] = NoOp /\ op[x].at = "NONE" /\ ~op[x].aborted /\ op[x].result = "NONE"
                         /\ staging[x] = "NONE" /\ reservations[x] = 0 /\ request[x] = NoCall
                         /\ request[x].at = "IDLE"
  BY DEF AssetsInit, NoOp, NoCall
<1>2. \A t \in Tasks : task[t].at = "IDLE"
  BY DEF AssetsInit, NoTask
<1>3. /\ artifacts \in [Artifacts -> {"ABSENT", "CORRUPT", "INSTALLED"}]
      /\ tombstones \in Nat /\ debris \in Nat
      /\ staging \in [Clients -> {"NONE", "PARTIAL", "BAD", "GOOD"}]
      /\ reservations \in [Clients -> Nat] /\ reservedBytes \in Nat
      /\ active \in [Artifacts -> Nat] /\ limits \in [Range(Limit) -> Nat]
  BY DEF AssetsInit
<1>4. gate \in [Gates -> Seq(Users)]
  BY DEF AssetsInit
<1>5. inFlight \in InFlightTypes /\ op \in [Clients -> OpTypes] /\ request \in [Clients -> RequestTypes]
      /\ task \in [Tasks -> TaskTypes]
  <2>1. NoOp \in OpTypes /\ NoCall \in RequestTypes /\ NoTask \in TaskTypes
    BY DEF NoOp, OpTypes, NoCall, RequestTypes, NoTask, TaskTypes
  <2>2. QED BY <2>1 DEF AssetsInit, InFlightTypes
<1>6. crashesLeft \in 0 .. MaxCrashes
  BY CacheAssumption DEF AssetsInit
<1>7. AssetsTypeOK
  BY <1>3, <1>4, <1>5, <1>6 DEF AssetsTypeOK, InFlightTypes, OpTypes, RequestTypes, TaskTypes
<1>8. Queues
  <2>1. \A g \in Gates : gate[g] = <<>>
    BY DEF AssetsInit
  <2>2. \A v \in Users : Stage(v) \notin Sections
    BY <1>1, <1>2, StageOf DEF Users, Sections
  <2>3. QED BY <2>1, <2>2 DEF Queues, In, Distinct
<1>9. Heard
  BY <1>1 DEF Heard
<1>10. Safekeeping
  BY <1>1 DEF Safekeeping, Kept, Staged, Whole, Fetched, Begun
<1>11. Undisturbed
  BY <1>1 DEF Undisturbed, Begun
<1>12. CountsAreExact
  <2>1. \A a : BegunOn(a) = {}
    BY <1>1 DEF BegunOn, Begun
  <2>2. \A l : BegunUnder(l) = {}
    BY <1>1 DEF BegunUnder, Begun
  <2>3. QED BY <2>1, <2>2, FS_EmptySet DEF CountsAreExact, AssetsInit
<1>13. Accounts
  <2>1. CommittedBytes = 0
    BY <1>1, <1>3, TotalOfNothing DEF CommittedBytes
  <2>2. WithinLimits /\ Projected
    BY <1>1 DEF WithinLimits, Projected, Holding
  <2>3. QED BY <2>1, <2>2 DEF Accounts, AssetsInit
<1>14. QED BY <1>7, <1>8, <1>9, <1>10, <1>11, <1>12, <1>13 DEF AInv

LEMMA AssetsStutter ==
  ASSUME AInv, UNCHANGED assetsVars
  PROVE  AInv'
<1> USE DEF AInv
<1>1. /\ UNCHANGED <<disk, shared, inFlight, op, request, crashesLeft>>
      /\ UNCHANGED op /\ UNCHANGED task /\ UNCHANGED gate
  BY DEF assetsVars
<1>2. Queues' /\ gate' \in [Gates -> Seq(Users)] /\ task' \in [Tasks -> TaskTypes]
  BY <1>1, TypesAre DEF Queues, Wants, Stage, In, Heads, Distinct
<1>3. Undisturbed'
  BY <1>1 DEF Undisturbed, Begun
<1>4. QED BY <1>1, <1>2, <1>3, NothingElseChanges

LEMMA AssetsAreKept == AssetsSpec => []AInv
<1>1. AInv /\ [AssetsNext]_assetsVars => AInv'
  <2> SUFFICES ASSUME AInv, [AssetsNext]_assetsVars PROVE AInv'
    OBVIOUS
  <2>1. ASSUME NEW c \in Clients, NEW m \in Managers, NEW a \in Artifacts, Install(c, m, a) PROVE AInv'
    BY <2>1, InstallKeeps
  <2>2. ASSUME NEW c \in Clients, Cancel(c) PROVE AInv'
    BY <2>2, CancelKeeps
  <2>3. ASSUME NEW e \in Clients, OpStep(e) PROVE AInv'
    BY <2>3, OpStepKeeps
  <2>4. ASSUME NEW t \in Tasks, CallTask(t) PROVE AInv'
    BY <2>4, CallTaskKeeps
  <2>5. ASSUME NEW t \in Tasks, TaskStep(t) PROVE AInv'
    BY <2>5, EnterTaskKeeps, RemoveKeeps, CleanupKeeps, ClearKeeps DEF TaskStep
  <2>6. ASSUME NEW u \in Users, Nest(u) PROVE AInv'
    BY <2>6, NestKeeps
  <2>7. CASE Crash
    BY <2>7, CrashKeeps
  <2>8. CASE UNCHANGED assetsVars
    BY <2>8, AssetsStutter
  <2>9. QED BY <2>1, <2>2, <2>3, <2>4, <2>5, <2>6, <2>7, <2>8 DEF AssetsNext
<1>2. QED BY <1>1, AssetsStart, PTL DEF AssetsSpec

\* Every variable of the cache keeps its kind (manager.ts:85-110): no count and
\* no sum falls below nothing, and the stages are those of the code.
THEOREM AssetsTypes == AssetsSpec => []AssetsTypeOK
<1>1. AInv => AssetsTypeOK
  BY DEF AInv
<1>2. QED BY <1>1, AssetsAreKept, PTL

\* What an installation has staged, or is about to report as installed, is
\* where it left it, whatever removals, cleanups, crashes and other managers do.
THEOREM AssetsAreSafe == AssetsSpec => []NothingIsSweptAway
<1>1. AInv => NothingIsSweptAway
  BY DEF AInv, Safekeeping, Kept, NothingIsSweptAway, Staged, Whole
<1>2. QED BY <1>1, AssetsAreKept, PTL

\* For any managers, limits and sizes, an installation sees the cache within
\* its limit from its reservation on, and reservations, their sum and the two
\* counts are those of the installations under way.
THEOREM AccountsAreExact == AssetsSpec => []AccountingIsExact
<1>1. AInv => AccountingIsExact
  BY DEF AInv, Accounts, Safekeeping, Kept, AccountingIsExact, ReservationsAreExact
<1>2. QED BY <1>1, AssetsAreKept, PTL

\* No request is answered as cancelled that its caller did not withdraw.
THEOREM CancellationIsOwn == AssetsSpec => []OnlyOwnCancellation
<1>1. AInv => OnlyOwnCancellation
  BY DEF AInv, Heard, OnlyOwnCancellation
<1>2. QED BY <1>1, AssetsAreKept, PTL
=============================================================================
