---------------------------- MODULE SessionWriter ----------------------------
(***************************************************************************)
(* SessionWriter.execute over SqliteEventStore: the one command path of a  *)
(* session.  A writer queues commands on its tail and runs them one at a   *)
(* time in three steps: look the request up and run the handler; append    *)
(* the events with the request's outcome in one transaction; update the    *)
(* memory and answer.  The program may stop between any two steps, and a   *)
(* second writer (another process on the same database) may run between    *)
(* them: SQLite serialises the transactions, nothing else is shared.       *)
(***************************************************************************)
EXTENDS Naturals, Sequences, SequencesExt, FiniteSets

CONSTANTS Writers,  \* processes that may open the session
          Requests, \* RequestIds
          Prints,   \* command fingerprints: what the command is
          Attempts, \* calls of execute, retries included
          Drafts,   \* [Prints -> Nat]: the events a command appends
          None

ASSUME DraftsAssumption == Drafts \in [Prints -> Nat]
ASSUME NoneAssumption == None \notin Requests /\ None \notin [print : Prints, result : Nat]

VARIABLES log,       \* session_events: the causing request of each event
          outcome,   \* processed_requests: None, or fingerprint and result
          phase,     \* what each writer is: "DOWN", "OPEN" or "CLOSING"
          memory,    \* the events folded into each writer's state
          tail,      \* the attempts queued on each writer
          step,      \* the step of the attempt at the head of the tail
          attempt    \* what is known of each attempt

storeVars == <<log, outcome>>
vars      == <<storeVars, phase, memory, tail, step, attempt>>

Outcome == [print : Prints, result : Nat]
Unsent  == [status |-> "UNSENT", request |-> None, print |-> None, result |-> 0]
Attempt == {Unsent} \cup
           [status : {"QUEUED", "APPLIED", "DUPLICATE", "CONFLICT", "STALE", "REFUSED", "CLOSED", "LOST"},
            request : Requests, print : Prints, result : Nat]

\* Every variable holds a value of its kind (session-writer.ts:30-45).
TypeOK ==
    /\ log \in Seq(Requests)
    /\ outcome \in [Requests -> Outcome \cup {None}]
    /\ phase \in [Writers -> {"DOWN", "OPEN", "CLOSING"}]
    /\ memory \in [Writers -> Seq(Requests)]
    /\ tail \in [Writers -> Seq(Attempts)]
    /\ step \in [Writers -> {"IDLE", "HANDLED", "COMMITTED", "FOUND"}]
    /\ attempt \in [Attempts -> Attempt]

Init ==
    /\ log = <<>>
    /\ outcome = [r \in Requests |-> None]
    /\ phase = [w \in Writers |-> "DOWN"]
    /\ memory = [w \in Writers |-> <<>>]
    /\ tail = [w \in Writers |-> <<>>]
    /\ step = [w \in Writers |-> "IDLE"]
    /\ attempt = [a \in Attempts |-> Unsent]

-----------------------------------------------------------------------------
(* The life of a writer *)

\* The constructor loads the stream and replays it.
Open(w) ==
    /\ phase[w] = "DOWN"
    /\ phase' = [phase EXCEPT ![w] = "OPEN"]
    /\ memory' = [memory EXCEPT ![w] = log]
    /\ UNCHANGED <<storeVars, tail, step, attempt>>

Close(w) ==
    /\ phase[w] = "OPEN"
    /\ phase' = [phase EXCEPT ![w] = "CLOSING"]
    /\ UNCHANGED <<storeVars, memory, tail, step, attempt>>

FinishClosing(w) ==
    /\ phase[w] = "CLOSING" /\ tail[w] = <<>>
    /\ phase' = [phase EXCEPT ![w] = "DOWN"]
    /\ UNCHANGED <<storeVars, memory, tail, step, attempt>>

\* The process stops: its memory and its queue are gone, and the callers of
\* what was queued are never answered.
Crash(w) ==
    /\ phase[w] # "DOWN"
    /\ phase' = [phase EXCEPT ![w] = "DOWN"]
    /\ tail' = [tail EXCEPT ![w] = <<>>]
    /\ step' = [step EXCEPT ![w] = "IDLE"]
    /\ attempt' = [a \in Attempts |-> IF a \in Range(tail[w])
                                      THEN [attempt[a] EXCEPT !.status = "LOST"] ELSE attempt[a]]
    /\ UNCHANGED <<storeVars, memory>>

\* execute: a closing writer rejects, an open one queues.
Execute(a, w, r, p) ==
    /\ attempt[a] = Unsent /\ phase[w] # "DOWN"
    /\ \/ /\ phase[w] = "OPEN"
          /\ tail' = [tail EXCEPT ![w] = Append(@, a)]
          /\ attempt' = [attempt EXCEPT ![a] =
                           [status |-> "QUEUED", request |-> r, print |-> p, result |-> 0]]
       \/ /\ phase[w] = "CLOSING"
          /\ attempt' = [attempt EXCEPT ![a] =
                           [status |-> "CLOSED", request |-> r, print |-> p, result |-> 0]]
          /\ UNCHANGED tail
    /\ UNCHANGED <<storeVars, phase, memory, step>>

-----------------------------------------------------------------------------
(* Running the attempt at the head of the tail *)

Current(w) == Head(tail[w])
RequestOf(w) == attempt[Current(w)].request
PrintOf(w) == attempt[Current(w)].print

\* Both transactions compare the writer's sequence with the last stored one.
Stale(w) == Len(memory[w]) # Len(log)

Known(r) == outcome[r] # None

\* A known request answers only a command with its own fingerprint.
SamePrint(r, p) == outcome[r].print = p

\* The result a handler computes: here the sequence its events reach.
Computed(w) == Len(memory[w]) + Drafts[PrintOf(w)]

\* The head of the tail is answered and the next attempt may run.
Finish(w, status, result) ==
    /\ tail' = [tail EXCEPT ![w] = Tail(@)]
    /\ step' = [step EXCEPT ![w] = "IDLE"]
    /\ attempt' = [attempt EXCEPT ![Current(w)] =
                     [status |-> status, request |-> RequestOf(w), print |-> PrintOf(w),
                      result |-> result]]

\* getProcessedResultForWriter, then the handler: either may throw.  A new
\* request that passes both goes on with its drafts.
LookUp(w) ==
    /\ tail[w] # <<>> /\ step[w] = "IDLE"
    /\ \/ Stale(w) /\ Finish(w, "STALE", 0)
       \/ /\ ~Stale(w) /\ Known(RequestOf(w))
          /\ IF SamePrint(RequestOf(w), PrintOf(w))
             THEN Finish(w, "DUPLICATE", outcome[RequestOf(w)].result)
             ELSE Finish(w, "CONFLICT", 0)
       \/ /\ ~Stale(w) /\ ~Known(RequestOf(w))
          /\ step' = [step EXCEPT ![w] = "HANDLED"]
          /\ UNCHANGED <<tail, attempt>>
    /\ UNCHANGED <<storeVars, phase, memory>>

\* The handler, a schema, the preview of the drafts or the database throws.
Refuse(w) ==
    /\ tail[w] # <<>> /\ step[w] \in {"IDLE", "HANDLED"}
    /\ Finish(w, "REFUSED", 0)
    /\ UNCHANGED <<storeVars, phase, memory>>

\* Mutant: the outcome is stored by a transaction of its own, later.
RecordEventsOnly(w) ==
    /\ log' = log \o [i \in 1 .. Drafts[PrintOf(w)] |-> RequestOf(w)]
    /\ UNCHANGED outcome

\* The events and the outcome of the request, in one transaction.
Record(w) ==
    /\ outcome' = [outcome EXCEPT ![RequestOf(w)] = [print |-> PrintOf(w), result |-> Computed(w)]]
    /\ log' = log \o [i \in 1 .. Drafts[PrintOf(w)] |-> RequestOf(w)]

\* appendIdempotent: both checks again, then the transaction.  Another writer
\* may have got in since LookUp: a command without events does not move the
\* sequence, so only the second look-up finds it.
AppendIdempotent(w) ==
    /\ tail[w] # <<>> /\ step[w] = "HANDLED"
    /\ \/ Stale(w) /\ Finish(w, "STALE", 0) /\ UNCHANGED storeVars
       \/ /\ ~Stale(w) /\ Known(RequestOf(w))
          /\ IF SamePrint(RequestOf(w), PrintOf(w))
             THEN /\ step' = [step EXCEPT ![w] = "FOUND"]
                  /\ UNCHANGED <<tail, attempt>>
             ELSE Finish(w, "CONFLICT", 0)
          /\ UNCHANGED storeVars
       \/ /\ ~Stale(w) /\ ~Known(RequestOf(w))
          /\ Record(w)
          /\ step' = [step EXCEPT ![w] = "COMMITTED"]
          /\ UNCHANGED <<tail, attempt>>
    /\ UNCHANGED <<phase, memory>>

\* The memory takes in the appended events, and the caller is answered.
Answer(w) ==
    /\ \/ /\ step[w] = "COMMITTED"
          /\ memory' = [memory EXCEPT ![w] = @ \o [i \in 1 .. Drafts[PrintOf(w)] |-> RequestOf(w)]]
          /\ Finish(w, "APPLIED", Computed(w))
       \/ /\ step[w] = "FOUND"
          /\ UNCHANGED memory
          /\ Finish(w, "DUPLICATE", outcome[RequestOf(w)].result)
    /\ UNCHANGED <<storeVars, phase>>

-----------------------------------------------------------------------------
Run(w) == LookUp(w) \/ Refuse(w) \/ AppendIdempotent(w) \/ Answer(w) \/ FinishClosing(w)

Next == \E w \in Writers :
            \/ Run(w) \/ Open(w) \/ Close(w) \/ Crash(w)
            \/ \E a \in Attempts, r \in Requests, p \in Prints : Execute(a, w, r, p)

Spec == Init /\ [][Next]_vars

-----------------------------------------------------------------------------
(* Properties *)

Succeeded(a) == attempt[a].status \in {"APPLIED", "DUPLICATE"}

\* What an attempt was told is stored, under its own fingerprint: it survives
\* a crash, and every other attempt of the request is told the same.
AnswersAreDurable ==
    \A a \in Attempts : Succeeded(a) =>
        outcome[attempt[a].request] = [print |-> attempt[a].print, result |-> attempt[a].result]

\* An outcome, once stored, is never replaced, whatever crashes and retries follow.
OutcomeIsFinal == [][\A r \in Requests : outcome[r] # None => outcome'[r] = outcome[r]]_vars

\* The command path implements exactly-once effects.
Once == INSTANCE ExactlyOnce WITH
          told <- [a \in Attempts |->
                     IF Succeeded(a) THEN [request |-> attempt[a].request, print |-> attempt[a].print,
                                           result |-> attempt[a].result]
                     ELSE None]
ImplementsExactlyOnce == Once!Spec
=============================================================================
