------------------------------ MODULE ServerProofs ------------------------------
(***************************************************************************)
(* Theorems about two parts of the server.                                 *)
(*                                                                         *)
(* SessionRegistry, for any sets of sessions, writers and calls: Custody   *)
(* says which stage a writer may be in for each phase of the entry that    *)
(* names it; that a session has one live, reachable and current writer     *)
(* follows from it.  DrainInv builds on it: what a close has waited for is *)
(* closed, with nothing left to run.                                       *)
(*                                                                         *)
(* VisionEvidence, for any uploads, shapes, edits and stops: evidence in   *)
(* force shows the board as it is, reservations bound the backends that    *)
(* run, one observation is in the history once, and what a client was told *)
(* of an upload is never contradicted.  Each has its own inductive         *)
(* invariant, and the later ones build on the first.                       *)
(***************************************************************************)
EXTENDS SessionRegistry, VisionEvidence, FiniteSetTheorems, TLAPS

-----------------------------------------------------------------------------
(* SessionRegistry. *)

\* An entry names a writer of its own session.
EntryOwnsWriter ==
    \A s \in Sessions : entry[s].phase # "NONE" => /\ entry[s].writer \in Writers
                                                   /\ session[entry[s].writer] = s

\* A writer has a session from the moment it starts to open, and is closed no earlier.
WriterHasSession ==
    \A w \in Writers : /\ stage[w] # "UNUSED" => session[w] \in Sessions
                       /\ stage[w] = "UNUSED" => closing[w] = "NONE"

\* The phase of an entry agrees with the progress of the writer it names.
PhaseMatchesStage ==
    \A s \in Sessions :
        /\ entry[s].phase = "OPENING" => /\ stage[entry[s].writer] \in {"OPENING", "FAILED"}
                                         /\ closing[entry[s].writer] = "NONE"
        /\ entry[s].phase = "ACTIVE" => /\ stage[entry[s].writer] = "OPEN"
                                        /\ closing[entry[s].writer] = "NONE"
        /\ entry[s].phase = "CLOSING" => closing[entry[s].writer] = "PENDING"

\* A writer in use is registered, under its own session.
Registered ==
    \A w \in Writers : InUse(w) => /\ entry[session[w]].phase # "NONE"
                                   /\ entry[session[w]].writer = w

\* A getAsync call in progress remembers its session.
CallHasSession == \A c \in Calls : call[c].op = "GET" => call[c].session \in Sessions

Custody == CallHasSession /\ EntryOwnsWriter /\ WriterHasSession /\ PhaseMatchesStage /\ Registered
IInv == TypeOK /\ Custody /\ LiveWriterIsCurrent

-----------------------------------------------------------------------------
LEMMA InitInductive == Init => IInv
<1> SUFFICES ASSUME Init PROVE IInv
  OBVIOUS
<1>1. Absence \in Entry /\ Absence.phase = "NONE"
  BY DEF Entry, Absence
<1>2. TypeOK
  BY <1>1 DEF Init, TypeOK, Call, Stages
<1>3. Custody
  BY <1>1 DEF Init, Custody, EntryOwnsWriter, WriterHasSession, PhaseMatchesStage, Registered,
     CallHasSession, InUse
<1>4. LiveWriterIsCurrent
  BY DEF Init, LiveWriterIsCurrent, Live
<1>5. QED BY <1>2, <1>3, <1>4 DEF IInv

\* What a call may become.
LEMMA ReachType ==
  ASSUME TypeOK, NEW c \in Calls, NEW op \in {"NONE", "GET", "CLOSE", "CLOSE_ALL"},
         NEW place \in {"IDLE", "OPENING", "CLOSING", "ALL", "HOLDS", "DONE", "THROWN"},
         NEW s \in Sessions \cup {None}, NEW w \in Writers \cup {None}, NEW owed \in SUBSET Writers,
         Reach(c, op, place, s, w, owed)
  PROVE  call' \in [Calls -> Call]
BY DEF Reach, TypeOK, Call

LEMMA RegisterType ==
  ASSUME TypeOK, NEW s \in Sessions, NEW p \in {"OPENING", "ACTIVE", "CLOSING"}, NEW w \in Writers,
         Register(s, p, w)
  PROVE  entry' \in [Sessions -> Entry]
<1>1. [phase |-> p, writer |-> w] \in Entry
  BY DEF Entry
<1>2. QED BY <1>1 DEF Register, TypeOK

\* One pass of getAsync's loop keeps the types of what it changes.
LEMMA LookType ==
  ASSUME TypeOK, EntryOwnsWriter, NEW c \in Calls, NEW s \in Sessions, Look(c, s)
  PROVE  /\ call' \in [Calls -> Call]
         /\ entry' \in [Sessions -> Entry]
         /\ stage' \in [Writers -> Stages]
         /\ session' \in [Writers -> Sessions \cup {None}]
<1>1. CASE closingAll
  <2>1. Reach(c, "GET", "THROWN", s, None, {})
    BY <1>1 DEF Look
  <2>2. call' \in [Calls -> Call]
    BY <2>1, ReachType
  <2>3. QED BY <1>1, <2>2 DEF Look, TypeOK
<1>2. CASE ~closingAll /\ Absent(s)
  <2>1. PICK w \in Writers : /\ stage' = [stage EXCEPT ![w] = "OPENING"]
                             /\ session' = [session EXCEPT ![w] = s]
                             /\ Register(s, "OPENING", w)
                             /\ Reach(c, "GET", "OPENING", s, w, {})
    BY <1>2 DEF Look
  <2>2. call' \in [Calls -> Call]
    BY <2>1, ReachType
  <2>3. entry' \in [Sessions -> Entry]
    BY <2>1, RegisterType
  <2>4. QED BY <2>1, <2>2, <2>3 DEF TypeOK, Stages
<1>3. CASE ~closingAll /\ ~Absent(s)
  <2>1. entry[s].writer \in Writers /\ entry[s].phase \in {"OPENING", "ACTIVE", "CLOSING"}
    BY <1>3 DEF EntryOwnsWriter, Absent, TypeOK, Entry, Absence
  <2>2. AwaitsOrHolds(s) \in {"OPENING", "CLOSING", "HOLDS"}
    BY <2>1 DEF AwaitsOrHolds
  <2>3. call' \in [Calls -> Call]
    BY <1>3, <2>1, <2>2, ReachType DEF Look
  <2>4. QED BY <1>3, <2>3 DEF Look, TypeOK
<1>4. QED BY <1>1, <1>2, <1>3

\* The two places that start to close writers keep the types of what they change.
LEMMA BeginClosingType ==
  ASSUME TypeOK, EntryOwnsWriter, NEW S \in SUBSET Sessions, BeginClosing(S)
  PROVE  /\ entry' \in [Sessions -> Entry]
         /\ stage' \in [Writers -> Stages]
         /\ closing' \in [Writers -> {"NONE", "PENDING", "SETTLED", "REJECTED"}]
<1>1. \A s \in Sessions : entry[s].phase # "NONE" => [entry[s] EXCEPT !.phase = "CLOSING"] \in Entry
  BY DEF TypeOK, Entry, Absence, EntryOwnsWriter
<1>2. entry' \in [Sessions -> Entry]
  BY <1>1 DEF BeginClosing, TypeOK
<1>3. stage' \in [Writers -> Stages]
  BY DEF BeginClosing, TypeOK, Stages
<1>4. closing' \in [Writers -> {"NONE", "PENDING", "SETTLED", "REJECTED"}]
  BY DEF BeginClosing, TypeOK
<1>5. QED BY <1>2, <1>3, <1>4

LEMMA RoundType ==
  ASSUME TypeOK, Custody, BeginRound
  PROVE  /\ entry' \in [Sessions -> Entry]
         /\ stage' \in [Writers -> Stages]
         /\ closing' \in [Writers -> {"NONE", "PENDING", "SETTLED", "REJECTED"}]
         /\ round' \in SUBSET Writers
<1>1. Present \in SUBSET Sessions
  BY DEF Present
<1>2. round' \in SUBSET Writers
  BY DEF BeginRound, Present, Custody, EntryOwnsWriter
<1>3. QED BY <1>1, <1>2, BeginClosingType DEF BeginRound, Custody

\* Every step keeps every variable in its type.
LEMMA TypeStep == TypeOK /\ Custody /\ [Next]_vars => TypeOK'
<1> SUFFICES ASSUME TypeOK, Custody, [Next]_vars PROVE TypeOK'
  OBVIOUS
<1> USE DEF registryVars, writerVars, commandVars
<1>1. ASSUME NEW c \in Calls, NEW s \in Sessions, Get(c, s) \/ GetAsync(c, s) PROVE TypeOK'
  <2>1. CASE Get(c, s) /\ ~closingAll /\ Absent(s)
    <3>1. PICK w \in Writers : /\ stage' = [stage EXCEPT ![w] = "OPEN"]
                               /\ session' = [session EXCEPT ![w] = s]
                               /\ Construct(w, s)
                               /\ Register(s, "ACTIVE", w)
                               /\ Reach(c, "GET", "HOLDS", s, w, {})
      BY <2>1 DEF Get, Active, Absent
    <3>2. call' \in [Calls -> Call] /\ entry' \in [Sessions -> Entry]
      BY <3>1, ReachType, RegisterType
    <3>3. QED BY <2>1, <3>1, <3>2 DEF Get, Construct, TypeOK, Stages
  <2>2. CASE Get(c, s) /\ (closingAll \/ ~Absent(s))
    <3>1. Active(s) => entry[s].writer \in Writers
      BY DEF Active, Custody, EntryOwnsWriter
    <3>2. call' \in [Calls -> Call]
      BY <2>2, <3>1, ReachType DEF Get
    <3>3. QED BY <2>2, <3>2 DEF Get, TypeOK
  <2>3. CASE GetAsync(c, s)
    BY <2>3, LookType DEF GetAsync, Custody, TypeOK
  <2>4. QED BY <1>1, <2>1, <2>2, <2>3
<1>2. ASSUME NEW w \in Writers, FinishOpening(w) \/ FailOpening(w) \/ ForgetFailedOpening(w)
      PROVE  TypeOK'
  <2>1. session[w] \in Sessions
    BY <1>2 DEF FinishOpening, FailOpening, ForgetFailedOpening, Custody, WriterHasSession
  <2>2. [phase |-> "ACTIVE", writer |-> w] \in Entry /\ Absence \in Entry
    BY DEF Entry
  <2>3. QED BY <1>2, <2>1, <2>2
     DEF FinishOpening, FailOpening, ForgetFailedOpening, Construct, Register, TypeOK, Stages
<1>3. ASSUME NEW c \in Calls, ResumeGet(c) PROVE TypeOK'
  <2>1. CASE Rejected(c) /\ Advance(c, "THROWN") /\ UNCHANGED <<entry, session, stage>>
    BY <1>3, <2>1 DEF ResumeGet, Advance, Reach, TypeOK, Call
  <2>2. CASE Look(c, call[c].session)
    BY <1>3, <2>2, LookType DEF ResumeGet, Custody, CallHasSession, TypeOK
  <2>3. QED BY <1>3, <2>1, <2>2 DEF ResumeGet
<1>4. ASSUME NEW c \in Calls, Execute(c) PROVE TypeOK'
  BY <1>4 DEF Execute, Advance, Reach, TypeOK, Call
<1>5. ASSUME NEW w \in Writers, RunCommand(w) PROVE TypeOK'
  BY <1>5 DEF RunCommand, TypeOK
<1>6. ASSUME NEW c \in Calls, NEW s \in Sessions, Close(c, s) PROVE TypeOK'
  <2>1. CASE entry[s].phase = "NONE"
    <3>1. Reach(c, "CLOSE", "DONE", s, None, {})
      BY <1>6, <2>1 DEF Close
    <3>2. call' \in [Calls -> Call]
      BY <3>1, ReachType
    <3>3. QED BY <1>6, <2>1, <3>2 DEF Close, TypeOK
  <2>2. CASE entry[s].phase # "NONE"
    <3>1. entry[s].writer \in Writers /\ OpenAttempts({s}) \in SUBSET Writers
      BY <2>2 DEF OpenAttempts, Custody, EntryOwnsWriter
    <3>2. /\ entry' \in [Sessions -> Entry]
          /\ stage' \in [Writers -> Stages]
          /\ closing' \in [Writers -> {"NONE", "PENDING", "SETTLED", "REJECTED"}]
      BY <1>6, <2>2, BeginClosingType DEF Close, Custody
    <3>3. call' \in [Calls -> Call]
      BY <1>6, <2>2, <3>1, ReachType DEF Close
    <3>4. QED BY <1>6, <2>2, <3>2, <3>3 DEF Close, TypeOK
  <2>3. QED BY <2>1, <2>2
<1>7. ASSUME NEW w \in Writers, CloseOpened(w) \/ FinishDraining(w) \/ Settle(w) PROVE TypeOK'
  <2>1. session[w] \in Sessions => [entry EXCEPT ![session[w]] = Absence] \in [Sessions -> Entry]
    BY DEF TypeOK, Entry
  <2>2. CASE Settle(w)
    <3>1. session[w] \in Sessions
      BY <2>2 DEF Settle, Custody, WriterHasSession
    <3>2. QED BY <2>1, <2>2, <3>1 DEF Settle, TypeOK
  <2>3. CASE CloseOpened(w) \/ FinishDraining(w)
    BY <2>3 DEF CloseOpened, FinishDraining, TypeOK, Stages
  <2>4. QED BY <1>7, <2>2, <2>3
<1>8. ASSUME NEW c \in Calls, ResumeClose(c) PROVE TypeOK'
  <2>1. call[c] \in Call
    BY DEF TypeOK
  <2>2. PICK place \in {"DONE", "THROWN"} : Advance(c, place)
    BY <1>8 DEF ResumeClose
  <2>3. [op |-> call[c].op, pc |-> place, session |-> call[c].session, writer |-> call[c].writer,
         owed |-> call[c].owed] \in Call
    BY <2>1 DEF Call
  <2>4. call' \in [Calls -> Call]
    BY <2>2, <2>3 DEF Advance, Reach, TypeOK
  <2>5. QED BY <1>8, <2>4 DEF ResumeClose, TypeOK, registryVars, writerVars, commandVars
<1>9. ASSUME NEW c \in Calls, CloseAll(c) PROVE TypeOK'
  <2>1. AwaitsAll \in {"ALL", "DONE"} /\ OpenAttempts(Sessions) \in SUBSET Writers
    BY DEF AwaitsAll, OpenAttempts
  <2>2. call' \in [Calls -> Call]
    BY <1>9, <2>1, ReachType DEF CloseAll
  <2>3. CASE BeginRound
    BY <1>9, <2>2, <2>3, RoundType DEF CloseAll, TypeOK
  <2>4. CASE ~BeginRound
    BY <1>9, <2>2, <2>4 DEF CloseAll, TypeOK
  <2>5. QED BY <2>3, <2>4
<1>10. CASE EndRound
  <2>1. \A c \in Calls : [call[c] EXCEPT !.pc = RoundOutcome] \in Call
    BY DEF RoundOutcome, TypeOK, Call
  <2>2. call' \in [Calls -> Call]
    BY <1>10, <2>1 DEF EndRound, TypeOK
  <2>3. CASE BeginRound
    BY <1>10, <2>2, <2>3, RoundType DEF EndRound, TypeOK
  <2>4. CASE ~BeginRound
    BY <1>10, <2>2, <2>4 DEF EndRound, TypeOK
  <2>5. QED BY <2>3, <2>4
<1>11. CASE UNCHANGED vars
  BY <1>11 DEF vars, TypeOK
<1>12. QED
  BY <1>1, <1>2, <1>3, <1>4, <1>5, <1>6, <1>7, <1>8, <1>9, <1>10, <1>11 DEF Next, Continue

\* The parts of Custody that relate entries, writers and closings.
CustodyVars == <<entry, session, stage, closing>>

LEMMA BeginClosingCustody ==
  ASSUME TypeOK, Custody, NEW S \in SUBSET Sessions, BeginClosing(S), UNCHANGED session
  PROVE  EntryOwnsWriter' /\ WriterHasSession' /\ PhaseMatchesStage' /\ Registered'
<1> USE DEF Custody
<1>1. \A s \in Sessions : /\ entry'[s].writer = entry[s].writer
                          /\ entry'[s].phase = IF s \in S /\ entry[s].phase # "NONE"
                                               THEN "CLOSING" ELSE entry[s].phase
  BY DEF BeginClosing, TypeOK, Entry, Absence
<1>2. \A s \in S : entry[s].phase \in {"OPENING", "ACTIVE"} => closing'[entry[s].writer] = "PENDING"
  BY DEF BeginClosing, Closable, EntryOwnsWriter, TypeOK
<1>3. \A w \in Writers : stage'[w] # stage[w] => stage[w] = "OPEN" /\ stage'[w] = "DRAINING"
  <2> SUFFICES ASSUME NEW w \in Writers, stage'[w] # stage[w]
               PROVE  stage[w] = "OPEN" /\ stage'[w] = "DRAINING"
    OBVIOUS
  <2>1. PICK s \in S : entry[s] = [phase |-> "ACTIVE", writer |-> w]
    BY DEF BeginClosing, TypeOK
  <2>2. stage[w] = "OPEN"
    BY <2>1 DEF PhaseMatchesStage
  <2>3. stage'[w] = "DRAINING"
    BY <2>1 DEF BeginClosing
  <2>4. QED BY <2>2, <2>3
<1>4. \A s \in Sessions : s \notin S /\ entry[s].phase # "NONE" =>
          /\ closing'[entry[s].writer] = closing[entry[s].writer]
          /\ stage'[entry[s].writer] = stage[entry[s].writer]
  BY DEF BeginClosing, Closable, EntryOwnsWriter, TypeOK
<1>5. \A w \in Writers : closing'[w] # closing[w] => stage[w] # "UNUSED"
  BY DEF BeginClosing, Closable, EntryOwnsWriter, PhaseMatchesStage, TypeOK
<1>6. EntryOwnsWriter'
  BY <1>1 DEF EntryOwnsWriter
<1>7. WriterHasSession'
  BY <1>3, <1>5 DEF WriterHasSession, BeginClosing
<1>8. PhaseMatchesStage'
  <2> SUFFICES ASSUME NEW s \in Sessions
               PROVE  /\ entry'[s].phase = "OPENING" => /\ stage'[entry'[s].writer] \in {"OPENING", "FAILED"}
                                                        /\ closing'[entry'[s].writer] = "NONE"
                      /\ entry'[s].phase = "ACTIVE" => /\ stage'[entry'[s].writer] = "OPEN"
                                                       /\ closing'[entry'[s].writer] = "NONE"
                      /\ entry'[s].phase = "CLOSING" => closing'[entry'[s].writer] = "PENDING"
    BY DEF PhaseMatchesStage
  <2>1. CASE s \notin S
    BY <1>1, <1>4, <2>1 DEF PhaseMatchesStage
  <2>2. CASE s \in S /\ entry[s].phase = "CLOSING"
    <3>1. closing'[entry[s].writer] = "PENDING"
      BY <2>2 DEF PhaseMatchesStage, BeginClosing, TypeOK, EntryOwnsWriter
    <3>2. QED BY <1>1, <2>2, <3>1
  <2>3. CASE s \in S /\ entry[s].phase # "CLOSING"
    <3>1. entry[s].phase \in {"NONE", "OPENING", "ACTIVE"}
      BY <2>3 DEF TypeOK, Entry, Absence
    <3>2. QED BY <1>1, <1>2, <2>3, <3>1
  <2>4. QED BY <2>1, <2>2, <2>3
<1>9. Registered'
  BY <1>1, <1>3 DEF Registered, InUse, WriterHasSession
<1>10. QED BY <1>6, <1>7, <1>8, <1>9

\* Opening a writer for a session that has none.
LEMMA OpenCustody ==
  ASSUME TypeOK, Custody, NEW s \in Sessions, NEW w \in Writers, Absent(s), stage[w] = "UNUSED",
         NEW p \in {"OPENING", "ACTIVE"},
         stage' = [stage EXCEPT ![w] = IF p = "ACTIVE" THEN "OPEN" ELSE "OPENING"],
         session' = [session EXCEPT ![w] = s],
         Register(s, p, w), UNCHANGED closing
  PROVE  EntryOwnsWriter' /\ WriterHasSession' /\ PhaseMatchesStage' /\ Registered'
<1> USE DEF Custody
<1>1. entry' = [entry EXCEPT ![s] = [phase |-> p, writer |-> w]]
  BY DEF Register
<1>2. \A r \in Sessions : entry[r].phase # "NONE" => entry[r].writer # w
  <2> SUFFICES ASSUME NEW r \in Sessions, entry[r].phase # "NONE", entry[r].writer = w PROVE FALSE
    OBVIOUS
  <2>1. entry[r].phase \in {"OPENING", "ACTIVE", "CLOSING"}
    BY DEF TypeOK, Entry, Absence
  <2>2. QED BY <2>1 DEF PhaseMatchesStage, WriterHasSession
<1>3. \A v \in Writers : InUse(v) => session[v] # s
  BY DEF Absent, Registered, InUse, PhaseMatchesStage, TypeOK
<1>4. EntryOwnsWriter'
  BY <1>1, <1>2 DEF EntryOwnsWriter, TypeOK
<1>5. WriterHasSession'
  BY DEF WriterHasSession, TypeOK
<1>6. PhaseMatchesStage'
  BY <1>1, <1>2 DEF PhaseMatchesStage, WriterHasSession, EntryOwnsWriter, TypeOK
<1>7. Registered'
  BY <1>1, <1>3 DEF Registered, InUse, TypeOK
<1>8. QED BY <1>4, <1>5, <1>6, <1>7

\* One pass of getAsync's loop.
LEMMA LookCustody ==
  ASSUME TypeOK, Custody, NEW c \in Calls, NEW s \in Sessions, Look(c, s), UNCHANGED closing
  PROVE  EntryOwnsWriter' /\ WriterHasSession' /\ PhaseMatchesStage' /\ Registered'
<1>1. CASE ~closingAll /\ Absent(s)
  <2>1. PICK w \in Writers : /\ stage[w] = "UNUSED"
                             /\ stage' = [stage EXCEPT ![w] = "OPENING"]
                             /\ session' = [session EXCEPT ![w] = s]
                             /\ Register(s, "OPENING", w)
    BY <1>1 DEF Look
  <2>2. QED BY <1>1, <2>1, OpenCustody
<1>2. CASE closingAll \/ ~Absent(s)
  BY <1>2 DEF Look, Custody, EntryOwnsWriter, WriterHasSession, PhaseMatchesStage, Registered, InUse
<1>3. QED BY <1>1, <1>2

LEMMA CallStep == TypeOK /\ Custody /\ [Next]_vars => CallHasSession'
<1> SUFFICES ASSUME TypeOK, Custody, [Next]_vars PROVE CallHasSession'
  OBVIOUS
<1> USE DEF Custody
<1>1. ASSUME NEW c \in Calls, NEW place, NEW op, NEW s, NEW w, NEW owed, Reach(c, op, place, s, w, owed),
             op = "GET" => s \in Sessions
      PROVE  CallHasSession'
  BY <1>1 DEF Reach, CallHasSession, TypeOK
<1>2. ASSUME NEW c \in Calls, NEW place, Advance(c, place) PROVE CallHasSession'
  BY <1>1, <1>2 DEF Advance, CallHasSession
<1>3. ASSUME NEW c \in Calls, NEW s \in Sessions, Look(c, s) PROVE CallHasSession'
  BY <1>1, <1>3 DEF Look
<1>4. ASSUME NEW c \in Calls, NEW s \in Sessions, Get(c, s) \/ GetAsync(c, s) \/ Close(c, s)
      PROVE  CallHasSession'
  BY <1>1, <1>3, <1>4 DEF Get, GetAsync, Close
<1>5. ASSUME NEW c \in Calls, ResumeGet(c) PROVE CallHasSession'
  BY <1>2, <1>3, <1>5 DEF ResumeGet, CallHasSession
<1>6. ASSUME NEW c \in Calls, Execute(c) \/ ResumeClose(c) PROVE CallHasSession'
  BY <1>2, <1>6 DEF Execute, ResumeClose
<1>7. ASSUME NEW c \in Calls, CloseAll(c) PROVE CallHasSession'
  BY <1>1, <1>7 DEF CloseAll
<1>8. CASE EndRound
  BY <1>8 DEF EndRound, CallHasSession, TypeOK, Call
<1>9. CASE \/ UNCHANGED call
           \/ \E w \in Writers : \/ FinishOpening(w) \/ FailOpening(w) \/ ForgetFailedOpening(w)
                                 \/ RunCommand(w) \/ CloseOpened(w) \/ FinishDraining(w) \/ Settle(w)
  BY <1>9 DEF FinishOpening, FailOpening, ForgetFailedOpening, RunCommand, CloseOpened,
     FinishDraining, Settle, CallHasSession
<1>10. QED
  BY <1>3, <1>4, <1>5, <1>6, <1>7, <1>8, <1>9 DEF Next, Continue, vars

\* Every step keeps entries, writers and closings in agreement.
LEMMA CustodyStep == TypeOK /\ Custody /\ [Next]_vars => Custody'
<1> SUFFICES ASSUME TypeOK, Custody, [Next]_vars PROVE Custody'
  OBVIOUS
<1> USE DEF registryVars, writerVars, commandVars
<1>a. CallHasSession'
  BY CallStep
<1>f. CASE UNCHANGED CustodyVars
  BY <1>a, <1>f DEF CustodyVars, Custody, EntryOwnsWriter, WriterHasSession, PhaseMatchesStage,
     Registered, InUse
<1>1. ASSUME NEW c \in Calls, NEW s \in Sessions, Get(c, s) PROVE Custody'
  <2>1. CASE ~closingAll /\ Absent(s)
    <3>1. PICK w \in Writers : /\ stage[w] = "UNUSED"
                               /\ stage' = [stage EXCEPT ![w] = "OPEN"]
                               /\ session' = [session EXCEPT ![w] = s]
                               /\ Register(s, "ACTIVE", w)
      BY <1>1, <2>1 DEF Get, Active, Absent
    <3>2. QED BY <1>1, <1>a, <2>1, <3>1, OpenCustody DEF Get, Custody
  <2>2. CASE closingAll \/ ~Absent(s)
    BY <1>1, <1>f, <2>2 DEF Get, CustodyVars
  <2>3. QED BY <2>1, <2>2
<1>2. ASSUME NEW c \in Calls, NEW s \in Sessions, GetAsync(c, s) PROVE Custody'
  BY <1>2, <1>a, LookCustody DEF GetAsync, Custody
<1>3. ASSUME NEW c \in Calls, ResumeGet(c) PROVE Custody'
  <2>1. CASE Look(c, call[c].session)
    <3>1. call[c].session \in Sessions
      BY <1>3 DEF ResumeGet, Custody, CallHasSession
    <3>2. QED BY <1>3, <1>a, <2>1, <3>1, LookCustody DEF ResumeGet, Custody
  <2>2. CASE ~Look(c, call[c].session)
    BY <1>3, <1>f, <2>2 DEF ResumeGet, CustodyVars
  <2>3. QED BY <2>1, <2>2
<1>4. ASSUME NEW w \in Writers, FinishOpening(w) PROVE Custody'
  <2>1. session[w] \in Sessions /\ InUse(w) /\ stage[w] = "OPENING"
    BY <1>4 DEF FinishOpening, Custody, WriterHasSession, InUse
  <2>2. /\ entry[session[w]].writer = w
        /\ entry[session[w]].phase \in {"OPENING", "CLOSING"}
    BY <2>1 DEF Custody, Registered, PhaseMatchesStage, TypeOK, Entry, Absence
  <2>3. \A s \in Sessions : entry[s].phase # "NONE" /\ entry[s].writer = w => s = session[w]
    BY DEF Custody, EntryOwnsWriter
  <2>4. entry' = [entry EXCEPT ![session[w]] =
                    [phase |-> IF entry[session[w]].phase = "OPENING" THEN "ACTIVE" ELSE "CLOSING",
                     writer |-> w]]
    <3>1. entry[session[w]] = [phase |-> entry[session[w]].phase, writer |-> w]
      BY <2>1, <2>2 DEF TypeOK, Entry, Absence
    <3>2. CASE entry[session[w]].phase = "OPENING"
      BY <1>4, <2>1, <3>1, <3>2 DEF FinishOpening, Register, TypeOK
    <3>3. CASE entry[session[w]].phase = "CLOSING"
      BY <1>4, <2>1, <3>1, <3>3 DEF FinishOpening, TypeOK, Register
    <3>4. QED BY <2>2, <3>2, <3>3
  <2>5. EntryOwnsWriter' /\ WriterHasSession'
    BY <1>4, <2>1, <2>4 DEF FinishOpening, Custody, EntryOwnsWriter, WriterHasSession, TypeOK
  <2>6. PhaseMatchesStage'
    BY <1>4, <2>1, <2>2, <2>3, <2>4 DEF FinishOpening, Custody, PhaseMatchesStage, TypeOK
  <2>7. Registered'
    BY <1>4, <2>1, <2>2, <2>4 DEF FinishOpening, Custody, Registered, InUse, WriterHasSession, TypeOK
  <2>8. QED BY <1>a, <2>5, <2>6, <2>7 DEF Custody
<1>5. ASSUME NEW w \in Writers, FailOpening(w) PROVE Custody'
  <2>1. EntryOwnsWriter' /\ WriterHasSession'
    BY <1>5 DEF FailOpening, Custody, EntryOwnsWriter, WriterHasSession, TypeOK
  <2>2. PhaseMatchesStage'
    BY <1>5 DEF FailOpening, Custody, PhaseMatchesStage, TypeOK
  <2>3. Registered'
    BY <1>5 DEF FailOpening, Custody, Registered, InUse, TypeOK
  <2>4. QED BY <1>a, <2>1, <2>2, <2>3 DEF Custody
<1>6. ASSUME NEW w \in Writers,
             ForgetFailedOpening(w) \/ CloseOpened(w) \/ FinishDraining(w) \/ Settle(w)
      PROVE  Custody'
  <2>1. session[w] \in Sessions
    BY <1>6 DEF ForgetFailedOpening, CloseOpened, FinishDraining, Settle, Custody, WriterHasSession
  <2>2. \A s \in Sessions : \/ entry'[s] = entry[s]
                            \/ s = session[w] /\ entry[s].writer = w /\ entry'[s].phase = "NONE"
    BY <1>6, <2>1
       DEF ForgetFailedOpening, CloseOpened, FinishDraining, Settle, Absence, TypeOK, Entry
  <2>3. EntryOwnsWriter' /\ WriterHasSession'
    BY <1>6, <2>2 DEF ForgetFailedOpening, CloseOpened, FinishDraining, Settle, Custody,
       EntryOwnsWriter, WriterHasSession, TypeOK
  <2>4. Registered'
    <3>1. \A v \in Writers : InUse(v)' => InUse(v)
      BY <1>6 DEF ForgetFailedOpening, CloseOpened, FinishDraining, Settle, InUse, TypeOK
    <3>2. InUse(w)' => stage[w] = "OPEN" /\ UNCHANGED entry
      BY <1>6 DEF ForgetFailedOpening, CloseOpened, FinishDraining, Settle, InUse, TypeOK
    <3>3. UNCHANGED session
      BY <1>6 DEF ForgetFailedOpening, CloseOpened, FinishDraining, Settle
    <3>4. QED BY <2>2, <3>1, <3>2, <3>3 DEF Custody, Registered, InUse, WriterHasSession
  <2>5. PhaseMatchesStage'
    <3>1. CASE ForgetFailedOpening(w)
      BY <2>1, <3>1 DEF ForgetFailedOpening, Custody, PhaseMatchesStage, EntryOwnsWriter,
         Absence, TypeOK, Entry
    <3>2. CASE CloseOpened(w)
      BY <3>2 DEF CloseOpened, Custody, PhaseMatchesStage, EntryOwnsWriter, TypeOK
    <3>3. CASE FinishDraining(w)
      BY <3>3 DEF FinishDraining, Custody, PhaseMatchesStage, EntryOwnsWriter, TypeOK
    <3>4. CASE Settle(w)
      BY <2>1, <3>4 DEF Settle, Custody, PhaseMatchesStage, EntryOwnsWriter, Absence, TypeOK, Entry
    <3>5. QED BY <1>6, <3>1, <3>2, <3>3, <3>4
  <2>6. QED BY <1>a, <2>3, <2>4, <2>5 DEF Custody
<1>7. ASSUME NEW c \in Calls, NEW s \in Sessions, Close(c, s) PROVE Custody'
  <2>1. CASE entry[s].phase = "NONE"
    BY <1>7, <1>f, <2>1 DEF Close, CustodyVars
  <2>2. CASE entry[s].phase # "NONE"
    BY <1>7, <1>a, <2>2, BeginClosingCustody DEF Close, Custody
  <2>3. QED BY <2>1, <2>2
<1>8. CASE EndRound \/ \E c \in Calls : CloseAll(c)
  <2>1. Present \in SUBSET Sessions
    BY DEF Present
  <2>2. CASE BeginRound
    BY <1>8, <1>a, <2>1, <2>2, BeginClosingCustody DEF CloseAll, EndRound, BeginRound, Custody
  <2>3. CASE ~BeginRound
    BY <1>8, <1>f, <2>3 DEF CloseAll, EndRound, CustodyVars
  <2>4. QED BY <2>2, <2>3
<1>9. CASE \/ \E c \in Calls : Execute(c) \/ ResumeClose(c)
           \/ \E w \in Writers : RunCommand(w)
  BY <1>9, <1>f DEF Execute, RunCommand, ResumeClose, CustodyVars
<1>10. CASE UNCHANGED vars
  BY <1>10, <1>f DEF vars, CustodyVars
<1>11. QED
  BY <1>1, <1>2, <1>3, <1>4, <1>5, <1>6, <1>7, <1>8, <1>9, <1>10 DEF Next, Continue

\* Under Custody two live writers of one session are the one its entry names.
LEMMA CustodyGivesOne == Custody => OneLiveWriter /\ NoLeakedWriter
BY DEF Custody, Registered, OneLiveWriter, NoLeakedWriter, InUse, Live

\* Every step keeps the memory of every live writer equal to the store.
LEMMA CurrentStep == IInv /\ [Next]_vars => LiveWriterIsCurrent'
<1> SUFFICES ASSUME IInv, [Next]_vars PROVE LiveWriterIsCurrent'
  OBVIOUS
<1> USE DEF registryVars, writerVars, commandVars
<1>1. ASSUME NEW w \in Writers, RunCommand(w) PROVE LiveWriterIsCurrent'
  <2>1. \A v \in Writers : Live(v) /\ session[v] = session[w] => v = w
    BY <1>1, CustodyGivesOne DEF RunCommand, IInv, OneLiveWriter
  <2>2. session[w] \in Sessions
    BY <1>1 DEF RunCommand, Live, IInv, Custody, WriterHasSession
  <2>3. sequence[w] = log[session[w]]
    BY <1>1 DEF RunCommand, IInv, LiveWriterIsCurrent
  <2>4. /\ sequence'[w] = log'[session[w]]
        /\ \A v \in Writers : v # w => sequence'[v] = sequence[v]
        /\ \A s \in Sessions : s # session[w] => log'[s] = log[s]
    BY <1>1, <2>2, <2>3 DEF RunCommand, IInv, TypeOK
  <2>5. \A v \in Writers : Live(v) => session[v] \in Sessions
    BY DEF Live, IInv, Custody, WriterHasSession
  <2>6. UNCHANGED <<session, stage>>
    BY <1>1 DEF RunCommand
  <2>7. QED BY <2>1, <2>4, <2>5, <2>6 DEF IInv, LiveWriterIsCurrent, Live
<1>2. ASSUME NEW w \in Writers, FinishOpening(w) PROVE LiveWriterIsCurrent'
  <2>1. session[w] \in Sessions
    BY <1>2 DEF FinishOpening, IInv, Custody, WriterHasSession
  <2>2. QED BY <1>2, <2>1 DEF FinishOpening, Construct, IInv, LiveWriterIsCurrent, Live, TypeOK
<1>3. ASSUME NEW c \in Calls, NEW s \in Sessions, Get(c, s) PROVE LiveWriterIsCurrent'
  <2>1. CASE ~closingAll /\ Absent(s)
    <3>1. PICK w \in Writers : /\ stage' = [stage EXCEPT ![w] = "OPEN"]
                               /\ session' = [session EXCEPT ![w] = s]
                               /\ Construct(w, s)
      BY <1>3, <2>1 DEF Get, Active, Absent
    <3>2. QED BY <1>3, <3>1 DEF Get, Construct, IInv, LiveWriterIsCurrent, Live, TypeOK
  <2>2. CASE closingAll \/ ~Absent(s)
    BY <1>3, <2>2 DEF Get, IInv, LiveWriterIsCurrent, Live
  <2>3. QED BY <2>1, <2>2
<1>4. CASE /\ UNCHANGED <<log, sequence>>
           /\ \A w \in Writers : Live(w)' => Live(w) /\ session'[w] = session[w]
  BY <1>4 DEF IInv, LiveWriterIsCurrent, Live
<1>5. ASSUME NEW c \in Calls, NEW s \in Sessions, Look(c, s), UNCHANGED commandVars
      PROVE  LiveWriterIsCurrent'
  BY <1>5 DEF Look, IInv, LiveWriterIsCurrent, Live, TypeOK
<1>6. ASSUME NEW c \in Calls, NEW s \in Sessions, GetAsync(c, s) PROVE LiveWriterIsCurrent'
  BY <1>5, <1>6 DEF GetAsync
<1>7. ASSUME NEW c \in Calls, ResumeGet(c) PROVE LiveWriterIsCurrent'
  BY <1>4, <1>5, <1>7 DEF ResumeGet, IInv, Custody, CallHasSession, Live
<1>8. ASSUME NEW S \in SUBSET Sessions, BeginClosing(S), UNCHANGED <<session, commandVars>>
      PROVE  LiveWriterIsCurrent'
  <2>1. \A w \in Writers : Live(w)' => Live(w)
    BY <1>8 DEF BeginClosing, Live, IInv, Custody, PhaseMatchesStage, TypeOK
  <2>2. QED BY <1>4, <1>8, <2>1
<1>9. ASSUME NEW c \in Calls, NEW s \in Sessions, Close(c, s) PROVE LiveWriterIsCurrent'
  BY <1>4, <1>8, <1>9 DEF Close, Live
<1>10. CASE EndRound \/ \E c \in Calls : CloseAll(c)
  <2>1. Present \in SUBSET Sessions
    BY DEF Present
  <2>2. QED BY <1>4, <1>8, <1>10, <2>1 DEF EndRound, CloseAll, BeginRound, Live
<1>11. ASSUME NEW w \in Writers, \/ FailOpening(w) \/ ForgetFailedOpening(w) \/ CloseOpened(w)
                                 \/ FinishDraining(w) \/ Settle(w)
       PROVE  LiveWriterIsCurrent'
  BY <1>4, <1>11 DEF FailOpening, ForgetFailedOpening, CloseOpened, FinishDraining, Settle, Live, IInv, TypeOK
<1>12. CASE UNCHANGED vars \/ \E c \in Calls : Execute(c) \/ ResumeClose(c)
  BY <1>4, <1>12 DEF Execute, ResumeClose, vars, Live
<1>13. QED
  BY <1>1, <1>2, <1>3, <1>6, <1>7, <1>9, <1>10, <1>11, <1>12 DEF Next, Continue

LEMMA Inductive == Spec => []IInv
<1>1. IInv /\ [Next]_vars => IInv'
  BY TypeStep, CustodyStep, CurrentStep DEF IInv
<1>2. QED BY InitInductive, <1>1, PTL DEF Spec

\* Every variable keeps its type.
THEOREM RegistryTypeCorrect == Spec => []TypeOK
BY Inductive, PTL DEF IInv

\* However opens, failures, closes and closeAlls interleave, a session has one live
\* writer (session-writer.ts:220-322).
THEOREM RegistryOneLiveWriter == Spec => []OneLiveWriter
<1>1. IInv => OneLiveWriter
  BY CustodyGivesOne DEF IInv
<1>2. QED BY Inductive, <1>1, PTL

\* A writer in use is always the one the map names, so it can be closed.
THEOREM RegistryNoLeakedWriter == Spec => []NoLeakedWriter
<1>1. IInv => NoLeakedWriter
  BY CustodyGivesOne DEF IInv
<1>2. QED BY Inductive, <1>1, PTL

\* A live writer never falls behind the store, however often it is reopened.
THEOREM RegistryWriterIsCurrent == Spec => []LiveWriterIsCurrent
BY Inductive, PTL DEF IInv

-----------------------------------------------------------------------------
(* Closing drains. *)

\* A call that awaits a promise is of the operation that awaits it.
AwaitsAsCalled ==
    \A c \in Calls : /\ call[c].pc = "HOLDS" => call[c].op = "GET"
                     /\ call[c].pc = "ALL" => call[c].op = "CLOSE_ALL"

\* A settled closing has closed its writer, a closed writer has run all it had
\* admitted, and a close that waits owes nobody but the writer it waits for.
DrainInv ==
    /\ AwaitsAsCalled
    /\ \A w \in Writers : closing[w] = "SETTLED" => stage[w] = "CLOSED"
    /\ \A w \in Writers : stage[w] = "CLOSED" => queued[w] = 0
    /\ \A c \in Calls : call[c].op = "CLOSE" =>
          /\ call[c].pc = "CLOSING" => call[c].owed \subseteq {call[c].writer}
          /\ call[c].pc = "DONE" => \A w \in call[c].owed : stage[w] = "CLOSED"

LEMMA DrainGivesCloseDrains == TypeOK /\ DrainInv => CloseDrains
BY DEF TypeOK, Call, DrainInv, CloseDrains

\* A writer that is closed stays closed, and admits nothing more.
LEMMA ClosedStays ==
  ASSUME IInv, [Next]_vars, NEW w \in Writers, stage[w] = "CLOSED"
  PROVE  stage'[w] = "CLOSED" /\ queued'[w] = queued[w]
<1> USE DEF registryVars, writerVars, commandVars
<1>1. ASSUME NEW S \in SUBSET Sessions, BeginClosing(S) PROVE stage'[w] = "CLOSED"
  BY <1>1 DEF BeginClosing, IInv, Custody, PhaseMatchesStage, TypeOK
<1>2. ASSUME NEW c \in Calls, NEW s \in Sessions, Look(c, s) PROVE stage'[w] = "CLOSED"
  BY <1>2 DEF Look, IInv, TypeOK
<1>3. ASSUME NEW c \in Calls, NEW s \in Sessions, Get(c, s)
      PROVE  stage'[w] = "CLOSED" /\ queued'[w] = queued[w]
  BY <1>3 DEF Get, IInv, TypeOK
<1>4. ASSUME NEW c \in Calls, NEW s \in Sessions, GetAsync(c, s) \/ Close(c, s)
      PROVE  stage'[w] = "CLOSED" /\ queued'[w] = queued[w]
  BY <1>1, <1>2, <1>4 DEF GetAsync, Close
<1>5. ASSUME NEW c \in Calls, ResumeGet(c) PROVE stage'[w] = "CLOSED" /\ queued'[w] = queued[w]
  BY <1>2, <1>5 DEF ResumeGet, IInv, Custody, CallHasSession
<1>6. ASSUME NEW c \in Calls, Execute(c) \/ ResumeClose(c)
      PROVE  stage'[w] = "CLOSED" /\ queued'[w] = queued[w]
  BY <1>6 DEF Execute, ResumeClose, IInv, TypeOK
<1>7. CASE EndRound \/ \E c \in Calls : CloseAll(c)
  <2>1. Present \in SUBSET Sessions
    BY DEF Present
  <2>2. QED BY <1>1, <1>7, <2>1 DEF EndRound, CloseAll, BeginRound
<1>8. ASSUME NEW v \in Writers, \/ FinishOpening(v) \/ FailOpening(v) \/ ForgetFailedOpening(v)
                                \/ RunCommand(v) \/ CloseOpened(v) \/ FinishDraining(v) \/ Settle(v)
      PROVE  stage'[w] = "CLOSED" /\ queued'[w] = queued[w]
  BY <1>8 DEF FinishOpening, FailOpening, ForgetFailedOpening, RunCommand, CloseOpened,
     FinishDraining, Settle, Live, IInv, TypeOK
<1>9. CASE UNCHANGED vars
  BY <1>9 DEF vars
<1>10. QED
  BY <1>3, <1>4, <1>5, <1>6, <1>7, <1>8, <1>9 DEF Next, Continue

\* What a close finds of the session is the one writer it waits for.
LEMMA OwesItsWriter ==
  ASSUME IInv, NEW s \in Sessions
  PROVE  OpenAttempts({s}) \subseteq {entry[s].writer}
BY DEF OpenAttempts, IInv, Custody, Registered

\* A writer is closed only with an empty tail, and its closing settles after.
LEMMA ClosedIsDrained ==
  ASSUME IInv, DrainInv, [Next]_vars, NEW w \in Writers
  PROVE  /\ closing'[w] = "SETTLED" => stage'[w] = "CLOSED"
         /\ stage'[w] = "CLOSED" => queued'[w] = 0
<1> USE DEF registryVars, writerVars, commandVars
<1>1. ASSUME NEW S \in SUBSET Sessions, BeginClosing(S)
      PROVE  /\ closing'[w] = "SETTLED" => closing[w] = "SETTLED"
             /\ stage'[w] = "CLOSED" => stage[w] = "CLOSED"
  BY <1>1 DEF BeginClosing, IInv, TypeOK
<1>2. CASE /\ closing'[w] = "SETTLED" => closing[w] = "SETTLED"
           /\ stage'[w] = "CLOSED" => stage[w] = "CLOSED"
  BY <1>2, ClosedStays DEF DrainInv
<1>3. ASSUME NEW c \in Calls, NEW s \in Sessions, Look(c, s)
      PROVE  stage'[w] = "CLOSED" => stage[w] = "CLOSED"
  BY <1>3 DEF Look, IInv, TypeOK
<1>4. ASSUME NEW c \in Calls, NEW s \in Sessions, Get(c, s)
      PROVE  /\ closing'[w] = "SETTLED" => closing[w] = "SETTLED"
             /\ stage'[w] = "CLOSED" => stage[w] = "CLOSED"
  BY <1>4 DEF Get, IInv, TypeOK
<1>5. ASSUME NEW c \in Calls, NEW s \in Sessions, GetAsync(c, s) \/ Close(c, s)
      PROVE  /\ closing'[w] = "SETTLED" => closing[w] = "SETTLED"
             /\ stage'[w] = "CLOSED" => stage[w] = "CLOSED"
  BY <1>1, <1>3, <1>5 DEF GetAsync, Close
<1>6. ASSUME NEW c \in Calls, ResumeGet(c)
      PROVE  /\ closing'[w] = "SETTLED" => closing[w] = "SETTLED"
             /\ stage'[w] = "CLOSED" => stage[w] = "CLOSED"
  BY <1>3, <1>6 DEF ResumeGet, IInv, Custody, CallHasSession
<1>7. CASE EndRound \/ \E c \in Calls : CloseAll(c)
  <2>1. Present \in SUBSET Sessions
    BY DEF Present
  <2>2. QED BY <1>1, <1>2, <1>7, <2>1 DEF EndRound, CloseAll, BeginRound
<1>8. ASSUME NEW v \in Writers, \/ FinishOpening(v) \/ FailOpening(v) \/ ForgetFailedOpening(v)
                                \/ RunCommand(v) \/ CloseOpened(v)
      PROVE  /\ closing'[w] = "SETTLED" => closing[w] = "SETTLED"
             /\ stage'[w] = "CLOSED" => stage[w] = "CLOSED"
  BY <1>8 DEF FinishOpening, FailOpening, ForgetFailedOpening, RunCommand, CloseOpened, IInv, TypeOK
<1>9. ASSUME NEW v \in Writers, FinishDraining(v)
      PROVE  /\ closing'[w] = "SETTLED" => stage'[w] = "CLOSED"
             /\ stage'[w] = "CLOSED" => queued'[w] = 0
  BY <1>9 DEF FinishDraining, Drained, DrainInv, IInv, TypeOK
<1>10. ASSUME NEW v \in Writers, Settle(v)
       PROVE  /\ closing'[w] = "SETTLED" => stage'[w] = "CLOSED"
              /\ stage'[w] = "CLOSED" => queued'[w] = 0
  BY <1>10 DEF Settle, DrainInv, IInv, TypeOK
<1>11. CASE UNCHANGED vars \/ \E c \in Calls : Execute(c) \/ ResumeClose(c)
  BY <1>2, <1>11 DEF vars, Execute, ResumeClose
<1>12. QED
  BY <1>2, <1>4, <1>5, <1>6, <1>7, <1>8, <1>9, <1>10, <1>11 DEF Next, Continue

\* The part of DrainInv that speaks of call c.
CallDrained(c) ==
    /\ call[c].pc = "HOLDS" => call[c].op = "GET"
    /\ call[c].pc = "ALL" => call[c].op = "CLOSE_ALL"
    /\ call[c].op = "CLOSE" =>
          /\ call[c].pc = "CLOSING" => call[c].owed \subseteq {call[c].writer}
          /\ call[c].pc = "DONE" => \A w \in call[c].owed : stage[w] = "CLOSED"

LEMMA CallStaysDrained ==
  ASSUME IInv, DrainInv, [Next]_vars, NEW c \in Calls
  PROVE  CallDrained(c)'
<1> USE DEF registryVars, writerVars, commandVars
<1>0. CallDrained(c) /\ call[c].owed \in SUBSET Writers
  BY DEF DrainInv, AwaitsAsCalled, CallDrained, IInv, TypeOK, Call
<1>1. CASE call'[c] = call[c]
  BY <1>0, <1>1, ClosedStays DEF CallDrained
<1>2. ASSUME NEW d \in Calls, NEW op, NEW place, NEW s, NEW w, NEW owed, Reach(d, op, place, s, w, owed),
             \/ op = "GET" /\ place # "ALL"
             \/ op = "CLOSE_ALL" /\ place # "HOLDS"
             \/ /\ op = "CLOSE"
                /\ \/ place = "CLOSING" /\ owed \subseteq {w}
                   \/ place = "DONE" /\ owed = {}
      PROVE  CallDrained(c)'
  BY <1>1, <1>2 DEF Reach, CallDrained, IInv, TypeOK
<1>3. ASSUME NEW d \in Calls, NEW s \in Sessions, Look(d, s) PROVE CallDrained(c)'
  <2>1. AwaitsOrHolds(s) # "ALL"
    BY DEF AwaitsOrHolds, IInv, TypeOK, Entry, Absence
  <2>2. QED BY <1>2, <1>3, <2>1 DEF Look
<1>4. ASSUME NEW d \in Calls, NEW s \in Sessions, Get(d, s) \/ GetAsync(d, s) PROVE CallDrained(c)'
  BY <1>2, <1>3, <1>4 DEF Get, GetAsync
<1>5. ASSUME NEW d \in Calls, NEW s \in Sessions, Close(d, s) PROVE CallDrained(c)'
  BY <1>2, <1>5, OwesItsWriter DEF Close
<1>6. ASSUME NEW d \in Calls, CloseAll(d) PROVE CallDrained(c)'
  BY <1>2, <1>6 DEF CloseAll, AwaitsAll
<1>7. ASSUME NEW d \in Calls, ResumeGet(d) PROVE CallDrained(c)'
  <2>1. CASE Advance(d, "THROWN")
    BY <1>2, <1>7, <2>1 DEF Advance, ResumeGet
  <2>2. QED BY <1>3, <1>7, <2>1 DEF ResumeGet, IInv, Custody, CallHasSession
<1>8. ASSUME NEW d \in Calls, Execute(d) PROVE CallDrained(c)'
  <2>1. call[d].op = "GET"
    BY <1>8 DEF Execute, DrainInv, AwaitsAsCalled
  <2>2. QED BY <1>2, <1>8, <2>1 DEF Execute, Advance
<1>9. ASSUME NEW d \in Calls, ResumeClose(d) PROVE CallDrained(c)'
  <2>1. CASE d # c
    BY <1>1, <1>9, <2>1 DEF ResumeClose, Advance, Reach, IInv, TypeOK
  <2>2. CASE d = c /\ Advance(c, "THROWN")
    BY <1>9, <2>2 DEF ResumeClose, Advance, Reach, CallDrained, IInv, TypeOK
  <2>3. CASE d = c /\ Fulfilled(c) /\ Advance(c, "DONE")
    <3>1. call[c].owed \subseteq {call[c].writer} /\ closing[call[c].writer] = "SETTLED"
      BY <1>0, <1>9, <2>3 DEF ResumeClose, Fulfilled, CallDrained
    <3>2. \A w \in call[c].owed : w \in Writers /\ stage[w] = "CLOSED"
      BY <1>0, <3>1 DEF DrainInv
    <3>3. call'[c] = [op |-> call[c].op, pc |-> "DONE", session |-> call[c].session,
                      writer |-> call[c].writer, owed |-> call[c].owed]
      BY <2>3 DEF Advance, Reach, IInv, TypeOK
    <3>4. UNCHANGED stage
      BY <1>9 DEF ResumeClose
    <3>5. QED BY <3>2, <3>3, <3>4 DEF CallDrained
  <2>4. QED BY <1>9, <2>1, <2>2, <2>3 DEF ResumeClose
<1>10. CASE EndRound
  <2>1. CASE call[c].pc = "ALL" /\ call'[c] = [call[c] EXCEPT !.pc = RoundOutcome]
    <3>1. call'[c].op = "CLOSE_ALL" /\ call'[c].pc \in {"THROWN", "DONE"}
      BY <1>0, <2>1 DEF CallDrained, RoundOutcome, IInv, TypeOK, Call
    <3>2. QED BY <3>1 DEF CallDrained
  <2>2. QED BY <1>1, <1>10, <2>1 DEF EndRound
<1>11. CASE UNCHANGED vars \/ \E w \in Writers : \/ FinishOpening(w) \/ FailOpening(w) \/ ForgetFailedOpening(w)
                                \/ RunCommand(w) \/ CloseOpened(w) \/ FinishDraining(w) \/ Settle(w)
  <2>1. UNCHANGED call
    BY <1>11 DEF vars, FinishOpening, FailOpening, ForgetFailedOpening, RunCommand, CloseOpened,
       FinishDraining, Settle
  <2>2. QED BY <1>1, <2>1
<1>12. QED
  BY <1>3, <1>4, <1>5, <1>6, <1>7, <1>8, <1>9, <1>10, <1>11 DEF Next, Continue

LEMMA DrainStep == IInv /\ DrainInv /\ [Next]_vars => DrainInv'
<1> SUFFICES ASSUME IInv, DrainInv, [Next]_vars PROVE DrainInv'
  OBVIOUS
<1>1. \A w \in Writers : /\ closing'[w] = "SETTLED" => stage'[w] = "CLOSED"
                         /\ stage'[w] = "CLOSED" => queued'[w] = 0
  BY ClosedIsDrained
<1>2. \A c \in Calls : CallDrained(c)'
  BY CallStaysDrained
<1>3. QED BY <1>1, <1>2 DEF DrainInv, AwaitsAsCalled, CallDrained

\* A close resolves only when every writer it found of its session has run all it
\* had admitted, whichever calls open, close and reopen the session meanwhile
\* (session-writer.ts:294-322).
THEOREM RegistryCloseDrains == Spec => []CloseDrains
<1>1. Init => DrainInv
  BY DEF Init, DrainInv, AwaitsAsCalled
<1>2. DrainInv /\ IInv => CloseDrains
  BY DrainGivesCloseDrains DEF IInv
<1>3. QED BY <1>1, <1>2, DrainStep, Inductive, PTL DEF Spec

-----------------------------------------------------------------------------
(* VisionEvidence. *)

Records == [request : Requests, status : {"ACTIVE", "SUPERSEDED", "STALE"}]
Places == {"IDLE", "RECOVER", "REQUEST", "SUBMIT", "BACKEND", "RESULT", "DISCARD", "BRIDGE"}
Bridges == {"NONE", "PENDING", "PROPOSED", "DECLINED", "COMMITTED", "REFUSED"}
Reqs == [status : {"NONE", "PENDING", "ACCEPTED", "DISCARDED"}, admittedAt : Nat,
         bridge : Bridges]
Shapings == [Shapes -> [rev : Nat, inside : BOOLEAN, there : BOOLEAN]]
Boards == [rev : Nat \ {0}, known : BOOLEAN, shape : Shapings]
Bases == [board : Nat, view : SUBSET (Shapes \X Nat)]

\* What the proof needs to know of the types.
Typing ==
  /\ board \in Boards
  /\ basis \in [Requests -> Bases]
  /\ req \in [Requests -> Reqs]
  /\ history \in Seq(Records)
  /\ pc \in [Requests -> Places]
  /\ admission \in [Requests -> Nat]
  /\ result \in [Requests -> {Unknown, "COMMITTED", "REFUSED"}]
  /\ processed \in [Requests -> {Unknown, "COMMITTED", "REFUSED"}]

\* An upload that is on its way has its picture.
HasPicture == \A r \in Requests :
  pc[r] # "IDLE" \/ req[r].status # "NONE" => basis[r] # NoBasis

\* Only an accepted request has a bridge, and only its record can be in force.
OnlyAccepted ==
  /\ \A r \in Requests : req[r].bridge # "NONE" => req[r].status = "ACCEPTED"
  /\ \A i \in DOMAIN history :
       history[i].status = "ACTIVE" => req[history[i].request].status = "ACCEPTED"

\* What was admitted at the present revision shows the present region.
AdmittedIsFresh == \A r \in Requests :
  /\ admission[r] <= board.rev
  /\ pc[r] = "RESULT" /\ admission[r] = board.rev => Fresh(r)
  /\ req[r].status = "ACCEPTED" =>
       /\ req[r].admittedAt <= board.rev
       /\ req[r].admittedAt = board.rev => Fresh(r)

VisionIInv == Typing /\ HasPicture /\ OnlyAccepted /\ AdmittedIsFresh /\ EvidenceInForceIsFresh

-----------------------------------------------------------------------------
\* Every region is a set of shapes with their revisions.
LEMMA ViewType == ASSUME NEW shape \in Shapings PROVE View(shape) \in SUBSET (Shapes \X Nat)
BY DEF View, Shapings

\* Every element of the history is a record of a request.
LEMMA RecordType ==
  ASSUME VisionIInv
  PROVE  \A i \in DOMAIN history : history[i].request \in Requests
<1>1. history \in Seq(Records)
  BY DEF VisionIInv, Typing
<1>2. \A i \in DOMAIN history : history[i] \in Records
  BY <1>1
<1>3. QED BY <1>2 DEF Records

LEMMA VisionInitInductive == VisionInit => VisionIInv
<1> SUFFICES ASSUME VisionInit PROVE VisionIInv
  OBVIOUS
<1>1. board \in Boards
  <2>1. [s \in Shapes |-> [rev |-> 1, inside |-> s \in Inside, there |-> TRUE]] \in Shapings
    BY DEF Shapings
  <2>2. QED BY <2>1 DEF VisionInit, Boards
<1>2. basis \in [Requests -> Bases] /\ req \in [Requests -> Reqs]
  BY DEF VisionInit, Bases, NoBasis, Reqs, Bridges, Request
<1>3. Typing
  BY <1>1, <1>2 DEF VisionInit, Typing, Places
<1>4. HasPicture /\ OnlyAccepted
  BY DEF VisionInit, HasPicture, OnlyAccepted, Request
<1>5. AdmittedIsFresh /\ EvidenceInForceIsFresh
  BY <1>1 DEF VisionInit, AdmittedIsFresh, EvidenceInForceIsFresh, Request, Boards
<1>6. QED BY <1>3, <1>4, <1>5 DEF VisionIInv

\* A step that leaves the board, the pictures, the requests and the history as
\* they are, and moves uploads to places without a claim of their own.
LEMMA MoveInductive ==
  ASSUME VisionIInv, UNCHANGED <<board, basis, req, history, admission>>,
         pc' \in [Requests -> Places],
         \A r \in Requests : pc'[r] # pc[r] => pc'[r] # "RESULT" /\ (pc'[r] = "IDLE" \/ pc[r] # "IDLE"),
         result' \in [Requests -> {Unknown, "COMMITTED", "REFUSED"}],
         processed' \in [Requests -> {Unknown, "COMMITTED", "REFUSED"}]
  PROVE  VisionIInv'
<1>1. Typing'
  BY DEF VisionIInv, Typing
<1>2. \A r \in Requests : Fresh(r)' <=> Fresh(r)
  BY DEF Fresh, RemainsFresh, View
<1>3. HasPicture' /\ OnlyAccepted'
  BY DEF VisionIInv, HasPicture, OnlyAccepted
<1>4. AdmittedIsFresh'
  BY <1>2 DEF VisionIInv, AdmittedIsFresh
<1>5. EvidenceInForceIsFresh'
  BY DEF VisionIInv, EvidenceInForceIsFresh, Fresh, RemainsFresh, View
<1>6. QED BY <1>1, <1>3, <1>4, <1>5 DEF VisionIInv

\* A step that changes one request, from pending on, but not to an accepted one.
LEMMA RequestInductive ==
  ASSUME VisionIInv, NEW r \in Requests, NEW q \in Reqs,
         req' = [req EXCEPT ![r] = q],
         \/ q.status # "ACCEPTED" /\ req[r].status # "ACCEPTED" /\ q.bridge = "NONE"
         \/ q.status = "ACCEPTED" /\ req[r].status = "ACCEPTED"
            /\ q.admittedAt = req[r].admittedAt
         \/ q.status = "ACCEPTED" /\ q.admittedAt = board.rev /\ Fresh(r),
         pc[r] # "IDLE" \/ req[r].status # "NONE",
         pc' \in [Requests -> Places],
         \A s \in Requests : pc'[s] # pc[s] => pc'[s] # "RESULT" /\ (pc'[s] = "IDLE" \/ pc[s] # "IDLE"),
         result' \in [Requests -> {Unknown, "COMMITTED", "REFUSED"}],
         UNCHANGED <<board, basis, history, admission, processed>>
  PROVE  VisionIInv'
<1>1. Typing'
  BY DEF VisionIInv, Typing
<1>2. \A s \in Requests : Fresh(s)' <=> Fresh(s)
  BY DEF Fresh, RemainsFresh, View
<1>3. \A s \in Requests : s # r => req'[s] = req[s]
  BY DEF VisionIInv, Typing
<1>4. req'[r] = q
  BY DEF VisionIInv, Typing
<1>5. HasPicture'
  BY <1>3, <1>4 DEF VisionIInv, HasPicture
<1>6. OnlyAccepted'
  <2>1. \A s \in Requests : req[s].status = "ACCEPTED" => req'[s].status = "ACCEPTED"
    BY <1>3, <1>4
  <2>2. \A i \in DOMAIN history : history[i].request \in Requests
    BY RecordType
  <2>3. QED BY <1>3, <1>4, <2>1, <2>2 DEF VisionIInv, OnlyAccepted
<1>7. AdmittedIsFresh'
  <2>1. board.rev \in Nat
    BY DEF VisionIInv, Typing, Boards
  <2>2. ASSUME NEW s \in Requests
        PROVE  /\ req'[s].status = "ACCEPTED" =>
                    /\ req'[s].admittedAt <= board.rev
                    /\ req'[s].admittedAt = board.rev => Fresh(s)
    BY <1>3, <1>4, <2>1 DEF VisionIInv, AdmittedIsFresh
  <2>3. QED BY <1>2, <2>2 DEF VisionIInv, AdmittedIsFresh
<1>8. EvidenceInForceIsFresh'
  BY DEF VisionIInv, EvidenceInForceIsFresh, Fresh, RemainsFresh, View
<1>9. QED BY <1>1, <1>5, <1>6, <1>7, <1>8 DEF VisionIInv

-----------------------------------------------------------------------------
\* The commands that advance the board withdraw what is stale on the new one.
LEMMA BoardInductive ==
  ASSUME VisionIInv, NEW known \in BOOLEAN, NEW shape \in Shapings,
         board' = [rev |-> board.rev + 1, known |-> known, shape |-> shape],
         history' = Invalidated(known, shape),
         UNCHANGED <<basis, req, pc, admission, result, processed>>
  PROVE  VisionIInv'
<1>1. board.rev \in Nat \ {0} /\ history \in Seq(Records)
  BY DEF VisionIInv, Typing, Boards
<1>2. DOMAIN history = 1..Len(history) /\ Len(history) \in Nat
  BY <1>1
<1>3. ASSUME NEW i \in DOMAIN history
      PROVE  /\ Invalidated(known, shape)[i] \in Records
             /\ Invalidated(known, shape)[i].request = history[i].request
             /\ Invalidated(known, shape)[i].status = "ACTIVE" =>
                  history[i].status = "ACTIVE" /\ ~Stale(history[i].request, known, shape)
  <2>1. history[i] \in Records
    BY <1>1
  <2>2. QED BY <2>1 DEF Invalidated, Records
<1>4. DOMAIN history' = DOMAIN history /\ history' \in Seq(Records)
  BY <1>2, <1>3 DEF Invalidated
<1>5. board' \in Boards /\ board'.rev = board.rev + 1 /\ board'.known = known /\ board'.shape = shape
  BY <1>1 DEF Boards
<1>6. Typing'
  BY <1>4, <1>5 DEF VisionIInv, Typing
<1>7. HasPicture' /\ OnlyAccepted'
  BY <1>3, <1>4 DEF VisionIInv, HasPicture, OnlyAccepted
<1>8. AdmittedIsFresh'
  <2>1. \A r \in Requests : admission[r] \in Nat /\ req[r].admittedAt \in Nat
    BY DEF VisionIInv, Typing, Reqs
  <2>2. QED BY <1>1, <1>5, <2>1 DEF VisionIInv, AdmittedIsFresh
<1>9. EvidenceInForceIsFresh'
  <2>1. ASSUME NEW i \in DOMAIN history', history'[i].status = "ACTIVE"
        PROVE  /\ board'.known
               /\ basis'[history'[i].request].view = View(board'.shape)
    <3> DEFINE r == history[i].request
    <3>1. /\ history'[i].request = r /\ history[i].status = "ACTIVE" /\ ~Stale(r, known, shape)
      BY <1>3, <1>4, <2>1
    <3>2. req[r].status = "ACCEPTED"
      BY <1>4, <3>1 DEF VisionIInv, OnlyAccepted
    <3>3. known /\ RemainsFresh(r, shape)
      BY <3>1, <3>2 DEF Stale
    <3>4. QED BY <1>5, <3>1, <3>3 DEF RemainsFresh
  <2>2. QED BY <2>1 DEF EvidenceInForceIsFresh, Fresh, RemainsFresh, View
<1>10. QED BY <1>6, <1>7, <1>8, <1>9 DEF VisionIInv

LEMMA CommitBoardMutationInductive ==
  ASSUME VisionIInv, NEW edit \in Edits, CommitBoardMutation(edit[1], edit[2])
  PROVE  VisionIInv'
<1> DEFINE s == edit[1]
           shape == [board.shape EXCEPT ![s] = Edited(@, edit[2])]
<1>1. s \in Shapes /\ edit[2] \in {"EDIT", "MOVE", "DELETE", "UNDO"}
  BY EditsAssumption
<1>2. board.shape \in Shapings
  BY DEF VisionIInv, Typing, Boards
<1>3. Edited(board.shape[s], edit[2]) \in [rev : Nat, inside : BOOLEAN, there : BOOLEAN]
  <2>1. board.shape[s] \in [rev : Nat, inside : BOOLEAN, there : BOOLEAN]
    BY <1>1, <1>2 DEF Shapings
  <2>2. CASE edit[2] = "EDIT"
    BY <2>1, <2>2 DEF Edited
  <2>3. CASE edit[2] = "MOVE"
    <3>1. Edited(board.shape[s], edit[2])
            = [board.shape[s] EXCEPT !.rev = @ + 1, !.inside = ~@]
      BY <2>3 DEF Edited
    <3>2. board.shape[s].rev + 1 \in Nat /\ (~board.shape[s].inside) \in BOOLEAN
      BY <2>1
    <3>3. ASSUME NEW b \in [rev : Nat, inside : BOOLEAN, there : BOOLEAN], NEW n \in Nat,
                 NEW c \in BOOLEAN
          PROVE  [b EXCEPT !.rev = n, !.inside = c]
                   \in [rev : Nat, inside : BOOLEAN, there : BOOLEAN]
      OBVIOUS
    <3>4. [board.shape[s] EXCEPT !.rev = @ + 1, !.inside = ~@]
            \in [rev : Nat, inside : BOOLEAN, there : BOOLEAN]
      BY <2>1, <3>2, <3>3, Zenon
    <3>5. QED BY <3>1, <3>4, Zenon
  <2>4. CASE edit[2] \in {"DELETE", "UNDO"}
    BY <2>1, <2>4 DEF Edited
  <2>5. QED BY <1>1, <2>2, <2>3, <2>4
<1>4. shape \in Shapings
  BY <1>1, <1>2, <1>3 DEF Shapings
<1>5. QED BY <1>4, BoardInductive DEF CommitBoardMutation, volatile

LEMMA CommitSummaryPatchInductive ==
  ASSUME VisionIInv, CommitSummaryPatch
  PROVE  VisionIInv'
<1>1. board \in Boards
  BY DEF VisionIInv, Typing
<1>2. board' = [rev |-> board.rev + 1, known |-> FALSE, shape |-> board.shape]
      /\ board.shape \in Shapings
  BY <1>1 DEF CommitSummaryPatch, Boards
<1>3. QED BY <1>2, BoardInductive DEF CommitSummaryPatch, volatile

\* An upload that begins has a picture of the board as it is.
LEMMA UploadInductive ==
  ASSUME VisionIInv, NEW r \in Requests, Upload(r)
  PROVE  VisionIInv'
<1> DEFINE b == [board |-> board.rev, view |-> View(board.shape)]
<1>1. board \in Boards
  BY DEF VisionIInv, Typing
<1>2. b \in Bases /\ b # NoBasis
  BY <1>1, ViewType DEF Boards, Bases, NoBasis
<1>3. /\ basis' \in [Requests -> Bases]
      /\ basis'[r] # NoBasis
      /\ \A s \in Requests : basis[s] # NoBasis => basis'[s] = basis[s]
  BY <1>2 DEF Upload, VisionIInv, Typing
<1>4. /\ pc' \in [Requests -> Places]
      /\ \A s \in Requests : pc'[s] = pc[s] \/ (s = r /\ pc'[s] = "RECOVER")
  <2>1. pc \in [Requests -> Places]
    BY DEF VisionIInv, Typing
  <2>2. Goto(r, "RECOVER") \/ pc' = pc
    BY DEF Upload, Begin
  <2>3. CASE pc' = pc
    BY <2>1, <2>3
  <2>4. CASE pc' = [pc EXCEPT ![r] = "RECOVER"]
    BY <2>1, <2>4 DEF Places
  <2>5. QED BY <2>2, <2>3, <2>4 DEF Goto
<1>5. UNCHANGED <<board, req, history, admission, result, processed>>
  BY DEF Upload, durable
<1>6. Typing'
  BY <1>3, <1>4, <1>5 DEF VisionIInv, Typing
<1>7. \A s \in Requests : basis[s] # NoBasis => (Fresh(s)' <=> Fresh(s))
  BY <1>3, <1>5 DEF Fresh, RemainsFresh, View
<1>8. HasPicture' /\ OnlyAccepted'
  BY <1>3, <1>4, <1>5 DEF VisionIInv, HasPicture, OnlyAccepted
<1>9. AdmittedIsFresh'
  BY <1>4, <1>5, <1>7 DEF VisionIInv, AdmittedIsFresh, HasPicture
<1>10. EvidenceInForceIsFresh'
  <2>1. \A i \in DOMAIN history : history[i].request \in Requests
    BY RecordType
  <2>2. QED BY <1>5, <1>7, <2>1 DEF VisionIInv, EvidenceInForceIsFresh, OnlyAccepted, HasPicture
<1>11. QED BY <1>6, <1>8, <1>9, <1>10 DEF VisionIInv

\* A place an upload that is on its way moves to.
LEMMA GotoMoves ==
  ASSUME VisionIInv, NEW r \in Requests, NEW place \in Places \ {"RESULT"}, pc[r] # "IDLE",
         Goto(r, place)
  PROVE  /\ pc' \in [Requests -> Places]
         /\ \A s \in Requests :
              pc'[s] # pc[s] => pc'[s] # "RESULT" /\ (pc'[s] = "IDLE" \/ pc[s] # "IDLE")
BY DEF Goto, VisionIInv, Typing

LEMMA AnswerMoves ==
  ASSUME VisionIInv, NEW r \in Requests, NEW answer, Answer(r, answer)
  PROVE  /\ pc' \in [Requests -> Places]
         /\ \A s \in Requests :
              pc'[s] # pc[s] => pc'[s] # "RESULT" /\ (pc'[s] = "IDLE" \/ pc[s] # "IDLE")
BY DEF Answer, Goto, VisionIInv, Typing, Places

\* The steps of an upload that neither change its request nor end at a result.
LEMMA UploadMovesInductive ==
  ASSUME VisionIInv, NEW r \in Requests, Read(r) \/ Submit(r) \/ Timeout(r)
  PROVE  VisionIInv'
<1>1. UNCHANGED <<board, basis, req, history, admission, result, processed>>
  BY DEF Read, Submit, Timeout, Settled, durable
<1>2. pc[r] # "IDLE"
  BY DEF Read, Submit, Timeout, Settled
<1>3. (\E place \in Places \ {"RESULT"} : Goto(r, place)) \/ Answer(r, "REJECTED")
  BY DEF Read, Submit, Timeout, Settled, Places
<1>4. /\ pc' \in [Requests -> Places]
      /\ \A s \in Requests :
           pc'[s] # pc[s] => pc'[s] # "RESULT" /\ (pc'[s] = "IDLE" \/ pc[s] # "IDLE")
  BY <1>2, <1>3, GotoMoves, AnswerMoves
<1>5. result' \in [Requests -> {Unknown, "COMMITTED", "REFUSED"}]
      /\ processed' \in [Requests -> {Unknown, "COMMITTED", "REFUSED"}]
  BY <1>1 DEF VisionIInv, Typing
<1>6. QED BY <1>1, <1>4, <1>5, MoveInductive

LEMMA DiscardInductive ==
  ASSUME VisionIInv, NEW r \in Requests, Discard(r)
  PROVE  VisionIInv'
<1>1. UNCHANGED <<board, basis, history, admission, result, processed>> /\ pc[r] # "IDLE"
  BY DEF Discard
<1>2. /\ pc' \in [Requests -> Places]
      /\ \A s \in Requests :
           pc'[s] # pc[s] => pc'[s] # "RESULT" /\ (pc'[s] = "IDLE" \/ pc[s] # "IDLE")
  BY AnswerMoves DEF Discard
<1>3. result' \in [Requests -> {Unknown, "COMMITTED", "REFUSED"}]
      /\ processed' \in [Requests -> {Unknown, "COMMITTED", "REFUSED"}]
  BY <1>1 DEF VisionIInv, Typing
<1>4. CASE req[r].status = "PENDING"
  <2> DEFINE q == [req[r] EXCEPT !.status = "DISCARDED"]
  <2>1. req[r] \in Reqs /\ req[r].bridge = "NONE"
    BY <1>4 DEF VisionIInv, Typing, OnlyAccepted
  <2>2. q \in Reqs /\ q.status = "DISCARDED" /\ q.bridge = "NONE"
    BY <2>1 DEF Reqs
  <2>3. req' = [req EXCEPT ![r] = q]
    BY <1>4 DEF Discard
  <2>4. QED BY <1>1, <1>2, <1>3, <1>4, <2>2, <2>3, RequestInductive
<1>5. CASE req[r].status # "PENDING"
  BY <1>1, <1>2, <1>3, <1>5, MoveInductive DEF Discard
<1>6. QED BY <1>4, <1>5

LEMMA RequestVisionInductive ==
  ASSUME VisionIInv, NEW r \in Requests, RequestVision(r)
  PROVE  VisionIInv'
<1>1. UNCHANGED <<board, basis, history, admission, result, processed>> /\ pc[r] # "IDLE"
  BY DEF RequestVision
<1>2. (\E place \in Places \ {"RESULT"} : Goto(r, place)) \/ Answer(r, "REJECTED")
  BY DEF RequestVision, Places
<1>3. /\ pc' \in [Requests -> Places]
      /\ \A s \in Requests :
           pc'[s] # pc[s] => pc'[s] # "RESULT" /\ (pc'[s] = "IDLE" \/ pc[s] # "IDLE")
  BY <1>1, <1>2, GotoMoves, AnswerMoves
<1>4. result' \in [Requests -> {Unknown, "COMMITTED", "REFUSED"}]
      /\ processed' \in [Requests -> {Unknown, "COMMITTED", "REFUSED"}]
  BY <1>1 DEF VisionIInv, Typing
<1>5. CASE UNCHANGED req
  BY <1>1, <1>3, <1>4, <1>5, MoveInductive
<1>6. CASE req[r].status = "NONE" /\ req' = [req EXCEPT ![r].status = "PENDING"]
  <2> DEFINE q == [req[r] EXCEPT !.status = "PENDING"]
  <2>1. req[r] \in Reqs /\ req[r].bridge = "NONE"
    BY <1>6 DEF VisionIInv, Typing, OnlyAccepted
  <2>2. q \in Reqs /\ q.status = "PENDING" /\ q.bridge = "NONE"
    BY <2>1 DEF Reqs
  <2>3. req' = [req EXCEPT ![r] = q]
    BY <1>6
  <2>4. QED BY <1>1, <1>3, <1>4, <1>6, <2>2, <2>3, RequestInductive
<1>7. QED BY <1>5, <1>6 DEF RequestVision

\* The manager admits a result against the region of that moment.
LEMMA BackendSettlesInductive ==
  ASSUME VisionIInv, NEW r \in Requests, NEW wellFormed \in BOOLEAN, BackendSettles(r, wellFormed)
  PROVE  VisionIInv'
<1>1. UNCHANGED <<board, basis, req, history, result, processed>>
  BY DEF BackendSettles, durable
<1>2. result' \in [Requests -> {Unknown, "COMMITTED", "REFUSED"}]
      /\ processed' \in [Requests -> {Unknown, "COMMITTED", "REFUSED"}]
  BY <1>1 DEF VisionIInv, Typing
<1>3. CASE UNCHANGED <<pc, admission>>
  BY <1>1, <1>2, <1>3, MoveInductive DEF VisionIInv, Typing
<1>4. CASE pc[r] = "BACKEND" /\ Goto(r, "DISCARD") /\ UNCHANGED admission
  <2>1. /\ pc' \in [Requests -> Places]
        /\ \A s \in Requests :
             pc'[s] # pc[s] => pc'[s] # "RESULT" /\ (pc'[s] = "IDLE" \/ pc[s] # "IDLE")
    BY <1>4, GotoMoves DEF Places
  <2>2. QED BY <1>1, <1>2, <1>4, <2>1, MoveInductive
<1>5. CASE /\ pc[r] = "BACKEND" /\ Fresh(r)
           /\ Goto(r, "RESULT") /\ admission' = [admission EXCEPT ![r] = board.rev]
  <2>1. board.rev \in Nat
    BY DEF VisionIInv, Typing, Boards
  <2>2. /\ pc' \in [Requests -> Places] /\ admission' \in [Requests -> Nat]
        /\ admission'[r] = board.rev
        /\ \A s \in Requests : s # r => pc'[s] = pc[s] /\ admission'[s] = admission[s]
    BY <1>5, <2>1 DEF Goto, VisionIInv, Typing, Places
  <2>3. Typing'
    BY <1>1, <2>2 DEF VisionIInv, Typing
  <2>4. \A s \in Requests : Fresh(s)' <=> Fresh(s)
    BY <1>1 DEF Fresh, RemainsFresh, View
  <2>5. HasPicture' /\ OnlyAccepted'
    BY <1>1, <1>5, <2>2 DEF VisionIInv, HasPicture, OnlyAccepted
  <2>6. AdmittedIsFresh'
    BY <1>1, <1>5, <2>1, <2>2, <2>4 DEF VisionIInv, AdmittedIsFresh
  <2>7. EvidenceInForceIsFresh'
    BY <1>1 DEF VisionIInv, EvidenceInForceIsFresh, Fresh, RemainsFresh, View
  <2>8. QED BY <2>3, <2>5, <2>6, <2>7 DEF VisionIInv
<1>6. QED BY <1>3, <1>4, <1>5 DEF BackendSettles

\* processVisionResult accepts at the revision of the admission only.
LEMMA ProcessVisionResultInductive ==
  ASSUME VisionIInv, NEW r \in Requests, ProcessVisionResult(r)
  PROVE  VisionIInv'
<1>1. UNCHANGED <<board, basis, history, admission, result, processed>> /\ pc[r] = "RESULT"
  BY DEF ProcessVisionResult
<1>2. Goto(r, "BRIDGE") \/ Answer(r, "REJECTED")
  BY DEF ProcessVisionResult
<1>3. /\ pc' \in [Requests -> Places]
      /\ \A s \in Requests :
           pc'[s] # pc[s] => pc'[s] # "RESULT" /\ (pc'[s] = "IDLE" \/ pc[s] # "IDLE")
  BY <1>1, <1>2, GotoMoves, AnswerMoves DEF Places
<1>4. result' \in [Requests -> {Unknown, "COMMITTED", "REFUSED"}]
      /\ processed' \in [Requests -> {Unknown, "COMMITTED", "REFUSED"}]
  BY <1>1 DEF VisionIInv, Typing
<1>5. CASE UNCHANGED req
  BY <1>1, <1>3, <1>4, <1>5, MoveInductive
<1>6. CASE /\ req[r].status = "PENDING" /\ AdmittedNow(r)
           /\ req' = [req EXCEPT ![r] = Request("ACCEPTED", admission[r], "PENDING")]
  <2> DEFINE q == Request("ACCEPTED", admission[r], "PENDING")
  <2>1. admission[r] \in Nat /\ admission[r] = board.rev
    BY <1>6 DEF AdmittedNow, VisionIInv, Typing
  <2>2. q \in Reqs /\ q.status = "ACCEPTED" /\ q.admittedAt = board.rev
    BY <2>1 DEF Request, Reqs, Bridges
  <2>3. Fresh(r)
    BY <1>1, <2>1 DEF VisionIInv, AdmittedIsFresh
  <2> HIDE DEF q
  <2>4. req' = [req EXCEPT ![r] = q]
    BY <1>6 DEF q
  <2>5. QED BY <1>1, <1>3, <1>4, <2>2, <2>3, <2>4, RequestInductive
<1>7. CASE req[r].status = "PENDING" /\ req' = [req EXCEPT ![r].status = "DISCARDED"]
  <2> DEFINE q == [req[r] EXCEPT !.status = "DISCARDED"]
  <2>1. req[r] \in Reqs /\ req[r].bridge = "NONE"
    BY <1>7 DEF VisionIInv, Typing, OnlyAccepted
  <2>2. q \in Reqs /\ q.status = "DISCARDED" /\ q.bridge = "NONE"
    BY <2>1 DEF Reqs
  <2>3. req' = [req EXCEPT ![r] = q]
    BY <1>7
  <2>4. QED BY <1>1, <1>3, <1>4, <1>7, <2>2, <2>3, RequestInductive
<1>8. QED BY <1>5, <1>6, <1>7 DEF ProcessVisionResult

-----------------------------------------------------------------------------
\* The bridge.
LEMMA CrossedMoves ==
  ASSUME VisionIInv, NEW r \in Requests, Crossed(r)
  PROVE  /\ pc' \in [Requests -> Places]
         /\ \A s \in Requests :
              pc'[s] # pc[s] => pc'[s] # "RESULT" /\ (pc'[s] = "IDLE" \/ pc[s] # "IDLE")
<1>1. CASE Answer(r, "ACCEPTED")
  BY <1>1, AnswerMoves
<1>2. CASE UNCHANGED pc
  BY <1>2 DEF VisionIInv, Typing
<1>3. QED BY <1>1, <1>2 DEF Crossed

\* A decision and a completion change the bridge of an accepted request only.
LEMMA BridgeRecordInductive ==
  ASSUME VisionIInv, NEW r \in Requests, NEW bridge \in {"PROPOSED", "DECLINED", "COMMITTED", "REFUSED"},
         req[r].bridge \in {"PENDING", "PROPOSED"},
         req' = [req EXCEPT ![r].bridge = bridge],
         UNCHANGED <<board, basis, history, admission, processed>>,
         pc' \in [Requests -> Places],
         \A s \in Requests : pc'[s] # pc[s] => pc'[s] # "RESULT" /\ (pc'[s] = "IDLE" \/ pc[s] # "IDLE"),
         result' \in [Requests -> {Unknown, "COMMITTED", "REFUSED"}]
  PROVE  VisionIInv'
<1> DEFINE q == [req[r] EXCEPT !.bridge = bridge]
<1>1. req[r] \in Reqs /\ req[r].status = "ACCEPTED"
  BY DEF VisionIInv, Typing, OnlyAccepted
<1>2. q \in Reqs /\ q.status = "ACCEPTED" /\ q.admittedAt = req[r].admittedAt
  BY <1>1 DEF Reqs, Bridges
<1>3. req' = [req EXCEPT ![r] = q]
  OBVIOUS
<1>4. QED BY <1>1, <1>2, <1>3, RequestInductive

\* What is committed as evidence was admitted at the revision the board is at.
LEMMA ProposalInductive ==
  ASSUME VisionIInv, NEW r \in Requests, NEW allowed \in BOOLEAN, ProcessEvidenceProposal(r, allowed)
  PROVE  VisionIInv'
<1>1. UNCHANGED <<board, basis, req, pc, admission>>
  BY DEF ProcessEvidenceProposal
<1>2. result' \in [Requests -> {Unknown, "COMMITTED", "REFUSED"}]
      /\ processed' \in [Requests -> {Unknown, "COMMITTED", "REFUSED"}]
  BY DEF ProcessEvidenceProposal, VisionIInv, Typing
<1>3. CASE UNCHANGED history
  BY <1>1, <1>2, <1>3, MoveInductive DEF VisionIInv, Typing
<1>4. CASE BoardUnchanged(r) /\ history' = Updated(r)
  <2>1. req[r].status = "ACCEPTED"
    BY DEF ProcessEvidenceProposal, VisionIInv, OnlyAccepted
  <2>2. Fresh(r)
    BY <1>4, <2>1 DEF BoardUnchanged, VisionIInv, AdmittedIsFresh
  <2>3. history \in Seq(Records)
    BY DEF VisionIInv, Typing
  <2>4. ASSUME NEW i \in DOMAIN history
        PROVE  Superseded[i] \in Records /\ Superseded[i].status # "ACTIVE"
    <3>1. history[i] \in Records
      BY <2>3
    <3>2. QED BY <3>1 DEF Superseded, Records
  <2>5. DOMAIN history = 1..Len(history) /\ Len(history) \in Nat
    BY <2>3
  <2>6. Superseded \in Seq(Records) /\ DOMAIN Superseded = DOMAIN history
    BY <2>4, <2>5 DEF Superseded
  <2>7. [request |-> r, status |-> "ACTIVE"] \in Records
    BY DEF Records
  <2>8. /\ history' \in Seq(Records)
        /\ \A i \in DOMAIN history' : history'[i].status = "ACTIVE" => history'[i].request = r
    BY <1>4, <2>4, <2>6, <2>7 DEF Updated
  <2>9. Typing'
    BY <1>1, <1>2, <2>8 DEF VisionIInv, Typing
  <2>10. \A s \in Requests : Fresh(s)' <=> Fresh(s)
    BY <1>1 DEF Fresh, RemainsFresh, View
  <2>11. HasPicture' /\ OnlyAccepted'
    BY <1>1, <2>1, <2>8 DEF VisionIInv, HasPicture, OnlyAccepted
  <2>12. AdmittedIsFresh'
    BY <1>1, <2>10 DEF VisionIInv, AdmittedIsFresh
  <2>13. EvidenceInForceIsFresh'
    BY <2>2, <2>8, <2>10 DEF EvidenceInForceIsFresh
  <2>14. QED BY <2>9, <2>11, <2>12, <2>13 DEF VisionIInv
<1>5. QED BY <1>3, <1>4 DEF ProcessEvidenceProposal

LEMMA BridgeInductive ==
  ASSUME VisionIInv, NEW r \in Requests, Bridge(r)
  PROVE  VisionIInv'
<1>1. ASSUME NEW bridge \in {"PROPOSED", "DECLINED"}, Decide(r, bridge)
      PROVE  VisionIInv'
  BY <1>1, BridgeRecordInductive DEF Decide, volatile, VisionIInv, Typing
<1>2. ASSUME NEW allowed \in BOOLEAN, ProcessEvidenceProposal(r, allowed)
      PROVE  VisionIInv'
  BY <1>2, ProposalInductive
<1>3. CASE RecordCompletion(r)
  <2>1. result[r] \in {"COMMITTED", "REFUSED"}
    BY <1>3 DEF RecordCompletion, VisionIInv, Typing
  <2>2. result' \in [Requests -> {Unknown, "COMMITTED", "REFUSED"}]
    BY <1>3 DEF RecordCompletion, VisionIInv, Typing
  <2>3. QED BY <1>3, <2>1, <2>2, CrossedMoves, BridgeRecordInductive DEF RecordCompletion
<1>4. CASE NothingLeft(r)
  <2>1. UNCHANGED <<board, basis, req, history, admission, result, processed>>
    BY <1>4 DEF NothingLeft, durable
  <2>2. result' \in [Requests -> {Unknown, "COMMITTED", "REFUSED"}]
        /\ processed' \in [Requests -> {Unknown, "COMMITTED", "REFUSED"}]
    BY <2>1 DEF VisionIInv, Typing
  <2>3. QED BY <1>4, <2>1, <2>2, CrossedMoves, MoveInductive DEF NothingLeft
<1>5. QED BY <1>1, <1>2, <1>3, <1>4 DEF Bridge

LEMMA CrashInductive ==
  ASSUME VisionIInv, Crash
  PROVE  VisionIInv'
<1>1. UNCHANGED <<board, basis, req, history, processed>>
  BY DEF Crash, durable
<1>2. Typing'
  BY <1>1 DEF Crash, VisionIInv, Typing, Places
<1>3. \A s \in Requests : Fresh(s)' <=> Fresh(s)
  BY <1>1 DEF Fresh, RemainsFresh, View
<1>4. HasPicture' /\ OnlyAccepted'
  BY <1>1 DEF Crash, VisionIInv, HasPicture, OnlyAccepted
<1>5. AdmittedIsFresh'
  <2>1. board.rev \in Nat
    BY DEF VisionIInv, Typing, Boards
  <2>2. QED BY <1>1, <1>3, <2>1 DEF Crash, VisionIInv, AdmittedIsFresh
<1>6. EvidenceInForceIsFresh'
  BY <1>1 DEF VisionIInv, EvidenceInForceIsFresh, Fresh, RemainsFresh, View
<1>7. QED BY <1>2, <1>4, <1>5, <1>6 DEF VisionIInv

LEMMA NextInductive == VisionIInv /\ [VisionNext]_visionVars => VisionIInv'
<1> SUFFICES ASSUME VisionIInv, [VisionNext]_visionVars PROVE VisionIInv'
  OBVIOUS
<1>1. CASE UNCHANGED <<board, basis, req, history, pc, admission, result, processed>>
  BY <1>1, MoveInductive DEF VisionIInv, Typing
<1>2. ASSUME NEW edit \in Edits, CommitBoardMutation(edit[1], edit[2])
      PROVE  VisionIInv'
  BY <1>2, CommitBoardMutationInductive
<1>3. CASE CommitSummaryPatch
  BY <1>3, CommitSummaryPatchInductive
<1>4. CASE CompleteSession \/ StartRecovery
  BY <1>1, <1>4 DEF CompleteSession, StartRecovery, volatile, durable
<1>5. ASSUME NEW r \in Requests, Upload(r)
      PROVE  VisionIInv'
  BY <1>5, UploadInductive
<1>6. ASSUME NEW r \in Requests, Process(r)
      PROVE  VisionIInv'
  <2>1. CASE EnsureRecovered(r)
    BY <1>4, <2>1 DEF EnsureRecovered
  <2>2. CASE Read(r) \/ Submit(r) \/ Timeout(r)
    BY <2>2, UploadMovesInductive
  <2>3. CASE Discard(r)
    BY <2>3, DiscardInductive
  <2>4. CASE RequestVision(r)
    BY <2>4, RequestVisionInductive
  <2>5. CASE ProcessVisionResult(r)
    BY <2>5, ProcessVisionResultInductive
  <2>6. CASE Bridge(r)
    BY <2>6, BridgeInductive
  <2>7. QED BY <1>6, <2>1, <2>2, <2>3, <2>4, <2>5, <2>6 DEF Process
<1>7. ASSUME NEW r \in Requests, Supersede(r)
      PROVE  VisionIInv'
  BY <1>7, UploadMovesInductive DEF Supersede, Timeout
<1>8. ASSUME NEW r \in Requests, NEW wellFormed \in BOOLEAN, BackendSettles(r, wellFormed)
      PROVE  VisionIInv'
  BY <1>8, BackendSettlesInductive
<1>9. CASE Crash
  BY <1>9, CrashInductive
<1>10. CASE UNCHANGED visionVars
  BY <1>1, <1>10 DEF visionVars, durable, volatile
<1>11. QED BY <1>2, <1>3, <1>4, <1>5, <1>6, <1>7, <1>8, <1>9, <1>10 DEF VisionNext

\* Evidence in force shows the region as the board has it: the admission, the
\* required revision of the proposal and the withdrawal on every change of the
\* board leave no gap between them, for any number of uploads and edits.
THEOREM EvidenceStaysFresh == VisionSpec => []EvidenceInForceIsFresh
<1>1. VisionIInv => EvidenceInForceIsFresh
  BY DEF VisionIInv
<1>2. QED BY VisionInitInductive, NextInductive, <1>1, PTL DEF VisionSpec

-----------------------------------------------------------------------------
\* A backend that runs holds a reservation, and there are only so many.
SlotsInv ==
  /\ running \subseteq slots
  /\ IsFiniteSet(slots)
  /\ Cardinality(slots) <= MaxInFlight

LEMMA SlotsShrink ==
  ASSUME SlotsInv, slots' \subseteq slots, running' \subseteq slots'
  PROVE  SlotsInv'
<1>1. IsFiniteSet(slots') /\ Cardinality(slots') <= Cardinality(slots)
  BY FS_Subset DEF SlotsInv
<1>2. Cardinality(slots') \in Nat /\ Cardinality(slots) \in Nat
  BY <1>1, FS_CardinalityType DEF SlotsInv
<1>3. QED BY <1>1, <1>2, BoundsAssumption DEF SlotsInv

LEMMA SlotsInductive == SlotsInv /\ [VisionNext]_visionVars => SlotsInv'
<1> SUFFICES ASSUME SlotsInv, [VisionNext]_visionVars PROVE SlotsInv'
  OBVIOUS
<1>1. CASE UNCHANGED <<slots, running>>
  BY <1>1 DEF SlotsInv
<1>2. ASSUME NEW r \in Requests, Submit(r)
      PROVE  SlotsInv'
  <2>1. CASE UNCHANGED <<slots, running>>
    BY <1>1, <2>1
  <2>2. CASE /\ Cardinality(slots) < MaxInFlight
             /\ slots' = slots \cup {r} /\ running' = running \cup {r}
    <3>1. /\ IsFiniteSet(slots')
          /\ Cardinality(slots') = IF r \in slots THEN Cardinality(slots) ELSE Cardinality(slots) + 1
      BY <2>2, FS_AddElement DEF SlotsInv
    <3>2. Cardinality(slots) \in Nat
      BY FS_CardinalityType DEF SlotsInv
    <3>3. QED BY <2>2, <3>1, <3>2, BoundsAssumption DEF SlotsInv
  <2>3. QED BY <1>2, <2>1, <2>2 DEF Submit
<1>3. ASSUME NEW r \in Requests, Settled(r)
      PROVE  SlotsInv'
  <2>1. slots' \subseteq slots /\ running' \subseteq slots'
    BY <1>3 DEF Settled, Reserved, SlotsInv
  <2>2. QED BY <2>1, SlotsShrink
<1>4. ASSUME NEW r \in Requests, NEW wellFormed \in BOOLEAN, BackendSettles(r, wellFormed)
      PROVE  SlotsInv'
  <2>1. slots' \subseteq slots /\ running' \subseteq slots'
    BY <1>4 DEF BackendSettles, SlotsInv
  <2>2. QED BY <2>1, SlotsShrink
<1>5. CASE Crash
  <2>1. slots' \subseteq slots /\ running' \subseteq slots'
    BY <1>5 DEF Crash
  <2>2. QED BY <2>1, SlotsShrink
<1>6. ASSUME NEW edit \in Edits, CommitBoardMutation(edit[1], edit[2])
      PROVE  SlotsInv'
  BY <1>1, <1>6 DEF CommitBoardMutation, volatile
<1>7. CASE CommitSummaryPatch \/ CompleteSession \/ StartRecovery
  BY <1>1, <1>7 DEF CommitSummaryPatch, CompleteSession, StartRecovery, volatile
<1>8. ASSUME NEW r \in Requests, Upload(r)
      PROVE  SlotsInv'
  BY <1>1, <1>8 DEF Upload
<1>9. ASSUME NEW r \in Requests, Process(r)
      PROVE  SlotsInv'
  <2>1. CASE EnsureRecovered(r) \/ Read(r) \/ Discard(r) \/ RequestVision(r) \/ ProcessVisionResult(r)
    BY <1>1, <2>1 DEF EnsureRecovered, StartRecovery, Read, Discard, RequestVision,
       ProcessVisionResult
  <2>2. CASE Submit(r)
    BY <1>2, <2>2
  <2>3. CASE Timeout(r)
    BY <1>3, <2>3 DEF Timeout
  <2>4. CASE Bridge(r)
    BY <1>1, <2>4 DEF Bridge, Decide, ProcessEvidenceProposal, RecordCompletion, NothingLeft,
       volatile
  <2>5. QED BY <1>9, <2>1, <2>2, <2>3, <2>4 DEF Process
<1>10. ASSUME NEW r \in Requests, Supersede(r)
       PROVE  SlotsInv'
  BY <1>3, <1>10 DEF Supersede
<1>11. CASE UNCHANGED visionVars
  BY <1>1, <1>11 DEF visionVars, volatile
<1>12. QED BY <1>2, <1>4, <1>5, <1>6, <1>7, <1>8, <1>9, <1>10, <1>11 DEF VisionNext

\* Whatever is cancelled, superseded or timed out keeps its reservation until
\* its backend has settled, so that the backends that run never exceed the limit.
THEOREM BackendsStayBounded == VisionSpec => []BackendsAreBounded
<1>1. VisionInit => SlotsInv
  <2>1. IsFiniteSet({}) /\ Cardinality({}) = 0
    BY FS_EmptySet
  <2>2. QED BY <2>1, BoundsAssumption DEF VisionInit, SlotsInv
<1>2. SlotsInv => BackendsAreBounded
  <2> SUFFICES ASSUME SlotsInv PROVE BackendsAreBounded
    OBVIOUS
  <2>2. IsFiniteSet(running) /\ Cardinality(running) <= Cardinality(slots)
    BY FS_Subset DEF SlotsInv
  <2>3. Cardinality(running) \in Nat /\ Cardinality(slots) \in Nat
    BY <2>2, FS_CardinalityType DEF SlotsInv
  <2>4. QED BY <2>2, <2>3, BoundsAssumption DEF SlotsInv, BackendsAreBounded
<1>3. QED BY <1>1, <1>2, SlotsInductive, PTL DEF VisionSpec
-----------------------------------------------------------------------------
(* One observation is evidence at most once. *)

\* The answer to the command vision-evidence-commit:<id> is the one account of
\* whether r became evidence, and everything else agrees with it: the history,
\* what the bridge is holding, and what it has recorded.
CountInv ==
  /\ \A i, j \in DOMAIN history : history[i].request = history[j].request => i = j
  /\ \A r \in Requests :
       /\ WasCommitted(r) <=> processed[r] = "COMMITTED"
       /\ result[r] # Unknown => result[r] = processed[r]
       /\ req[r].bridge \in {"COMMITTED", "REFUSED"} => req[r].bridge = processed[r]

LEMMA CountGivesOnce == CountInv => EvidenceIsCountedOnce
BY DEF CountInv, EvidenceIsCountedOnce, WasCommitted

\* A step that keeps whose records the history holds, and the answers.
LEMMA CountFrame ==
  ASSUME CountInv, DOMAIN history' = DOMAIN history,
         \A i \in DOMAIN history : history'[i].request = history[i].request,
         UNCHANGED processed,
         \A r \in Requests : result'[r] \in {Unknown, result[r]},
         \A r \in Requests : req'[r].bridge \in {"COMMITTED", "REFUSED"}
                               => req'[r].bridge \in {req[r].bridge, result[r]}
  PROVE  CountInv'
<1>1. \A r \in Requests : WasCommitted(r)' <=> WasCommitted(r)
  BY DEF WasCommitted
<1>2. QED BY <1>1 DEF CountInv, Unknown

LEMMA CountProposal ==
  ASSUME VisionIInv, CountInv, NEW r \in Requests, NEW allowed \in BOOLEAN,
         ProcessEvidenceProposal(r, allowed)
  PROVE  CountInv'
<1>1. processed \in [Requests -> {Unknown, "COMMITTED", "REFUSED"}]
      /\ result \in [Requests -> {Unknown, "COMMITTED", "REFUSED"}]
  BY DEF VisionIInv, Typing
<1>2. UNCHANGED req /\ req[r].bridge = "PROPOSED"
  BY DEF ProcessEvidenceProposal
<1>3. CASE AlreadyProcessed(r)
  <2>1. UNCHANGED <<processed, history>> /\ result' = [result EXCEPT ![r] = processed[r]]
    BY <1>3 DEF ProcessEvidenceProposal
  <2>2. QED BY <1>1, <1>2, <2>1 DEF CountInv, WasCommitted
<1>4. CASE processed[r] = Unknown
  <2> DEFINE verdict == IF allowed /\ BoardUnchanged(r) THEN "COMMITTED" ELSE "REFUSED"
  <2>1. /\ processed' = [processed EXCEPT ![r] = verdict]
        /\ result' = [result EXCEPT ![r] = verdict]
        /\ history' = IF verdict = "COMMITTED" THEN Updated(r) ELSE history
    BY <1>4 DEF ProcessEvidenceProposal, AlreadyProcessed
  <2>2. verdict \in {"COMMITTED", "REFUSED"}
    OBVIOUS
  <2> HIDE DEF verdict
  <2>3. ~WasCommitted(r)
    BY <1>4 DEF CountInv, Unknown
  <2>4. CASE verdict = "REFUSED"
    <3>1. UNCHANGED history
      BY <2>1, <2>4
    <3>2. \A s \in Requests : WasCommitted(s)' <=> WasCommitted(s)
      BY <3>1 DEF WasCommitted
    <3>3. QED BY <1>1, <1>2, <2>1, <2>3, <2>4, <3>1, <3>2 DEF CountInv
  <2>5. CASE verdict = "COMMITTED"
    <3>1. history' = Updated(r) /\ history \in Seq(Records)
      BY <2>1, <2>5 DEF VisionIInv, Typing
    <3>2. DOMAIN history = 1..Len(history) /\ Len(history) \in Nat
      BY <3>1
    <3>3. ASSUME NEW i \in DOMAIN history
          PROVE  Superseded[i] \in Records /\ Superseded[i].request = history[i].request
      <4>1. history[i] \in Records
        BY <3>1
      <4>2. QED BY <4>1 DEF Superseded, Records
    <3>4. Superseded \in Seq(Records) /\ Len(Superseded) = Len(history)
      BY <3>2, <3>3 DEF Superseded
    <3>5. [request |-> r, status |-> "ACTIVE"] \in Records
      BY DEF Records
    <3>6. /\ DOMAIN history' = 1..(Len(history) + 1)
          /\ \A i \in DOMAIN history : history'[i].request = history[i].request
          /\ history'[Len(history) + 1].request = r
      BY <3>1, <3>2, <3>3, <3>4, <3>5 DEF Updated
    <3>7. \A i \in DOMAIN history : history[i].request # r
      BY <2>3 DEF WasCommitted
    <3>8. \A i, j \in DOMAIN history' : history'[i].request = history'[j].request => i = j
      BY <3>2, <3>6, <3>7 DEF CountInv
    <3>9. WasCommitted(r)'
      BY <3>2, <3>6 DEF WasCommitted
    <3>10. \A s \in Requests \ {r} : WasCommitted(s)' <=> WasCommitted(s)
      BY <3>2, <3>6 DEF WasCommitted
    <3>11. QED BY <1>1, <1>2, <2>1, <2>5, <3>8, <3>9, <3>10 DEF CountInv
  <2>6. QED BY <2>2, <2>4, <2>5
<1>5. QED BY <1>1, <1>3, <1>4 DEF AlreadyProcessed

\* The commands on one request other than those of the bridge leave it without
\* an outcome.
LEMMA CountRequest ==
  ASSUME VisionIInv, CountInv, NEW r \in Requests,
         Discard(r) \/ RequestVision(r) \/ ProcessVisionResult(r)
  PROVE  CountInv'
<1>1. UNCHANGED <<history, processed, result>> /\ req \in [Requests -> Reqs]
  BY DEF Discard, RequestVision, ProcessVisionResult, VisionIInv, Typing
<1>2. \A s \in Requests : req'[s].bridge \in {req[s].bridge, "PENDING"}
  <2>1. UNCHANGED req \/ \E status \in {"DISCARDED", "PENDING"} : req' = [req EXCEPT ![r].status = status]
        \/ req' = [req EXCEPT ![r] = Request("ACCEPTED", admission[r], "PENDING")]
    BY DEF Discard, RequestVision, ProcessVisionResult
  <2>2. QED BY <1>1, <2>1 DEF Request, Reqs
<1>3. QED BY <1>1, <1>2, CountFrame

LEMMA CountBridge ==
  ASSUME VisionIInv, CountInv, NEW r \in Requests, Bridge(r)
  PROVE  CountInv'
<1>1. req \in [Requests -> Reqs] /\ result \in [Requests -> {Unknown, "COMMITTED", "REFUSED"}]
  BY DEF VisionIInv, Typing
<1>2. ASSUME NEW bridge \in {"PROPOSED", "DECLINED"}, Decide(r, bridge) PROVE CountInv'
  <2>1. \A s \in Requests : req'[s].bridge \in {req[s].bridge, "PROPOSED", "DECLINED"}
    BY <1>1, <1>2 DEF Decide, Reqs
  <2>2. QED BY <1>2, <2>1, CountFrame DEF Decide, volatile
<1>3. ASSUME NEW allowed \in BOOLEAN, ProcessEvidenceProposal(r, allowed) PROVE CountInv'
  BY <1>3, CountProposal
<1>4. CASE RecordCompletion(r)
  <2>1. \A s \in Requests : /\ req'[s].bridge \in {req[s].bridge, result[s]}
                            /\ result'[s] \in {Unknown, result[s]}
    BY <1>1, <1>4 DEF RecordCompletion, Reqs
  <2>2. QED BY <1>4, <2>1, CountFrame DEF RecordCompletion
<1>5. CASE NothingLeft(r)
  BY <1>5, CountFrame DEF NothingLeft, durable
<1>6. QED BY <1>2, <1>3, <1>4, <1>5 DEF Bridge

LEMMA CountInductive == VisionIInv /\ CountInv /\ [VisionNext]_visionVars => CountInv'
<1> SUFFICES ASSUME VisionIInv, CountInv, [VisionNext]_visionVars PROVE CountInv'
  OBVIOUS
<1>1. CASE UNCHANGED <<history, processed, result, req>>
  BY <1>1, CountFrame
<1>2. ASSUME NEW known, NEW shape, history' = Invalidated(known, shape),
             UNCHANGED <<processed, result, req>>
      PROVE  CountInv'
  <2>1. \A i \in DOMAIN history : history[i] \in Records
    BY DEF VisionIInv, Typing
  <2>2. DOMAIN history' = DOMAIN history
        /\ \A i \in DOMAIN history : history'[i].request = history[i].request
    BY <1>2, <2>1 DEF Invalidated, Records
  <2>3. QED BY <1>2, <2>2, CountFrame
<1>3. CASE CommitSummaryPatch \/ \E edit \in Edits : CommitBoardMutation(edit[1], edit[2])
  BY <1>2, <1>3 DEF CommitSummaryPatch, CommitBoardMutation, volatile
<1>4. CASE CompleteSession \/ StartRecovery
  BY <1>1, <1>4 DEF CompleteSession, StartRecovery, volatile, durable
<1>5. ASSUME NEW r \in Requests, Upload(r) PROVE CountInv'
  BY <1>1, <1>5 DEF Upload, durable
<1>6. ASSUME NEW r \in Requests, Process(r) PROVE CountInv'
  <2>1. CASE EnsureRecovered(r) \/ Read(r) \/ Submit(r) \/ Timeout(r)
    BY <1>1, <2>1 DEF EnsureRecovered, StartRecovery, Read, Submit, Timeout, Settled, durable
  <2>2. QED BY <1>6, <2>1, CountRequest, CountBridge DEF Process
<1>7. ASSUME NEW r \in Requests,
             Supersede(r) \/ \E wellFormed \in BOOLEAN : BackendSettles(r, wellFormed)
      PROVE  CountInv'
  BY <1>1, <1>7 DEF Supersede, Settled, BackendSettles, durable
<1>8. CASE Crash
  BY <1>8, CountFrame DEF Crash, durable
<1>9. CASE UNCHANGED visionVars
  BY <1>1, <1>9 DEF visionVars, durable, volatile
<1>10. QED BY <1>3, <1>4, <1>5, <1>6, <1>7, <1>8, <1>9 DEF VisionNext

LEMMA Counted == VisionSpec => []CountInv
<1>1. VisionInit => CountInv
  BY DEF VisionInit, CountInv, WasCommitted, Request, Unknown
<1>2. QED BY <1>1, VisionInitInductive, NextInductive, CountInductive, PTL DEF VisionSpec

\* An observation is evidence at most once and the bridge records truly whether it
\* became evidence, whatever stops, retries and second walks come between the
\* three commands of completeEvidenceBridge, for any number of uploads.
THEOREM EvidenceCountsOnce == VisionSpec => []EvidenceIsCountedOnce
BY Counted, CountGivesOnce, PTL

\* recordVisionEvidenceBridgeCompletion never throws because its answer disagrees
\* with the history: no accepted observation is left on a bridge it cannot cross
\* (turn-coordinator.ts, recordVisionEvidenceBridgeCompletion).
THEOREM CompletionAgrees ==
  VisionSpec => [](\A r \in Requests :
               result[r] # Unknown => (WasCommitted(r) <=> result[r] = "COMMITTED"))
<1>1. CountInv => \A r \in Requests :
                    result[r] # Unknown => (WasCommitted(r) <=> result[r] = "COMMITTED")
  BY DEF CountInv
<1>2. QED BY <1>1, Counted, PTL

-----------------------------------------------------------------------------
(* The answer stands. *)

Answers == {"ACCEPTED", "REJECTED"}
Tombstones == [request : Requests, answer : Answers]
Told == Answers \cup {"TURNED_AWAY"}

\* What memory and the clients hold.
AnswerTyping ==
  /\ memory \in Seq(Tombstones)
  /\ told \in [Requests -> SUBSET Told]

\* An upload asks a backend only for a request that is still pending.
Placed(r) ==
  /\ pc[r] \in {"SUBMIT", "BACKEND", "RESULT", "DISCARD"} => req[r].status = "PENDING"
  /\ pc[r] = "REQUEST" => req[r].status \in {"NONE", "PENDING"}

\* A picture is of the board as it is, or of an earlier revision.
Pictured(r) ==
  basis[r] # NoBasis => /\ basis[r].board <= board.rev
                        /\ basis[r].board = board.rev => RemainsFresh(r, board.shape)

\* A picture that never becomes current again: the board has left its revision,
\* nobody knows the shapes any more, the session has ended, or it shows nothing.
Dead(r) ==
  /\ basis[r] # NoBasis
  /\ ~open \/ ~board.known \/ board.rev # basis[r].board \/ basis[r].view = {}

\* The client of r has no answer, though it may have been turned away.
Untold(r) == "ACCEPTED" \notin told[r] /\ "REJECTED" \notin told[r]

\* What a client was told cannot turn out otherwise.
Stands(r) ==
  /\ "ACCEPTED" \in told[r] => req[r].status = "ACCEPTED"
  /\ "REJECTED" \in told[r] => /\ pc[r] \in {"IDLE", "RECOVER"}
                               /\ \/ req[r].status = "DISCARDED"
                                  \/ req[r].status = "NONE" /\ Dead(r)

\* The tombstones hold nothing the client was not told.
Kept == \A i \in DOMAIN memory : memory[i].answer \in told[memory[i].request]

AnswerInv ==
  /\ AnswerTyping
  /\ \A r \in Requests : Placed(r) /\ Pictured(r) /\ Stands(r)
  /\ Kept

LEMMA AnswerGivesStands == AnswerInv => TheAnswerStands
<1> SUFFICES ASSUME AnswerInv, NEW r \in Requests
             PROVE  /\ Cardinality(told[r] \ {"TURNED_AWAY"}) <= 1
                    /\ "ACCEPTED" \in told[r] => req[r].status = "ACCEPTED"
  BY DEF TheAnswerStands
<1> DEFINE answers == told[r] \ {"TURNED_AWAY"}
<1>1. answers \in SUBSET Answers /\ ~("ACCEPTED" \in answers /\ "REJECTED" \in answers)
  BY DEF AnswerInv, AnswerTyping, Stands, Told
<1>2. answers = {} \/ answers = {"ACCEPTED"} \/ answers = {"REJECTED"}
  BY <1>1 DEF Answers
<1>3. Cardinality({}) = 0 /\ Cardinality({"ACCEPTED"}) = 1 /\ Cardinality({"REJECTED"}) = 1
  BY FS_EmptySet, FS_Singleton
<1>4. "ACCEPTED" \in told[r] => req[r].status = "ACCEPTED"
  BY DEF AnswerInv, Stands
<1>5. Cardinality(answers) <= 1
  BY <1>2, <1>3
<1>6. QED BY <1>4, <1>5

\* The checks an upload fails before it is requested it fails for good.
LEMMA NotCurrentIsDead ==
  ASSUME VisionIInv, NEW r \in Requests, Pictured(r), pc[r] # "IDLE", ~Current(r)
  PROVE  Dead(r)
<1>1. basis[r] # NoBasis
  BY DEF VisionIInv, HasPicture
<1>2. board.rev = basis[r].board => RemainsFresh(r, board.shape)
  BY <1>1 DEF Pictured
<1>3. QED BY <1>1, <1>2 DEF Current, Dead

\* Every tombstone is of a request, and holds an answer.
LEMMA TombstoneType ==
  ASSUME AnswerTyping
  PROVE  \A i \in DOMAIN memory : memory[i].request \in Requests
<1>1. \A i \in DOMAIN memory : memory[i] \in Tombstones
  BY DEF AnswerTyping
<1>2. QED BY <1>1 DEF Tombstones

\* remember keeps some of what it held, and adds one answer.
LEMMA RememberingKeeps ==
  ASSUME AnswerTyping, NEW r \in Requests, NEW answer \in Answers
  PROVE  /\ Remembering(r, answer) \in Seq(Tombstones)
         /\ \A i \in DOMAIN Remembering(r, answer) :
              \/ Remembering(r, answer)[i] = [request |-> r, answer |-> answer]
              \/ \E j \in DOMAIN memory : Remembering(r, answer)[i] = memory[j]
<1> DEFINE new == [request |-> r, answer |-> answer]
           kept == Append(memory, new)
<1>1. memory \in Seq(Tombstones) /\ new \in Tombstones
  BY DEF AnswerTyping, Tombstones
<1>2. kept \in Seq(Tombstones) /\ Len(kept) = Len(memory) + 1 /\ Len(memory) \in Nat
      /\ DOMAIN memory = 1..Len(memory)
      /\ \A i \in 1..Len(kept) : kept[i] = IF i = Len(kept) THEN new ELSE memory[i]
  BY <1>1
<1>3. Tail(kept) \in Seq(Tombstones) /\ Len(Tail(kept)) = Len(memory)
      /\ \A i \in 1..Len(memory) : Tail(kept)[i] = kept[i + 1]
  BY <1>2
<1>4. CASE Remembering(r, answer) = kept
  BY <1>2, <1>4
<1>5. CASE Remembering(r, answer) = Tail(kept)
  <2>1. DOMAIN Tail(kept) = 1..Len(memory)
    BY <1>3
  <2>2. ASSUME NEW i \in 1..Len(memory)
        PROVE  Tail(kept)[i] = new \/ \E j \in DOMAIN memory : Tail(kept)[i] = memory[j]
    BY <1>2, <1>3
  <2>3. QED BY <1>3, <1>5, <2>1, <2>2
<1>6. QED BY <1>4, <1>5 DEF Remembering

LEMMA AnswerKeeps ==
  ASSUME VisionIInv, AnswerInv, NEW r \in Requests, NEW answer \in Answers, Answer(r, answer)
  PROVE  /\ AnswerTyping' /\ Kept'
         /\ pc'[r] = "IDLE" /\ told'[r] = told[r] \cup {answer}
         /\ \A s \in Requests \ {r} : pc'[s] = pc[s] /\ told'[s] = told[s]
<1>1. told \in [Requests -> SUBSET Told] /\ pc \in [Requests -> Places] /\ AnswerTyping
  BY DEF AnswerInv, AnswerTyping, VisionIInv, Typing
<1>2. /\ pc'[r] = "IDLE" /\ told'[r] = told[r] \cup {answer}
      /\ told' \in [Requests -> SUBSET Told]
      /\ \A s \in Requests \ {r} : pc'[s] = pc[s] /\ told'[s] = told[s]
  BY <1>1 DEF Answer, Goto, Told
<1>3. memory' = Remembering(r, answer)
  BY DEF Answer
<1>4. AnswerTyping'
  BY <1>1, <1>2, <1>3, RememberingKeeps DEF AnswerTyping
<1>5. ASSUME NEW i \in DOMAIN memory' PROVE memory'[i].answer \in told'[memory'[i].request]
  <2>1. CASE memory'[i] = [request |-> r, answer |-> answer]
    BY <1>2, <2>1
  <2>2. CASE \E j \in DOMAIN memory : memory'[i] = memory[j]
    <3>1. PICK j \in DOMAIN memory : memory'[i] = memory[j]
      BY <2>2
    <3>2. memory[j].answer \in told[memory[j].request] /\ memory[j].request \in Requests
      BY <1>1, TombstoneType DEF AnswerInv, Kept
    <3>3. QED BY <1>2, <3>1, <3>2
  <2>3. QED BY <1>1, <1>3, <2>1, <2>2, RememberingKeeps
<1>6. QED BY <1>2, <1>4, <1>5 DEF Kept

\* A step in which neither the board nor request r moves keeps what is known of r.
LEMMA RequestStands ==
  ASSUME VisionIInv, AnswerInv, NEW r \in Requests,
         UNCHANGED <<board, open>>, basis'[r] = basis[r], req'[r] = req[r],
         pc'[r] = pc[r], told'[r] = told[r]
  PROVE  Placed(r)' /\ Pictured(r)' /\ Stands(r)'
<1>1. Placed(r) /\ Pictured(r) /\ Stands(r)
  BY DEF AnswerInv
<1>2. RemainsFresh(r, board.shape)' <=> RemainsFresh(r, board.shape)
  BY DEF RemainsFresh, View
<1>3. Dead(r)' <=> Dead(r)
  BY DEF Dead
<1>4. QED BY <1>1, <1>2, <1>3 DEF Placed, Pictured, Stands

\* The board and the session move on.
LEMMA BoardAnswers ==
  ASSUME VisionIInv, AnswerInv, UNCHANGED <<basis, req, pc, told, memory>>,
         \/ board'.rev = board.rev + 1 /\ UNCHANGED open
         \/ UNCHANGED board /\ ~open'
  PROVE  AnswerInv'
<1>1. board.rev \in Nat
  BY DEF VisionIInv, Typing, Boards
<1>2. AnswerTyping' /\ Kept'
  BY DEF AnswerInv, AnswerTyping, Kept
<1>3. ASSUME NEW r \in Requests PROVE Placed(r)' /\ Pictured(r)' /\ Stands(r)'
  <2>1. Placed(r) /\ Pictured(r) /\ Stands(r) /\ basis[r] \in Bases
    BY DEF AnswerInv, VisionIInv, Typing
  <2>2. basis[r].board \in Nat
    BY <2>1 DEF Bases
  <2>3. Pictured(r)'
    <3>1. CASE board'.rev = board.rev + 1
      BY <1>1, <2>1, <2>2, <3>1 DEF Pictured
    <3>2. CASE UNCHANGED board
      BY <2>1, <3>2 DEF Pictured, RemainsFresh, View
    <3>3. QED BY <3>1, <3>2
  <2>4. Dead(r) => Dead(r)'
    <3>1. CASE board'.rev = board.rev + 1 /\ UNCHANGED open
      BY <1>1, <2>1, <2>2, <3>1 DEF Dead, Pictured
    <3>2. CASE UNCHANGED board /\ ~open'
      BY <3>2 DEF Dead
    <3>3. QED BY <3>1, <3>2
  <2>5. Placed(r)' /\ Stands(r)'
    BY <2>1, <2>4 DEF Placed, Stands
  <2>6. QED BY <2>3, <2>5
<1>4. QED BY <1>2, <1>3 DEF AnswerInv

\* An upload that begins has a picture of the board as it is, or its old one.
LEMMA UploadAnswers ==
  ASSUME VisionIInv, AnswerInv, NEW r \in Requests, Upload(r)
  PROVE  AnswerInv'
<1> DEFINE b == [board |-> board.rev, view |-> View(board.shape)]
<1>1. /\ board \in Boards /\ basis \in [Requests -> Bases] /\ pc \in [Requests -> Places]
      /\ AnswerTyping /\ Kept
  BY DEF VisionIInv, Typing, AnswerInv
<1>2. UNCHANGED <<board, open, req, memory>>
  BY DEF Upload, durable
<1>3. \A s \in Requests \ {r} : basis'[s] = basis[s] /\ pc'[s] = pc[s]
  BY <1>1 DEF Upload, Begin, Goto
<1>4. /\ told' \in [Requests -> SUBSET Told] 
      /\ \A s \in Requests \ {r} : told'[s] = told[s]
      /\ \A a \in Answers : a \in told'[r] <=> a \in told[r]
  <2>1. ASSUME NEW i \in Answered(r) PROVE memory[i].answer \in told[r]
    BY <1>1 DEF Answered, Kept
  <2>2. told \in [Requests -> SUBSET Told]
    BY <1>1 DEF AnswerTyping
  <2> DEFINE limited == [told EXCEPT ![r] = @ \cup {"TURNED_AWAY"}]
  <2>3. CASE UNCHANGED told
    BY <2>2, <2>3
  <2>4. CASE told' = [told EXCEPT ![r] = @ \cup {memory[i].answer : i \in Answered(r)}]
    <3>1. told[r] \cup {memory[i].answer : i \in Answered(r)} = told[r]
      BY <2>1
    <3>2. QED BY <2>2, <2>4, <3>1
  <2>5. CASE told' = limited
    <3>1. told[r] \cup {"TURNED_AWAY"} \in SUBSET Told
      BY <2>2 DEF Told
    <3>2. \A a \in Answers : a # "TURNED_AWAY"
      BY DEF Answers
    <3>3. QED BY <2>2, <2>5, <3>1, <3>2
  <2>6. QED BY <2>3, <2>4, <2>5 DEF Upload, Begin
<1>5. AnswerTyping' /\ Kept'
  <2>1. \A i \in DOMAIN memory : memory[i].request \in Requests
    BY <1>1, TombstoneType
  <2>2. ASSUME NEW i \in DOMAIN memory PROVE memory[i].answer \in told'[memory[i].request]
    <3>1. memory[i] \in Tombstones
      BY <1>1 DEF AnswerTyping
    <3>2. QED BY <1>1, <1>4, <2>1, <3>1 DEF Kept, Tombstones
  <2>3. QED BY <1>1, <1>2, <1>4, <2>2 DEF AnswerTyping, Kept
<1>6. Placed(r)' /\ Pictured(r)' /\ Stands(r)'
  <2>1. Placed(r) /\ Pictured(r) /\ Stands(r)
    BY DEF AnswerInv
  <2>2. pc[r] = "IDLE" /\ pc'[r] \in {"IDLE", "RECOVER"}
    BY <1>1 DEF Upload, Begin, Goto
  <2>3. Placed(r)'
    BY <2>2 DEF Placed
  <2>4. CASE basis'[r] = basis[r]
    <3>1. Pictured(r)' /\ (Dead(r)' <=> Dead(r))
      BY <1>2, <2>1, <2>4 DEF Pictured, Dead, RemainsFresh, View
    <3>2. QED BY <1>2, <1>4, <2>1, <2>2, <2>3, <3>1 DEF Stands, Answers
  <2>5. CASE basis[r] = NoBasis /\ basis'[r] = b
    <3>1. Pictured(r)'
      BY <1>1, <1>2, <2>5 DEF Pictured, RemainsFresh, View, Boards
    <3>2. req[r].status = "NONE" /\ ~Dead(r)
      BY <2>5 DEF VisionIInv, HasPicture, Dead
    <3>3. Untold(r)'
      BY <1>4, <2>1, <3>2 DEF Stands, Answers, Untold
    <3>4. QED BY <2>3, <3>1, <3>3 DEF Stands, Answers, Untold
  <2>6. basis'[r] = basis[r] \/ (basis[r] = NoBasis /\ basis'[r] = b)
    BY <1>1 DEF Upload
  <2>7. QED BY <2>4, <2>5, <2>6
<1>7. QED BY <1>2, <1>3, <1>4, <1>5, <1>6, RequestStands DEF AnswerInv

\* A step of r that tells its client nothing.
LEMMA SilentAnswers ==
  ASSUME VisionIInv, AnswerInv, NEW r \in Requests,
         UNCHANGED <<board, open, basis, memory, told>>,
         req' \in [Requests -> Reqs], pc' \in [Requests -> Places],
         \A s \in Requests \ {r} : req'[s] = req[s] /\ pc'[s] = pc[s],
         Placed(r)',
         req'[r].status = req[r].status \/ Untold(r),
         "REJECTED" \in told[r] => pc'[r] \in {"IDLE", "RECOVER"}
  PROVE  AnswerInv'
<1>1. AnswerTyping' /\ Kept'
  BY DEF AnswerInv, AnswerTyping, Kept
<1>2. Pictured(r) /\ Stands(r)
  BY DEF AnswerInv
<1>3. Pictured(r)' /\ (Dead(r)' <=> Dead(r))
  BY <1>2 DEF Pictured, Dead, RemainsFresh, View
<1>4. Stands(r)'
  BY <1>2, <1>3 DEF Stands, Untold, Answers
<1>5. QED BY <1>1, <1>3, <1>4, RequestStands DEF AnswerInv

\* A step that answers r as its request stands.
LEMMA ToldAnswers ==
  ASSUME VisionIInv, AnswerInv, NEW r \in Requests, NEW answer \in Answers, Answer(r, answer),
         UNCHANGED <<board, open, basis>>,
         req' \in [Requests -> Reqs],
         \A s \in Requests \ {r} : req'[s] = req[s],
         answer = "ACCEPTED" => /\ req[r].status = "ACCEPTED" /\ req'[r].status = "ACCEPTED",
         answer = "REJECTED" => /\ "ACCEPTED" \notin told[r]
                                /\ \/ req'[r].status = "DISCARDED"
                                   \/ req'[r].status = "NONE" /\ Dead(r)
  PROVE  AnswerInv'
<1>1. /\ AnswerTyping' /\ Kept'
      /\ pc'[r] = "IDLE" /\ told'[r] = told[r] \cup {answer}
      /\ \A s \in Requests \ {r} : pc'[s] = pc[s] /\ told'[s] = told[s]
  BY AnswerKeeps
<1>2. Pictured(r) /\ Stands(r)
  BY DEF AnswerInv
<1>3. Pictured(r)' /\ (Dead(r)' <=> Dead(r))
  BY <1>2 DEF Pictured, Dead, RemainsFresh, View
<1>4. Placed(r)'
  BY <1>1 DEF Placed
<1>5. Stands(r)'
  BY <1>1, <1>2, <1>3 DEF Stands, Answers
<1>6. QED BY <1>1, <1>3, <1>4, <1>5, RequestStands DEF AnswerInv

\* A place r moves to.
LEMMA GotoPlaces ==
  ASSUME VisionIInv, NEW r \in Requests, NEW place \in Places, Goto(r, place)
  PROVE  /\ pc' \in [Requests -> Places] /\ pc'[r] = place
         /\ \A s \in Requests \ {r} : pc'[s] = pc[s]
BY DEF VisionIInv, Typing, Goto

\* An upload whose request is pending has given its client no answer.
LEMMA PendingIsUntold ==
  ASSUME VisionIInv, AnswerInv, NEW r \in Requests, req[r].status = "PENDING"
  PROVE  Untold(r)
BY DEF AnswerInv, Stands, Answers, Untold

LEMMA ReadAnswers ==
  ASSUME VisionIInv, AnswerInv, NEW r \in Requests, Read(r)
  PROVE  AnswerInv'
<1>1. UNCHANGED <<board, open, basis, req>> /\ req \in [Requests -> Reqs] /\ pc[r] = "RECOVER"
  BY DEF Read, durable, VisionIInv, Typing
<1>2. req[r].status \in {"NONE", "PENDING", "ACCEPTED", "DISCARDED"} /\ Stands(r) /\ Pictured(r)
  BY <1>1 DEF Reqs, AnswerInv
<1>3. CASE Answer(r, "REJECTED") /\ req[r].status = "DISCARDED"
  BY <1>1, <1>2, <1>3, ToldAnswers DEF Answers, Stands
<1>4. CASE Answer(r, "REJECTED") /\ req[r].status = "NONE" /\ ~Current(r)
  BY <1>1, <1>2, <1>4, NotCurrentIsDead, ToldAnswers DEF Answers, Stands
<1>5. ASSUME NEW place \in Places, Goto(r, place), UNCHANGED <<memory, told>>,
             \/ place = "BRIDGE" /\ req[r].status = "ACCEPTED"
             \/ place = "DISCARD" /\ req[r].status = "PENDING"
             \/ place = "REQUEST" /\ req[r].status \in {"NONE", "PENDING"} /\ Current(r)
      PROVE  AnswerInv'
  <2>1. Placed(r)'
    BY <1>1, <1>5, GotoPlaces DEF Placed
  <2>2. "REJECTED" \notin told[r]
    BY <1>2, <1>5 DEF Stands, Dead, Current
  <2>3. QED BY <1>1, <1>5, <2>1, <2>2, GotoPlaces, SilentAnswers
<1>6. \/ Answer(r, "REJECTED") /\ req[r].status = "DISCARDED"
      \/ Answer(r, "REJECTED") /\ req[r].status = "NONE" /\ ~Current(r)
      \/ /\ Goto(r, "BRIDGE") \/ Goto(r, "DISCARD") \/ Goto(r, "REQUEST")
         /\ UNCHANGED <<memory, told>>
         /\ Goto(r, "BRIDGE") => req[r].status = "ACCEPTED"
         /\ Goto(r, "DISCARD") => req[r].status = "PENDING"
         /\ Goto(r, "REQUEST") => req[r].status \in {"NONE", "PENDING"} /\ Current(r)
  BY <1>1, <1>2 DEF Read, Goto, VisionIInv, Typing
<1>7. {"BRIDGE", "DISCARD", "REQUEST"} \subseteq Places
  BY DEF Places
<1>8. QED BY <1>3, <1>4, <1>5, <1>6, <1>7

\* discardVisionRequest and processVisionResult reject what they discard, and
\* requestVision what the board has left behind.
LEMMA DiscardAnswers ==
  ASSUME VisionIInv, AnswerInv, NEW r \in Requests, Discard(r)
  PROVE  AnswerInv'
<1>1. /\ UNCHANGED <<board, open, basis>> /\ req \in [Requests -> Reqs]
      /\ pc[r] = "DISCARD" /\ Placed(r)
  BY DEF Discard, VisionIInv, Typing, AnswerInv
<1>2. req[r].status = "PENDING" /\ Untold(r)
  BY <1>1, PendingIsUntold DEF Placed
<1>3. /\ req' \in [Requests -> Reqs] /\ req'[r].status = "DISCARDED"
      /\ \A s \in Requests \ {r} : req'[s] = req[s]
  BY <1>1, <1>2 DEF Discard, Reqs
<1>4. QED BY <1>1, <1>2, <1>3, ToldAnswers DEF Discard, Answers, Untold

LEMMA RequestVisionAnswers ==
  ASSUME VisionIInv, AnswerInv, NEW r \in Requests, RequestVision(r)
  PROVE  AnswerInv'
<1>1. /\ UNCHANGED <<board, open, basis>> /\ req \in [Requests -> Reqs]
      /\ pc[r] = "REQUEST" /\ Placed(r) /\ Stands(r) /\ basis[r] # NoBasis
  BY DEF RequestVision, VisionIInv, Typing, HasPicture, AnswerInv
<1>2. req[r].status \in {"NONE", "PENDING"} /\ "REJECTED" \notin told[r]
  BY <1>1 DEF Placed, Stands
<1>3. Untold(r)
  BY <1>1, <1>2 DEF Stands, Answers, Untold
<1>4. CASE req[r].status = "PENDING" /\ Goto(r, "SUBMIT") /\ UNCHANGED <<req, memory, told>>
  <2>1. Placed(r)'
    BY <1>4, GotoPlaces DEF Placed, Places
  <2>2. QED BY <1>1, <1>2, <1>4, <2>1, GotoPlaces, SilentAnswers DEF Places
<1>5. CASE /\ req[r].status = "NONE" /\ req' = [req EXCEPT ![r].status = "PENDING"]
           /\ Goto(r, "SUBMIT") /\ UNCHANGED <<memory, told>>
  <2>1. /\ req' \in [Requests -> Reqs] /\ req'[r].status = "PENDING"
        /\ \A s \in Requests \ {r} : req'[s] = req[s]
    BY <1>1, <1>5 DEF Reqs
  <2>2. Placed(r)'
    BY <1>5, <2>1, GotoPlaces DEF Placed, Places
  <2>3. QED BY <1>1, <1>2, <1>3, <1>5, <2>1, <2>2, GotoPlaces, SilentAnswers DEF Places
<1>6. CASE /\ req[r].status = "NONE" /\ board.rev # basis[r].board
           /\ Answer(r, "REJECTED") /\ UNCHANGED req
  BY <1>1, <1>3, <1>6, ToldAnswers DEF Dead, Answers, Untold
<1>7. CASE Goto(r, "IDLE") /\ UNCHANGED <<req, memory, told>>
  <2>1. Placed(r)'
    BY <1>7, GotoPlaces DEF Placed, Places
  <2>2. QED BY <1>1, <1>2, <1>7, <2>1, GotoPlaces, SilentAnswers DEF Places
<1>8. QED BY <1>2, <1>4, <1>5, <1>6, <1>7 DEF RequestVision

LEMMA ResultAnswers ==
  ASSUME VisionIInv, AnswerInv, NEW r \in Requests, ProcessVisionResult(r)
  PROVE  AnswerInv'
<1>1. /\ UNCHANGED <<board, open, basis>> /\ req \in [Requests -> Reqs]
      /\ pc[r] = "RESULT" /\ Placed(r)
  BY DEF ProcessVisionResult, VisionIInv, Typing, AnswerInv
<1>2. req[r].status = "PENDING" /\ Untold(r)
  BY <1>1, PendingIsUntold DEF Placed
<1>3. CASE /\ req' = [req EXCEPT ![r] = Request("ACCEPTED", admission[r], "PENDING")]
           /\ Goto(r, "BRIDGE") /\ UNCHANGED <<memory, told>>
  <2>1. admission[r] \in Nat
    BY DEF VisionIInv, Typing
  <2>2. Request("ACCEPTED", admission[r], "PENDING") \in Reqs
    BY <2>1 DEF Request, Reqs, Bridges
  <2>3. req' \in [Requests -> Reqs] /\ \A s \in Requests \ {r} : req'[s] = req[s]
    BY <1>1, <1>3, <2>2
  <2>4. Placed(r)'
    BY <1>3, GotoPlaces DEF Placed, Places
  <2>5. QED BY <1>1, <1>2, <1>3, <2>3, <2>4, GotoPlaces, SilentAnswers DEF Places, Untold
<1>4. CASE req' = [req EXCEPT ![r].status = "DISCARDED"] /\ Answer(r, "REJECTED")
  <2>1. /\ req' \in [Requests -> Reqs] /\ req'[r].status = "DISCARDED"
        /\ \A s \in Requests \ {r} : req'[s] = req[s]
    BY <1>1, <1>4 DEF Reqs
  <2>2. QED BY <1>1, <1>2, <1>4, <2>1, ToldAnswers DEF Answers, Untold
<1>5. QED BY <1>2, <1>3, <1>4 DEF ProcessVisionResult

\* submit, its timeout, its supersession, and a backend that settles.
LEMMA BackendAnswers ==
  ASSUME VisionIInv, AnswerInv, NEW r \in Requests,
         \/ Submit(r) \/ Settled(r)
         \/ \E wellFormed \in BOOLEAN : BackendSettles(r, wellFormed)
  PROVE  AnswerInv'
<1>1. UNCHANGED <<board, open, basis, req, memory, told>> /\ req \in [Requests -> Reqs]
  BY DEF Submit, Settled, BackendSettles, durable, VisionIInv, Typing
<1>2. CASE UNCHANGED pc
  BY <1>1, <1>2, RequestStands DEF AnswerInv, AnswerTyping, Kept
<1>3. ASSUME NEW place \in {"BACKEND", "RESULT", "DISCARD"}, Goto(r, place),
             pc[r] \in {"SUBMIT", "BACKEND"}
      PROVE  AnswerInv'
  <2>1. req[r].status = "PENDING" /\ Untold(r)
    BY <1>3, PendingIsUntold DEF AnswerInv, Placed
  <2>2. place \in Places
    BY DEF Places
  <2>3. Placed(r)'
    BY <1>1, <2>1 DEF Placed
  <2>4. QED BY <1>1, <1>3, <2>1, <2>2, <2>3, GotoPlaces, SilentAnswers DEF Untold
<1>4. UNCHANGED pc \/ \E place \in {"BACKEND", "RESULT", "DISCARD"} :
                         Goto(r, place) /\ pc[r] \in {"SUBMIT", "BACKEND"}
  BY DEF Submit, Settled, BackendSettles
<1>5. QED BY <1>2, <1>3, <1>4

\* Only an accepted request has a bridge to cross.
LEMMA BridgeAnswers ==
  ASSUME VisionIInv, AnswerInv, NEW r \in Requests, Bridge(r)
  PROVE  AnswerInv'
<1>1. UNCHANGED <<board, open, basis>> /\ req \in [Requests -> Reqs]
  BY DEF Bridge, Decide, ProcessEvidenceProposal, RecordCompletion, NothingLeft, volatile,
     durable, VisionIInv, Typing
<1>2. req[r].status = "ACCEPTED" /\ Stands(r)
  BY DEF Bridge, Decide, ProcessEvidenceProposal, RecordCompletion, NothingLeft, VisionIInv,
     OnlyAccepted, AnswerInv
<1>3. /\ req' \in [Requests -> Reqs] /\ req'[r].status = "ACCEPTED"
      /\ \A s \in Requests \ {r} : req'[s] = req[s]
  <2>1. UNCHANGED req \/ \E bridge \in Bridges : req' = [req EXCEPT ![r].bridge = bridge]
    <3>1. result[r] \in {Unknown, "COMMITTED", "REFUSED"}
      BY DEF VisionIInv, Typing
    <3>2. QED BY <3>1 DEF Bridge, Decide, ProcessEvidenceProposal, RecordCompletion, NothingLeft,
          durable, Bridges
  <2>2. QED BY <1>1, <1>2, <2>1 DEF Reqs
<1>4. CASE UNCHANGED <<pc, memory, told>>
  <2>1. Placed(r)'
    BY <1>2, <1>3, <1>4 DEF AnswerInv, Placed
  <2>2. "REJECTED" \notin told[r]
    BY <1>2 DEF Stands
  <2>3. QED BY <1>1, <1>2, <1>3, <1>4, <2>1, <2>2, SilentAnswers DEF VisionIInv, Typing
<1>5. CASE Answer(r, "ACCEPTED")
  BY <1>1, <1>2, <1>3, <1>5, ToldAnswers DEF Answers
<1>6. QED BY <1>4, <1>5 DEF Bridge, Decide, ProcessEvidenceProposal, RecordCompletion,
   NothingLeft, Crossed, volatile

\* A stop forgets the tombstones, never what was told.
LEMMA CrashAnswers ==
  ASSUME VisionIInv, AnswerInv, Crash
  PROVE  AnswerInv'
<1>1. UNCHANGED <<board, open, basis, req, told>> /\ memory' = <<>>
      /\ pc' = [r \in Requests |-> "IDLE"]
  BY DEF Crash, durable
<1>2. AnswerTyping' /\ Kept'
  BY <1>1 DEF AnswerInv, AnswerTyping, Kept
<1>3. ASSUME NEW r \in Requests PROVE Placed(r)' /\ Pictured(r)' /\ Stands(r)'
  <2>1. Pictured(r) /\ Stands(r)
    BY DEF AnswerInv
  <2>2. QED BY <1>1, <2>1 DEF Placed, Pictured, Stands, Dead, RemainsFresh, View
<1>4. QED BY <1>2, <1>3 DEF AnswerInv

LEMMA AnswerInductive == VisionIInv /\ AnswerInv /\ [VisionNext]_visionVars => AnswerInv'
<1> SUFFICES ASSUME VisionIInv, AnswerInv, [VisionNext]_visionVars PROVE AnswerInv'
  OBVIOUS
<1>1. CASE UNCHANGED <<board, open, basis, req, pc, told, memory>>
  BY <1>1, RequestStands DEF AnswerInv, AnswerTyping, Kept
<1>2. CASE CommitSummaryPatch \/ CompleteSession
           \/ \E edit \in Edits : CommitBoardMutation(edit[1], edit[2])
  <2>1. board.rev \in Nat /\ board \in Boards
    BY DEF VisionIInv, Typing, Boards
  <2>2. UNCHANGED <<basis, req, pc, told, memory>>
    BY <1>2 DEF CommitSummaryPatch, CompleteSession, CommitBoardMutation, volatile
  <2>3. \/ board'.rev = board.rev + 1 /\ UNCHANGED open
        \/ UNCHANGED board /\ ~open'
    <3>1. CASE CommitSummaryPatch
      <4>1. board' = [rev |-> board.rev + 1, known |-> FALSE, shape |-> board.shape]
        BY <2>1, <3>1 DEF CommitSummaryPatch, Boards
      <4>2. QED BY <3>1, <4>1 DEF CommitSummaryPatch
    <3>2. CASE CompleteSession
      BY <3>2 DEF CompleteSession
    <3>3. CASE \E edit \in Edits : CommitBoardMutation(edit[1], edit[2])
      BY <3>3 DEF CommitBoardMutation
    <3>4. QED BY <1>2, <3>1, <3>2, <3>3
  <2>4. QED BY <2>2, <2>3, BoardAnswers
<1>3. ASSUME NEW r \in Requests, Process(r) PROVE AnswerInv'
  <2>1. CASE EnsureRecovered(r)
    BY <1>1, <2>1 DEF EnsureRecovered, StartRecovery, durable
  <2>2. QED BY <1>3, <2>1, ReadAnswers, DiscardAnswers, RequestVisionAnswers, ResultAnswers,
        BackendAnswers, BridgeAnswers DEF Process, Timeout
<1>4. ASSUME NEW r \in Requests,
             Supersede(r) \/ \E wellFormed \in BOOLEAN : BackendSettles(r, wellFormed)
      PROVE  AnswerInv'
  BY <1>4, BackendAnswers DEF Supersede
<1>5. CASE StartRecovery \/ UNCHANGED visionVars
  BY <1>1, <1>5 DEF StartRecovery, visionVars, durable, volatile
<1>6. QED BY <1>2, <1>3, <1>4, <1>5, UploadAnswers, CrashAnswers DEF VisionNext

\* But for the refusals of the coordinator's own limit, a client is never told both
\* that its observation was accepted and that it was rejected, and one told ACCEPTED
\* finds it so: what a forgotten answer rested on never comes back, because the board
\* only advances, an ended session stays ended and a discarded request stays
\* discarded (whiteboard-vision-coordinator.ts, processRequest).
THEOREM AnswersStand == VisionSpec => []TheAnswerStands
<1>1. VisionInit => AnswerInv
  BY DEF VisionInit, AnswerInv, AnswerTyping, Placed, Pictured, Stands, Kept, Request
<1>2. QED BY <1>1, VisionInitInductive, NextInductive, AnswerInductive, AnswerGivesStands, PTL DEF VisionSpec
=============================================================================
