------------------------- MODULE SessionWriterProofs -------------------------
(***************************************************************************)
(* Theorems about SessionWriter for any number of writers, requests,       *)
(* fingerprints and attempts, with crashes and a second writer on the same *)
(* database: what a caller was told is stored, an outcome is never         *)
(* replaced, and the command path implements ExactlyOnce.                  *)
(***************************************************************************)
EXTENDS SessionWriter, SequenceTheorems, TLAPS

\* A queued attempt is in one place of one tail and has not been answered.
QueuedOnce ==
    \A w \in Writers : \A i \in 1 .. Len(tail[w]) :
        /\ attempt[tail[w][i]].status = "QUEUED"
        /\ \A v \in Writers : \A j \in 1 .. Len(tail[v]) : tail[v][j] = tail[w][i] => v = w /\ j = i

\* A step is that of an attempt; past the transaction its outcome is stored.
StepIsBacked ==
    \A w \in Writers :
        /\ phase[w] = "DOWN" => tail[w] = <<>>
        /\ step[w] # "IDLE" => tail[w] # <<>>
        /\ step[w] = "COMMITTED" =>
              outcome[RequestOf(w)] = [print |-> PrintOf(w), result |-> Computed(w)]
        /\ step[w] = "FOUND" => /\ outcome[RequestOf(w)] # None
                                /\ outcome[RequestOf(w)].print = PrintOf(w)

IInv == TypeOK /\ QueuedOnce /\ StepIsBacked /\ AnswersAreDurable

-----------------------------------------------------------------------------
LEMMA InitInductive == Init => IInv
BY DEF Init, IInv, TypeOK, QueuedOnce, StepIsBacked, AnswersAreDurable, Succeeded, Attempt, Unsent

\* The attempt at the head of a tail.
LEMMA CurrentType ==
  ASSUME TypeOK, QueuedOnce, NEW w \in Writers, tail[w] # <<>>
  PROVE  /\ Current(w) \in Attempts
         /\ attempt[Current(w)].status = "QUEUED"
         /\ RequestOf(w) \in Requests
         /\ PrintOf(w) \in Prints
         /\ Len(tail[w]) >= 1
         /\ Current(w) = tail[w][1]
<1>1. tail[w] \in Seq(Attempts) /\ Len(tail[w]) >= 1 /\ Current(w) = tail[w][1]
  BY DEF TypeOK, Current
<1>2. Current(w) \in Attempts
  BY <1>1
<1>3. attempt[Current(w)].status = "QUEUED"
  BY <1>1 DEF QueuedOnce
<1>4. attempt[Current(w)] \in Attempt /\ attempt[Current(w)] # Unsent
  BY <1>2, <1>3 DEF TypeOK, Unsent
<1>5. QED BY <1>1, <1>2, <1>3, <1>4 DEF Attempt, RequestOf, PrintOf

\* Finishing the head of a tail with an honest answer.
LEMMA FinishStep ==
  ASSUME IInv, NEW w \in Writers, tail[w] # <<>>, NEW r \in Nat,
         NEW s \in {"APPLIED", "DUPLICATE", "CONFLICT", "STALE", "REFUSED"},
         Finish(w, s, r), UNCHANGED <<storeVars, phase>>,
         s \in {"APPLIED", "DUPLICATE"} => outcome[RequestOf(w)] = [print |-> PrintOf(w), result |-> r],
         memory' \in [Writers -> Seq(Requests)],
         \A v \in Writers : v # w => memory'[v] = memory[v]
  PROVE  IInv'
<1> DEFINE a == Current(w)
<1>1. /\ a \in Attempts /\ attempt[a].status = "QUEUED" /\ RequestOf(w) \in Requests
      /\ PrintOf(w) \in Prints /\ Len(tail[w]) >= 1 /\ a = tail[w][1]
  BY CurrentType DEF IInv
<1>2. [status |-> s, request |-> RequestOf(w), print |-> PrintOf(w), result |-> r] \in Attempt
  BY <1>1 DEF Attempt
<1>3. /\ tail' = [tail EXCEPT ![w] = Tail(tail[w])]
      /\ step' = [step EXCEPT ![w] = "IDLE"]
      /\ attempt' = [attempt EXCEPT ![a] = [status |-> s, request |-> RequestOf(w),
                                           print |-> PrintOf(w), result |-> r]]
  BY DEF Finish
<1>4. /\ Tail(tail[w]) \in Seq(Attempts)
      /\ Len(Tail(tail[w])) = Len(tail[w]) - 1
      /\ \A i \in 1 .. Len(Tail(tail[w])) : Tail(tail[w])[i] = tail[w][i + 1]
  BY <1>1 DEF IInv, TypeOK
<1>5. TypeOK'
  <2>1. tail' \in [Writers -> Seq(Attempts)]
    BY <1>3, <1>4 DEF IInv, TypeOK
  <2>2. attempt' \in [Attempts -> Attempt]
    BY <1>1, <1>2, <1>3 DEF IInv, TypeOK
  <2>3. QED BY <1>3, <2>1, <2>2 DEF IInv, TypeOK, storeVars
<1>6. \A v \in Writers : \A i \in 1 .. Len(tail'[v]) :
         \E j \in 1 .. Len(tail[v]) : /\ tail'[v][i] = tail[v][j]
                                      /\ j = IF v = w THEN i + 1 ELSE i
  BY <1>1, <1>3, <1>4 DEF IInv, TypeOK
<1>7. QueuedOnce'
  <2> SUFFICES ASSUME NEW v \in Writers, NEW i \in 1 .. Len(tail'[v])
               PROVE  /\ attempt'[tail'[v][i]].status = "QUEUED"
                      /\ \A u \in Writers : \A k \in 1 .. Len(tail'[u]) :
                            tail'[u][k] = tail'[v][i] => u = v /\ k = i
    BY DEF QueuedOnce
  <2>1. PICK j \in 1 .. Len(tail[v]) : /\ tail'[v][i] = tail[v][j]
                                       /\ j = IF v = w THEN i + 1 ELSE i
    BY <1>6
  <2>2. tail[v][j] # a
    BY <1>1, <2>1 DEF IInv, QueuedOnce, TypeOK
  <2>3. attempt'[tail'[v][i]].status = "QUEUED"
    BY <1>1, <1>3, <2>1, <2>2 DEF IInv, QueuedOnce, TypeOK
  <2>4. ASSUME NEW u \in Writers, NEW k \in 1 .. Len(tail'[u]), tail'[u][k] = tail'[v][i]
        PROVE  u = v /\ k = i
    <3>0. QueuedOnce
      BY DEF IInv
    <3>1. PICK m \in 1 .. Len(tail[u]) : /\ tail'[u][k] = tail[u][m]
                                         /\ m = IF u = w THEN k + 1 ELSE k
      BY <1>6
    <3>2. u = v /\ m = j
      <4>1. tail[u][m] = tail[v][j]
        BY <2>1, <2>4, <3>1
      <4>2. QED BY <3>0, <4>1 DEF QueuedOnce
    <3>3. QED BY <1>5, <2>1, <3>1, <3>2 DEF TypeOK
  <2>5. QED BY <2>3, <2>4
<1>8. \A v \in Writers : v # w /\ step[v] # "IDLE" =>
          /\ Current(v)' = Current(v) /\ Current(v) # a
          /\ RequestOf(v)' = RequestOf(v) /\ PrintOf(v)' = PrintOf(v)
  <2> SUFFICES ASSUME NEW v \in Writers, v # w, step[v] # "IDLE"
               PROVE  /\ Current(v)' = Current(v) /\ Current(v) # a
                      /\ RequestOf(v)' = RequestOf(v) /\ PrintOf(v)' = PrintOf(v)
    OBVIOUS
  <2>1. tail[v] # <<>> /\ tail'[v] = tail[v]
    BY <1>3 DEF IInv, StepIsBacked, TypeOK
  <2>2. Current(v) \in Attempts /\ Len(tail[v]) >= 1 /\ Current(v) = tail[v][1]
    BY <2>1, CurrentType DEF IInv
  <2>3. Current(v) # a
    BY <1>1, <2>2 DEF IInv, QueuedOnce, TypeOK
  <2>4. QED BY <1>1, <1>3, <2>1, <2>2, <2>3 DEF Current, RequestOf, PrintOf, IInv, TypeOK
<1>9. StepIsBacked'
  <2>1. phase' = phase /\ outcome' = outcome
    BY DEF storeVars
  <2> SUFFICES ASSUME NEW v \in Writers
               PROVE  /\ phase'[v] = "DOWN" => tail'[v] = <<>>
                      /\ step'[v] # "IDLE" => tail'[v] # <<>>
                      /\ step'[v] = "COMMITTED" =>
                            outcome'[RequestOf(v)'] = [print |-> PrintOf(v)', result |-> Computed(v)']
                      /\ step'[v] = "FOUND" => /\ outcome'[RequestOf(v)'] # None
                                               /\ outcome'[RequestOf(v)'].print = PrintOf(v)'
    BY DEF StepIsBacked
  <2>2. CASE v = w
    <3>1. step'[v] = "IDLE" /\ tail[v] # <<>> /\ phase[v] # "DOWN"
      BY <1>1, <1>3, <2>2 DEF IInv, TypeOK, StepIsBacked
    <3>2. QED BY <2>1, <3>1
  <2>3. CASE v # w
    <3>1. tail'[v] = tail[v] /\ step'[v] = step[v]
      BY <1>3, <2>3 DEF IInv, TypeOK
    <3>2. step[v] # "IDLE" => RequestOf(v)' = RequestOf(v) /\ PrintOf(v)' = PrintOf(v)
      BY <1>8, <2>3
    <3>3. step[v] # "IDLE" => Computed(v)' = Computed(v)
      BY <2>3, <3>2 DEF Computed
    <3>4. QED BY <2>1, <3>1, <3>2, <3>3 DEF IInv, StepIsBacked
  <2>4. QED BY <2>2, <2>3
<1>10. AnswersAreDurable'
  BY <1>1, <1>3 DEF IInv, TypeOK, AnswersAreDurable, Succeeded, storeVars
<1>11. QED BY <1>5, <1>7, <1>9, <1>10 DEF IInv

\* The events of one command.
LEMMA GroupType ==
  ASSUME TypeOK, NEW r \in Requests, NEW p \in Prints
  PROVE  /\ [i \in 1 .. Drafts[p] |-> r] \in Seq(Requests)
         /\ Len([i \in 1 .. Drafts[p] |-> r]) = Drafts[p]
         /\ Drafts[p] \in Nat
BY DraftsAssumption

LEMMA SucceededType ==
  ASSUME TypeOK, NEW a \in Attempts, Succeeded(a)
  PROVE  attempt[a].request \in Requests /\ attempt[a].print \in Prints /\ attempt[a].result \in Nat
<1>1. attempt[a] \in Attempt /\ attempt[a] # Unsent
  BY DEF TypeOK, Succeeded, Unsent
<1>2. QED BY <1>1 DEF Attempt

\* A step of a writer that leaves the queues and the answers alone.
LEMMA FrameStep ==
  ASSUME IInv, UNCHANGED <<tail, attempt>>, TypeOK',
         \A r \in Requests : Known(r) => outcome'[r] = outcome[r],
         \A v \in Writers : phase'[v] = "DOWN" => tail[v] = <<>>,
         \A v \in Writers : step'[v] # "IDLE" =>
            \/ step'[v] = step[v] /\ memory'[v] = memory[v]
            \/ tail[v] # <<>> /\ step'[v] = "HANDLED"
            \/ /\ tail[v] # <<>> /\ step'[v] = "FOUND"
               /\ outcome[RequestOf(v)] # None /\ outcome[RequestOf(v)].print = PrintOf(v)
            \/ /\ tail[v] # <<>> /\ step'[v] = "COMMITTED" /\ memory'[v] = memory[v]
               /\ outcome'[RequestOf(v)] = [print |-> PrintOf(v), result |-> Computed(v)]
  PROVE  IInv'
<1>1. QueuedOnce'
  BY DEF IInv, QueuedOnce
<1>2. AnswersAreDurable'
  <2> SUFFICES ASSUME NEW a \in Attempts, Succeeded(a)
               PROVE  outcome'[attempt[a].request] = [print |-> attempt[a].print, result |-> attempt[a].result]
    BY DEF AnswersAreDurable, Succeeded
  <2>1. attempt[a].request \in Requests /\ attempt[a].print \in Prints /\ attempt[a].result \in Nat
    BY SucceededType DEF IInv
  <2>2. outcome[attempt[a].request] = [print |-> attempt[a].print, result |-> attempt[a].result]
    BY DEF IInv, AnswersAreDurable
  <2>3. Known(attempt[a].request)
    BY <2>1, <2>2, NoneAssumption DEF Known
  <2>4. QED BY <2>1, <2>2, <2>3
<1>3. StepIsBacked'
  <2> SUFFICES ASSUME NEW v \in Writers
               PROVE  /\ phase'[v] = "DOWN" => tail[v] = <<>>
                      /\ step'[v] # "IDLE" => tail[v] # <<>>
                      /\ step'[v] = "COMMITTED" =>
                            outcome'[RequestOf(v)] = [print |-> PrintOf(v), result |-> Computed(v)']
                      /\ step'[v] = "FOUND" => /\ outcome'[RequestOf(v)] # None
                                               /\ outcome'[RequestOf(v)].print = PrintOf(v)
    BY DEF StepIsBacked, RequestOf, PrintOf, Current
  <2>1. step'[v] # "IDLE" => tail[v] # <<>>
    BY DEF IInv, StepIsBacked
  <2>2. memory'[v] = memory[v] => Computed(v)' = Computed(v)
    BY DEF Computed, PrintOf, Current
  <2>3. tail[v] # <<>> => RequestOf(v) \in Requests /\ PrintOf(v) \in Prints
    BY CurrentType DEF IInv
  <2>4. step'[v] = "COMMITTED" =>
           outcome'[RequestOf(v)] = [print |-> PrintOf(v), result |-> Computed(v)']
    <3>1. CASE step[v] = "COMMITTED" /\ memory'[v] = memory[v]
      <4>1. outcome[RequestOf(v)] = [print |-> PrintOf(v), result |-> Computed(v)]
        BY <3>1 DEF IInv, StepIsBacked
      <4>2. [print |-> PrintOf(v), result |-> Computed(v)] \in Outcome
        <5>1. PrintOf(v) \in Prints
          BY <2>3, <3>1 DEF IInv, StepIsBacked
        <5>2. Drafts[PrintOf(v)] \in Nat /\ Len(memory[v]) \in Nat
          BY <5>1, DraftsAssumption DEF IInv, TypeOK
        <5>3. QED BY <5>1, <5>2 DEF Outcome, Computed
      <4>3. Known(RequestOf(v))
        BY <4>1, <4>2, NoneAssumption DEF Known, Outcome
      <4>4. RequestOf(v) \in Requests
        BY <2>3, <3>1 DEF IInv, StepIsBacked
      <4>5. QED BY <2>2, <3>1, <4>1, <4>3, <4>4
    <3>2. QED BY <2>2, <3>1
  <2>5. step'[v] = "FOUND" => /\ outcome'[RequestOf(v)] # None
                              /\ outcome'[RequestOf(v)].print = PrintOf(v)
    BY <2>1, <2>3 DEF IInv, StepIsBacked, Known
  <2>6. QED BY <2>1, <2>4, <2>5
<1>4. QED BY <1>1, <1>2, <1>3 DEF IInv

\* Every step preserves the invariant.
LEMMA InductiveStep == IInv /\ [Next]_vars => IInv'
<1> SUFFICES ASSUME IInv, [Next]_vars PROVE IInv'
  OBVIOUS
<1> USE DEF storeVars
<1>1. ASSUME NEW w \in Writers, Open(w) PROVE IInv'
  <2>1. TypeOK'
    BY <1>1 DEF Open, IInv, TypeOK
  <2>2. tail[w] = <<>> /\ step[w] = "IDLE"
    BY <1>1 DEF Open, IInv, StepIsBacked
  <2>3. \A v \in Writers : step[v] # "IDLE" => memory'[v] = memory[v]
    BY <1>1, <2>2 DEF Open, IInv, TypeOK
  <2>4. \A v \in Writers : phase'[v] = "DOWN" => tail[v] = <<>>
    BY <1>1 DEF Open, IInv, StepIsBacked, TypeOK
  <2>5. QED BY <1>1, <2>1, <2>3, <2>4, FrameStep DEF Open
<1>2. ASSUME NEW w \in Writers, Close(w) \/ FinishClosing(w) PROVE IInv'
  <2>1. TypeOK'
    BY <1>2 DEF Close, FinishClosing, IInv, TypeOK
  <2>2. QED BY <1>2, <2>1, FrameStep DEF Close, FinishClosing, IInv, StepIsBacked, TypeOK
<1>3. ASSUME NEW w \in Writers, Crash(w) PROVE IInv'
  <2>1. /\ tail' = [tail EXCEPT ![w] = <<>>]
        /\ step' = [step EXCEPT ![w] = "IDLE"]
        /\ phase' = [phase EXCEPT ![w] = "DOWN"]
        /\ \A a \in Attempts :
              attempt'[a] = IF a \in Range(tail[w]) THEN [attempt[a] EXCEPT !.status = "LOST"] ELSE attempt[a]
        /\ UNCHANGED <<log, outcome, memory>>
    BY <1>3 DEF Crash
  <2>2. \A a \in Range(tail[w]) : attempt[a].status = "QUEUED"
    BY DEF Range, IInv, QueuedOnce, TypeOK
  <2>3. \A a \in Attempts : a \in Range(tail[w]) => [attempt[a] EXCEPT !.status = "LOST"] \in Attempt
    <3> SUFFICES ASSUME NEW a \in Attempts, attempt[a].status = "QUEUED"
                 PROVE  [attempt[a] EXCEPT !.status = "LOST"] \in Attempt
      BY <2>2
    <3>1. attempt[a] \in Attempt /\ attempt[a] # Unsent
      BY DEF IInv, TypeOK, Unsent
    <3>2. QED BY <3>1 DEF Attempt
  <2>4. TypeOK'
    <3>1. attempt' \in [Attempts -> Attempt]
      BY <1>3, <2>3 DEF Crash, IInv, TypeOK
    <3>2. QED BY <2>1, <3>1 DEF IInv, TypeOK
  <2>5. \A v \in Writers : \A i \in 1 .. Len(tail'[v]) :
           v # w /\ tail'[v] = tail[v] /\ attempt'[tail[v][i]] = attempt[tail[v][i]]
    <3> SUFFICES ASSUME NEW v \in Writers, NEW i \in 1 .. Len(tail'[v])
                 PROVE  v # w /\ tail'[v] = tail[v] /\ attempt'[tail[v][i]] = attempt[tail[v][i]]
      OBVIOUS
    <3>1. v # w /\ tail'[v] = tail[v]
      BY <2>1 DEF IInv, TypeOK
    <3>2. tail[v][i] \notin Range(tail[w])
      BY <3>1 DEF Range, IInv, QueuedOnce, TypeOK
    <3>3. tail[v][i] \in Attempts
      BY <3>1 DEF IInv, TypeOK
    <3>4. QED BY <2>1, <3>1, <3>2, <3>3
  <2>6. QueuedOnce'
    <3> SUFFICES ASSUME NEW v \in Writers, NEW i \in 1 .. Len(tail'[v]),
                        NEW u \in Writers, NEW j \in 1 .. Len(tail'[u])
                 PROVE  /\ attempt'[tail'[v][i]].status = "QUEUED"
                        /\ tail'[u][j] = tail'[v][i] => u = v /\ j = i
      BY DEF QueuedOnce
    <3>1. tail'[v] = tail[v] /\ attempt'[tail[v][i]] = attempt[tail[v][i]] /\ tail'[u] = tail[u]
      BY <2>5
    <3>2. QED BY <3>1 DEF IInv, QueuedOnce
  <2>7. AnswersAreDurable'
    <3> SUFFICES ASSUME NEW a \in Attempts, attempt'[a].status \in {"APPLIED", "DUPLICATE"}
                 PROVE  attempt'[a] = attempt[a]
      BY <2>1 DEF IInv, AnswersAreDurable, Succeeded
    <3>1. CASE a \in Range(tail[w])
      <4>1. attempt[a] \in Attempt /\ attempt[a] # Unsent
        BY <2>2, <3>1 DEF IInv, TypeOK, Unsent
      <4>2. [attempt[a] EXCEPT !.status = "LOST"].status = "LOST"
        BY <4>1 DEF Attempt
      <4>3. QED BY <2>1, <3>1, <4>2
    <3>2. QED BY <2>1, <3>1
  <2>8. StepIsBacked'
    <3> SUFFICES ASSUME NEW v \in Writers, v # w
                 PROVE  /\ tail'[v] = tail[v] /\ step'[v] = step[v] /\ phase'[v] = phase[v]
                        /\ step[v] # "IDLE" => RequestOf(v)' = RequestOf(v) /\ PrintOf(v)' = PrintOf(v)
      <4>1. StepIsBacked /\ UNCHANGED <<outcome, memory>>
        BY <2>1 DEF IInv
      <4>2. step'[w] = "IDLE" /\ tail'[w] = <<>> /\ phase'[w] = "DOWN"
        BY <2>1 DEF IInv, TypeOK
      <4>3. QED BY <4>1, <4>2 DEF StepIsBacked, Computed
    <3>1. tail'[v] = tail[v] /\ step'[v] = step[v] /\ phase'[v] = phase[v]
      BY <2>1 DEF IInv, TypeOK
    <3>2. step[v] # "IDLE" => Len(tail[v]) >= 1 /\ Current(v) = tail[v][1]
      BY CurrentType DEF IInv, StepIsBacked
    <3>3. QED BY <2>5, <3>1, <3>2 DEF RequestOf, PrintOf, Current, IInv, TypeOK
  <2>9. QED BY <2>4, <2>6, <2>7, <2>8 DEF IInv
<1>4. ASSUME NEW w \in Writers, NEW a \in Attempts, NEW r \in Requests, NEW p \in Prints,
             Execute(a, w, r, p)
      PROVE  IInv'
  <2>1. \A v \in Writers : \A i \in 1 .. Len(tail[v]) : tail[v][i] # a /\ tail[v][i] \in Attempts
    BY <1>4 DEF Execute, Unsent, IInv, QueuedOnce, TypeOK
  <2>2. PICK s \in {"QUEUED", "CLOSED"} :
           /\ attempt' = [attempt EXCEPT ![a] = [status |-> s, request |-> r, print |-> p, result |-> 0]]
           /\ \/ s = "QUEUED" /\ tail' = [tail EXCEPT ![w] = Append(@, a)]
              \/ UNCHANGED tail
    BY <1>4 DEF Execute
  <2>a. /\ Append(tail[w], a) \in Seq(Attempts)
        /\ Len(Append(tail[w], a)) = Len(tail[w]) + 1
        /\ \A i \in 1 .. Len(tail[w]) : Append(tail[w], a)[i] = tail[w][i]
        /\ Append(tail[w], a)[Len(tail[w]) + 1] = a
        /\ tail[w] \in Seq(Attempts)
    <3>1. tail[w] \in Seq(Attempts)
      BY DEF IInv, TypeOK
    <3>2. QED BY <3>1, AppendProperties
  <2>b. \A v \in Writers : \/ tail'[v] = tail[v]
                           \/ v = w /\ s = "QUEUED" /\ tail'[v] = Append(tail[w], a)
    BY <2>2 DEF IInv, TypeOK
  <2>3. TypeOK'
    <3>1. [status |-> s, request |-> r, print |-> p, result |-> 0] \in Attempt
      BY DEF Attempt
    <3>2. attempt' \in [Attempts -> Attempt]
      BY <2>2, <3>1 DEF IInv, TypeOK
    <3>3. tail' \in [Writers -> Seq(Attempts)]
      <4>1. CASE tail' = [tail EXCEPT ![w] = Append(@, a)]
        BY <2>a, <4>1 DEF IInv, TypeOK
      <4>2. QED BY <2>2, <4>1 DEF IInv, TypeOK
    <3>4. QED BY <1>4, <3>2, <3>3 DEF Execute, IInv, TypeOK
  <2>4. \A v \in Writers : \A i \in 1 .. Len(tail'[v]) :
           \/ i \in 1 .. Len(tail[v]) /\ tail'[v][i] = tail[v][i]
           \/ v = w /\ s = "QUEUED" /\ i = Len(tail[w]) + 1 /\ tail'[v][i] = a
    <3> SUFFICES ASSUME NEW v \in Writers, NEW i \in 1 .. Len(tail'[v])
                 PROVE  \/ i \in 1 .. Len(tail[v]) /\ tail'[v][i] = tail[v][i]
                        \/ v = w /\ s = "QUEUED" /\ i = Len(tail[w]) + 1 /\ tail'[v][i] = a
      OBVIOUS
    <3>1. Len(tail[w]) \in Nat
      BY <2>a, LenProperties
    <3>2. CASE tail'[v] = tail[v]
      BY <3>2
    <3>3. CASE v = w /\ s = "QUEUED" /\ tail'[v] = Append(tail[w], a)
      BY <2>a, <3>1, <3>3
    <3>4. QED BY <2>b, <3>2, <3>3
  <2>5. QueuedOnce'
    <3> SUFFICES ASSUME NEW v \in Writers, NEW i \in 1 .. Len(tail'[v])
                 PROVE  /\ attempt'[tail'[v][i]].status = "QUEUED"
                        /\ \A u \in Writers : \A j \in 1 .. Len(tail'[u]) :
                              tail'[u][j] = tail'[v][i] => u = v /\ j = i
      BY DEF QueuedOnce
    <3>1. QueuedOnce
      BY DEF IInv
    <3>2. CASE i \in 1 .. Len(tail[v]) /\ tail'[v][i] = tail[v][i]
      <4>1. tail[v][i] # a /\ tail[v][i] \in Attempts /\ attempt[tail[v][i]].status = "QUEUED"
        BY <2>1, <3>1, <3>2 DEF QueuedOnce
      <4>2. attempt'[tail[v][i]] = attempt[tail[v][i]]
        BY <2>2, <4>1 DEF IInv, TypeOK
      <4>3. ASSUME NEW u \in Writers, NEW j \in 1 .. Len(tail'[u]), tail'[u][j] = tail'[v][i]
            PROVE  u = v /\ j = i
        <5>1. j \in 1 .. Len(tail[u]) /\ tail'[u][j] = tail[u][j]
          BY <2>4, <3>2, <4>1, <4>3
        <5>2. tail[u][j] = tail[v][i]
          BY <3>2, <4>3, <5>1
        <5>3. QED BY <3>1, <3>2, <5>1, <5>2 DEF QueuedOnce
      <4>4. QED BY <3>2, <4>1, <4>2, <4>3
    <3>3. CASE v = w /\ s = "QUEUED" /\ i = Len(tail[w]) + 1 /\ tail'[v][i] = a
      <4>1. attempt'[a].status = "QUEUED"
        BY <2>2, <3>3 DEF IInv, TypeOK
      <4>2. ASSUME NEW u \in Writers, NEW j \in 1 .. Len(tail'[u]), tail'[u][j] = a
            PROVE  u = v /\ j = i
        BY <2>1, <2>4, <3>3, <4>2
      <4>3. QED BY <3>3, <4>1, <4>2
    <3>4. QED BY <2>4, <3>2, <3>3
  <2>6. AnswersAreDurable'
    BY <1>4, <2>2 DEF Execute, IInv, AnswersAreDurable, Succeeded, TypeOK
  <2>7. \A v \in Writers : tail[v] # <<>> =>
           /\ tail'[v] # <<>>
           /\ RequestOf(v)' = RequestOf(v) /\ PrintOf(v)' = PrintOf(v)
    <3> SUFFICES ASSUME NEW v \in Writers, tail[v] # <<>>
                 PROVE  /\ tail'[v] # <<>>
                        /\ RequestOf(v)' = RequestOf(v) /\ PrintOf(v)' = PrintOf(v)
      OBVIOUS
    <3>1. Len(tail[v]) >= 1 /\ Current(v) = tail[v][1] /\ Current(v) \in Attempts
      BY CurrentType DEF IInv
    <3>2. tail'[v] # <<>> /\ Head(tail'[v]) = tail[v][1]
      <4>1. CASE tail'[v] = tail[v]
        BY <3>1, <4>1 DEF Current
      <4>2. CASE v = w /\ tail'[v] = Append(tail[w], a)
        BY <2>a, <3>1, <4>2, AppendProperties
      <4>3. QED BY <2>b, <4>1, <4>2
    <3>3. Current(v) # a
      BY <2>1, <3>1
    <3>4. QED BY <2>2, <3>1, <3>2, <3>3 DEF RequestOf, PrintOf, Current, IInv, TypeOK
  <2>8. \A v \in Writers : phase'[v] = "DOWN" => tail'[v] = <<>>
    BY <1>4, <2>2 DEF Execute, IInv, StepIsBacked, TypeOK
  <2>9. StepIsBacked'
    BY <1>4, <2>7, <2>8 DEF Execute, IInv, StepIsBacked, Computed
  <2>10. QED BY <2>3, <2>5, <2>6, <2>9 DEF IInv
<1>5. ASSUME NEW w \in Writers, LookUp(w) PROVE IInv'
  <2>1. RequestOf(w) \in Requests /\ PrintOf(w) \in Prints /\ tail[w] # <<>>
    BY <1>5, CurrentType DEF LookUp, IInv
  <2>2. ASSUME NEW s \in {"STALE", "CONFLICT"}, Finish(w, s, 0) PROVE IInv'
    BY <1>5, <2>1, <2>2, FinishStep DEF LookUp, IInv, TypeOK
  <2>3. CASE Known(RequestOf(w)) /\ SamePrint(RequestOf(w), PrintOf(w))
             /\ Finish(w, "DUPLICATE", outcome[RequestOf(w)].result)
    <3>1. outcome[RequestOf(w)] \in Outcome
      BY <2>1, <2>3 DEF Known, IInv, TypeOK
    <3>2. /\ outcome[RequestOf(w)].result \in Nat
          /\ outcome[RequestOf(w)] = [print |-> PrintOf(w), result |-> outcome[RequestOf(w)].result]
      BY <2>3, <3>1 DEF Outcome, SamePrint
    <3>3. QED BY <1>5, <2>1, <2>3, <3>2, FinishStep DEF LookUp, IInv, TypeOK
  <2>4. CASE step' = [step EXCEPT ![w] = "HANDLED"] /\ UNCHANGED <<tail, attempt>>
    <3>1. TypeOK'
      BY <1>5, <2>4 DEF LookUp, IInv, TypeOK
    <3>2. QED BY <1>5, <2>1, <2>4, <3>1, FrameStep DEF LookUp, IInv, StepIsBacked, TypeOK
  <2>5. QED BY <1>5, <2>2, <2>3, <2>4 DEF LookUp
<1>6. ASSUME NEW w \in Writers, Refuse(w) PROVE IInv'
  BY <1>6, FinishStep DEF Refuse, IInv, TypeOK
<1>7. ASSUME NEW w \in Writers, AppendIdempotent(w) PROVE IInv'
  <2>1. RequestOf(w) \in Requests /\ PrintOf(w) \in Prints /\ tail[w] # <<>>
    BY <1>7, CurrentType DEF AppendIdempotent, IInv
  <2>2. ASSUME NEW s \in {"STALE", "CONFLICT"}, Finish(w, s, 0), UNCHANGED storeVars PROVE IInv'
    BY <1>7, <2>1, <2>2, FinishStep DEF AppendIdempotent, IInv, TypeOK
  <2>3. CASE Known(RequestOf(w)) /\ SamePrint(RequestOf(w), PrintOf(w))
             /\ step' = [step EXCEPT ![w] = "FOUND"] /\ UNCHANGED <<storeVars, tail, attempt>>
    <3>1. TypeOK'
      BY <1>7, <2>3 DEF AppendIdempotent, IInv, TypeOK
    <3>2. QED BY <1>7, <2>1, <2>3, <3>1, FrameStep DEF AppendIdempotent, IInv, StepIsBacked, TypeOK, Known, SamePrint
  <2>4. CASE ~Known(RequestOf(w)) /\ Record(w)
             /\ step' = [step EXCEPT ![w] = "COMMITTED"] /\ UNCHANGED <<tail, attempt>>
    <3>1. Computed(w) \in Nat
      <4>1. Len(memory[w]) \in Nat /\ Drafts[PrintOf(w)] \in Nat
        BY <2>1, DraftsAssumption DEF IInv, TypeOK
      <4>2. QED BY <4>1 DEF Computed
    <3>2. TypeOK'
      <4>1. log' \in Seq(Requests)
        <5>1. log \in Seq(Requests) /\ [i \in 1 .. Drafts[PrintOf(w)] |-> RequestOf(w)] \in Seq(Requests)
          BY <2>1, GroupType DEF IInv, TypeOK
        <5>2. QED BY <2>4, <5>1, ConcatProperties DEF Record
      <4>2. outcome' \in [Requests -> Outcome \cup {None}]
        BY <2>1, <2>4, <3>1 DEF Record, IInv, TypeOK, Outcome
      <4>3. QED BY <1>7, <2>4, <4>1, <4>2 DEF AppendIdempotent, IInv, TypeOK
    <3>3. \A r \in Requests : Known(r) => outcome'[r] = outcome[r]
      BY <2>1, <2>4 DEF Record, Known, IInv, TypeOK
    <3>4. outcome'[RequestOf(w)] = [print |-> PrintOf(w), result |-> Computed(w)]
      BY <2>1, <2>4 DEF Record, IInv, TypeOK
    <3>5. UNCHANGED <<tail, attempt, phase, memory>> /\ tail[w] # <<>>
      BY <1>7, <2>4 DEF AppendIdempotent
    <3>6. \A v \in Writers : IF v = w THEN step'[v] = "COMMITTED" ELSE step'[v] = step[v]
      BY <2>4 DEF IInv, TypeOK
    <3>7. \A v \in Writers : phase'[v] = "DOWN" => tail[v] = <<>>
      BY <3>5 DEF IInv, StepIsBacked
    <3>8. QED BY <3>2, <3>3, <3>4, <3>5, <3>6, <3>7, FrameStep
  <2>5. QED BY <1>7, <2>2, <2>3, <2>4 DEF AppendIdempotent
<1>8. ASSUME NEW w \in Writers, Answer(w) PROVE IInv'
  <2>1. RequestOf(w) \in Requests /\ PrintOf(w) \in Prints /\ tail[w] # <<>>
    BY <1>8, CurrentType DEF Answer, IInv, StepIsBacked
  <2>2. CASE step[w] = "COMMITTED"
    <3>1. Computed(w) \in Nat
      <4>1. Len(memory[w]) \in Nat /\ Drafts[PrintOf(w)] \in Nat
        BY <2>1, DraftsAssumption DEF IInv, TypeOK
      <4>2. QED BY <4>1 DEF Computed
    <3>2. outcome[RequestOf(w)] = [print |-> PrintOf(w), result |-> Computed(w)]
      BY <2>2 DEF IInv, StepIsBacked
    <3>3. memory' \in [Writers -> Seq(Requests)] /\ \A v \in Writers : v # w => memory'[v] = memory[v]
      <4>1. /\ memory[w] \in Seq(Requests)
            /\ [i \in 1 .. Drafts[PrintOf(w)] |-> RequestOf(w)] \in Seq(Requests)
        BY <2>1, GroupType DEF IInv, TypeOK
      <4>2. memory' = [memory EXCEPT ![w] = @ \o [i \in 1 .. Drafts[PrintOf(w)] |-> RequestOf(w)]]
        BY <1>8, <2>2 DEF Answer
      <4>3. memory[w] \o [i \in 1 .. Drafts[PrintOf(w)] |-> RequestOf(w)] \in Seq(Requests)
        BY <4>1, ConcatProperties
      <4>4. QED BY <4>2, <4>3 DEF IInv, TypeOK
    <3>4. QED BY <1>8, <2>1, <2>2, <3>1, <3>2, <3>3, FinishStep DEF Answer
  <2>3. CASE step[w] = "FOUND"
    <3>1. outcome[RequestOf(w)] \in Outcome /\ outcome[RequestOf(w)].print = PrintOf(w)
      BY <2>1, <2>3 DEF IInv, StepIsBacked, TypeOK
    <3>2. /\ outcome[RequestOf(w)].result \in Nat
          /\ outcome[RequestOf(w)] = [print |-> PrintOf(w), result |-> outcome[RequestOf(w)].result]
      BY <3>1 DEF Outcome
    <3>3. QED BY <1>8, <2>1, <2>3, <3>2, FinishStep DEF Answer, IInv, TypeOK
  <2>4. QED BY <1>8, <2>2, <2>3 DEF Answer
<1>9. CASE UNCHANGED vars
  <2>1. TypeOK'
    BY <1>9 DEF vars, IInv, TypeOK
  <2>2. QED BY <1>9, <2>1, FrameStep DEF vars, IInv, StepIsBacked
<1>10. QED
  BY <1>1, <1>2, <1>3, <1>4, <1>5, <1>6, <1>7, <1>8, <1>9 DEF Next, Run

LEMMA Inductive == Spec => []IInv
BY InitInductive, InductiveStep, PTL DEF Spec

\* Every variable keeps its type.
THEOREM WriterTypeCorrect == Spec => []TypeOK
BY Inductive, PTL DEF IInv

\* What any attempt was told is stored under its own fingerprint, so it survives
\* a crash and every retry is told the same (session-writer.ts:151-190).
THEOREM AnswersDurable == Spec => []AnswersAreDurable
BY Inductive, PTL DEF IInv

\* Only a transaction that found no outcome stores one.
LEMMA OutcomeStep ==
  IInv /\ [Next]_vars => \A r \in Requests : outcome[r] # None => outcome'[r] = outcome[r]
<1> SUFFICES ASSUME IInv, [Next]_vars, NEW r \in Requests, outcome[r] # None PROVE outcome'[r] = outcome[r]
  OBVIOUS
<1>1. CASE UNCHANGED outcome
  BY <1>1
<1>2. ASSUME NEW w \in Writers, Record(w), ~Known(RequestOf(w)) PROVE outcome'[r] = outcome[r]
  BY <1>2 DEF Record, IInv, TypeOK, Known
<1>3. ASSUME NEW w \in Writers, AppendIdempotent(w) PROVE outcome'[r] = outcome[r]
  BY <1>1, <1>2, <1>3 DEF AppendIdempotent, storeVars
<1>4. ASSUME NEW w \in Writers, LookUp(w) \/ Refuse(w) \/ Answer(w) \/ FinishClosing(w) \/ Open(w)
                                \/ Close(w) \/ Crash(w)
      PROVE  outcome'[r] = outcome[r]
  BY <1>4 DEF LookUp, Refuse, Answer, FinishClosing, Open, Close, Crash, storeVars
<1>5. ASSUME NEW w \in Writers, NEW a \in Attempts, NEW q \in Requests, NEW p \in Prints, Execute(a, w, q, p)
      PROVE  outcome'[r] = outcome[r]
  BY <1>5 DEF Execute, storeVars
<1>6. QED BY <1>3, <1>4, <1>5 DEF Next, Run, vars, storeVars

\* A stored outcome is never replaced, whatever crashes, retries and other writers follow.
THEOREM OutcomeNeverReplaced == Spec => OutcomeIsFinal
BY Inductive, OutcomeStep, PTL DEF Spec, OutcomeIsFinal

-----------------------------------------------------------------------------
(* The command path implements exactly-once effects. *)

ToldNow == [a \in Attempts |->
              IF Succeeded(a) THEN [request |-> attempt[a].request, print |-> attempt[a].print,
                                    result |-> attempt[a].result]
              ELSE None]

LEMMA InitImplements == Init => Once!Init
BY DEF Init, Once!Init, Succeeded, Unsent

\* Nothing the abstract specification sees changes.
LEMMA Stutter ==
  ASSUME IInv, UNCHANGED storeVars,
         \A a \in Attempts : \/ attempt'[a] = attempt[a]
                             \/ ~Succeeded(a) /\ attempt'[a].status \notin {"APPLIED", "DUPLICATE"}
  PROVE  UNCHANGED Once!vars
<1>1. \A a \in Attempts : ToldNow'[a] = ToldNow[a]
  BY DEF ToldNow, Succeeded
<1>2. ToldNow' = ToldNow
  BY <1>1 DEF ToldNow
<1>3. QED BY <1>2 DEF Once!vars, ToldNow, storeVars

\* A success is told from the stored outcome.
LEMMA TellStep ==
  ASSUME IInv, NEW w \in Writers, tail[w] # <<>>, NEW s \in {"APPLIED", "DUPLICATE"}, NEW n \in Nat,
         Finish(w, s, n), UNCHANGED storeVars,
         outcome[RequestOf(w)] = [print |-> PrintOf(w), result |-> n]
  PROVE  Once!Next
<1> DEFINE a == Current(w)
<1>1. a \in Attempts /\ attempt[a].status = "QUEUED" /\ RequestOf(w) \in Requests /\ PrintOf(w) \in Prints
  BY CurrentType DEF IInv
<1>2. outcome[RequestOf(w)] # None
  BY <1>1, NoneAssumption
<1>3. ToldNow[a] = None
  BY <1>1 DEF ToldNow, Succeeded
<1>4. attempt' = [attempt EXCEPT ![a] = [status |-> s, request |-> RequestOf(w), print |-> PrintOf(w),
                                         result |-> n]]
  BY DEF Finish
<1>5. ToldNow' = [ToldNow EXCEPT ![a] = [request |-> RequestOf(w), print |-> PrintOf(w), result |-> n]]
  BY <1>1, <1>4 DEF ToldNow, Succeeded, IInv, TypeOK
<1>6. PICK r \in Requests, b \in Attempts : r = RequestOf(w) /\ b = a
  BY <1>1
<1>7. Once!Tell(b, r)
  <2>1. outcome[r] # None /\ outcome[r].print = PrintOf(w) /\ outcome[r].result = n
    BY <1>2, <1>6
  <2>2. ToldNow[b] = None /\ UNCHANGED <<log, outcome>>
    BY <1>3, <1>6 DEF storeVars
  <2>3. ToldNow' = [ToldNow EXCEPT ![b] = [request |-> r, print |-> outcome[r].print,
                                           result |-> outcome[r].result]]
    BY <1>5, <1>6, <2>1
  <2>4. QED BY <2>1, <2>2, <2>3 DEF Once!Tell, ToldNow
<1>8. QED BY <1>7 DEF Once!Next

\* A finish without success is invisible.
LEMMA SilentFinish ==
  ASSUME IInv, NEW w \in Writers, tail[w] # <<>>, NEW s \in {"STALE", "CONFLICT", "REFUSED"},
         Finish(w, s, 0), UNCHANGED storeVars
  PROVE  UNCHANGED Once!vars
<1>1. attempt[Current(w)].status = "QUEUED" /\ Current(w) \in Attempts
  BY CurrentType DEF IInv
<1>2. \A a \in Attempts : \/ attempt'[a] = attempt[a]
                          \/ ~Succeeded(a) /\ attempt'[a].status \notin {"APPLIED", "DUPLICATE"}
  BY <1>1 DEF Finish, Succeeded, IInv, TypeOK
<1>3. QED BY <1>2, Stutter

LEMMA NextImplements == IInv /\ [Next]_vars => [Once!Next]_Once!vars
<1> SUFFICES ASSUME IInv, [Next]_vars PROVE [Once!Next]_Once!vars
  OBVIOUS
<1> USE DEF storeVars
<1>1. ASSUME NEW w \in Writers, LookUp(w) PROVE [Once!Next]_Once!vars
  <2>1. RequestOf(w) \in Requests /\ PrintOf(w) \in Prints /\ tail[w] # <<>>
    BY <1>1, CurrentType DEF LookUp, IInv
  <2>2. CASE UNCHANGED attempt
    BY <1>1, <2>2, Stutter DEF LookUp
  <2>3. CASE Finish(w, "STALE", 0) \/ Finish(w, "CONFLICT", 0)
    BY <1>1, <2>1, <2>3, SilentFinish DEF LookUp
  <2>4. CASE Known(RequestOf(w)) /\ SamePrint(RequestOf(w), PrintOf(w))
             /\ Finish(w, "DUPLICATE", outcome[RequestOf(w)].result)
    <3>1. outcome[RequestOf(w)] \in Outcome
      BY <2>1, <2>4 DEF Known, IInv, TypeOK
    <3>2. /\ outcome[RequestOf(w)].result \in Nat
          /\ outcome[RequestOf(w)] = [print |-> PrintOf(w), result |-> outcome[RequestOf(w)].result]
      BY <2>4, <3>1 DEF Outcome, SamePrint
    <3>3. UNCHANGED storeVars
      BY <1>1 DEF LookUp
    <3>4. Once!Next
      BY <2>1, <2>4, <3>2, <3>3, TellStep
    <3>5. QED BY <3>4
  <2>5. QED BY <1>1, <2>2, <2>3, <2>4 DEF LookUp
<1>2. ASSUME NEW w \in Writers, Refuse(w) PROVE [Once!Next]_Once!vars
  BY <1>2, SilentFinish DEF Refuse
<1>3. ASSUME NEW w \in Writers, AppendIdempotent(w) PROVE [Once!Next]_Once!vars
  <2>1. RequestOf(w) \in Requests /\ PrintOf(w) \in Prints /\ tail[w] # <<>>
    BY <1>3, CurrentType DEF AppendIdempotent, IInv
  <2>2. CASE UNCHANGED <<storeVars, attempt>>
    BY <2>2, Stutter
  <2>3. CASE (Finish(w, "STALE", 0) \/ Finish(w, "CONFLICT", 0)) /\ UNCHANGED storeVars
    BY <2>1, <2>3, SilentFinish
  <2>4. CASE ~Stale(w) /\ ~Known(RequestOf(w)) /\ Record(w) /\ UNCHANGED attempt
    <3>1. Computed(w) = Len(log) + Drafts[PrintOf(w)]
      BY <2>4 DEF Stale, Computed
    <3>2. UNCHANGED ToldNow
      BY <2>4 DEF ToldNow, Succeeded
    <3>3. Once!TakeEffect(RequestOf(w), PrintOf(w))
      BY <2>4, <3>1, <3>2 DEF Record, Known, Once!TakeEffect, Once!Group, ToldNow
    <3>4. QED BY <2>1, <3>3 DEF Once!Next
  <2>5. QED BY <1>3, <2>2, <2>3, <2>4 DEF AppendIdempotent
<1>4. ASSUME NEW w \in Writers, Answer(w) PROVE [Once!Next]_Once!vars
  <2>1. RequestOf(w) \in Requests /\ PrintOf(w) \in Prints /\ tail[w] # <<>>
    BY <1>4, CurrentType DEF Answer, IInv, StepIsBacked
  <2>2. CASE step[w] = "COMMITTED"
    <3>1. Computed(w) \in Nat
      <4>1. Len(memory[w]) \in Nat /\ Drafts[PrintOf(w)] \in Nat
        BY <2>1, DraftsAssumption DEF IInv, TypeOK
      <4>2. QED BY <4>1 DEF Computed
    <3>2. outcome[RequestOf(w)] = [print |-> PrintOf(w), result |-> Computed(w)]
      BY <2>2 DEF IInv, StepIsBacked
    <3>3. UNCHANGED storeVars /\ Finish(w, "APPLIED", Computed(w))
      BY <1>4, <2>2 DEF Answer
    <3>4. Once!Next
      BY <2>1, <3>1, <3>2, <3>3, TellStep
    <3>5. QED BY <3>4
  <2>3. CASE step[w] = "FOUND"
    <3>1. outcome[RequestOf(w)] \in Outcome /\ outcome[RequestOf(w)].print = PrintOf(w)
      BY <2>1, <2>3 DEF IInv, StepIsBacked, TypeOK
    <3>2. /\ outcome[RequestOf(w)].result \in Nat
          /\ outcome[RequestOf(w)] = [print |-> PrintOf(w), result |-> outcome[RequestOf(w)].result]
      BY <3>1 DEF Outcome
    <3>3. UNCHANGED storeVars /\ Finish(w, "DUPLICATE", outcome[RequestOf(w)].result)
      BY <1>4, <2>3 DEF Answer
    <3>4. Once!Next
      BY <2>1, <3>2, <3>3, TellStep
    <3>5. QED BY <3>4
  <2>4. QED BY <1>4, <2>2, <2>3 DEF Answer
<1>5. ASSUME NEW w \in Writers, NEW a \in Attempts, NEW r \in Requests, NEW p \in Prints,
             Execute(a, w, r, p)
      PROVE  [Once!Next]_Once!vars
  <2>1. \A b \in Attempts : \/ attempt'[b] = attempt[b]
                            \/ ~Succeeded(b) /\ attempt'[b].status \notin {"APPLIED", "DUPLICATE"}
    BY <1>5 DEF Execute, Succeeded, Unsent, IInv, TypeOK
  <2>2. QED BY <1>5, <2>1, Stutter DEF Execute
<1>6. ASSUME NEW w \in Writers, Crash(w) PROVE [Once!Next]_Once!vars
  <2>1. \A a \in Range(tail[w]) : attempt[a].status = "QUEUED"
    BY DEF Range, IInv, QueuedOnce, TypeOK
  <2>2. \A a \in Attempts : \/ attempt'[a] = attempt[a]
                            \/ ~Succeeded(a) /\ attempt'[a].status = "LOST"
    <3> SUFFICES ASSUME NEW a \in Attempts, attempt[a].status = "QUEUED", a \in Range(tail[w])
                 PROVE  attempt'[a].status = "LOST"
      BY <1>6, <2>1 DEF Crash, Succeeded
    <3>1. attempt[a] \in Attempt /\ attempt[a] # Unsent
      BY DEF IInv, TypeOK, Unsent
    <3>2. [attempt[a] EXCEPT !.status = "LOST"].status = "LOST"
      BY <3>1 DEF Attempt
    <3>3. QED BY <1>6, <3>2 DEF Crash
  <2>3. QED BY <1>6, <2>2, Stutter DEF Crash
<1>7. CASE UNCHANGED vars \/ \E w \in Writers : Open(w) \/ Close(w) \/ FinishClosing(w)
  BY <1>7, Stutter DEF vars, Open, Close, FinishClosing
<1>8. QED
  BY <1>1, <1>2, <1>3, <1>4, <1>5, <1>6, <1>7 DEF Next, Run

\* The command path of a session has exactly-once effects (D003, D036).
THEOREM WriterImplementsExactlyOnce == Spec => ImplementsExactlyOnce
BY InitImplements, Inductive, NextImplements, PTL DEF Spec, ImplementsExactlyOnce, Once!Spec
=============================================================================
