--------------------------- MODULE ExposureLedger ---------------------------
(***************************************************************************)
(* What the deliveries of a session promise, whatever produces them: an    *)
(* atom waits, is under way, has been disclosed or was withdrawn, and the  *)
(* ledger grows by exactly what the atoms that become disclosed reveal.    *)
(* Uncertainty counts as disclosure (frozen invariants 3.3 and 3.4 of the  *)
(* architecture).  Any number of atoms may move in one step, because one   *)
(* command may withdraw all of them.                                       *)
(***************************************************************************)
CONSTANTS Atoms, Disclosures

VARIABLES
  phase,    \* where each atom is
  reveals,  \* what each atom reveals
  ledger    \* what the candidate may have been told

vars == <<phase, reveals, ledger>>

TypeOK ==
  /\ phase \in [Atoms -> {"ABSENT", "WAITING", "UNDER_WAY", "DISCLOSED", "WITHDRAWN"}]
  /\ reveals \in [Atoms -> SUBSET Disclosures]
  /\ ledger \in SUBSET Disclosures

Init ==
  /\ phase = [a \in Atoms |-> "ABSENT"]
  /\ reveals = [a \in Atoms |-> {}]
  /\ ledger = {}

\* What may become of an atom in one step.  One on its way may still be
\* withdrawn, when the renderer confirms that it was not shown.
MayBecome(p, q) ==
  \/ q = p
  \/ p = "ABSENT"    /\ q = "WAITING"
  \/ p = "WAITING"   /\ q \in {"UNDER_WAY", "WITHDRAWN"}
  \/ p = "UNDER_WAY" /\ q \in {"DISCLOSED", "WITHDRAWN"}

Step ==
  /\ \A a \in Atoms : MayBecome(phase[a], phase'[a])
  /\ phase' \in [Atoms -> {"ABSENT", "WAITING", "UNDER_WAY", "DISCLOSED", "WITHDRAWN"}]
  /\ reveals' \in [Atoms -> SUBSET Disclosures]
  /\ \A a \in Atoms : phase[a] # "ABSENT" => reveals'[a] = reveals[a]
  /\ ledger' = ledger \cup UNION {reveals[a] : a \in
                 {b \in Atoms : phase[b] # "DISCLOSED" /\ phase'[b] = "DISCLOSED"}}

Spec == Init /\ [][Step]_vars
=============================================================================
