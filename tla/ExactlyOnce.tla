----------------------------- MODULE ExactlyOnce -----------------------------
(***************************************************************************)
(* What the command path of one session promises (DECISIONS.md D003, D036):*)
(* a request takes effect at most once, in one indivisible step; the       *)
(* outcome it then got is the one every attempt with the same request and  *)
(* the same fingerprint is told; an attempt is told of an outcome only     *)
(* after it happened.                                                      *)
(***************************************************************************)
EXTENDS Naturals, Sequences

CONSTANTS Requests, Prints, Attempts,
          Drafts, \* [Prints -> Nat]: how many events a command appends
          None

VARIABLES log,     \* the requests that caused the events, in order
          outcome, \* None, or the fingerprint and the result of a request
          told     \* None, or what an attempt was told

vars == <<log, outcome, told>>

Init == /\ log = <<>>
        /\ outcome = [r \in Requests |-> None]
        /\ told = [a \in Attempts |-> None]

\* The events of one command, all caused by its request.
Group(r, p) == [i \in 1 .. Drafts[p] |-> r]

TakeEffect(r, p) ==
    /\ outcome[r] = None
    /\ outcome' = [outcome EXCEPT ![r] = [print |-> p, result |-> Len(log) + Drafts[p]]]
    /\ log' = log \o Group(r, p)
    /\ UNCHANGED told

Tell(a, r) ==
    /\ told[a] = None
    /\ outcome[r] # None
    /\ told' = [told EXCEPT ![a] = [request |-> r, print |-> outcome[r].print,
                                    result |-> outcome[r].result]]
    /\ UNCHANGED <<log, outcome>>

Next == \E r \in Requests : \/ \E p \in Prints : TakeEffect(r, p)
                            \/ \E a \in Attempts : Tell(a, r)

Spec == Init /\ [][Next]_vars
=============================================================================
