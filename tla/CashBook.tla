------------------------------- MODULE CashBook -------------------------------
(***************************************************************************)
(* What a safe promises: a document enters its cash book only while it is  *)
(* not in it and is struck out only while it is, the cash in the safe      *)
(* moves with it in the same step, and there is always enough of it.       *)
(***************************************************************************)
EXTENDS Integers

CONSTANTS
  Docs,      \* the documents of the safe
  Adds,      \* Adds[d]: what document d adds to the safe
  Beginning  \* the cash to begin with

VARIABLES
  cash,      \* what is in the safe
  kept       \* the documents in the book

vars == <<cash, kept>>

Init == cash = Beginning /\ kept = {}

Enter(d) == /\ d \notin kept
            /\ cash + Adds[d] >= 0
            /\ cash' = cash + Adds[d]
            /\ kept' = kept \cup {d}

StrikeOut(d) == /\ d \in kept
                /\ cash - Adds[d] >= 0
                /\ cash' = cash - Adds[d]
                /\ kept' = kept \ {d}

Next == \E d \in Docs : Enter(d) \/ StrikeOut(d)

Spec == Init /\ [][Next]_vars

=============================================================================
