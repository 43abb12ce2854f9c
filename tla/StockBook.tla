------------------------------ MODULE StockBook ------------------------------
(***************************************************************************)
(* What posting a document to stock promises (docs/CODING_CONVENTIONS.md,  *)
(* section 6): quantities and movements change together, in one step, or   *)
(* not at all, and a quantity is never negative.                           *)
(***************************************************************************)
EXTENDS Integers

CONSTANTS Products, Opening, Requests

VARIABLES onHand, recorded, outcome

bookVars == <<onHand, recorded, outcome>>

Init ==
  /\ onHand = Opening
  /\ recorded = Opening
  /\ outcome = [r \in Requests |-> "open"]

PostDocument(r) ==
  /\ outcome[r] = "open"
  /\ outcome' = [outcome EXCEPT ![r] = "done"]
  /\ \A p \in Products : /\ onHand'[p] >= 0
                         /\ recorded'[p] - recorded[p] = onHand'[p] - onHand[p]

Refuse(r) ==
  /\ outcome[r] = "open"
  /\ outcome' = [outcome EXCEPT ![r] = "refused"]
  /\ UNCHANGED <<onHand, recorded>>

Next == \E r \in Requests : PostDocument(r) \/ Refuse(r)

Spec == Init /\ [][Next]_bookVars

=============================================================================
