------------------------------ MODULE SaleBook ------------------------------
(***************************************************************************)
(* What the life of one sale promises to whoever reads it: it is drafted,  *)
(* posted and cancelled in this order and never taken back, a cancellation *)
(* leaves nothing in the books, and what was returned and what was booked  *)
(* for it change together.                                                 *)
(***************************************************************************)
EXTENDS Integers

CONSTANT Units    \* the quantity sold

VARIABLES
  status,         \* "none", "draft", "posted", "cancelled"
  returned,       \* the quantity taken back
  entries,        \* entries of the sale in the journal less their reversals
  cost            \* cost of goods sold the journal holds for the sale

vars == <<status, returned, entries, cost>>

Init == status = "none" /\ returned = 0 /\ entries = 0 /\ cost = 0

Draft == /\ status = "none"
         /\ status' = "draft"
         /\ UNCHANGED <<returned, entries, cost>>

Post == /\ status = "draft"
        /\ status' = "posted"
        /\ entries' = entries + 1
        /\ cost' = cost + Units
        /\ UNCHANGED returned

\* Only without returns, and the entry is reversed when there is one.
Cancel == /\ status \in {"draft", "posted"}
          /\ returned = 0
          /\ status' = "cancelled"
          /\ entries' = 0
          /\ cost' = 0
          /\ UNCHANGED returned

\* Goods come back, whatever the status, or a return is deleted: what is booked
\* changes by what has come back.
TakeBack == /\ status # "none"
            /\ returned' \in Nat
            /\ cost' + returned' = cost + returned
            /\ UNCHANGED <<status, entries>>

Next == Draft \/ Post \/ Cancel \/ TakeBack

Spec == Init /\ [][Next]_vars

=============================================================================
