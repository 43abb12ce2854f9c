--------------------------- MODULE MoneyTransfer ----------------------------
(***************************************************************************)
(* What a transfer between two safes promises (the business rules at the   *)
(* head of services/safe-transfer.service.ts): it happens at once and in   *)
(* full or not at all, the source covers the gross amount when it does,    *)
(* and the destination receives gross minus fee.                           *)
(***************************************************************************)
EXTENDS Integers

CONSTANTS Safes, Opening, Requests

VARIABLES balance, order, outcome

promiseVars == <<balance, order, outcome>>

Init ==
  /\ balance = Opening
  /\ outcome = [r \in Requests |-> "none"]

\* The request names two safes and the amounts; it may be refused at once.
Ask(r) ==
  /\ outcome[r] = "none"
  /\ \A q \in Requests \ {r} : order'[q] = order[q]
  /\ outcome' \in {[outcome EXCEPT ![r] = "open"], [outcome EXCEPT ![r] = "refused"]}
  /\ UNCHANGED balance

Settle(r) ==
  LET o == order[r]
  IN /\ outcome[r] = "open"
     /\ o.from # o.to
     /\ balance[o.from] >= o.amount
     /\ balance' = [balance EXCEPT ![o.from] = @ - o.amount, ![o.to] = @ + o.amount - o.fee]
     /\ outcome' = [outcome EXCEPT ![r] = "done"]
     /\ UNCHANGED order

Refuse(r) ==
  /\ outcome[r] = "open"
  /\ outcome' = [outcome EXCEPT ![r] = "refused"]
  /\ UNCHANGED <<balance, order>>

Next == \E r \in Requests : Ask(r) \/ Settle(r) \/ Refuse(r)

Spec == Init /\ [][Next]_promiseVars

=============================================================================
