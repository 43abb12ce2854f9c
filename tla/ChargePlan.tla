----------------------------- MODULE ChargePlan -----------------------------
(* What the books promise about an asset that is depreciated or an accrual that *)
(* is recognized: a month is charged once, and until the plan is closed; all     *)
(* charges together are at most what there is to charge.                         *)
EXTENDS Integers

CONSTANTS
  Schedules,
  Months,
  Limit       \* Limit[x]: what may be charged for x in all

VARIABLES
  charged,    \* charged[x]: what has been charged for x
  months,     \* months[x]: the months that have been charged
  open        \* open[x]: there is something left, and x is still there

Init ==
  /\ charged = [x \in Schedules |-> 0]
  /\ months = [x \in Schedules |-> {}]
  /\ open = [x \in Schedules |-> TRUE]

Charge(x, p, amount) ==
  /\ open[x]
  /\ p \notin months[x]
  /\ charged' = [charged EXCEPT ![x] = @ + amount]
  /\ charged'[x] <= Limit[x]
  /\ months' = [months EXCEPT ![x] = @ \cup {p}]
  /\ \/ UNCHANGED open
     \/ charged'[x] = Limit[x] /\ open' = [open EXCEPT ![x] = FALSE]

Close(x) ==
  /\ open[x]
  /\ open' = [open EXCEPT ![x] = FALSE]
  /\ UNCHANGED <<charged, months>>

Next ==
  \E x \in Schedules :
    Close(x) \/ \E p \in Months, amount \in 1..Limit[x] : Charge(x, p, amount)

Spec == Init /\ [][Next]_<<charged, months, open>>

=============================================================================
