----------------------------- MODULE RepairBook -----------------------------
(* What the workshop promises about a job and the commissions of its           *)
(* technicians: a job is closed once, a commission is credited when the job is *)
(* delivered, or delivered again for a service added since, and a return,      *)
(* which comes once and after the delivery, takes back at most what was        *)
(* credited.                                                                   *)
EXTENDS Integers

CONSTANTS
  Jobs,
  MostCredit  \* MostCredit[j]: what the technicians of job j may earn with it

VARIABLES
  stage,      \* stage[j]: "open", "delivered", "returned" or "closed"
  credit      \* credit[j]: what the technicians have been credited for job j

Init ==
  /\ stage = [j \in Jobs |-> "open"]
  /\ credit = [j \in Jobs |-> 0]

Deliver(j) ==
  /\ stage[j] = "open"
  /\ stage' = [stage EXCEPT ![j] = "delivered"]
  /\ \E earned \in 0..MostCredit[j] : credit' = [credit EXCEPT ![j] = earned]

DeliverAgain(j) ==
  /\ stage[j] \in {"delivered", "returned"}
  /\ UNCHANGED stage
  /\ \E earned \in credit[j]..MostCredit[j] : credit' = [credit EXCEPT ![j] = earned]

TakeBack(j) ==
  /\ stage[j] = "delivered"
  /\ stage' = [stage EXCEPT ![j] = "returned"]
  /\ \E kept \in 0..credit[j] : credit' = [credit EXCEPT ![j] = kept]

Close(j) ==
  /\ stage[j] = "open"
  /\ stage' = [stage EXCEPT ![j] = "closed"]
  /\ UNCHANGED credit

Next == \E j \in Jobs : Deliver(j) \/ DeliverAgain(j) \/ TakeBack(j) \/ Close(j)

Spec == Init /\ [][Next]_<<stage, credit>>

=============================================================================
