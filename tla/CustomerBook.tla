----------------------------- MODULE CustomerBook -----------------------------
(***************************************************************************)
(* What the account of a customer promises: an invoice is entered once and *)
(* cancelled once, never while goods of it are given back, and what the    *)
(* customer owes and the cash in the safes move in the same step, by what  *)
(* the document says; cancelling and deleting undo exactly that.           *)
(***************************************************************************)
EXTENDS Integers

CONSTANTS
  Docs,       \* the invoices of the customer
  Safes,      \* the safes they are paid into
  OnAccount,  \* not a safe: the amount moves on the account
  Direction,  \* Direction[d]: 1 for a sale, -1 for a purchase
  Owed,       \* Owed[d]: what invoice d adds to the debt
  PaidIn,       \* PaidIn[d][s]: what it adds to safe s
  Beginning   \* the cash to begin with

VARIABLES
  owed,       \* what the customer owes
  till,       \* what is in the safes
  papers,     \* papers[d]: "none", "active" or "cancelled"
  given       \* the returns in force, [id, doc, amount, via]

vars == <<owed, till, papers, given>>

Init ==
  /\ owed = 0
  /\ till = Beginning
  /\ papers = [d \in Docs |-> "none"]
  /\ given = {}

Enter(d) ==
  /\ papers[d] = "none"
  /\ papers' = [papers EXCEPT ![d] = "active"]
  /\ owed' = owed + Owed[d]
  /\ till' = [s \in Safes |-> till[s] + PaidIn[d][s]]
  /\ UNCHANGED given

Cancel(d) ==
  /\ papers[d] = "active"
  /\ \A b \in given : b.doc # d
  /\ papers' = [papers EXCEPT ![d] = "cancelled"]
  /\ owed' = owed - Owed[d]
  /\ till' = [s \in Safes |-> till[s] - PaidIn[d][s]]
  /\ UNCHANGED given

\* An amount moves on the account or in a safe of the book, or somewhere else.
Move(x, via) ==
  /\ owed' = IF via = OnAccount THEN owed + x ELSE owed
  /\ till' = [s \in Safes |-> IF s = via THEN till[s] + x ELSE till[s]]

GiveBack ==
  \E b \in given' :
    /\ papers[b.doc] # "none"
    /\ \A other \in given : other.id # b.id
    /\ given' = given \cup {b}
    /\ Move(- Direction[b.doc] * b.amount, b.via)
    /\ UNCHANGED papers

TakeBack ==
  \E b \in given :
    /\ given' = given \ {b}
    /\ Move(Direction[b.doc] * b.amount, b.via)
    /\ UNCHANGED papers

\* A payment moves the debt and, in a safe of the book, the cash against it.
Settle ==
  /\ owed' # owed
  /\ \/ UNCHANGED till
     \/ \E via \in Safes :
          till' = [s \in Safes |-> IF s = via THEN till[s] + (owed - owed') ELSE till[s]]
  /\ UNCHANGED <<papers, given>>

Next == (\E d \in Docs : Enter(d) \/ Cancel(d)) \/ GiveBack \/ TakeBack \/ Settle

Spec == Init /\ [][Next]_vars

=============================================================================
