----------------------------- MODULE CustodyBook -----------------------------
(***************************************************************************)
(* What the custodies of one safe promise: the cash of a custody leaves    *)
(* the safe once; it is accounted for once, the rest coming back or the    *)
(* excess being owed; what is owed is paid once; a custody that is not     *)
(* accounted for may be called off, and all of it comes back.  The safe    *)
(* always has what it gives.                                               *)
(***************************************************************************)
EXTENDS Integers

CONSTANTS
  Custodies,  \* the custodies of the safe
  Worth,      \* Worth[c]: the cash of custody c
  Beginning   \* the cash in the safe to begin with

VARIABLES
  cash,       \* what is in the safe
  state,      \* state[c]: "none", "open", "settled" or "deleted"
  owed        \* owed[c]: what the company owes the employee

vars == <<cash, state, owed>>

Init ==
  /\ cash = Beginning
  /\ state = [c \in Custodies |-> "none"]
  /\ owed = [c \in Custodies |-> 0]

Grant(c) ==
  /\ state[c] = "none"
  /\ cash >= Worth[c]
  /\ cash' = cash - Worth[c]
  /\ state' = [state EXCEPT ![c] = "open"]
  /\ UNCHANGED owed

\* Either something comes back or something is owed, never both.
Account(c, back) ==
  /\ state[c] = "open"
  /\ cash' = cash + back
  /\ state' = [state EXCEPT ![c] = "settled"]
  /\ owed' = [owed EXCEPT ![c] = owed'[c]]
  /\ owed'[c] \in Nat
  /\ back = 0 \/ owed'[c] = 0

PayOwed(c) ==
  /\ state[c] = "settled"
  /\ owed[c] > 0
  /\ cash >= owed[c]
  /\ cash' = cash - owed[c]
  /\ owed' = [owed EXCEPT ![c] = 0]
  /\ UNCHANGED state

CallOff(c) ==
  /\ state[c] = "open"
  /\ cash' = cash + Worth[c]
  /\ state' = [state EXCEPT ![c] = "deleted"]
  /\ UNCHANGED owed

Next ==
  \E c \in Custodies :
    \/ Grant(c) \/ PayOwed(c) \/ CallOff(c)
    \/ \E back \in 0..Worth[c] : Account(c, back)

Spec == Init /\ [][Next]_vars

=============================================================================
