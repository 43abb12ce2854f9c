---------------------------- MODULE MCStaffCash ----------------------------
(* The instance of StaffCash that TLC checks: an advance that is approved and
   repaid and one that needs no approval, a custody of the petty cash, a month for two employees. *)
EXTENDS StaffCash

CONSTANTS till, petty, sara, omar, loan, gift, purse, may, r1, r2

MCDocs == {loan, gift, purse, may}
MCOwner == [a \in {loan, gift} |-> sara]
MCAdvanceSize == [a \in {loan, gift} |-> 2]
MCWorth == [c \in {purse} |-> 2]
MCGivenFrom == [c \in {purse} |-> petty]
MCSalary == [e \in {sara, omar} |-> 3]
MCDesks == [d \in MCDocs |-> IF d = purse THEN {petty} ELSE {till}]
MCOpening == [s \in {till, petty} |-> IF s = till THEN 6 ELSE 3]

=============================================================================
