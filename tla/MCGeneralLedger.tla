-------------------------- MODULE MCGeneralLedger --------------------------
(* The instances of GeneralLedger that TLC checks.  A company has two desks with one
   code, a van whose requests may overlap and stop, and a loan one person enters and
   posts.  The other company has its balances repaired; it has an accrual that one
   person works on and one that several do, and a correction that several do. *)
EXTENDS GeneralLedger, TLC

CONSTANTS
  loan, correction, desk, copy, van, rent, ads, r1, r2,
  bank, debt, expense, accrued, wear, deskWorn, vanWorn, desks, vans, sale, gain, loss, till, capital

MCLines ==
  (loan :> <<LineFor(bank, 2), LineFor(debt, -2)>>) @@
  (correction :> <<LineFor(till, 1), LineFor(capital, -1)>>)
MCDebit == [x \in Schedules |-> IF x \in Assets THEN wear ELSE expense]
MCCredit ==
  [x \in Schedules |-> CASE x \in Accruals -> accrued [] x = van -> vanWorn [] OTHER -> deskWorn]
MCLimit == [x \in Schedules |-> IF x \in {copy, van} THEN 2 ELSE 3]
MCPortion == [x \in Schedules |-> [u \in 0..2 |-> IF x \in {copy, van} THEN 1 ELSE 2]]
MCCost == [x \in Assets |-> 3]
MCAssetAccount == [x \in Assets |-> IF x = van THEN vans ELSE desks]

\* A loan on a credit-normal account; two purchases paid by the bank.
LoanLines == (loan :> <<LineFor(bank, 2), LineFor(debt, -2)>>)
PaidLines ==
  (loan :> <<LineFor(desks, 2), LineFor(bank, -2)>>) @@
  (correction :> <<LineFor(vans, 1), LineFor(bank, -1)>>)

Alike == Permutations({r1, r2})

=============================================================================
