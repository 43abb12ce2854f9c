---------------------------- MODULE MCCashVouchers ----------------------------
(* Small instances of CashVouchers: an orderly drawer, a drawer whose documents *)
(* are worked on by several people at a time, and one that takes income.        *)
EXTENDS CashVouchers

V(kind, safe, customer, amount) ==
  [kind |-> kind, safe |-> safe, customer |-> customer, amount |-> amount]

MCVoucher ==
  [d \in Docs |->
     CASE d = "RV1" -> V("receipt", "drawer", "ali", 2)
       [] d = "PV1" -> V("payment", "drawer", "ali", 2)
       [] d = "EXP1" -> V("expense", "drawer", NoCustomer, 1)
       [] d = "DV1" -> V("deposit", "till", NoCustomer, 1)
       [] d = "TR1" -> V("treasuryReceipt", "till", NoCustomer, 1)
       [] d = "TP1" -> V("treasuryPayment", "till", NoCustomer, 2)
       [] d = "INC1" -> V("income", "box", NoCustomer, 1)]

MCOpening == [s \in Safes |-> IF s = "drawer" THEN 1 ELSE 0]

=============================================================================
