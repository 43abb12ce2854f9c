---------------------------- MODULE MCCustomerMoney ----------------------------
(* Small instances of CustomerMoney: ali buys one product on account and his     *)
(* requests overlap, omar has a safe of his own and waits for answers, mona both *)
(* sells and pays through ali's safe.                                            *)
EXTENDS CustomerMoney

T(type, customer, product, credit, safe, cash) ==
  [type |-> type, customer |-> customer, product |-> product, credit |-> credit,
   safe |-> safe, cash |-> cash, safe2 |-> NoSafe, cash2 |-> 0]

MCTerms ==
  [d \in Docs |->
     CASE d = "S1" -> [T("sale", "ali", "phone", 2, "till", 1) EXCEPT
                         !.safe2 = "drawer", !.cash2 = 1]
       [] d = "S2" -> T("sale", "ali", "phone", 1, NoSafe, 0)
       [] d = "S3" -> T("sale", "omar", "cable", 1, "box", 1)
       [] d = "P1" -> T("purchase", "omar", "phone", 1, NoSafe, 0)
       [] d = "P2" -> T("purchase", "mona", "cable", 1, "till", 1)
       [] d = "P3" -> T("purchase", "omar", "cable", 0, "box", 1)]

MCOpening == [s \in Safes |-> IF s = "box" THEN 2 ELSE 0]

MCAsked ==
  [c \in Parties |->
     CASE c = "ali" -> {"sell", "cancel", "return"}
       [] c = "omar" -> {"sell", "buy", "cancel", "return", "sendBack", "undo", "receipt",
                         "payment", "supplierPayment"}
       [] c = "mona" -> {"buy", "cancel", "sendBack", "payment"}
       [] OTHER -> {}]

MCWays ==
  [c \in Parties |->
     CASE c = "ali" -> {OnAccount}
       [] c = "omar" -> {OnAccount, NoSafe, "box"}
       [] c = "mona" -> {"till", OnAccount}
       [] OTHER -> {}]

=============================================================================
