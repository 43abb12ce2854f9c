---------------------------- MODULE MCStockLedger ----------------------------
(* Small instances of StockLedger: two products, of which the shop has two and *)
(* one.                                                                        *)
EXTENDS StockLedger

CONSTANTS screen, battery

MCOpening == [p \in Products |-> IF p = screen THEN 2 ELSE 1]
L(p, q) == [product |-> p, quantity |-> q]
J(post, doc, lines) == [post |-> post, doc |-> doc, lines |-> lines]

\* Two sales of both products in opposite orders, the second sent twice with
\* one request id, the cancellation of an old sale, the deletion of a return.
ExactJobs ==
  {J(Sale, "sale1", <<L(screen, 1), L(battery, 1)>>),
   J(Sale, "sale2", <<L(battery, 1), L(screen, 2)>>),
   J(SaleCancel, "sale0", <<L(battery, 1), L(screen, 1)>>),
   J(SaleReturnDelete, "return0", <<L(screen, 1), L(screen, 1)>>)}

\* Every kind of posting, but of the counts only one that found a screen more
\* than the system knew of; the purchase lists a product twice.
FlooredKinds ==
  {J(Sale, "sale1", <<L(screen, 2)>>), J(SaleCancel, "sale0", <<L(screen, 1)>>),
   J(SaleReturn, "return1", <<L(screen, 1)>>),
   J(SaleReturnDelete, "return0", <<L(screen, 1)>>),
   J(Purchase, "purchase1", <<L(screen, 1), L(screen, 1)>>),
   J(PurchaseCancel, "purchase0", <<L(screen, 2)>>),
   J(PurchaseReturn, "return2", <<L(screen, 2)>>),
   J(PurchaseReturnDelete, "return3", <<L(screen, 1)>>),
   J(RepairPart, "repair1", <<L(screen, 3)>>), J(PartReturn, "part0", <<L(screen, 1)>>),
   J(Adjustment, "adjust1", <<L(screen, 0)>>),
   J(StockCount, "count1", <<L(screen, 1)>>),
   J(OpeningBalance, "opening1", <<L(screen, 1)>>)}

\* Two screens are on hand when the session of a count starts; they are sold, and
\* the count finds none.
SaleAndShortage ==
  {J(Sale, "sale1", <<L(screen, 2)>>), J(StockCount, "count1", <<L(screen, -2)>>)}

SaleAndPurchase ==
  {J(Sale, "sale1", <<L(screen, 1)>>), J(Purchase, "purchase1", <<L(screen, 1)>>)}

=============================================================================
