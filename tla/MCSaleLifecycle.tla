--------------------------- MODULE MCSaleLifecycle ---------------------------
(* Small instances of SaleLifecycle: sale 1 is a cashier's and worked on by   *)
(* one person at a time, the requests for sale 2 may overlap.                 *)
EXTENDS SaleLifecycle

MCUnits == [s \in Sales |-> 2]

MCKinds == [s \in Sales |-> IF s \in Shared THEN AllKinds \ {"returnByProduct"} ELSE AllKinds]
OnlyCreate == [s \in Sales |-> {"create"}]

=============================================================================
