--------------------------- MODULE MCSafeTransfer ---------------------------
(* Small instances of SafeTransfer. *)
EXTENDS SafeTransfer

MCSafes == {1, 2, 3}
MCOwner == [s \in MCSafes |-> IF s = 3 THEN "other" ELSE "acme"]
MCOpening == [s \in MCSafes |-> IF s = 2 THEN 0 ELSE 30]
MCCompany == [r \in Requests |-> "acme"]

\* No fee, a fixed fee of one piastre, one that exceeds the small amount, 50%.
MCFees == {[type |-> "none", rate |-> 0], [type |-> "fixed", rate |-> 10],
           [type |-> "fixed", rate |-> 30], [type |-> "percentage", rate |-> 5000]}

=============================================================================
