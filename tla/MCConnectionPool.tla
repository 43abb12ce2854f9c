-------------------------- MODULE MCConnectionPool --------------------------
(* The instance of ConnectionPool that TLC checks: a request of each of two
   companies, the second authenticated twice, with a pool that is too small for both. *)
EXTENDS ConnectionPool

CONSTANTS c1, c2, c3, r1, r2

MCCompany == [r \in {r1, r2} |-> IF r = r1 THEN "north" ELSE "south"]
MCLayers == [r \in {r1, r2} |-> IF r = r1 THEN 1 ELSE 2]
MCNeeds == [r \in {r1, r2} |-> IF r = r1 THEN 2 ELSE 1]

=============================================================================
