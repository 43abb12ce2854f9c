---------------------------- MODULE MCRepairJobs ----------------------------
(* The instances of RepairJobs that TLC checks: the repair of a phone, on which one
   person works at a time, and of a tablet, whose requests may overlap and stop
   half-way, and which is corrected by hand.  No price of a service is a sum of others. *)
EXTENDS RepairJobs, TLC

CONSTANTS phone, tablet, screen, battery, r1, r2

MCFor == [v \in Services |-> IF v = screen THEN phone ELSE tablet]
MCPrice == [j \in Jobs |-> 1]
MCFreight == [j \in Jobs |-> 1]

Alike == Permutations({r1, r2})

=============================================================================
