----------------------------- MODULE MCRouteCat -----------------------------
(* An instance of RouteCat: two jobs for one node, a user with two         *)
(* invoices, the first of which covers one job.                            *)
EXTENDS RouteCat

CONSTANTS u1, n1, i1

MCUserOf     == [j \in Jobs |-> u1]
MCNodeOf     == [j \in Jobs |-> n1]
MCOwnerOf    == [i \in Invoices |-> u1]
MCAmountOf   == [i \in Invoices |-> IF i = i1 THEN 4 ELSE 1]
MCJobAmounts == {[provider |-> 3, fee |-> 1], [provider |-> 0, fee |-> 0]}

============================================================================
