------------------------------- MODULE MCHub -------------------------------
(* Instances of Hub: one model, and one of the nodes has a row already.    *)
EXTENDS Hub, TLC

CONSTANTS n1, k1, m1

MCModelOf == [r \in Requests |-> m1]
MCInitKey == [n \in Nodes |-> IF n = n1 THEN k1 ELSE NoKey]
Some      == {{m1}}
SomeOrNone == {{}, {m1}}
Symmetry  == Permutations(Conns)

============================================================================
