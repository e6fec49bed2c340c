----------------------------- MODULE MCGateway -----------------------------
(***************************************************************************)
(* Small instances of Gateway for TLC.                                     *)
(***************************************************************************)
EXTENDS Gateway, TLC

CONSTANTS j1, j2, j3, u1, u2, n1, n2, r1, r2

(* Rates for which one usage report costs something: 10 units of rate, a   *)
(* fee of 20 % and a cap of 4 msats.                                       *)
MCPricing  == [m \in {"known"} |-> [in |-> 1, out |-> 1]]
MCFallback == [in |-> 1, out |-> 2]
MCReports  == {[in |-> 1, out |-> 1]}

OneUser    == [j \in Jobs |-> u1]
OneModel   == [j \in Jobs |-> "known"]
Reconnect  == [r \in Readers |-> n1]
Funds      == [u \in Users |-> 3]
NoFunds    == [u \in Users |-> 0]

(* With one user, jobs are interchangeable; so are two connections of one  *)
(* node.                                                                   *)
Symmetry == Permutations(Jobs) \union Permutations(Readers)

----------------------------------------------------------------------------
(* Statements of the repository's documentation that the code does not     *)
(* keep; each is the only property of a run that refutes it.               *)

(* docs/index.html:950, "The stream ends with a data: [DONE] sentinel":    *)
(* the stream of a job that its node finished ends on DoneCh only when     *)
(* every chunk in ResponseCh, the last one included, has been relayed.     *)
StreamIsComplete ==
    [][\A j \in Jobs : fate[j] = "done" /\ StreamDone(j) => respCh[j] = 0]_vars

============================================================================
