---------------------------- MODULE TopUpLedger ----------------------------
(***************************************************************************)
(* What top-ups promise about money, without LND's states, the watcher and *)
(* its ticks: an invoice is offered once and ends as credited or expired,  *)
(* never both; it is credited only when it was paid, and then the user's   *)
(* balance grows by exactly its amount, in the same step.  Nothing obliges *)
(* a paid invoice to be credited.                                          *)
(***************************************************************************)
EXTENDS Integers

CONSTANTS Invoices, Users, OwnerOf, AmountOf

VARIABLES
    status,    \* invoices.status, "none" without a row
    settled,   \* invoices paid at LND
    balance    \* api_keys.balance_msats

topUpVars == <<status, settled, balance>>

TopUpInit ==
    /\ status = [i \in Invoices |-> "none"]
    /\ settled = {}
    /\ balance = [u \in Users |-> 0]

Offered(i) ==
    /\ status[i] = "none"
    /\ status' = [status EXCEPT ![i] = "pending"]
    /\ UNCHANGED <<settled, balance>>

Settled(i) ==
    /\ status[i] # "none" /\ i \notin settled
    /\ settled' = settled \union {i}
    /\ UNCHANGED <<status, balance>>

(* One statement expires every row that is old.                            *)
Expired ==
    /\ \E S \in SUBSET {i \in Invoices : status[i] = "pending"} :
         status' = [i \in Invoices |-> IF i \in S THEN "expired" ELSE status[i]]
    /\ UNCHANGED <<settled, balance>>

Credited(i) ==
    /\ status[i] = "pending" /\ i \in settled
    /\ status' = [status EXCEPT ![i] = "credited"]
    /\ balance' = [balance EXCEPT ![OwnerOf[i]] = @ + AmountOf[i]]
    /\ UNCHANGED settled

(* Requests are charged to the same balance, never into debt.              *)
Spent(u) ==
    /\ balance'[u] \in 0..(balance[u] - 1)
    /\ balance' = [balance EXCEPT ![u] = balance'[u]]
    /\ UNCHANGED <<status, settled>>

TopUpNext ==
    \/ \E i \in Invoices : Offered(i) \/ Settled(i) \/ Credited(i)
    \/ Expired
    \/ \E u \in Users : Spent(u)

TopUpSpec == TopUpInit /\ [][TopUpNext]_topUpVars

============================================================================
