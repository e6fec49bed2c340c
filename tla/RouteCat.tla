------------------------------ MODULE RouteCat ------------------------------
(***************************************************************************)
(* The parts of the gateway process that move money, working on one        *)
(* database: requests (module Gateway), top-ups (Invoices) and payouts     *)
(* (Payouts), each represented by the ledger it is shown to implement, and *)
(* the heartbeat that reports to a node what it has earned.                *)
(*                                                                         *)
(* The ledgers share two things.  A user's balance is raised by a top-up   *)
(* and lowered by a request; what a node has earned is not a variable of   *)
(* its own but the sum over the rows of its jobs, which the payouts read.  *)
(* handleHeartbeat reads the tables with one statement after the other,    *)
(* outside a transaction, while the others write, and takes the figure of  *)
(* a statement that fails to be zero.                                      *)
(***************************************************************************)
EXTENDS Integers, FiniteSets, Sums

CONSTANTS
    Jobs, Users, UserOf,             \* as in JobLedger
    Nodes, NodeOf, Msat,             \* the node of each job; as in PayoutLedger
    Invoices, OwnerOf, AmountOf,     \* as in TopUpLedger
    JobAmounts,                      \* what a job may be billed (bound)
    MaxLost                          \* sats per node whose rows are lost (bound)

ASSUME RouteCatAssumption ==
    /\ IsFiniteSet(Jobs) /\ IsFiniteSet(Users) /\ IsFiniteSet(Nodes) /\ IsFiniteSet(Invoices)
    /\ UserOf \in [Jobs -> Users] /\ NodeOf \in [Jobs -> Nodes]
    /\ OwnerOf \in [Invoices -> Users] /\ AmountOf \in [Invoices -> Nat \ {0}]
    /\ Msat \in Nat \ {0}
    /\ MaxLost \in Nat
    /\ JobAmounts \subseteq [provider : Nat, fee : Nat]

VARIABLES
    free, fate, recorded, earned, charged,  \* as in JobLedger
    balance,                                \* as in JobLedger and TopUpLedger
    status, settled,                        \* as in TopUpLedger
    paid, asked, lost,                   \* as in PayoutLedger, paid is its `recorded`
    hpc,                                    \* handleHeartbeat of each node: where it is,
    hearned, hbalance, htotal               \*   and the figures it has read

jobVars       == <<free, fate, recorded, earned, charged>>
topUpVars     == <<status, settled>>
payoutVars    == <<paid, asked, lost>>
heartbeatVars == <<hpc, hearned, hbalance, htotal>>
vars == <<jobVars, balance, topUpVars, payoutVars, heartbeatVars>>

(* The two amounts of a row, and the rows of a node.                       *)
Provider   == [j \in Jobs |-> earned[j].provider]
Fee        == [j \in Jobs |-> earned[j].fee]
JobsOf(n)  == {j \in recorded : NodeOf[j] = n}

(* SUM(earned_msats) over the jobs of a node: the provider's part only.    *)
(* The ...Gross variants are plausible mistakes that no action uses.       *)
NodeEarnedGross(n) == SumOver(Provider, JobsOf(n)) + SumOver(Fee, JobsOf(n))
NodeEarned(n) == SumOver(Provider, JobsOf(n))

earnings    == [n \in Nodes |-> NodeEarned(n)]
InitBalance == [u \in Users |-> 0]

Requests == INSTANCE JobLedger WITH
    Jobs <- Jobs, Users <- Users, UserOf <- UserOf, InitBalance <- InitBalance,
    free <- free, fate <- fate, recorded <- recorded, earned <- earned,
    charged <- charged, balance <- balance

TopUps == INSTANCE TopUpLedger WITH
    Invoices <- Invoices, Users <- Users, OwnerOf <- OwnerOf, AmountOf <- AmountOf,
    status <- status, settled <- settled, balance <- balance

Payouts == INSTANCE PayoutLedger WITH
    Nodes <- Nodes, Msat <- Msat, earned <- earnings, recorded <- paid,
    asked <- asked, lost <- lost

Init ==
    /\ Requests!LedgerInit
    /\ TopUps!TopUpInit
    /\ paid = [n \in Nodes |-> 0] /\ asked = paid /\ lost = paid
    /\ hpc = [n \in Nodes |-> "idle"]
    /\ hearned = [n \in Nodes |-> 0]
    /\ hbalance = [n \in Nodes |-> 0] /\ htotal = [n \in Nodes |-> 0]

----------------------------------------------------------------------------
(* The steps of the three ledgers. *)

Request(j) ==
    /\ \/ Requests!Admitted(j)
       \/ Requests!Opened(j)
       \/ Requests!Charged(j)
       \/ \E e \in JobAmounts :
            earned' = [earned EXCEPT ![j] = e] /\ Requests!Credited(j)
    /\ UNCHANGED <<topUpVars, payoutVars, heartbeatVars>>

Settle(f) ==
    /\ Requests!SettledAs(f)
    /\ UNCHANGED <<topUpVars, payoutVars, heartbeatVars>>

TopUp(i) ==
    /\ TopUps!Offered(i) \/ TopUps!Settled(i) \/ TopUps!Credited(i)
    /\ UNCHANGED <<jobVars, payoutVars, heartbeatVars>>

Expire ==
    /\ TopUps!Expired
    /\ UNCHANGED <<jobVars, payoutVars, heartbeatVars>>

(* The engine asks for whole sats, all that the balance holds.             *)
Payout(n) ==
    /\ UNCHANGED <<jobVars, balance, topUpVars, heartbeatVars>>
    /\ \/ asked' = [asked EXCEPT ![n] = @ + Payouts!Unpaid(n) \div Msat]
          /\ Payouts!Sent(n)
       \/ Payouts!Written(n)
       \/ Payouts!Forgotten(n)
    /\ lost'[n] <= MaxLost

----------------------------------------------------------------------------
(* handleHeartbeat: NodeBalance is two statements, and NodeEarningsTotal   *)
(* another one.  Each may fail; the handler ignores the errors and goes on *)
(* with a figure of 0.                                                     *)

ReadEarned(n) ==
    /\ hpc[n] = "idle"
    /\ \/ /\ hearned' = [hearned EXCEPT ![n] = NodeEarned(n)]
          /\ hpc' = [hpc EXCEPT ![n] = "earned"]
          /\ UNCHANGED hbalance
       \/ /\ hbalance' = [hbalance EXCEPT ![n] = 0]
          /\ hpc' = [hpc EXCEPT ![n] = "balance"]
          /\ UNCHANGED hearned
    /\ UNCHANGED <<jobVars, balance, topUpVars, payoutVars, htotal>>

(* The balance, once the payouts have been read as well.                   *)
NodeBalanceGross(n) == hearned[n]
NodeBalance(n) == hearned[n] - paid[n]

ReadPaid(n) ==
    /\ hpc[n] = "earned"
    /\ \E b \in {NodeBalance(n), 0} : hbalance' = [hbalance EXCEPT ![n] = b]
    /\ hearned' = [hearned EXCEPT ![n] = 0]
    /\ hpc' = [hpc EXCEPT ![n] = "balance"]
    /\ UNCHANGED <<jobVars, balance, topUpVars, payoutVars, htotal>>

(* The lifetime earnings.  ...Unpaid is the mistake of deducting payouts   *)
(* here as well; no action uses it.                                        *)
NodeEarningsTotalUnpaid(n) == NodeEarned(n) - paid[n]
NodeEarningsTotal(n) == NodeEarned(n)

ReadTotal(n) ==
    /\ hpc[n] = "balance"
    /\ \E t \in {NodeEarningsTotal(n), 0} : htotal' = [htotal EXCEPT ![n] = t]
    /\ hpc' = [hpc EXCEPT ![n] = "ack"]
    /\ UNCHANGED <<jobVars, balance, topUpVars, payoutVars, hearned, hbalance>>

SendAck(n) ==
    /\ hpc[n] = "ack"
    /\ hpc' = [hpc EXCEPT ![n] = "idle"]
    /\ hbalance' = [hbalance EXCEPT ![n] = 0] /\ htotal' = [htotal EXCEPT ![n] = 0]
    /\ UNCHANGED <<jobVars, balance, topUpVars, payoutVars, hearned>>

Heartbeat(n) == ReadEarned(n) \/ ReadPaid(n) \/ ReadTotal(n) \/ SendAck(n)

----------------------------------------------------------------------------

Next ==
    \/ \E j \in Jobs : Request(j)
    \/ \E f \in Requests!Settled : Settle(f)
    \/ \E i \in Invoices : TopUp(i)
    \/ Expire
    \/ \E n \in Nodes : Payout(n) \/ Heartbeat(n)

Spec == Init /\ [][Next]_vars

----------------------------------------------------------------------------
(* Properties. *)

(* What users topped up, what they have not spent, and what the charged    *)
(* rows cost them.                                                         *)
CreditedInvoices == {i \in Invoices : status[i] = "credited"}
ToppedUp == SumOver(AmountOf, CreditedInvoices)
Unspent  == SumOver(balance, Users)
Spent    == SumOver(Provider, charged) + SumOver(Fee, charged)

(* The gateway's books balance.  What it asked for in its payments to      *)
(* nodes, lost rows aside, is covered by what users topped up and spent,   *)
(* less the fee, plus what the gateway itself bears: rows of free          *)
(* requests, of expired ones and of those whose deduction failed.  What    *)
(* LND moved for a payment is the amount of the node's invoice, which the  *)
(* code leaves unread, and is not bounded by anything here.                *)
AskedFor == SumOver([n \in Nodes |-> asked[n] - lost[n]], Nodes) * Msat
Borne    == SumOver(Provider, recorded \ charged)

Solvent ==
    /\ AskedFor <= ToppedUp - Unspent - SumOver(Fee, charged) + Borne
    /\ \A u \in Users : balance[u] >= 0

(* A heartbeat never tells a node that it is owed more than it is: the two *)
(* statements of NodeBalance, with jobs and payouts recorded in between    *)
(* and either of them failing, err only downwards, and the total read      *)
(* after them is not below it unless its own statement failed.             *)
BalanceNotOverstated ==
    [][\A n \in Nodes :
         /\ hpc[n] # "balance" /\ hpc'[n] = "balance"
               => hbalance'[n] <= NodeEarned(n) - paid[n]
         /\ hpc[n] = "ack" => htotal[n] = 0 \/ hbalance[n] <= htotal[n]]_vars

(* What each part promises alone it still keeps when all of them work on   *)
(* the same tables: to the requests a credited invoice is a top-up, to the *)
(* top-ups a charge is spending, to the payouts a row is earning.          *)
ImplementsLedgers ==
    /\ Requests!LedgerSpec
    /\ TopUps!TopUpSpec
    /\ Payouts!PayoutSpec

----------------------------------------------------------------------------
(* The inductive invariant. *)

TypeOK ==
    /\ free \in [Jobs -> BOOLEAN]
    /\ fate \in [Jobs -> {"none", "open"} \union Requests!Settled]
    /\ recorded \subseteq Jobs /\ charged \subseteq recorded
    /\ earned \in [Jobs -> [provider : Nat, fee : Nat]]
    /\ balance \in [Users -> Nat]
    /\ status \in [Invoices -> {"none", "pending", "credited", "expired"}]
    /\ settled \subseteq Invoices
    /\ paid \in [Nodes -> Nat] /\ asked \in [Nodes -> Nat] /\ lost \in [Nodes -> Nat]
    /\ hpc \in [Nodes -> {"idle", "earned", "balance", "ack"}]
    /\ hearned \in [Nodes -> Nat] /\ hbalance \in [Nodes -> Int] /\ htotal \in [Nodes -> Nat]

(* No msat of a user disappears: what was credited is in a balance or was  *)
(* taken for a charged row.                                                *)
UserBook == ToppedUp = Unspent + Spent

(* A node was asked to take no more than the rows of its jobs, lost rows   *)
(* aside, and has payout rows for whole sats of that.                      *)
NodeBook == \A n \in Nodes : (asked[n] - lost[n]) * Msat <= NodeEarned(n)

RowBook ==
    \A n \in Nodes :
        /\ paid[n] <= (asked[n] - lost[n]) * Msat
        /\ paid[n] = (paid[n] \div Msat) * Msat

(* What a heartbeat has read may have grown since, never shrunk.           *)
HeartbeatInv ==
    \A n \in Nodes :
        /\ hpc[n] = "earned" => hearned[n] <= NodeEarned(n)
        /\ hpc[n] = "balance" => hbalance[n] <= NodeEarned(n)
        /\ hpc[n] = "ack" => htotal[n] = 0 \/ hbalance[n] <= htotal[n]

BooksInv == TypeOK /\ UserBook /\ NodeBook /\ RowBook /\ HeartbeatInv

============================================================================
