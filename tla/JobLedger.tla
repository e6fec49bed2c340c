----------------------------- MODULE JobLedger -----------------------------
(***************************************************************************)
(* What the gateway promises about a request and money, without channels,  *)
(* locks, read loops or a cleaner:                                         *)
(*                                                                         *)
(*   - a request is opened at most once and settled at most once, and      *)
(*     whether it is free is fixed before it is opened;                    *)
(*   - the node is credited at most once, and only for a request that it   *)
(*     finished or that expired;                                           *)
(*   - the user is charged at most once, after the node was credited, only *)
(*     for a paid request that the node finished, exactly what the row     *)
(*     says, and never into debt.                                          *)
(*                                                                         *)
(* Nothing here obliges a settled request to be credited or a credited one *)
(* to be charged: a crash or a database error between the two statements   *)
(* of handleProxyDone leaves exactly these partial outcomes.               *)
(***************************************************************************)
EXTENDS Integers

CONSTANTS Jobs, Users, UserOf, InitBalance

VARIABLES free, fate, recorded, earned, charged, balance

ledgerVars == <<free, fate, recorded, earned, charged, balance>>

Settled == {"rejected", "done", "expired", "failed", "crashed"}

Price(j) == earned[j].provider + earned[j].fee

LedgerInit ==
    /\ free = [j \in Jobs |-> FALSE]
    /\ fate = [j \in Jobs |-> "none"]
    /\ recorded = {}
    /\ earned = [j \in Jobs |-> [provider |-> 0, fee |-> 0]]
    /\ charged = {}
    /\ balance = InitBalance

Admitted(j) ==
    /\ fate[j] = "none"
    /\ \E f \in BOOLEAN : free' = [free EXCEPT ![j] = f]
    /\ UNCHANGED <<fate, recorded, earned, charged, balance>>

Opened(j) ==
    /\ fate[j] = "none"
    /\ fate' = [fate EXCEPT ![j] = "open"]
    /\ UNCHANGED <<free, recorded, earned, charged, balance>>

(* The cleaner and a crash settle several requests at once.                *)
SettledAs(f) ==
    /\ \E S \in SUBSET {j \in Jobs : fate[j] = "open"} :
         fate' = [j \in Jobs |-> IF j \in S THEN f ELSE fate[j]]
    /\ UNCHANGED <<free, recorded, earned, charged, balance>>

Credited(j) ==
    /\ fate[j] \in {"done", "expired"}
    /\ j \notin recorded
    /\ recorded' = recorded \union {j}
    /\ earned'[j] \in [provider : Nat, fee : Nat]
    /\ earned' = [earned EXCEPT ![j] = earned'[j]]
    /\ UNCHANGED <<free, fate, charged, balance>>

Charged(j) ==
    /\ fate[j] = "done"
    /\ ~free[j]
    /\ j \in recorded \ charged
    /\ Price(j) > 0
    /\ balance[UserOf[j]] >= Price(j)
    /\ balance' = [balance EXCEPT ![UserOf[j]] = @ - Price(j)]
    /\ charged' = charged \union {j}
    /\ UNCHANGED <<free, fate, recorded, earned>>

(* A top-up adds to a balance.                                             *)
ToppedUp(u) ==
    /\ balance'[u] > balance[u]
    /\ balance' = [balance EXCEPT ![u] = balance'[u]]
    /\ UNCHANGED <<free, fate, recorded, earned, charged>>

LedgerNext ==
    \/ \E j \in Jobs : Admitted(j) \/ Opened(j) \/ Credited(j) \/ Charged(j)
    \/ \E f \in Settled : SettledAs(f)
    \/ \E u \in Users : ToppedUp(u)

LedgerSpec == LedgerInit /\ [][LedgerNext]_ledgerVars

============================================================================
