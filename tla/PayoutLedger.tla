---------------------------- MODULE PayoutLedger ----------------------------
(***************************************************************************)
(* What the payout engine promises about money, without its ticks, hours,  *)
(* thresholds and lists:                                                   *)
(*                                                                         *)
(*   - a node's address is asked to take at most what the node has earned  *)
(*     and what no row says was paid, and nothing while an earlier payment *)
(*     to it is unaccounted for;                                           *)
(*   - a payment is then written into the payouts table, for the amount    *)
(*     that was asked, or its row is lost for good;                        *)
(*   - there is no row without a payment.                                  *)
(*                                                                         *)
(* A lost row is the one thing that makes the gateway pay an amount twice. *)
(* What LND then moves is up to the invoice that the address returned for  *)
(* the amount; the gateway does not look at it, and no promise is made.    *)
(***************************************************************************)
EXTENDS Integers

CONSTANTS
    Nodes,
    Msat        \* msats per sat

VARIABLES
    earned,     \* msats in the rows of the node's jobs
    recorded,   \* msats in the rows of its payouts
    asked,      \* sats asked for in the payments LND has made to it
    lost        \* sats of these that no row will ever mention

payoutVars == <<earned, recorded, asked, lost>>

Unpaid(n) == earned[n] - recorded[n]

(* Msats sent to n whose row is still to be written.                       *)
InFlight(n) == (asked[n] - lost[n]) * Msat - recorded[n]

PayoutInit ==
    /\ earned = [n \in Nodes |-> 0]
    /\ recorded = [n \in Nodes |-> 0]
    /\ asked = [n \in Nodes |-> 0]
    /\ lost = [n \in Nodes |-> 0]

Earned(n) ==
    /\ earned'[n] > earned[n]
    /\ earned' = [earned EXCEPT ![n] = earned'[n]]
    /\ UNCHANGED <<recorded, asked, lost>>

(* A payment, whose row may be out of reach from the start.                *)
Sent(n) ==
    LET sats == asked'[n] - asked[n] IN
    /\ InFlight(n) = 0
    /\ sats > 0 /\ sats * Msat <= Unpaid(n)
    /\ asked' = [asked EXCEPT ![n] = asked'[n]]
    /\ lost' \in {lost, [lost EXCEPT ![n] = @ + sats]}
    /\ UNCHANGED <<earned, recorded>>

Written(n) ==
    /\ InFlight(n) > 0
    /\ recorded' = [recorded EXCEPT ![n] = @ + InFlight(n)]
    /\ UNCHANGED <<earned, asked, lost>>

Forgotten(n) ==
    /\ InFlight(n) > 0
    /\ lost' = [lost EXCEPT ![n] = asked[n] - recorded[n] \div Msat]
    /\ UNCHANGED <<earned, recorded, asked>>

PayoutNext == \E n \in Nodes : Earned(n) \/ Sent(n) \/ Written(n) \/ Forgotten(n)

PayoutSpec == PayoutInit /\ [][PayoutNext]_payoutVars

============================================================================
