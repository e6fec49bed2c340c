------------------------------- MODULE Bills -------------------------------
(***************************************************************************)
(* Billing at work.  Each behaviour settles one report, as handleProxyDone *)
(* does, and keeps what it is about to write into the jobs table.          *)
(***************************************************************************)
EXTENDS Billing

CONSTANTS
    BillModels,  \* models that requests ask for, priced or not
    BillReports, \* usage reports of nodes
    BtcPrices    \* exchange rates, 0 before the first is fetched

ASSUME BillsAssumption == BillReports \subseteq Usage /\ BtcPrices \subseteq Nat

VARIABLES model, report, btcPrice, row

billingVars == <<model, report, btcPrice, row>>

NotYet == [provider |-> 0, fee |-> 0]

BillingInit ==
    /\ model \in BillModels
    /\ report \in BillReports
    /\ btcPrice \in BtcPrices
    /\ row = NotYet

Bill ==
    /\ \E err \in Rounding : row' = Earnings(model, report, btcPrice, err)
    /\ UNCHANGED <<model, report, btcPrice>>

BillingSpec == BillingInit /\ [][Bill]_billingVars

(* The caps of README.md:221-222 on what is recorded, for whatever numbers *)
(* a report holds: no field and no sum of tokens above its limit, no       *)
(* negative amount and no job above MaxEarnings.                           *)
CapsHold ==
    LET t == CapTokens(report) IN
    /\ t.in \in 0..MaxField /\ t.out \in 0..MaxField
    /\ t.in + t.out <= MaxTotal
    /\ row.provider >= 0 /\ row.fee >= 0
    /\ Cost(row) <= MaxEarnings

(* The provider's share survives truncation, the cap and its rounding: it  *)
(* is the percentage of the recorded cost that the fee leaves, short of it *)
(* by less than two msats.                                                 *)
ProviderShare == 100 * (row.provider + 2) > (100 - FeePct) * Cost(row)

(* One more reported token never makes a job cheaper, and a higher         *)
(* exchange rate never makes it dearer, whichever way the parts of either  *)
(* cost are rounded: truncation and caps keep the order.                   *)
CostIsMonotone ==
    \A x \in Rounding, y \in Rounding :
      LET c(r, p, err) == Cost(Earnings(model, r, p, err)) IN
      /\ c([report EXCEPT !.in = @ + 1], btcPrice, x) >= c(report, btcPrice, y)
      /\ c([report EXCEPT !.out = @ + 1], btcPrice, x) >= c(report, btcPrice, y)
      /\ btcPrice > 0 => c(report, btcPrice + 1, x) <= c(report, btcPrice, y)

============================================================================
