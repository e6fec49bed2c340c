------------------------------ MODULE Billing ------------------------------
(***************************************************************************)
(* The arithmetic between a node's usage report and the two amounts that   *)
(* reach the database: gateway.capTokens, billing.Engine.Calculate and     *)
(* gateway.capEarnings.  All three are pure; the code computes them in     *)
(* float64 and truncates to int64, the model in integers:                  *)
(*                                                                         *)
(*   - a model price is an integer rate per token and the exchange rate an *)
(*     integer, with Scale collecting the powers of ten of the code;       *)
(*   - int64(x) of a non-negative quotient is \div.  The product of        *)
(*     capEarnings by a rounded ratio may fall on the other side of an     *)
(*     integer, so its result is one of the three integers around the      *)
(*     exact quotient.  The total of Calculate may be off by a rounding in *)
(*     the same way, but keeps the order of tokens and rates, and what is  *)
(*     said below of the total it says of the one that was computed; the   *)
(*     fee is an exact quotient.  The last clamp of capTokens has no case  *)
(*     with the limits of the code.                                        *)
(***************************************************************************)
EXTENDS Integers

CONSTANTS
    MaxField,     \* maxTokensPerField
    MaxTotal,     \* maxTotalTokensPerJob
    MaxEarnings,  \* maxEarningsPerJobMsats
    FeePct,       \* Engine.feePct, an integer percentage
    Scale,        \* msats per unit of rate / exchange rate
    Pricing,      \* Engine.pricing: known model -> [in, out] rates
    Fallback      \* FallbackPricing(): rates of an unknown model

Rates == [in : Nat, out : Nat]

ASSUME LimitsAssumption ==
    /\ MaxField \in Nat
    /\ MaxTotal \in Nat \ {0}
    /\ MaxEarnings \in Nat
    /\ FeePct \in 0..100
    /\ Scale \in Nat

ASSUME PricingAssumption ==
    /\ Fallback \in Rates
    /\ \A m \in DOMAIN Pricing : Pricing[m] \in Rates

----------------------------------------------------------------------------

(* A usage report, as parseUsage returns it: any two integers, also        *)
(* negative ones, because they are decoded from the node's JSON.           *)
Usage == [in : Int, out : Int]

(* parseUsage of a line without a usage object, or of one that does not    *)
(* decode.                                                                 *)
NoUsage == [in |-> 0, out |-> 0]

(* The clamps of one field; ClampUpper is the fault of forgetting a        *)
(* negative count.                                                         *)
ClampUpper(n) == IF n > MaxField THEN MaxField ELSE n
Clamp(n) == IF n < 0 THEN 0 ELSE IF n > MaxField THEN MaxField ELSE n

(* The last clamp of capTokens: both fields shrink by the same ratio.      *)
ShrinkTokens(in, out) ==
    IF in + out > MaxTotal
    THEN [in  |-> (in * MaxTotal) \div (in + out),
          out |-> (out * MaxTotal) \div (in + out)]
    ELSE [in |-> in, out |-> out]

CapTokens(u) == ShrinkTokens(Clamp(u.in), Clamp(u.out))

RatesOf(m) == IF m \in DOMAIN Pricing THEN Pricing[m] ELSE Fallback

(* Calculate: without an exchange rate the job is worth nothing.           *)
Gross(m, u) == u.in * RatesOf(m).in + u.out * RatesOf(m).out

Calculate(m, u, btcPrice) ==
    LET total == IF btcPrice <= 0 THEN 0 ELSE (Gross(m, u) * Scale) \div btcPrice
        fee   == (total * FeePct) \div 100
    IN  [provider |-> total - fee, fee |-> fee]

(* By how much a product by a rounded ratio may miss the exact quotient.   *)
Rounding == -1..1

(* capEarnings: the provider's part is scaled down and truncated, the fee  *)
(* takes the rest of the cap.  The two variants before it are faults:      *)
(* keeping the fee whole, and dropping what exceeds the cap altogether.    *)
CapEarningsFeeFirst(e, err) ==
    IF e.provider + e.fee > MaxEarnings
    THEN [provider |-> MaxEarnings - e.fee, fee |-> e.fee]
    ELSE e
CapEarningsDropped(e, err) ==
    IF e.provider + e.fee > MaxEarnings THEN [provider |-> 0, fee |-> 0] ELSE e
CapEarnings(e, err) ==
    LET total    == e.provider + e.fee
        exact    == (e.provider * MaxEarnings) \div total
        provider == IF exact + err \in 0..MaxEarnings THEN exact + err ELSE exact
    IN  IF total > MaxEarnings
        THEN [provider |-> provider, fee |-> MaxEarnings - provider]
        ELSE e

(* What handleProxyDone and jobCleanupLoop write into the jobs table.      *)
Earnings(m, u, btcPrice, err) ==
    CapEarnings(Calculate(m, CapTokens(u), btcPrice), err)

Cost(e) == e.provider + e.fee

============================================================================
