--------------------------- MODULE BillingProofs ---------------------------
(***************************************************************************)
(* What the arithmetic of Billing guarantees for every price table, limit, *)
(* fee and exchange rate.                                                  *)
(***************************************************************************)
EXTENDS Bills, TLAPS

(* Quotients of non-negative integers, as truncation uses them.            *)
LEMMA DivNat ==
    ASSUME NEW a \in Nat, NEW b \in Nat \ {0}
    PROVE  a \div b \in Nat
  OBVIOUS

(* A quotient is at most c when the dividend is at most c times the        *)
(* divisor.                                                                *)
LEMMA DivBound ==
    ASSUME NEW a \in Nat, NEW b \in Nat \ {0}, NEW c \in Nat, a <= b * c
    PROVE  a \div b <= c
  OBVIOUS

(* Products of naturals are naturals.                                      *)
LEMMA ProductNat ==
    ASSUME NEW a \in Nat, NEW b \in Nat
    PROVE  a * b \in Nat
  OBVIOUS

(* A product grows with its first factor.                                  *)
LEMMA ProductMonotone ==
    ASSUME NEW a \in Nat, NEW b \in Nat, NEW c \in Nat, a <= b
    PROVE  a * c <= b * c
  OBVIOUS

----------------------------------------------------------------------------

(* capTokens: whatever two integers a report holds, both fields end in     *)
(* range and their sum is within the limit of a job.                       *)
THEOREM CapTokensBound ==
    ASSUME NEW u \in Usage
    PROVE  /\ CapTokens(u) \in [in : Nat, out : Nat]
           /\ CapTokens(u).in <= MaxField
           /\ CapTokens(u).out <= MaxField
           /\ CapTokens(u).in + CapTokens(u).out <= MaxTotal
<1> DEFINE i == Clamp(u.in)
           o == Clamp(u.out)
<1>1. i \in Nat /\ i <= MaxField /\ o \in Nat /\ o <= MaxField
  BY LimitsAssumption DEF Usage, Clamp
<1>2. CapTokens(u) = ShrinkTokens(i, o)
  BY DEF CapTokens
<1> HIDE DEF i, o
<1>3. CASE i + o <= MaxTotal
  BY <1>1, <1>2, <1>3, LimitsAssumption DEF ShrinkTokens
<1>4. CASE i + o > MaxTotal
  <2> DEFINE s == i + o
             a == (i * MaxTotal) \div s
             b == (o * MaxTotal) \div s
  <2>1. s \in Nat \ {0} /\ MaxTotal \in Nat /\ MaxTotal < s
    BY <1>1, <1>4, LimitsAssumption
  <2>2. i * MaxTotal \in Nat /\ o * MaxTotal \in Nat
    BY <1>1, <2>1, ProductNat
  <2>3. a \in Nat /\ b \in Nat
    BY <2>1, <2>2, DivNat
  <2>4. i * MaxTotal <= s * i /\ o * MaxTotal <= s * o
    BY <1>1, <2>1, ProductMonotone
  <2>5. a <= i /\ b <= o
    BY <1>1, <2>1, <2>2, <2>4, DivBound
  <2>6. s * a <= i * MaxTotal /\ s * b <= o * MaxTotal
    BY <2>1, <2>2
  <2>7. s * (a + b) <= s * MaxTotal
    <3>1. s * (a + b) = s * a + s * b /\ s * MaxTotal = i * MaxTotal + o * MaxTotal
      BY <1>1, <2>1, <2>3
    <3>2. s * a \in Nat /\ s * b \in Nat
      BY <2>1, <2>3, ProductNat
    <3> QED  BY <2>2, <2>6, <3>1, <3>2
  <2>8. a + b <= MaxTotal
    <3>1. SUFFICES ASSUME a + b >= MaxTotal + 1  PROVE FALSE
      BY <2>1, <2>3
    <3>2. (MaxTotal + 1) * s <= (a + b) * s
      BY <2>1, <2>3, <3>1, ProductMonotone
    <3> QED  BY <2>1, <2>3, <2>7, <3>2
  <2>9. CapTokens(u) = [in |-> a, out |-> b]
    BY <1>2, <1>4 DEF ShrinkTokens
  <2> HIDE DEF a, b
  <2> QED  BY <1>1, <2>1, <2>3, <2>5, <2>8, <2>9, LimitsAssumption
<1> QED  BY <1>1, <1>3, <1>4, LimitsAssumption

(* Calculate: provider and fee are non-negative, and the fee is at most    *)
(* its percentage of the two together.                                     *)
THEOREM CalculateSplits ==
    ASSUME NEW m, NEW t \in [in : Nat, out : Nat], NEW p \in Nat
    PROVE  /\ Calculate(m, t, p) \in [provider : Nat, fee : Nat]
           /\ 100 * Calculate(m, t, p).fee <= FeePct * Cost(Calculate(m, t, p))
<1> DEFINE total == IF p <= 0 THEN 0 ELSE (Gross(m, t) * Scale) \div p
           fee   == (total * FeePct) \div 100
<1>1. RatesOf(m).in \in Nat /\ RatesOf(m).out \in Nat
  BY PricingAssumption DEF RatesOf, Rates
<1>2. Gross(m, t) \in Nat
  <2>1. t.in * RatesOf(m).in \in Nat /\ t.out * RatesOf(m).out \in Nat
    BY <1>1, ProductNat
  <2> QED  BY <2>1 DEF Gross
<1>3. total \in Nat
  <2>1. Gross(m, t) * Scale \in Nat
    BY <1>2, LimitsAssumption, ProductNat
  <2> QED  BY <2>1, DivNat
<1>4. Calculate(m, t, p) = [provider |-> total - fee, fee |-> fee]
  BY DEF Calculate
<1> HIDE DEF total
<1>5. total * FeePct \in Nat /\ total * FeePct <= 100 * total
  BY <1>3, LimitsAssumption, ProductNat, ProductMonotone
<1>6. fee \in Nat /\ fee <= total /\ 100 * fee <= total * FeePct
  BY <1>3, <1>5, DivNat, DivBound
<1> QED  BY <1>3, <1>4, <1>6, LimitsAssumption DEF Cost

(* capEarnings, however its product is rounded: both parts stay            *)
(* non-negative, the sum never exceeds the cap and is not raised by it; a  *)
(* sum above the cap becomes the cap.                                      *)
THEOREM CapEarningsBound ==
    ASSUME NEW e \in [provider : Nat, fee : Nat], NEW err \in Rounding
    PROVE  /\ CapEarnings(e, err) \in [provider : Nat, fee : Nat]
           /\ Cost(CapEarnings(e, err))
                = IF Cost(e) > MaxEarnings THEN MaxEarnings ELSE Cost(e)
<1> DEFINE total == e.provider + e.fee
           exact == (e.provider * MaxEarnings) \div total
           part  == IF exact + err \in 0..MaxEarnings THEN exact + err ELSE exact
<1>1. total \in Nat
  OBVIOUS
<1>2. CASE total > MaxEarnings
  <2>1. total \in Nat \ {0} /\ MaxEarnings \in Nat
    BY <1>2, LimitsAssumption
  <2>2. e.provider * MaxEarnings \in Nat /\ e.provider * MaxEarnings <= total * MaxEarnings
    BY <2>1, ProductNat, ProductMonotone
  <2>3. exact \in Nat /\ exact <= MaxEarnings
    BY <2>1, <2>2, DivNat, DivBound
  <2>4. part \in Nat /\ part <= MaxEarnings
    <3> HIDE DEF exact
    <3> QED  BY <2>1, <2>3 DEF Rounding
  <2>5. CapEarnings(e, err) = [provider |-> part, fee |-> MaxEarnings - part]
    BY <1>2 DEF CapEarnings
  <2> HIDE DEF part
  <2> QED  BY <1>2, <2>1, <2>4, <2>5 DEF Cost
<1>3. CASE ~(total > MaxEarnings)
  BY <1>1, <1>3 DEF CapEarnings, Cost
<1> QED  BY <1>2, <1>3

(* What reaches the jobs table: non-negative amounts within the cap of a   *)
(* job, for every report a node can send, every model and exchange rate.   *)
THEOREM EarningsBound ==
    ASSUME NEW m, NEW u \in Usage, NEW p \in Nat, NEW err \in Rounding
    PROVE  /\ Earnings(m, u, p, err) \in [provider : Nat, fee : Nat]
           /\ Cost(Earnings(m, u, p, err)) <= MaxEarnings
<1> DEFINE e == Calculate(m, CapTokens(u), p)
<1>1. e \in [provider : Nat, fee : Nat]
  BY CapTokensBound, CalculateSplits
<1> HIDE DEF e
<1>2. Cost(e) \in Nat
  BY <1>1 DEF Cost
<1>3. Earnings(m, u, p, err) = CapEarnings(e, err)
  BY DEF Earnings, e
<1> QED  BY <1>1, <1>2, <1>3, CapEarningsBound, LimitsAssumption

----------------------------------------------------------------------------
(* What is written into the jobs table. *)

(* Quotients against products, for the steps where a cap has truncated.    *)
LEMMA DivExceeds ==
    ASSUME NEW a \in Nat, NEW b \in Nat \ {0}
    PROVE  a < b * (a \div b + 1)
  OBVIOUS

(* A quotient grows with its dividend.                                     *)
LEMMA DivMonotone ==
    ASSUME NEW a \in Nat, NEW b \in Nat, NEW c \in Nat \ {0}, a <= b
    PROVE  a \div c <= b \div c
<1>1. a \div c \in Nat /\ b \div c \in Nat /\ c * (a \div c) <= a
  OBVIOUS
<1>2. b < c * (b \div c + 1)
  BY DivExceeds
<1>3. SUFFICES ASSUME a \div c >= b \div c + 1  PROVE FALSE
  BY <1>1
<1>4. (b \div c + 1) * c <= (a \div c) * c
  BY <1>1, <1>3, ProductMonotone
<1> QED  BY <1>1, <1>2, <1>4

(* A quotient shrinks when its divisor grows by one.                       *)
LEMMA DivAntitone ==
    ASSUME NEW a \in Nat, NEW c \in Nat \ {0}
    PROVE  a \div (c + 1) <= a \div c
<1> DEFINE q == a \div c
           s == a \div (c + 1)
<1>1. q \in Nat /\ s \in Nat /\ (c + 1) * s <= a
  OBVIOUS
<1>2. a < c * (q + 1)
  BY DivExceeds
<1>3. (c + 1) * s = c * s + s /\ c * s \in Nat
  BY <1>1
<1> HIDE DEF q, s
<1>4. SUFFICES ASSUME s >= q + 1  PROVE FALSE
  BY <1>1 DEF q, s
<1>5. (q + 1) * c <= s * c
  BY <1>1, <1>4, ProductMonotone
<1> QED  BY <1>1, <1>2, <1>3, <1>5

(* A common positive factor can be cancelled from an inequality.           *)
LEMMA ProductCancel ==
    ASSUME NEW a \in Int, NEW b \in Int, NEW c \in Nat \ {0}, c * a < c * b
    PROVE  a < b
  OBVIOUS

(* Calculate leaves the provider at least what the fee's percentage leaves *)
(* of the total.                                                           *)
LEMMA CalculateShare ==
    ASSUME NEW m, NEW t \in [in : Nat, out : Nat], NEW p \in Nat
    PROVE  LET e == Calculate(m, t, p) IN 100 * e.provider >= (100 - FeePct) * Cost(e)
<1> DEFINE e == Calculate(m, t, p)
<1>1. e \in [provider : Nat, fee : Nat] /\ 100 * e.fee <= FeePct * Cost(e)
  BY CalculateSplits
<1> HIDE DEF e
<1>2. Cost(e) = e.provider + e.fee /\ Cost(e) \in Nat
  BY <1>1 DEF Cost
<1>3. (100 - FeePct) * Cost(e) = 100 * Cost(e) - FeePct * Cost(e)
  BY <1>2, LimitsAssumption
<1>4. FeePct * Cost(e) \in Int
  BY <1>2, LimitsAssumption
<1>5. 100 * e.provider >= (100 - FeePct) * Cost(e)
  BY <1>1, <1>2, <1>3, <1>4
<1> QED  BY <1>5 DEF e

(* The cap truncates the provider's part by less than one msat and its     *)
(* rounding by at most another.                                            *)
LEMMA CapKeepsShare ==
    ASSUME NEW e \in [provider : Nat, fee : Nat], NEW err \in Rounding,
           100 * e.provider >= (100 - FeePct) * Cost(e)
    PROVE  100 * (CapEarnings(e, err).provider + 2)
             > (100 - FeePct) * Cost(CapEarnings(e, err))
<1> DEFINE total == e.provider + e.fee
           exact == (e.provider * MaxEarnings) \div total
           part  == IF exact + err \in 0..MaxEarnings THEN exact + err ELSE exact
           left  == 100 - FeePct
<1>1. total \in Nat /\ Cost(e) = total /\ left \in Nat /\ MaxEarnings \in Nat
  BY LimitsAssumption DEF Cost
<1>2. CASE total > MaxEarnings
  <2>1. total \in Nat \ {0} /\ e.provider * MaxEarnings \in Nat
    BY <1>1, <1>2, ProductNat
  <2>2. exact \in Nat /\ e.provider * MaxEarnings < total * (exact + 1)
    BY <2>1, DivNat, DivExceeds
  <2>3. CapEarnings(e, err) = [provider |-> part, fee |-> MaxEarnings - part]
    BY <1>2 DEF CapEarnings
  <2>4. left * total <= 100 * e.provider
    BY <1>1
  <2>11. part \in Nat /\ exact <= part + 1
    <3> HIDE DEF exact
    <3> QED  BY <1>1, <2>2 DEF Rounding
  <2> HIDE DEF total, exact, part, left
  <2>5. (left * total) * MaxEarnings <= (100 * e.provider) * MaxEarnings
    BY <1>1, <2>1, <2>4, ProductNat, ProductMonotone
  <2>6. /\ (left * total) * MaxEarnings = total * (left * MaxEarnings)
        /\ (100 * e.provider) * MaxEarnings = 100 * (e.provider * MaxEarnings)
        /\ 100 * (total * (exact + 1)) = total * (100 * (exact + 1))
    BY <1>1, <2>1, <2>2
  <2>7. left * MaxEarnings \in Nat /\ 100 * (exact + 1) \in Nat /\ total * (exact + 1) \in Nat
    BY <1>1, <2>1, <2>2, ProductNat
  <2>8. total * (left * MaxEarnings) < total * (100 * (exact + 1))
    BY <2>1, <2>2, <2>5, <2>6, <2>7
  <2>9. left * MaxEarnings < 100 * (exact + 1)
    BY <2>1, <2>7, <2>8, ProductCancel
  <2>10. /\ Cost(CapEarnings(e, err)) = MaxEarnings
         /\ CapEarnings(e, err).provider = part
    BY <1>1, <2>11, <2>3 DEF Cost
  <2>12. 100 * (exact + 1) <= 100 * (part + 2)
    BY <2>2, <2>11
  <2>13. left * MaxEarnings < 100 * (part + 2)
    BY <2>7, <2>9, <2>11, <2>12
  <2> QED  BY <2>10, <2>13 DEF left
<1>3. CASE ~(total > MaxEarnings)
  <2>1. CapEarnings(e, err) = e
    BY <1>3 DEF CapEarnings
  <2>2. (100 - FeePct) * Cost(e) \in Int
    BY <1>1
  <2> QED  BY <2>1, <2>2
<1> QED  BY <1>2, <1>3

(* The row is what has not been computed yet, or the earnings of the       *)
(* report, rounded one way or another.                                     *)
LEMMA RowIsEarnings ==
    BillingSpec => [](/\ report \in Usage /\ btcPrice \in Nat
                      /\ \/ row = NotYet
                         \/ \E err \in Rounding : row = Earnings(model, report, btcPrice, err))
<1> DEFINE RowInv == /\ report \in Usage /\ btcPrice \in Nat
                     /\ \/ row = NotYet
                        \/ \E err \in Rounding : row = Earnings(model, report, btcPrice, err)
<1>1. BillingInit => RowInv
  BY BillsAssumption DEF BillingInit
<1>2. RowInv /\ [Bill]_billingVars => RowInv'
  <2>1. ASSUME RowInv, Bill  PROVE RowInv'
    <3>1. PICK err \in Rounding : row' = Earnings(model, report, btcPrice, err)
      BY <2>1 DEF Bill
    <3>2. row' = Earnings(model', report', btcPrice', err)
      BY <2>1, <3>1 DEF Bill
    <3> QED  BY <2>1, <3>2 DEF Bill
  <2>2. ASSUME RowInv, UNCHANGED billingVars  PROVE RowInv'
    BY <2>2 DEF billingVars
  <2> QED  BY <2>1, <2>2
<1> QED  BY <1>1, <1>2, PTL DEF BillingSpec

(* For every price table, exchange rate and report, whatever numbers it    *)
(* holds: what handleProxyDone records is within the caps on tokens and    *)
(* earnings, and no amount is negative.                                    *)
THEOREM CapsAlwaysHold == BillingSpec => []CapsHold
<1>1. ASSUME report \in Usage, btcPrice \in Nat,
             \/ row = NotYet
             \/ \E err \in Rounding : row = Earnings(model, report, btcPrice, err)
      PROVE  CapsHold
  <2>1. /\ CapTokens(report) \in [in : Nat, out : Nat]
        /\ CapTokens(report).in <= MaxField
        /\ CapTokens(report).out <= MaxField
        /\ CapTokens(report).in + CapTokens(report).out <= MaxTotal
    BY <1>1, CapTokensBound
  <2>2. CapTokens(report).in \in 0..MaxField /\ CapTokens(report).out \in 0..MaxField
    BY <2>1, LimitsAssumption
  <2>3. row \in [provider : Nat, fee : Nat] /\ Cost(row) <= MaxEarnings
    <3>1. CASE row = NotYet
      BY <3>1, LimitsAssumption DEF NotYet, Cost
    <3>2. ASSUME NEW err \in Rounding, row = Earnings(model, report, btcPrice, err)
          PROVE  row \in [provider : Nat, fee : Nat] /\ Cost(row) <= MaxEarnings
      BY <1>1, <3>2, EarningsBound
    <3> QED  BY <1>1, <3>1, <3>2
  <2>4. row.provider >= 0 /\ row.fee >= 0
    BY <2>3
  <2> QED  BY <2>1, <2>2, <2>3, <2>4 DEF CapsHold
<1> QED  BY <1>1, RowIsEarnings, PTL

(* The provider is recorded the percentage that the fee leaves of the      *)
(* recorded cost, short of it by less than two msats, through Calculate's  *)
(* truncation, capEarnings and the rounding of its product.                *)
THEOREM ProviderShareKept == BillingSpec => []ProviderShare
<1>1. ASSUME report \in Usage, btcPrice \in Nat,
             \/ row = NotYet
             \/ \E err \in Rounding : row = Earnings(model, report, btcPrice, err)
      PROVE  ProviderShare
  <2>1. CASE row = NotYet
    <3>1. (100 - FeePct) * 0 = 0
      BY LimitsAssumption
    <3> QED  BY <2>1, <3>1 DEF NotYet, ProviderShare, Cost
  <2>2. ASSUME NEW err \in Rounding, row = Earnings(model, report, btcPrice, err)
        PROVE  ProviderShare
    <3> DEFINE e == Calculate(model, CapTokens(report), btcPrice)
    <3>1. e \in [provider : Nat, fee : Nat] /\ 100 * e.provider >= (100 - FeePct) * Cost(e)
      BY <1>1, CapTokensBound, CalculateSplits, CalculateShare
    <3>2. row = CapEarnings(e, err)
      BY <2>2 DEF Earnings
    <3> HIDE DEF e
    <3> QED  BY <3>1, <3>2, CapKeepsShare DEF ProviderShare
  <2> QED  BY <1>1, <2>1, <2>2
<1> QED  BY <1>1, RowIsEarnings, PTL

(* The recorded cost is the quotient, up to the cap, whatever the rounding *)
(* of its parts.                                                           *)
LEMMA CostFormula ==
    ASSUME NEW m, NEW u \in Usage, NEW p \in Nat, NEW err \in Rounding
    PROVE  LET q == IF p = 0 THEN 0 ELSE (Gross(m, CapTokens(u)) * Scale) \div p
           IN  /\ Gross(m, CapTokens(u)) * Scale \in Nat
               /\ q \in Nat
               /\ Cost(Earnings(m, u, p, err)) = IF q > MaxEarnings THEN MaxEarnings ELSE q
<1> DEFINE t == CapTokens(u)
           g == Gross(m, t) * Scale
           q == IF p = 0 THEN 0 ELSE g \div p
           e == Calculate(m, t, p)
<1>1. t \in [in : Nat, out : Nat]
  BY CapTokensBound
<1>2. RatesOf(m).in \in Nat /\ RatesOf(m).out \in Nat
  BY PricingAssumption DEF RatesOf, Rates
<1>3. Gross(m, t) \in Nat
  <2>1. t.in * RatesOf(m).in \in Nat /\ t.out * RatesOf(m).out \in Nat
    BY <1>1, <1>2, ProductNat
  <2> QED  BY <2>1 DEF Gross
<1>4. g \in Nat
  BY <1>3, LimitsAssumption, ProductNat
<1>5. q \in Nat
  <2> HIDE DEF g
  <2> QED  BY <1>4, DivNat
<1>6. e \in [provider : Nat, fee : Nat]
  BY <1>1, CalculateSplits
<1>7. Cost(e) = q
  <2>1. e = [provider |-> q - (q * FeePct) \div 100, fee |-> (q * FeePct) \div 100]
    BY DEF Calculate
  <2>2. (q * FeePct) \div 100 \in Nat
    <3> HIDE DEF q
    <3> QED  BY <1>5, LimitsAssumption, ProductNat, DivNat
  <2> HIDE DEF q, e
  <2> QED  BY <1>5, <2>1, <2>2 DEF Cost
<1>8. Earnings(m, u, p, err) = CapEarnings(e, err)
  BY DEF Earnings
<1> HIDE DEF e, q, g
<1>9. Cost(Earnings(m, u, p, err)) = IF q > MaxEarnings THEN MaxEarnings ELSE q
  BY <1>6, <1>7, <1>8, CapEarningsBound
<1> QED  BY <1>4, <1>5, <1>9 DEF q, g

(* Where two full fields fit into the limit of a job the last clamp of     *)
(* capTokens does nothing, and the counts keep their order.                *)
LEMMA NothingToShrink ==
    ASSUME 2 * MaxField <= MaxTotal, NEW u \in Usage
    PROVE  CapTokens(u) = [in |-> Clamp(u.in), out |-> Clamp(u.out)]
<1>1. /\ Clamp(u.in) \in Nat /\ Clamp(u.in) <= MaxField
      /\ Clamp(u.out) \in Nat /\ Clamp(u.out) <= MaxField
  BY LimitsAssumption DEF Usage, Clamp
<1>2. ~(Clamp(u.in) + Clamp(u.out) > MaxTotal)
  BY <1>1, LimitsAssumption
<1> QED  BY <1>2 DEF CapTokens, ShrinkTokens

(* More tokens in either field cost no less.                               *)
LEMMA MoreTokensCostMore ==
    ASSUME 2 * MaxField <= MaxTotal, NEW m, NEW u \in Usage, NEW v \in Usage,
           u.in <= v.in, u.out <= v.out, NEW p \in Nat,
           NEW x \in Rounding, NEW y \in Rounding
    PROVE  Cost(Earnings(m, v, p, x)) >= Cost(Earnings(m, u, p, y))
<1> DEFINE g(w) == Gross(m, CapTokens(w)) * Scale
           q(w) == IF p = 0 THEN 0 ELSE g(w) \div p
<1>1. /\ Clamp(u.in) \in Nat /\ Clamp(v.in) \in Nat /\ Clamp(u.in) <= Clamp(v.in)
      /\ Clamp(u.out) \in Nat /\ Clamp(v.out) \in Nat /\ Clamp(u.out) <= Clamp(v.out)
  BY LimitsAssumption DEF Usage, Clamp
<1>2. PICK a \in Nat, b \in Nat : a = RatesOf(m).in /\ b = RatesOf(m).out
  BY PricingAssumption DEF RatesOf, Rates
<1>3. /\ Gross(m, CapTokens(u)) = Clamp(u.in) * a + Clamp(u.out) * b
      /\ Gross(m, CapTokens(v)) = Clamp(v.in) * a + Clamp(v.out) * b
  BY <1>2, NothingToShrink DEF Gross
<1>4. /\ Clamp(u.in) * a \in Nat /\ Clamp(v.in) * a \in Nat
      /\ Clamp(u.out) * b \in Nat /\ Clamp(v.out) * b \in Nat
  BY <1>1, ProductNat
<1>5. Clamp(u.in) * a <= Clamp(v.in) * a /\ Clamp(u.out) * b <= Clamp(v.out) * b
  BY <1>1, ProductMonotone
<1>6. /\ Gross(m, CapTokens(u)) \in Nat /\ Gross(m, CapTokens(v)) \in Nat
      /\ Gross(m, CapTokens(u)) <= Gross(m, CapTokens(v))
  BY <1>3, <1>4, <1>5
<1>7. g(u) \in Nat /\ g(v) \in Nat /\ g(u) <= g(v)
  BY <1>6, LimitsAssumption, ProductNat, ProductMonotone
<1>8. q(u) <= q(v)
  <2>1. CASE p = 0
    BY <2>1
  <2>2. CASE p # 0
    <3>1. p \in Nat \ {0}
      BY <2>2
    <3>2. g(u) \div p <= g(v) \div p
      <4> HIDE DEF g
      <4> QED  BY <1>7, <3>1, DivMonotone
    <3> QED  BY <2>2, <3>2
  <2> QED  BY <2>1, <2>2
<1>9. /\ q(u) \in Nat
      /\ Cost(Earnings(m, u, p, y)) = IF q(u) > MaxEarnings THEN MaxEarnings ELSE q(u)
  BY CostFormula
<1>10. /\ q(v) \in Nat
       /\ Cost(Earnings(m, v, p, x)) = IF q(v) > MaxEarnings THEN MaxEarnings ELSE q(v)
  BY CostFormula
<1> HIDE DEF q
<1> QED  BY <1>8, <1>9, <1>10, LimitsAssumption

(* A higher exchange rate makes no job dearer.                             *)
LEMMA HigherRateCostsLess ==
    ASSUME NEW m, NEW u \in Usage, NEW p \in Nat \ {0},
           NEW x \in Rounding, NEW y \in Rounding
    PROVE  Cost(Earnings(m, u, p + 1, x)) <= Cost(Earnings(m, u, p, y))
<1> DEFINE g    == Gross(m, CapTokens(u)) * Scale
           q(r) == IF r = 0 THEN 0 ELSE g \div r
<1>1. p \in Nat /\ p + 1 \in Nat /\ p + 1 # 0
  OBVIOUS
<1>2. /\ g \in Nat
      /\ q(p) \in Nat
      /\ Cost(Earnings(m, u, p, y)) = IF q(p) > MaxEarnings THEN MaxEarnings ELSE q(p)
  BY <1>1, CostFormula
<1>3. /\ q(p + 1) \in Nat
      /\ Cost(Earnings(m, u, p + 1, x)) = IF q(p + 1) > MaxEarnings THEN MaxEarnings ELSE q(p + 1)
  BY <1>1, CostFormula
<1>4. q(p + 1) <= q(p)
  <2>1. g \div (p + 1) <= g \div p
    <3> HIDE DEF g
    <3> QED  BY <1>2, DivAntitone
  <2> QED  BY <1>1, <2>1
<1> HIDE DEF q
<1> QED  BY <1>2, <1>3, <1>4, LimitsAssumption

(* With limits such as the code's, where a job may hold two full fields:   *)
(* one more reported token never makes a job cheaper, and a higher rate    *)
(* never makes it dearer.                                                  *)
THEOREM CostKeepsOrder ==
    ASSUME 2 * MaxField <= MaxTotal
    PROVE  BillingSpec => []CostIsMonotone
<1>1. ASSUME report \in Usage, btcPrice \in Nat  PROVE CostIsMonotone
  <2> SUFFICES ASSUME NEW x \in Rounding, NEW y \in Rounding
               PROVE  /\ Cost(Earnings(model, [report EXCEPT !.in = @ + 1], btcPrice, x))
                           >= Cost(Earnings(model, report, btcPrice, y))
                      /\ Cost(Earnings(model, [report EXCEPT !.out = @ + 1], btcPrice, x))
                           >= Cost(Earnings(model, report, btcPrice, y))
                      /\ btcPrice > 0 => Cost(Earnings(model, report, btcPrice + 1, x))
                                           <= Cost(Earnings(model, report, btcPrice, y))
    BY DEF CostIsMonotone
  <2>1. [report EXCEPT !.in = @ + 1] \in Usage /\ [report EXCEPT !.out = @ + 1] \in Usage
    BY <1>1 DEF Usage
  <2>2. /\ report.in <= [report EXCEPT !.in = @ + 1].in
        /\ report.out <= [report EXCEPT !.in = @ + 1].out
        /\ report.in <= [report EXCEPT !.out = @ + 1].in
        /\ report.out <= [report EXCEPT !.out = @ + 1].out
    BY <1>1 DEF Usage
  <2>3. Cost(Earnings(model, [report EXCEPT !.in = @ + 1], btcPrice, x))
          >= Cost(Earnings(model, report, btcPrice, y))
    BY <1>1, <2>1, <2>2, MoreTokensCostMore
  <2>4. Cost(Earnings(model, [report EXCEPT !.out = @ + 1], btcPrice, x))
          >= Cost(Earnings(model, report, btcPrice, y))
    BY <1>1, <2>1, <2>2, MoreTokensCostMore
  <2>5. btcPrice > 0 => Cost(Earnings(model, report, btcPrice + 1, x))
                          <= Cost(Earnings(model, report, btcPrice, y))
    BY <1>1, HigherRateCostsLess
  <2> QED  BY <2>3, <2>4, <2>5
<1> QED  BY <1>1, RowIsEarnings, PTL

============================================================================
