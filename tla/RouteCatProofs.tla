--------------------------- MODULE RouteCatProofs ---------------------------
(***************************************************************************)
(* The books of the whole gateway, for any jobs, users, nodes, invoices    *)
(* and amounts.                                                            *)
(***************************************************************************)
EXTENDS RouteCat, SumsProofs

USE DEF jobVars, topUpVars, payoutVars, heartbeatVars, vars

(* The whole sats of an amount are worth no more than the amount.          *)
LEMMA Whole ==
    ASSUME NEW a \in Nat, NEW m \in Nat \ {0}
    PROVE  a \div m \in Nat /\ (a \div m) * m <= a
  OBVIOUS

(* Whole sats survive the conversion to msats and back.                    *)
LEMMA Exact ==
    ASSUME NEW a \in Nat, NEW m \in Nat \ {0}
    PROVE  (a * m) \div m = a
  OBVIOUS

(* Sats may be converted to msats before or after they are added.          *)
LEMMA Scaled ==
    ASSUME NEW a \in Int, NEW b \in Int, NEW m \in Nat \ {0}
    PROVE  a * m \in Int /\ (a + b) * m = a * m + b * m
  OBVIOUS

(* A common positive factor can be cancelled from an inequality.           *)
LEMMA Cancels ==
    ASSUME NEW a \in Int, NEW b \in Int, NEW m \in Nat \ {0}, a * m < b * m
    PROVE  a < b
<1> SUFFICES ASSUME a >= b  PROVE FALSE
  OBVIOUS
<1>1. (a - b) * m >= 0
  OBVIOUS
<1>2. a * m = (a - b) * m + b * m
  OBVIOUS
<1> QED  BY <1>1, <1>2

(* The quotient of an integer is an integer.                               *)
LEMMA DivInt ==
    ASSUME NEW a \in Int, NEW m \in Nat \ {0}
    PROVE  a \div m \in Int
  OBVIOUS

----------------------------------------------------------------------------
(* What the rows add up to. *)

(* The amounts of rows are naturals, and so are their sums.                *)
LEMMA RowSums ==
    ASSUME TypeOK
    PROVE  /\ \A j \in Jobs : Provider[j] \in Nat /\ Fee[j] \in Nat
           /\ \A S \in SUBSET Jobs :
                /\ IsFiniteSet(S) /\ IntOn(Provider, S) /\ IntOn(Fee, S)
                /\ SumOver(Provider, S) \in Nat /\ SumOver(Fee, S) \in Nat
<1>1. \A j \in Jobs : Provider[j] \in Nat /\ Fee[j] \in Nat
  BY DEF TypeOK, Provider, Fee
<1> QED  BY <1>1, RouteCatAssumption, FS_Subset, SumNat DEF IntOn

(* What a node has earned is a natural number.                             *)
LEMMA NodeEarnedNat ==
    ASSUME TypeOK, NEW n \in Nodes
    PROVE  NodeEarned(n) \in Nat /\ JobsOf(n) \in SUBSET Jobs
<1>1. JobsOf(n) \in SUBSET Jobs
  BY DEF TypeOK, JobsOf
<1> QED  BY <1>1, RowSums DEF NodeEarned

(* A row is inserted once, and only that changes what a node has earned.   *)
LEMMA CreditedRow ==
    ASSUME TypeOK, NEW j \in Jobs, Requests!Credited(j)
    PROVE  /\ earned'[j] \in [provider : Nat, fee : Nat]
           /\ \A k \in Jobs : k # j => Provider'[k] = Provider[k] /\ Fee'[k] = Fee[k]
           /\ \A n \in Nodes : NodeEarned(n)' =
                IF NodeOf[j] = n THEN NodeEarned(n) + earned'[j].provider
                                 ELSE NodeEarned(n)
<1>1. /\ earned'[j] \in [provider : Nat, fee : Nat]
      /\ earned' = [earned EXCEPT ![j] = earned'[j]]
      /\ j \notin recorded /\ recorded' = recorded \union {j}
  BY DEF Requests!Credited
<1>2. /\ \A k \in Jobs : k # j => Provider'[k] = Provider[k] /\ Fee'[k] = Fee[k]
      /\ Provider'[j] = earned'[j].provider
  BY <1>1 DEF TypeOK, Provider, Fee
<1>3. ASSUME NEW n \in Nodes
      PROVE  NodeEarned(n)' = IF NodeOf[j] = n THEN NodeEarned(n) + earned'[j].provider
                                               ELSE NodeEarned(n)
  <2> DEFINE R == JobsOf(n)
  <2>1. R \in SUBSET Jobs /\ IsFiniteSet(R) /\ j \notin R /\ IntOn(Provider, R)
        /\ SumOver(Provider, R) \in Nat
    BY <1>1, NodeEarnedNat, RowSums DEF JobsOf
  <2>2. SumOver(Provider', R) = SumOver(Provider, R)
    <3>1. \A k \in R : Provider'[k] = Provider[k]
      BY <1>2, <2>1
    <3> HIDE DEF R
    <3> QED  BY <2>1, <3>1, SumSame
  <2>3. CASE NodeOf[j] # n
    <3>1. JobsOf(n)' = R
      BY <1>1, <2>3 DEF JobsOf
    <3> QED  BY <2>2, <2>3, <3>1 DEF NodeEarned
  <2>4. CASE NodeOf[j] = n
    <3>1. JobsOf(n)' = R \union {j}
      BY <1>1, <2>4 DEF JobsOf
    <3>2. IntOn(Provider', R \union {j})
      BY <1>1, <1>2, <2>1 DEF IntOn
    <3>3. SumOver(Provider', R \union {j}) = Provider'[j] + SumOver(Provider', R)
      <4> HIDE DEF R
      <4> QED  BY <2>1, <3>2, SumAdd
    <3>4. NodeEarned(n)' = SumOver(Provider', R \union {j}) /\ NodeEarned(n) = SumOver(Provider, R)
      BY <3>1 DEF NodeEarned
    <3>5. earned'[j].provider \in Nat
      BY <1>1
    <3> HIDE DEF R
    <3> QED  BY <1>2, <2>1, <2>2, <2>4, <3>3, <3>4, <3>5
  <2> QED  BY <2>3, <2>4
<1> QED  BY <1>1, <1>2, <1>3

(* Earnings depend on the rows only.                                       *)
LEMMA EarnedSame ==
    ASSUME UNCHANGED <<earned, recorded>>
    PROVE  /\ Provider' = Provider /\ Fee' = Fee
           /\ \A n \in Nodes : NodeEarned(n)' = NodeEarned(n)
BY DEF Provider, Fee, NodeEarned, JobsOf

(* What a node has earned never shrinks.                                   *)
LEMMA EarnedGrows ==
    ASSUME TypeOK, [Next]_vars, NEW n \in Nodes
    PROVE  NodeEarned(n) <= NodeEarned(n)'
<1>0. NodeEarned(n) \in Nat
  BY NodeEarnedNat
<1>1. ASSUME NEW j \in Jobs, Request(j)  PROVE NodeEarned(n) <= NodeEarned(n)'
  <2>1. CASE Requests!Credited(j)
    <3>1. /\ earned'[j].provider \in Nat
          /\ NodeEarned(n)' = IF NodeOf[j] = n THEN NodeEarned(n) + earned'[j].provider
                                               ELSE NodeEarned(n)
      BY <2>1, CreditedRow
    <3> QED  BY <1>0, <3>1
  <2>2. CASE Requests!Admitted(j) \/ Requests!Opened(j) \/ Requests!Charged(j)
    BY <1>0, <2>2, EarnedSame DEF Requests!Admitted, Requests!Opened, Requests!Charged
  <2> QED  BY <1>1, <2>1, <2>2 DEF Request
<1>2. ASSUME NEW f, Settle(f)  PROVE NodeEarned(n) <= NodeEarned(n)'
  BY <1>0, <1>2, EarnedSame DEF Settle, Requests!SettledAs
<1>3. CASE UNCHANGED jobVars
  BY <1>0, <1>3, EarnedSame
<1>4. ASSUME NEW i \in Invoices, TopUp(i)  PROVE UNCHANGED jobVars
  BY <1>4 DEF TopUp
<1>5. ASSUME NEW m \in Nodes, Payout(m) \/ Heartbeat(m)  PROVE UNCHANGED jobVars
  BY <1>5 DEF Payout, Heartbeat, ReadEarned, ReadPaid, ReadTotal, SendAck
<1>6. CASE Expire \/ UNCHANGED vars
  BY <1>3, <1>6 DEF Expire
<1> QED  BY <1>1, <1>2, <1>3, <1>4, <1>5, <1>6 DEF Next

----------------------------------------------------------------------------
(* The payments of one node. *)

(* A payment is covered by what is unpaid; a row that is written changes   *)
(* nothing in the sum; a row that is lost takes its sats out of it.        *)
LEMMA PayoutKeepsBook ==
    ASSUME TypeOK, NodeBook, NEW n \in Nodes, Payout(n)
    PROVE  /\ asked' \in [Nodes -> Nat] /\ lost' \in [Nodes -> Nat]
           /\ paid' \in [Nodes -> Nat]
           /\ (asked'[n] - lost'[n]) * Msat <= NodeEarned(n)
           /\ \A m \in Nodes : m # n => asked'[m] = asked[m] /\ lost'[m] = lost[m]
<1> DEFINE r == asked[n]
           l == lost[n]
           p == paid[n]
           E == NodeEarned(n)
<1>0. /\ r \in Nat /\ l \in Nat /\ p \in Nat /\ E \in Nat /\ Msat \in Nat \ {0}
      /\ (r - l) * Msat <= E /\ (r - l) * Msat \in Int
      /\ earnings[n] = E
  BY NodeEarnedNat, Scaled, RouteCatAssumption DEF TypeOK, NodeBook, earnings
<1>1. CASE /\ asked' = [asked EXCEPT ![n] = @ + Payouts!Unpaid(n) \div Msat]
           /\ Payouts!Sent(n)
  <2> DEFINE sats == asked'[n] - asked[n]
  <2>1. /\ Payouts!InFlight(n) = 0 /\ sats > 0 /\ sats * Msat <= Payouts!Unpaid(n)
        /\ lost' \in {lost, [lost EXCEPT ![n] = @ + sats]} /\ paid' = paid
    BY <1>1 DEF Payouts!Sent
  <2>2. (r - l) * Msat = p /\ Payouts!Unpaid(n) = E - p
    BY <1>0, <2>1 DEF Payouts!InFlight, Payouts!Unpaid
  <2>3. PICK q \in Int : asked'[n] = r + q
    <3>1. E - p \in Int
      BY <1>0
    <3>2. (E - p) \div Msat \in Int
      BY <1>0, <3>1, DivInt
    <3>3. asked'[n] = r + (E - p) \div Msat
      BY <1>1, <2>2 DEF TypeOK
    <3> HIDE DEF E, p
    <3> QED  BY <3>2, <3>3
  <2>4. sats \in Nat /\ asked'[n] = r + sats
    BY <1>0, <2>1, <2>3
  <2>5. /\ asked' \in [Nodes -> Nat]
        /\ \A m \in Nodes : m # n => asked'[m] = asked[m]
    BY <1>1, <2>4 DEF TypeOK
  <2>6. /\ lost' \in [Nodes -> Nat] /\ lost'[n] \in {l, l + sats}
        /\ \A m \in Nodes : m # n => lost'[m] = lost[m]
    BY <1>0, <2>1, <2>4 DEF TypeOK
  <2>7. (asked'[n] - lost'[n]) * Msat <= E
    <3>1. CASE lost'[n] = l
      <4>1. ((r - l) + sats) * Msat = (r - l) * Msat + sats * Msat /\ sats * Msat \in Int
        BY <1>0, <2>4, Scaled
      <4>2. asked'[n] - lost'[n] = (r - l) + sats
        BY <1>0, <2>4, <3>1
      <4> HIDE DEF sats, E, r, l, p
      <4> QED  BY <1>0, <2>1, <2>2, <4>1, <4>2
    <3>2. CASE lost'[n] = l + sats
      <4>1. asked'[n] - lost'[n] = r - l
        BY <1>0, <2>4, <3>2
      <4> QED  BY <1>0, <4>1
    <3> QED  BY <2>6, <3>1, <3>2
  <2> QED  BY <2>1, <2>5, <2>6, <2>7 DEF TypeOK
<1>2. CASE Payouts!Written(n)
  <2>1. /\ Payouts!InFlight(n) > 0 /\ paid' = [paid EXCEPT ![n] = @ + Payouts!InFlight(n)]
        /\ asked' = asked /\ lost' = lost
    BY <1>2 DEF Payouts!Written
  <2>2. Payouts!InFlight(n) \in Int
    BY <1>0 DEF Payouts!InFlight
  <2> QED  BY <1>0, <2>1, <2>2 DEF TypeOK
<1>3. CASE Payouts!Forgotten(n)
  <2> DEFINE d == p \div Msat
  <2>1. /\ Payouts!InFlight(n) > 0 /\ paid' = paid /\ asked' = asked
        /\ lost' = [lost EXCEPT ![n] = r - d]
    BY <1>3 DEF Payouts!Forgotten
  <2>2. p < (r - l) * Msat
    BY <1>0, <2>1 DEF Payouts!InFlight
  <2>3. d \in Nat /\ d * Msat <= p /\ d * Msat \in Int
    <3>1. d \in Nat /\ d * Msat <= p
      <4> HIDE DEF p
      <4> QED  BY <1>0, Whole
    <3> HIDE DEF d, p
    <3> QED  BY <1>0, <3>1, Scaled
  <2>4. d * Msat < (r - l) * Msat
    BY <1>0, <2>2, <2>3
  <2>5. d < r - l
    <3> HIDE DEF d, r, l
    <3> QED  BY <1>0, <2>3, <2>4, Cancels
  <2>6. r - d \in Nat /\ r - (r - d) = d
    BY <1>0, <2>3, <2>5
  <2>7. /\ lost' \in [Nodes -> Nat] /\ lost'[n] = r - d
        /\ \A m \in Nodes : m # n => lost'[m] = lost[m]
    BY <2>1, <2>6 DEF TypeOK
  <2>8. (asked'[n] - lost'[n]) * Msat <= E
    <3>1. asked'[n] - lost'[n] = d
      BY <2>1, <2>6, <2>7
    <3> HIDE DEF d, E, r, l, p
    <3> QED  BY <1>0, <2>2, <2>3, <3>1
  <2> QED  BY <2>1, <2>7, <2>8 DEF TypeOK
<1> QED  BY <1>1, <1>2, <1>3 DEF Payout

(* No step asks a node to take more than its rows.                         *)
LEMMA NodeBookStep ==
    ASSUME TypeOK, NodeBook, [Next]_vars
    PROVE  NodeBook'
<1> SUFFICES ASSUME NEW n \in Nodes
             PROVE  (asked'[n] - lost'[n]) * Msat <= NodeEarned(n)'
  BY DEF NodeBook
<1>0. /\ NodeEarned(n) \in Nat /\ NodeEarned(n)' \in Int /\ NodeEarned(n) <= NodeEarned(n)'
      /\ (asked[n] - lost[n]) * Msat <= NodeEarned(n)
      /\ (asked[n] - lost[n]) * Msat \in Int
  <2>1. NodeEarned(n) \in Nat /\ NodeEarned(n) <= NodeEarned(n)'
    BY NodeEarnedNat, EarnedGrows
  <2>2. asked[n] - lost[n] \in Int /\ Msat \in Nat \ {0}
    BY RouteCatAssumption DEF TypeOK
  <2>3. NodeEarned(n)' \in Int
    <3>1. ASSUME NEW j \in Jobs, Requests!Credited(j)  PROVE NodeEarned(n)' \in Int
      BY <2>1, <3>1, CreditedRow
    <3>2. CASE UNCHANGED <<earned, recorded>>
      BY <2>1, <3>2, EarnedSame
    <3> QED
      BY <3>1, <3>2
         DEF Next, Request, Requests!Admitted, Requests!Opened, Requests!Charged,
             Settle, Requests!SettledAs, TopUp, Expire, Payout, Heartbeat, ReadEarned,
             ReadPaid, ReadTotal, SendAck
  <2> QED  BY <2>1, <2>2, <2>3, Scaled DEF NodeBook
<1>1. CASE asked'[n] = asked[n] /\ lost'[n] = lost[n]
  BY <1>0, <1>1
<1>2. ASSUME NEW m \in Nodes, Payout(m)
      PROVE  (asked'[n] - lost'[n]) * Msat <= NodeEarned(n)'
  <2>1. CASE m # n
    BY <1>1, <1>2, <2>1, PayoutKeepsBook
  <2>2. CASE m = n
    <3>1. (asked'[n] - lost'[n]) * Msat <= NodeEarned(n)
          /\ asked'[n] \in Nat /\ lost'[n] \in Nat
      BY <1>2, <2>2, PayoutKeepsBook
    <3>2. (asked'[n] - lost'[n]) * Msat \in Int
      BY <3>1, RouteCatAssumption, Scaled
    <3> QED  BY <1>0, <3>1, <3>2
  <2> QED  BY <2>1, <2>2
<1>3. CASE UNCHANGED payoutVars
  BY <1>1, <1>3
<1> QED
  BY <1>2, <1>3
     DEF Next, Request, Settle, TopUp, Expire, Heartbeat, ReadEarned, ReadPaid, ReadTotal,
         SendAck

(* The rows of a node stay covered by what it was asked to take, in whole  *)
(* sats: a payment adds to the latter, a row brings the two together, and  *)
(* so does the loss of one.                                                *)
LEMMA RowBookStep ==
    ASSUME TypeOK, NodeBook, RowBook, [Next]_vars
    PROVE  RowBook'
<1> SUFFICES ASSUME NEW n \in Nodes
             PROVE  /\ paid'[n] <= (asked'[n] - lost'[n]) * Msat
                    /\ paid'[n] = (paid'[n] \div Msat) * Msat
  BY DEF RowBook
<1> DEFINE r == asked[n]
           l == lost[n]
           p == paid[n]
<1>0. /\ r \in Nat /\ l \in Nat /\ p \in Nat /\ Msat \in Nat \ {0}
      /\ p <= (r - l) * Msat /\ (r - l) * Msat \in Int
      /\ p = (p \div Msat) * Msat
  BY Scaled, RouteCatAssumption DEF TypeOK, RowBook
<1>1. CASE asked'[n] = asked[n] /\ lost'[n] = lost[n] /\ paid'[n] = paid[n]
  BY <1>0, <1>1
<1>2. ASSUME NEW m \in Nodes, Payout(m), m # n
      PROVE  asked'[n] = asked[n] /\ lost'[n] = lost[n] /\ paid'[n] = paid[n]
  BY <1>2 DEF TypeOK, Payout, Payouts!Sent, Payouts!Written, Payouts!Forgotten
<1>3. CASE Payout(n) /\ Payouts!Sent(n)
  <2> DEFINE sats == asked'[n] - asked[n]
  <2>1. /\ asked' = [asked EXCEPT ![n] = asked'[n]] /\ paid' = paid
        /\ lost' \in {lost, [lost EXCEPT ![n] = @ + sats]}
        /\ Payouts!InFlight(n) = 0 /\ sats > 0
    BY <1>3 DEF Payouts!Sent
  <2>0. asked'[n] \in Nat /\ asked'[n] = r + sats
    BY <1>0, <1>3, PayoutKeepsBook
  <2>5. sats \in Nat
    BY <1>0, <2>0, <2>1
  <2>6. lost'[n] = l \/ lost'[n] = l + sats
    BY <2>1 DEF TypeOK
  <2>7. sats * Msat \in Int /\ sats * Msat >= 0
    <3> HIDE DEF sats
    <3> QED  BY <1>0, <2>5, Scaled
  <2>2. sats \in Nat /\ sats * Msat \in Int /\ sats * Msat >= 0
        /\ (lost'[n] = l \/ lost'[n] = l + sats)
    BY <2>5, <2>6, <2>7
  <2>3. CASE lost'[n] = l
    <3>1. asked'[n] - lost'[n] = (r - l) + sats
      BY <1>0, <2>0, <2>2, <2>3
    <3>2. ((r - l) + sats) * Msat = (r - l) * Msat + sats * Msat
      BY <1>0, <2>2, Scaled
    <3> HIDE DEF sats, r, l
    <3> QED  BY <1>0, <2>1, <2>2, <3>1, <3>2
  <2>4. CASE lost'[n] = l + sats
    <3>1. asked'[n] - lost'[n] = r - l
      BY <1>0, <2>0, <2>2, <2>4
    <3> QED  BY <1>0, <2>1, <3>1
  <2> QED  BY <2>2, <2>3, <2>4
<1>4. CASE Payouts!Written(n)
  <2>1. /\ (r - l) * Msat > p /\ paid'[n] = (r - l) * Msat
        /\ asked' = asked /\ lost' = lost
    BY <1>0, <1>4 DEF TypeOK, Payouts!Written, Payouts!InFlight
  <2>2. r - l \in Nat
    <3>1. 0 * Msat < (r - l) * Msat
      BY <1>0, <2>1
    <3>2. 0 < r - l
      BY <1>0, <3>1, Cancels
    <3> QED  BY <1>0, <3>2
  <2>3. ((r - l) * Msat) \div Msat = r - l
    <3> DEFINE k == r - l
    <3>1. k \in Nat
      BY <2>2
    <3> HIDE DEF k
    <3>2. (k * Msat) \div Msat = k
      BY <1>0, <3>1, Exact
    <3> QED  BY <3>2 DEF k
  <2> QED  BY <1>0, <2>1, <2>3
<1>5. CASE Payouts!Forgotten(n)
  <2> DEFINE d == p \div Msat
  <2>1. /\ paid' = paid /\ asked' = asked /\ lost'[n] = r - d
    BY <1>5 DEF TypeOK, Payouts!Forgotten
  <2>2. d \in Int
    <3> HIDE DEF p
    <3> QED  BY <1>0, DivInt
  <2>3. asked'[n] - lost'[n] = d
    <3> HIDE DEF d
    <3> QED  BY <1>0, <2>1, <2>2
  <2>4. p = d * Msat /\ paid'[n] = p
    BY <1>0, <2>1
  <2> SUFFICES p <= d * Msat /\ p = d * Msat
    BY <2>3, <2>4
  <2> HIDE DEF p, d
  <2> QED  BY <1>0, <2>4
<1>6. CASE UNCHANGED payoutVars
  BY <1>1, <1>6
<1>7. ASSUME Payout(n)
      PROVE  Payouts!Sent(n) \/ Payouts!Written(n) \/ Payouts!Forgotten(n)
  BY <1>7 DEF Payout
<1> QED
  BY <1>1, <1>2, <1>3, <1>4, <1>5, <1>6, <1>7
     DEF Next, Request, Settle, TopUp, Expire, Heartbeat, ReadEarned, ReadPaid, ReadTotal,
         SendAck

----------------------------------------------------------------------------
(* Types, the book of the users, and heartbeats. *)

(* Every step keeps the types of the variables.                            *)
LEMMA TypeStep ==
    ASSUME TypeOK, NodeBook, [Next]_vars
    PROVE  TypeOK'
<1> USE RouteCatAssumption
<1>1. ASSUME NEW j \in Jobs, Request(j)  PROVE TypeOK'
  <2>1. CASE Requests!Admitted(j) \/ Requests!Opened(j)
    BY <1>1, <2>1 DEF TypeOK, Request, Requests!Admitted, Requests!Opened
  <2>2. CASE Requests!Charged(j)
    <3>1. earned[j].provider \in Nat /\ earned[j].fee \in Nat /\ UserOf[j] \in Users
      BY DEF TypeOK
    <3>2. balance' \in [Users -> Nat]
      BY <2>2, <3>1 DEF TypeOK, Requests!Charged, Requests!Price
    <3>3. charged' \subseteq recorded'
      BY <2>2 DEF TypeOK, Requests!Charged
    <3> QED  BY <1>1, <2>2, <3>2, <3>3 DEF TypeOK, Request, Requests!Charged
  <2>3. CASE Requests!Credited(j)
    BY <1>1, <2>3 DEF TypeOK, Request, Requests!Credited
  <2> QED  BY <1>1, <2>1, <2>2, <2>3 DEF Request
<1>2. ASSUME NEW f \in Requests!Settled, Settle(f)  PROVE TypeOK'
  <2>1. fate' \in [Jobs -> {"none", "open"} \union Requests!Settled]
    BY <1>2 DEF TypeOK, Settle, Requests!SettledAs
  <2> QED  BY <1>2, <2>1 DEF TypeOK, Settle, Requests!SettledAs
<1>3. ASSUME NEW i \in Invoices, TopUp(i)  PROVE TypeOK'
  <2>1. CASE TopUps!Offered(i) \/ TopUps!Settled(i)
    BY <1>3, <2>1 DEF TypeOK, TopUp, TopUps!Offered, TopUps!Settled
  <2>2. CASE TopUps!Credited(i)
    BY <1>3, <2>2 DEF TypeOK, TopUp, TopUps!Credited
  <2> QED  BY <1>3, <2>1, <2>2 DEF TopUp
<1>4. CASE Expire
  BY <1>4 DEF TypeOK, Expire, TopUps!Expired
<1>5. ASSUME NEW n \in Nodes, Payout(n)  PROVE TypeOK'
  BY <1>5, PayoutKeepsBook DEF TypeOK, Payout
<1>6. ASSUME NEW n \in Nodes, Heartbeat(n)  PROVE TypeOK'
  <2>1. NodeEarned(n) \in Nat
    BY NodeEarnedNat
  <2>2. CASE ReadEarned(n)
    <3>1. CASE hearned' = [hearned EXCEPT ![n] = NodeEarned(n)] /\ UNCHANGED hbalance
      BY <2>1, <2>2, <3>1 DEF TypeOK, ReadEarned
    <3>2. CASE hbalance' = [hbalance EXCEPT ![n] = 0] /\ UNCHANGED hearned
      BY <2>2, <3>2 DEF TypeOK, ReadEarned
    <3> QED  BY <2>2, <3>1, <3>2 DEF ReadEarned
  <2>3. CASE ReadPaid(n)
    BY <2>3 DEF TypeOK, ReadPaid, NodeBalance
  <2>4. CASE ReadTotal(n)
    BY <2>1, <2>4 DEF TypeOK, ReadTotal, NodeEarningsTotal
  <2>5. CASE SendAck(n)
    BY <2>5 DEF TypeOK, SendAck
  <2> QED  BY <1>6, <2>2, <2>3, <2>4, <2>5 DEF Heartbeat
<1>7. CASE UNCHANGED vars
  BY <1>7 DEF TypeOK
<1> QED  BY <1>1, <1>2, <1>3, <1>4, <1>5, <1>6, <1>7 DEF Next

(* A change of one balance changes the sum of all by as much.              *)
LEMMA UnspentChanges ==
    ASSUME TypeOK, NEW v \in Users, NEW c \in Int, balance' = [balance EXCEPT ![v] = @ + c]
    PROVE  Unspent' = Unspent + c
<1>1. /\ balance[v] \in Int /\ balance'[v] = balance[v] + c
      /\ \A u \in Users : u # v => balance'[u] = balance[u]
      /\ \A u \in Users : balance[u] \in Int
  BY DEF TypeOK
<1>2. IntOn(balance, Users) /\ IntOn(balance', Users) /\ IsFiniteSet(Users)
  BY <1>1, RouteCatAssumption DEF IntOn
<1>3. SumOver(balance, Users) \in Int
  BY <1>2, SumInt
<1> DEFINE b == balance
           d == balance'
<1>4. /\ IntOn(b, Users) /\ IntOn(d, Users) /\ IsFiniteSet(Users)
      /\ \A u \in Users : u # v => d[u] = b[u]
  BY <1>1, <1>2
<1> HIDE DEF b, d
<1>5. SumOver(d, Users) = SumOver(b, Users) - b[v] + d[v]
  BY <1>4, SumUpdate
<1> QED  BY <1>1, <1>3, <1>5 DEF Unspent, b, d

(* A charge moves its price from the balance of a user to Spent, and a     *)
(* credited invoice adds its amount on both sides.                         *)
LEMMA UserBookStep ==
    ASSUME TypeOK, UserBook, [Next]_vars
    PROVE  UserBook'
<1> USE RouteCatAssumption
<1>0. /\ charged \in SUBSET Jobs /\ IsFiniteSet(charged)
      /\ IntOn(Provider, charged) /\ IntOn(Fee, charged)
      /\ SumOver(Provider, charged) \in Nat /\ SumOver(Fee, charged) \in Nat
      /\ IntOn(balance, Users) /\ Unspent \in Int
      /\ CreditedInvoices \in SUBSET Invoices /\ IsFiniteSet(CreditedInvoices)
      /\ ToppedUp \in Int
  <2>1. charged \in SUBSET Jobs
    BY DEF TypeOK
  <2>2. IntOn(balance, Users)
    BY DEF TypeOK, IntOn
  <2>3. CreditedInvoices \in SUBSET Invoices
    BY DEF CreditedInvoices
  <2>4. IsFiniteSet(CreditedInvoices) /\ IntOn(AmountOf, CreditedInvoices)
    BY <2>3, FS_Subset DEF IntOn
  <2> QED  BY <2>1, <2>2, <2>3, <2>4, RowSums, SumInt DEF Unspent, ToppedUp
<1>same. ASSUME UNCHANGED <<earned, recorded, charged, balance>>,
                CreditedInvoices' = CreditedInvoices
         PROVE  UserBook'
  BY <1>same, EarnedSame DEF UserBook, ToppedUp, Unspent, Spent
<1>1. ASSUME NEW j \in Jobs, Request(j)  PROVE UserBook'
  <2>1. CASE Requests!Admitted(j) \/ Requests!Opened(j)
    BY <1>1, <1>same, <2>1
       DEF Request, Requests!Admitted, Requests!Opened, CreditedInvoices
  <2>2. CASE Requests!Charged(j)
    <3> DEFINE v == UserOf[j]
               c == Provider[j] + Fee[j]
    <3>1. /\ j \notin charged /\ charged' = charged \union {j}
          /\ v \in Users /\ balance' = [balance EXCEPT ![v] = @ - c]
          /\ Provider[j] \in Nat /\ Fee[j] \in Nat /\ c \in Nat
      BY <2>2, RowSums DEF Requests!Charged, Requests!Price, Provider, Fee
    <3>2. Provider' = Provider /\ Fee' = Fee /\ ToppedUp' = ToppedUp
      BY <1>1, <2>2, EarnedSame DEF Request, Requests!Charged, ToppedUp, CreditedInvoices
    <3>3. /\ SumOver(Provider, charged \union {j}) = Provider[j] + SumOver(Provider, charged)
          /\ SumOver(Fee, charged \union {j}) = Fee[j] + SumOver(Fee, charged)
      <4>1. charged \union {j} \in SUBSET Jobs
        BY <1>0
      <4>2. IntOn(Provider, charged \union {j}) /\ IntOn(Fee, charged \union {j})
        BY <4>1, RowSums
      <4> QED  BY <1>0, <3>1, <4>2, SumAdd
    <3>4. Spent' = Spent + c
      <4>1. /\ Spent' = SumOver(Provider, charged \union {j}) + SumOver(Fee, charged \union {j})
            /\ Spent = SumOver(Provider, charged) + SumOver(Fee, charged)
        BY <3>1, <3>2 DEF Spent
      <4> QED  BY <1>0, <3>1, <3>3, <4>1
    <3>5. Unspent' = Unspent + (-c)
      <4> HIDE DEF c, v
      <4>1. balance[v] \in Int /\ -c \in Int
        BY <3>1 DEF TypeOK
      <4>2. balance[v] - c = balance[v] + (-c)
        BY <3>1, <4>1
      <4>3. balance' = [balance EXCEPT ![v] = @ + (-c)]
        BY <3>1, <4>2
      <4> QED  BY <3>1, <4>1, <4>3, UnspentChanges
    <3>6. Spent \in Int
      BY <1>0 DEF Spent
    <3> HIDE DEF c
    <3> QED  BY <1>0, <3>1, <3>2, <3>4, <3>5, <3>6 DEF UserBook
  <2>3. CASE Requests!Credited(j)
    <3>1. /\ j \notin charged /\ charged' = charged /\ balance' = balance
          /\ \A k \in charged : Provider'[k] = Provider[k] /\ Fee'[k] = Fee[k]
      BY <1>0, <2>3, CreditedRow DEF TypeOK, Requests!Credited
    <3>2. /\ SumOver(Provider', charged) = SumOver(Provider, charged)
          /\ SumOver(Fee', charged) = SumOver(Fee, charged)
      BY <1>0, <3>1, SumSame
    <3>3. ToppedUp' = ToppedUp /\ Unspent' = Unspent /\ Spent' = Spent
      BY <1>1, <3>1, <3>2 DEF Request, ToppedUp, CreditedInvoices, Unspent, Spent
    <3> QED  BY <3>3 DEF UserBook
  <2> QED  BY <1>1, <2>1, <2>2, <2>3 DEF Request
<1>2. ASSUME NEW f \in Requests!Settled, Settle(f)  PROVE UserBook'
  BY <1>2, <1>same DEF Settle, Requests!SettledAs, CreditedInvoices
<1>3. ASSUME NEW i \in Invoices, TopUp(i)  PROVE UserBook'
  <2>1. CASE TopUps!Offered(i) \/ TopUps!Settled(i)
    <3>1. CreditedInvoices' = CreditedInvoices
      BY <2>1 DEF TypeOK, TopUps!Offered, TopUps!Settled, CreditedInvoices
    <3> QED  BY <1>3, <1>same, <2>1, <3>1 DEF TopUp, TopUps!Offered, TopUps!Settled
  <2>2. CASE TopUps!Credited(i)
    <3> DEFINE v == OwnerOf[i]
               a == AmountOf[i]
    <3>1. /\ CreditedInvoices' = CreditedInvoices \union {i} /\ i \notin CreditedInvoices
          /\ v \in Users /\ a \in Nat /\ balance' = [balance EXCEPT ![v] = @ + a]
      BY <2>2 DEF TypeOK, TopUps!Credited, CreditedInvoices
    <3>2. Spent' = Spent /\ Spent \in Int
      BY <1>0, <1>3, EarnedSame DEF TopUp, Spent
    <3>3. ToppedUp' = ToppedUp + a
      <4>1. IntOn(AmountOf, CreditedInvoices \union {i})
        BY <1>0 DEF IntOn
      <4>2. SumOver(AmountOf, CreditedInvoices \union {i})
              = a + SumOver(AmountOf, CreditedInvoices)
        BY <1>0, <3>1, <4>1, SumAdd
      <4> QED  BY <1>0, <3>1, <4>2 DEF ToppedUp
    <3>4. Unspent' = Unspent + a
      <4> HIDE DEF a, v
      <4>1. a \in Int
        BY <3>1
      <4> QED  BY <3>1, <4>1, UnspentChanges
    <3> HIDE DEF a
    <3> QED  BY <1>0, <3>1, <3>2, <3>3, <3>4 DEF UserBook
  <2> QED  BY <1>3, <2>1, <2>2 DEF TopUp
<1>4. CASE Expire
  <2>1. CreditedInvoices' = CreditedInvoices
    BY <1>4 DEF TypeOK, Expire, TopUps!Expired, CreditedInvoices
  <2> QED  BY <1>4, <1>same, <2>1 DEF Expire, TopUps!Expired
<1>5. ASSUME NEW n \in Nodes, Payout(n) \/ Heartbeat(n)  PROVE UserBook'
  BY <1>5, <1>same
     DEF Payout, Heartbeat, ReadEarned, ReadPaid, ReadTotal, SendAck, CreditedInvoices
<1>6. CASE UNCHANGED vars
  BY <1>6, <1>same DEF CreditedInvoices
<1> QED  BY <1>1, <1>2, <1>3, <1>4, <1>5, <1>6 DEF Next

(* No step lets what a heartbeat has read exceed the tables: rows are      *)
(* only added.                                                             *)
LEMMA HeartbeatStep ==
    ASSUME TypeOK, HeartbeatInv, [Next]_vars
    PROVE  HeartbeatInv'
<1> SUFFICES ASSUME NEW n \in Nodes
             PROVE  /\ hpc'[n] = "earned" => hearned'[n] <= NodeEarned(n)'
                    /\ hpc'[n] = "balance" => hbalance'[n] <= NodeEarned(n)'
                    /\ hpc'[n] = "ack" => htotal'[n] = 0 \/ hbalance'[n] <= htotal'[n]
  BY DEF HeartbeatInv
<1>0. /\ NodeEarned(n) \in Nat /\ NodeEarned(n) <= NodeEarned(n)'
      /\ hearned[n] \in Nat /\ hbalance[n] \in Int /\ htotal[n] \in Nat /\ paid[n] \in Nat
  BY NodeEarnedNat, EarnedGrows DEF TypeOK
<1>int. NodeEarned(n)' \in Int
  <2>1. ASSUME NEW j \in Jobs, Requests!Credited(j)  PROVE NodeEarned(n)' \in Int
    BY <1>0, <2>1, CreditedRow
  <2>2. CASE UNCHANGED <<earned, recorded>>
    BY <1>0, <2>2, EarnedSame
  <2> QED
    BY <2>1, <2>2
       DEF Next, Request, Requests!Admitted, Requests!Opened, Requests!Charged,
           Settle, Requests!SettledAs, TopUp, Expire, Payout, Heartbeat, ReadEarned,
           ReadPaid, ReadTotal, SendAck
<1>1. CASE /\ hpc'[n] = hpc[n] /\ hearned'[n] = hearned[n]
           /\ hbalance'[n] = hbalance[n] /\ htotal'[n] = htotal[n]
  BY <1>0, <1>int, <1>1 DEF HeartbeatInv
<1>2. ASSUME NEW m \in Nodes, Heartbeat(m), m # n
      PROVE  /\ hpc'[n] = hpc[n] /\ hearned'[n] = hearned[n]
             /\ hbalance'[n] = hbalance[n] /\ htotal'[n] = htotal[n]
  BY <1>2 DEF TypeOK, Heartbeat, ReadEarned, ReadPaid, ReadTotal, SendAck
<1>3. CASE ReadEarned(n)
  BY <1>0, <1>int, <1>3 DEF TypeOK, HeartbeatInv, ReadEarned
<1>4. CASE ReadPaid(n)
  BY <1>0, <1>int, <1>4 DEF TypeOK, HeartbeatInv, ReadPaid, NodeBalance
<1>5. CASE ReadTotal(n)
  BY <1>0, <1>int, <1>5 DEF TypeOK, HeartbeatInv, ReadTotal, NodeEarningsTotal
<1>6. CASE SendAck(n)
  BY <1>0, <1>int, <1>6 DEF TypeOK, HeartbeatInv, SendAck
<1>7. CASE UNCHANGED heartbeatVars
  BY <1>1, <1>7
<1> QED
  BY <1>1, <1>2, <1>3, <1>4, <1>5, <1>6, <1>7
     DEF Next, Request, Settle, TopUp, Expire, Payout, Heartbeat

(* The books of the gateway, with requests, top-ups, payouts and           *)
(* heartbeats interleaved on one database.                                 *)
THEOREM BooksInvariant == Spec => []BooksInv
<1>1. Init => BooksInv
  <2> SUFFICES ASSUME Init  PROVE BooksInv
    OBVIOUS
  <2> USE RouteCatAssumption
  <2>1. TypeOK
    BY DEF Init, Requests!LedgerInit, TopUps!TopUpInit, TypeOK, InitBalance
  <2>2. /\ charged = {} /\ recorded = {} /\ CreditedInvoices = {}
        /\ \A u \in Users : balance[u] = 0
    BY DEF Init, Requests!LedgerInit, TopUps!TopUpInit, CreditedInvoices
  <2>3. Unspent = 0
    BY <2>2, SumZero DEF Unspent
  <2>4. UserBook
    BY <2>2, <2>3, SumEmpty DEF UserBook, ToppedUp, Spent
  <2>5. ASSUME NEW n \in Nodes  PROVE NodeEarned(n) = 0
    <3>1. JobsOf(n) = {}
      BY <2>2 DEF JobsOf
    <3> QED  BY <3>1, SumEmpty DEF NodeEarned
  <2>6. NodeBook
    BY <2>5 DEF Init, NodeBook
  <2>8. RowBook
    BY Scaled, Exact DEF Init, RowBook
  <2>7. HeartbeatInv
    BY DEF Init, HeartbeatInv
  <2> QED  BY <2>1, <2>4, <2>6, <2>7, <2>8 DEF BooksInv
<1>2. BooksInv /\ [Next]_vars => BooksInv'
  BY TypeStep, UserBookStep, NodeBookStep, RowBookStep, HeartbeatStep DEF BooksInv
<1> QED  BY <1>1, <1>2, PTL DEF Spec

----------------------------------------------------------------------------
(* What follows. *)

(* The nodes' earnings, added up node by node, are the rows of the jobs.   *)
LEMMA EarnedByNode ==
    ASSUME TypeOK
    PROVE  SumOver(earnings, Nodes) = SumOver(Provider, recorded)
<1>1. /\ recorded \in SUBSET Jobs /\ IsFiniteSet(recorded) /\ IntOn(Provider, recorded)
      /\ IsFiniteSet(Nodes) /\ \A j \in recorded : NodeOf[j] \in Nodes
  BY RouteCatAssumption, RowSums DEF TypeOK
<1> DEFINE byNode == [n \in Nodes |-> SumOver(Provider, {j \in recorded : NodeOf[j] = n})]
<1>2. SumOver(byNode, Nodes) = SumOver(Provider, recorded)
  BY <1>1, SumByClass
<1>3. earnings = byNode
  BY DEF earnings, NodeEarned, JobsOf
<1> HIDE DEF byNode
<1> QED  BY <1>2, <1>3

(* What was asked for is covered by the rows.                              *)
LEMMA AskedIsEarned ==
    ASSUME TypeOK, NodeBook
    PROVE  AskedFor \in Int /\ AskedFor <= SumOver(Provider, recorded)
<1> DEFINE s == [n \in Nodes |-> asked[n] - lost[n]]
           t == [n \in Nodes |-> (asked[n] - lost[n]) * Msat]
<1>0. IsFiniteSet(Nodes) /\ Msat \in Nat \ {0}
  BY RouteCatAssumption
<1>1. ASSUME NEW n \in Nodes
      PROVE  /\ s[n] \in Int /\ t[n] \in Int /\ t[n] = s[n] * Msat
             /\ earnings[n] \in Int /\ t[n] <= earnings[n]
  <2>1. asked[n] - lost[n] \in Int
    BY DEF TypeOK
  <2>2. (asked[n] - lost[n]) * Msat \in Int
    BY <1>0, <2>1, Scaled
  <2> QED  BY <2>1, <2>2, NodeEarnedNat DEF NodeBook, earnings
<1>2. IntOn(s, Nodes) /\ IntOn(t, Nodes) /\ IntOn(earnings, Nodes)
  BY <1>1 DEF IntOn
<1>3. AskedFor = SumOver(s, Nodes) * Msat
  BY DEF AskedFor
<1> HIDE DEF s, t
<1>4. SumOver(t, Nodes) = SumOver(s, Nodes) * Msat
  BY <1>0, <1>1, <1>2, SumTimes
<1>5. SumOver(t, Nodes) <= SumOver(earnings, Nodes) /\ SumOver(t, Nodes) \in Int
  BY <1>0, <1>1, <1>2, SumLeq, SumInt
<1> QED  BY <1>3, <1>4, <1>5, EarnedByNode

(* The gateway is solvent: what its payments to nodes ask for is covered   *)
(* by what users paid, less the fees, and by what the gateway bears, and   *)
(* no user is in debt.                                                     *)
THEOREM Solvency == Spec => []Solvent
<1>1. ASSUME BooksInv  PROVE Solvent
  <2>0. TypeOK /\ UserBook /\ NodeBook
    BY <1>1 DEF BooksInv
  <2> DEFINE P(S) == SumOver(Provider, S)
             F == SumOver(Fee, charged)
             rest == recorded \ charged
  <2>1. /\ charged \in SUBSET Jobs /\ rest \in SUBSET Jobs /\ recorded \in SUBSET Jobs
        /\ recorded = charged \union rest /\ charged \intersect rest = {}
    BY <2>0 DEF TypeOK
  <2>2. /\ IsFiniteSet(charged) /\ IsFiniteSet(rest) /\ IntOn(Provider, charged \union rest)
        /\ P(charged) \in Int /\ P(rest) \in Int /\ F \in Int
    BY <2>0, <2>1, RowSums
  <2>3. P(recorded) = P(charged) + P(rest)
    <3> HIDE DEF rest
    <3>1. SumOver(Provider, charged \union rest) = P(charged) + P(rest)
      BY <2>1, <2>2, SumUnion
    <3> QED  BY <2>1, <3>1
  <2>4. AskedFor \in Int /\ AskedFor <= P(recorded)
    BY <2>0, AskedIsEarned
  <2>5. ToppedUp = Unspent + (P(charged) + F)
    BY <2>0 DEF UserBook, Spent
  <2>6. Unspent \in Int
    <3>1. IntOn(balance, Users) /\ IsFiniteSet(Users)
      BY <2>0, RouteCatAssumption DEF TypeOK, IntOn
    <3> QED  BY <3>1, SumInt DEF Unspent
  <2>7. Borne = P(rest)
    BY DEF Borne
  <2>8. \A u \in Users : balance[u] >= 0
    BY <2>0 DEF TypeOK
  <2>9. AskedFor <= ToppedUp - Unspent - F + Borne
    <3> DEFINE pc == P(charged)
               pr == P(rest)
               pa == P(recorded)
    <3>1. /\ pa = pc + pr /\ pc \in Int /\ pr \in Int /\ AskedFor <= pa
          /\ ToppedUp = Unspent + (pc + F) /\ Borne = pr
      BY <2>2, <2>3, <2>4, <2>5, <2>7
    <3> HIDE DEF pc, pr, pa, F, P
    <3> QED  BY <2>2, <2>4, <2>6, <3>1
  <2> QED  BY <2>8, <2>9 DEF Solvent
<1> QED  BY <1>1, BooksInvariant, PTL

(* The figures of a heartbeat err only downwards, also when statements     *)
(* fail; only a total that could not be read may be below the balance.     *)
THEOREM HeartbeatsDoNotOverstate == Spec => BalanceNotOverstated
<1> DEFINE A == \A n \in Nodes :
                  /\ hpc[n] # "balance" /\ hpc'[n] = "balance"
                        => hbalance'[n] <= NodeEarned(n) - paid[n]
                  /\ hpc[n] = "ack" => htotal[n] = 0 \/ hbalance[n] <= htotal[n]
<1>1. ASSUME BooksInv, [Next]_vars  PROVE A
  <2>0. TypeOK /\ NodeBook /\ RowBook /\ HeartbeatInv
    BY <1>1 DEF BooksInv
  <2> SUFFICES ASSUME NEW n \in Nodes, hpc[n] # "balance", hpc'[n] = "balance"
               PROVE  hbalance'[n] <= NodeEarned(n) - paid[n]
    BY <2>0 DEF HeartbeatInv
  <2>1. ReadEarned(n) \/ ReadPaid(n)
    <3>1. ASSUME NEW m \in Nodes, Heartbeat(m)  PROVE ReadEarned(n) \/ ReadPaid(n)
      BY <2>0, <3>1 DEF TypeOK, Heartbeat, ReadEarned, ReadPaid, ReadTotal, SendAck
    <3>2. ~ UNCHANGED heartbeatVars
      OBVIOUS
    <3> QED
      BY <1>1, <3>1, <3>2 DEF Next, Request, Settle, TopUp, Expire, Payout
  <2>2. /\ paid[n] \in Nat /\ NodeEarned(n) \in Nat /\ paid[n] <= NodeEarned(n)
        /\ hearned[n] \in Nat
    <3>1. (asked[n] - lost[n]) * Msat \in Int
      BY <2>0, RouteCatAssumption, Scaled DEF TypeOK
    <3> QED  BY <2>0, <3>1, NodeEarnedNat DEF TypeOK, NodeBook, RowBook
  <2>3. CASE hbalance'[n] = 0
    BY <2>2, <2>3
  <2>4. CASE ReadPaid(n) /\ hbalance'[n] = hearned[n] - paid[n]
    <3>1. hearned[n] <= NodeEarned(n)
      BY <2>0, <2>4 DEF HeartbeatInv, ReadPaid
    <3> QED  BY <2>2, <2>4, <3>1
  <2>5. hbalance'[n] = 0 \/ (ReadPaid(n) /\ hbalance'[n] = hearned[n] - paid[n])
    BY <2>0, <2>1 DEF TypeOK, ReadEarned, ReadPaid, NodeBalance
  <2> QED  BY <2>3, <2>4, <2>5
<1>2. BooksInv /\ [Next]_vars => [A]_vars
  BY <1>1
<1> QED  BY <1>2, BooksInvariant, PTL DEF Spec, BalanceNotOverstated

----------------------------------------------------------------------------
(* The ledgers, on shared tables. *)

(* Every step is a step of JobLedger or changes nothing there; a credited  *)
(* invoice is a top-up.                                                    *)
LEMMA RequestLedgerStep ==
    ASSUME TypeOK, [Next]_vars
    PROVE  [Requests!LedgerNext]_(Requests!ledgerVars)
<1>1. ASSUME NEW j \in Jobs, Request(j)  PROVE Requests!LedgerNext
  BY <1>1 DEF Request, Requests!LedgerNext
<1>2. ASSUME NEW f \in Requests!Settled, Settle(f)  PROVE Requests!LedgerNext
  BY <1>2 DEF Settle, Requests!LedgerNext
<1>3. ASSUME NEW i \in Invoices, TopUp(i)
      PROVE  [Requests!LedgerNext]_(Requests!ledgerVars)
  <2>1. CASE TopUps!Credited(i)
    <3> DEFINE v == OwnerOf[i]
               a == AmountOf[i]
    <3>1. /\ v \in Users /\ a \in Nat \ {0} /\ balance[v] \in Nat
          /\ balance' = [balance EXCEPT ![v] = @ + a]
      BY <2>1, RouteCatAssumption DEF TypeOK, TopUps!Credited
    <3> HIDE DEF v, a
    <3>2. balance'[v] = balance[v] + a /\ balance' = [balance EXCEPT ![v] = balance'[v]]
      BY <3>1 DEF TypeOK
    <3>3. Requests!ToppedUp(v)
      BY <1>3, <3>1, <3>2 DEF TopUp, Requests!ToppedUp
    <3> QED  BY <3>1, <3>3 DEF Requests!LedgerNext
  <2>2. CASE TopUps!Offered(i) \/ TopUps!Settled(i)
    BY <1>3, <2>2 DEF TopUp, TopUps!Offered, TopUps!Settled, Requests!ledgerVars
  <2> QED  BY <1>3, <2>1, <2>2 DEF TopUp
<1>4. ASSUME NEW n \in Nodes, Payout(n) \/ Heartbeat(n)
      PROVE  UNCHANGED Requests!ledgerVars
  BY <1>4 DEF Payout, Heartbeat, ReadEarned, ReadPaid, ReadTotal, SendAck, Requests!ledgerVars
<1>5. CASE Expire \/ UNCHANGED vars
  BY <1>5 DEF Expire, TopUps!Expired, Requests!ledgerVars
<1> QED  BY <1>1, <1>2, <1>3, <1>4, <1>5 DEF Next

(* Every step is a step of TopUpLedger or changes nothing there; a charge  *)
(* is spending.                                                            *)
LEMMA TopUpLedgerStep ==
    ASSUME TypeOK, [Next]_vars
    PROVE  [TopUps!TopUpNext]_(TopUps!topUpVars)
<1>1. ASSUME NEW j \in Jobs, Request(j)
      PROVE  [TopUps!TopUpNext]_(TopUps!topUpVars)
  <2>1. CASE Requests!Charged(j)
    <3> DEFINE v == UserOf[j]
               c == Requests!Price(j)
    <3>1. v \in Users /\ balance[v] \in Nat /\ c \in Nat
      BY RouteCatAssumption DEF TypeOK, Requests!Price
    <3>2. c > 0 /\ balance[v] >= c /\ balance' = [balance EXCEPT ![v] = @ - c]
      BY <2>1 DEF Requests!Charged
    <3> HIDE DEF v, c
    <3>3. balance'[v] = balance[v] - c /\ balance' = [balance EXCEPT ![v] = balance'[v]]
      BY <3>1, <3>2 DEF TypeOK
    <3>4. balance'[v] \in 0..(balance[v] - 1)
      BY <3>1, <3>2, <3>3
    <3>5. TopUps!Spent(v)
      BY <1>1, <3>3, <3>4 DEF Request, TopUps!Spent
    <3> QED  BY <3>1, <3>5 DEF TopUps!TopUpNext
  <2>2. CASE Requests!Admitted(j) \/ Requests!Opened(j) \/ Requests!Credited(j)
    BY <1>1, <2>2
       DEF Request, Requests!Admitted, Requests!Opened, Requests!Credited, TopUps!topUpVars
  <2> QED  BY <1>1, <2>1, <2>2 DEF Request
<1>2. ASSUME NEW f \in Requests!Settled, Settle(f)  PROVE UNCHANGED TopUps!topUpVars
  BY <1>2 DEF Settle, Requests!SettledAs, TopUps!topUpVars
<1>3. ASSUME NEW i \in Invoices, TopUp(i)  PROVE TopUps!TopUpNext
  BY <1>3 DEF TopUp, TopUps!TopUpNext
<1>4. CASE Expire
  BY <1>4 DEF Expire, TopUps!TopUpNext
<1>5. ASSUME NEW n \in Nodes, Payout(n) \/ Heartbeat(n)
      PROVE  UNCHANGED TopUps!topUpVars
  BY <1>5 DEF Payout, Heartbeat, ReadEarned, ReadPaid, ReadTotal, SendAck, TopUps!topUpVars
<1>6. CASE UNCHANGED vars
  BY <1>6 DEF TopUps!topUpVars
<1> QED  BY <1>1, <1>2, <1>3, <1>4, <1>5, <1>6 DEF Next

(* Every step is a step of PayoutLedger or changes nothing there; a row    *)
(* is earning.                                                             *)
LEMMA PayoutLedgerStep ==
    ASSUME TypeOK, [Next]_vars
    PROVE  [Payouts!PayoutNext]_(Payouts!payoutVars)
<1>same. ASSUME UNCHANGED <<earned, recorded>>  PROVE earnings' = earnings
  BY <1>same, EarnedSame DEF earnings
<1>1. ASSUME NEW j \in Jobs, Request(j)
      PROVE  [Payouts!PayoutNext]_(Payouts!payoutVars)
  <2>1. CASE Requests!Credited(j)
    <3> DEFINE m == NodeOf[j]
               g == earned'[j].provider
    <3>0. m \in Nodes /\ NodeEarned(m) \in Nat
      BY RouteCatAssumption, NodeEarnedNat
    <3>1. /\ g \in Nat
          /\ \A n \in Nodes : NodeEarned(n)' = IF m = n THEN NodeEarned(n) + g
                                                        ELSE NodeEarned(n)
      BY <2>1, CreditedRow
    <3> HIDE DEF m, g
    <3>2. earnings' = [n \in Nodes |-> NodeEarned(n)'] /\ earnings = [n \in Nodes |-> NodeEarned(n)]
      BY DEF earnings
    <3>3. CASE g = 0
      <4>1. \A n \in Nodes : NodeEarned(n)' = NodeEarned(n)
        BY <3>0, <3>1, <3>3, NodeEarnedNat
      <4>2. earnings' = earnings
        BY <3>2, <4>1
      <4> QED  BY <1>1, <4>2 DEF Request, Payouts!payoutVars
    <3>4. CASE g > 0
      <4>1. earnings'[m] > earnings[m]
        BY <3>0, <3>1, <3>2, <3>4
      <4>2. earnings' = [earnings EXCEPT ![m] = earnings'[m]]
        BY <3>0, <3>1, <3>2
      <4>3. Payouts!Earned(m)
        BY <1>1, <4>1, <4>2 DEF Request, Payouts!Earned
      <4> QED  BY <3>0, <4>3 DEF Payouts!PayoutNext
    <3> QED  BY <3>1, <3>3, <3>4
  <2>2. CASE Requests!Admitted(j) \/ Requests!Opened(j) \/ Requests!Charged(j)
    BY <1>1, <1>same, <2>2
       DEF Request, Requests!Admitted, Requests!Opened, Requests!Charged, Payouts!payoutVars
  <2> QED  BY <1>1, <2>1, <2>2 DEF Request
<1>2. ASSUME NEW f \in Requests!Settled, Settle(f)  PROVE UNCHANGED Payouts!payoutVars
  BY <1>2, <1>same DEF Settle, Requests!SettledAs, Payouts!payoutVars
<1>3. ASSUME NEW i \in Invoices, TopUp(i)  PROVE UNCHANGED Payouts!payoutVars
  BY <1>3, <1>same DEF TopUp, Payouts!payoutVars
<1>4. ASSUME NEW n \in Nodes, Payout(n)  PROVE Payouts!PayoutNext
  BY <1>4 DEF Payout, Payouts!PayoutNext
<1>5. ASSUME NEW n \in Nodes, Heartbeat(n)  PROVE UNCHANGED Payouts!payoutVars
  BY <1>5, <1>same DEF Heartbeat, ReadEarned, ReadPaid, ReadTotal, SendAck, Payouts!payoutVars
<1>6. CASE Expire \/ UNCHANGED vars
  BY <1>6, <1>same DEF Expire, Payouts!payoutVars
<1> QED  BY <1>1, <1>2, <1>3, <1>4, <1>5, <1>6 DEF Next

(* On one database each ledger still sees nothing but its own steps: what  *)
(* the three components promise alone holds of the whole.                  *)
THEOREM LedgersCompose == Spec => ImplementsLedgers
<1>1. Init => Requests!LedgerInit /\ TopUps!TopUpInit
  BY DEF Init
<1>2. Init => Payouts!PayoutInit
  <2> SUFFICES ASSUME Init  PROVE Payouts!PayoutInit
    OBVIOUS
  <2>1. recorded = {} /\ paid = [n \in Nodes |-> 0] /\ asked = paid /\ lost = paid
    BY DEF Init, Requests!LedgerInit
  <2>2. ASSUME NEW n \in Nodes  PROVE NodeEarned(n) = 0
    <3>1. JobsOf(n) = {}
      BY <2>1 DEF JobsOf
    <3> QED  BY <3>1, SumEmpty DEF NodeEarned
  <2>3. earnings = [n \in Nodes |-> 0]
    BY <2>2 DEF earnings
  <2> QED  BY <2>1, <2>3 DEF Payouts!PayoutInit
<1>3. BooksInv /\ [Next]_vars =>
        /\ [Requests!LedgerNext]_(Requests!ledgerVars)
        /\ [TopUps!TopUpNext]_(TopUps!topUpVars)
        /\ [Payouts!PayoutNext]_(Payouts!payoutVars)
  BY RequestLedgerStep, TopUpLedgerStep, PayoutLedgerStep DEF BooksInv
<1> QED
  BY <1>1, <1>2, <1>3, BooksInvariant, PTL
     DEF Spec, ImplementsLedgers, Requests!LedgerSpec, TopUps!TopUpSpec, Payouts!PayoutSpec

============================================================================
