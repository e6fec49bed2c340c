--------------------------- MODULE PayoutsProofs ---------------------------
(***************************************************************************)
(* The payout engine keeps its books: proofs for any nodes, thresholds,    *)
(* cap, hour, faults and number of faults.                                 *)
(***************************************************************************)
EXTENDS Payouts, TLAPS

(* Products and quotients by Msat, the only arithmetic that is not linear. *)
LEMMA Floor ==
    ASSUME NEW a \in Nat, NEW m \in Nat \ {0}
    PROVE  a \div m \in Nat /\ (a \div m) * m <= a
  OBVIOUS

(* Whole sats survive the conversion to msats and back.                    *)
LEMMA Exact ==
    ASSUME NEW a \in Nat, NEW m \in Nat \ {0}
    PROVE  (a * m) \div m = a
  OBVIOUS

(* Sats may be converted to msats before or after they are added.          *)
LEMMA Distributes ==
    ASSUME NEW a \in Int, NEW b \in Int, NEW m \in Int
    PROVE  a * m \in Int /\ (a + b) * m = a * m + b * m
  OBVIOUS

(* A positive number of sats is a positive number of msats.                *)
LEMMA Scales ==
    ASSUME NEW a \in Nat, NEW m \in Nat \ {0}
    PROVE  a * m \in Nat /\ (a > 0 => a * m > 0) /\ 0 * m = 0
  OBVIOUS

----------------------------------------------------------------------------
(* PayoutsInv is inductive. *)

(* The first state is well-typed.                                          *)
LEMMA PayoutsTypeInit == Init => TypeOK
BY PayoutsAssumption DEF Init, TypeOK

(* Every step keeps the types of the variables.                            *)
LEMMA PayoutsTypeStep == PayoutsInv /\ [Next]_vars => TypeOK'
<1> SUFFICES ASSUME PayoutsInv, [Next]_vars  PROVE TypeOK'
  OBVIOUS
<1> USE PayoutsAssumption DEF PayoutsInv, TypeOK, dbVars, engineVars, lndVars
<1>1. ASSUME NEW n \in Nodes, Earn(n)  PROVE TypeOK'
  BY <1>1 DEF Earn
<1>2. ASSUME NEW n \in Nodes, Register(n)  PROVE TypeOK'
  BY <1>2 DEF Register
<1>3. CASE PassTime
  BY <1>3 DEF PassTime
<1>4. CASE Begin
  BY <1>4 DEF Begin, Fault, PendingPayouts
<1>5. CASE End
  BY <1>5 DEF End
<1>6. CASE PayConfirmed
  BY <1>6 DEF PayConfirmed, LndPays
<1>7. CASE PayUnconfirmed
  BY <1>7 DEF PayUnconfirmed, Fault, LndPays, LoseRow, NextNode
<1>8. CASE RecordPayout
  <2>1. amount * Msat \in Nat
    BY Scales
  <2> QED  BY <1>8, <2>1 DEF RecordPayout, Count, Fault, LoseRow, NextNode
<1>9. ASSUME NEW n \in Nodes, Skip(n)  PROVE TypeOK'
  BY <1>9 DEF Skip, Fault
<1>10. ASSUME NEW n \in Nodes, Choose(n)  PROVE TypeOK'
  <2>1. NodeBalance(n) \in Nat
    BY <1>10 DEF Choose, Payable, NodeBalance
  <2>2. PayoutSats(n) \in Nat
    BY <2>1, Floor DEF PayoutSats
  <2> QED  BY <1>10, <2>2 DEF Choose
<1>11. CASE Crash
  BY <1>11 DEF Crash, Fault, LoseRow
<1>12. CASE UNCHANGED vars
  BY <1>12 DEF vars
<1> QED  BY <1>1, <1>2, <1>3, <1>4, <1>5, <1>6, <1>7, <1>8, <1>9, <1>10, <1>11, <1>12
         DEF Next, Engine

(* Every step keeps what the engine has read true until it is used.        *)
LEMMA PayoutsEngineStep == PayoutsInv /\ [Next]_vars => EngineInv'
<1> SUFFICES ASSUME PayoutsInv, [Next]_vars  PROVE EngineInv'
  OBVIOUS
<1> USE PayoutsAssumption
    DEF PayoutsInv, TypeOK, EngineInv, NodeBalance, dbVars, engineVars, lndVars
<1>0. cur # NoNode => amount * Msat \in Nat
  BY Scales
<1>1. ASSUME NEW n \in Nodes, Earn(n)  PROVE EngineInv'
  BY <1>0, <1>1 DEF Earn
<1>2. ASSUME NEW n \in Nodes, Register(n)  PROVE EngineInv'
  BY <1>2 DEF Register
<1>3. CASE PassTime
  BY <1>3 DEF PassTime
<1>4. CASE Begin
  BY <1>4 DEF Begin, Fault, PendingPayouts
<1>5. CASE End
  BY <1>5 DEF End
<1>6. CASE PayConfirmed
  BY <1>6 DEF PayConfirmed, LndPays
<1>7. CASE PayUnconfirmed
  BY <1>7 DEF PayUnconfirmed, Fault, LndPays, LoseRow, NextNode
<1>8. CASE RecordPayout
  BY <1>8 DEF RecordPayout, Count, Fault, LoseRow, NextNode
<1>9. ASSUME NEW n \in Nodes, Skip(n)  PROVE EngineInv'
  BY <1>9 DEF Skip, Fault
<1>10. ASSUME NEW n \in Nodes, Choose(n)  PROVE EngineInv'
  <2>1. NodeBalance(n) \in Nat
    BY <1>10 DEF Choose, Payable, NodeBalance
  <2>2. PayoutSats(n) \in Nat /\ PayoutSats(n) * Msat <= NodeBalance(n)
    BY <2>1, Floor DEF PayoutSats
  <2>3. PayoutSats(n) > 0 /\ (MaxPerHour > 0 => spent + PayoutSats(n) <= MaxPerHour)
    BY <1>10, <2>2 DEF Choose, Payable
  <2> QED  BY <1>10, <2>2, <2>3 DEF Choose
<1>11. CASE Crash
  BY <1>11 DEF Crash, Fault, LoseRow
<1>12. CASE UNCHANGED vars
  BY <1>12 DEF vars
<1> QED  BY <1>1, <1>2, <1>3, <1>4, <1>5, <1>6, <1>7, <1>8, <1>9, <1>10, <1>11, <1>12
         DEF Next, Engine

(* Every step keeps account of each sat asked for.                         *)
LEMMA PayoutsAccountStep == PayoutsInv /\ [Next]_vars => AccountInv'
<1> SUFFICES ASSUME PayoutsInv, [Next]_vars, NEW k \in Nodes
             PROVE  ((asked[k] - lost[k]) * Msat = recorded[k] + Held(k) * Msat)'
  BY DEF AccountInv
<1> USE PayoutsAssumption DEF PayoutsInv, TypeOK, dbVars, engineVars, lndVars
<1>0. /\ (asked[k] - lost[k]) * Msat = recorded[k] + Held(k) * Msat
      /\ asked[k] \in Nat /\ lost[k] \in Nat /\ recorded[k] \in Nat
      /\ Held(k) \in Nat /\ amount \in Nat
      /\ 0 * Msat = 0 /\ amount * Msat \in Nat
  BY Scales DEF AccountInv, Held
<1>same. ASSUME asked'[k] = asked[k], lost'[k] = lost[k], recorded'[k] = recorded[k],
                Held(k)' = Held(k)
         PROVE  ((asked[k] - lost[k]) * Msat = recorded[k] + Held(k) * Msat)'
  BY <1>0, <1>same
<1>1. ASSUME NEW n \in Nodes, Earn(n) \/ Register(n) \/ Skip(n) \/ Choose(n)
      PROVE  ((asked[k] - lost[k]) * Msat = recorded[k] + Held(k) * Msat)'
  BY <1>1, <1>same DEF Earn, Register, Skip, Choose, Held
<1>2. CASE PassTime \/ Begin \/ End \/ UNCHANGED vars
  BY <1>2, <1>same DEF PassTime, Begin, End, vars, Held
<1>6. CASE PayConfirmed
  <2>1. cur # k => /\ asked'[k] = asked[k] /\ lost'[k] = lost[k]
                   /\ recorded'[k] = recorded[k] /\ Held(k)' = Held(k)
    BY <1>6 DEF PayConfirmed, LndPays, Held
  <2>2. CASE cur = k
    <3>1. /\ asked'[k] = asked[k] + amount /\ lost'[k] = lost[k]
          /\ recorded'[k] = recorded[k] /\ Held(k) = 0 /\ Held(k)' = amount
      BY <1>6, <2>2 DEF PayConfirmed, LndPays, Held
    <3>2. ((asked[k] - lost[k]) + amount) * Msat
            = (asked[k] - lost[k]) * Msat + amount * Msat
      BY <1>0, Distributes
    <3>3. (asked[k] + amount) - lost[k] = (asked[k] - lost[k]) + amount
      BY <1>0
    <3> QED  BY <1>0, <3>1, <3>2, <3>3
  <2> QED  BY <1>same, <2>1, <2>2
<1>7. CASE PayUnconfirmed
  <2>1. recorded'[k] = recorded[k] /\ Held(k) = 0 /\ Held(k)' = 0
    BY <1>7 DEF PayUnconfirmed, NextNode, Held
  <2>2. asked'[k] - lost'[k] = asked[k] - lost[k]
    BY <1>0, <1>7 DEF PayUnconfirmed, LndPays, LoseRow
  <2> QED  BY <1>0, <2>1, <2>2
<1>8. CASE RecordPayout
  <2>0. asked'[k] = asked[k] /\ Held(k)' = 0
    BY <1>8 DEF RecordPayout, NextNode, Held
  <2>1. CASE cur # k
    <3>1. lost'[k] = lost[k] /\ recorded'[k] = recorded[k] /\ Held(k) = 0
      BY <1>8, <2>1 DEF RecordPayout, LoseRow, Held
    <3> QED  BY <1>same, <2>0, <3>1
  <2>2. CASE cur = k
    <3>0. Held(k) = amount
      BY <1>8, <2>2 DEF RecordPayout, Held
    <3>1. \/ lost'[k] = lost[k] /\ recorded'[k] = recorded[k] + amount * Msat
          \/ lost'[k] = lost[k] + amount /\ recorded'[k] = recorded[k]
      BY <1>8, <2>2 DEF RecordPayout, LoseRow
    <3>2. CASE lost'[k] = lost[k] /\ recorded'[k] = recorded[k] + amount * Msat
      BY <1>0, <2>0, <3>0, <3>2
    <3>3. CASE lost'[k] = lost[k] + amount /\ recorded'[k] = recorded[k]
      <4>1. ((asked[k] - (lost[k] + amount)) + amount) * Msat
              = (asked[k] - (lost[k] + amount)) * Msat + amount * Msat
            /\ (asked[k] - (lost[k] + amount)) * Msat \in Int
        BY <1>0, Distributes
      <4>2. (asked[k] - (lost[k] + amount)) + amount = asked[k] - lost[k]
        BY <1>0
      <4> QED  BY <1>0, <2>0, <3>0, <3>3, <4>1, <4>2
    <3> QED  BY <3>1, <3>2, <3>3
  <2> QED  BY <2>1, <2>2
<1>11. CASE Crash
  <2>0. asked'[k] = asked[k] /\ recorded'[k] = recorded[k] /\ Held(k)' = 0
    BY <1>11 DEF Crash, Held
  <2>1. CASE ~(pc = "record" /\ cur = k)
    <3>1. lost'[k] = lost[k] /\ Held(k) = 0
      BY <1>11, <2>1 DEF Crash, LoseRow, Held
    <3> QED  BY <1>same, <2>0, <3>1
  <2>2. CASE pc = "record" /\ cur = k
    <3>1. Held(k) = amount /\ lost'[k] = lost[k] + amount
      BY <1>11, <2>2 DEF Crash, LoseRow, Held
    <3>2. ((asked[k] - (lost[k] + amount)) + amount) * Msat
            = (asked[k] - (lost[k] + amount)) * Msat + amount * Msat
          /\ (asked[k] - (lost[k] + amount)) * Msat \in Int
      BY <1>0, Distributes
    <3>3. (asked[k] - (lost[k] + amount)) + amount = asked[k] - lost[k]
      BY <1>0
    <3> QED  BY <1>0, <2>0, <3>1, <3>2, <3>3
  <2> QED  BY <2>1, <2>2
<1> QED  BY <1>1, <1>2, <1>6, <1>7, <1>8, <1>11 DEF Next, Engine

(* Every step keeps the rows of a node within its earnings.                *)
LEMMA PayoutsBalanceStep == PayoutsInv /\ [Next]_vars => RecordedWithinEarned'
<1> SUFFICES ASSUME PayoutsInv, [Next]_vars, NEW k \in Nodes
             PROVE  recorded'[k] <= earned'[k]
  BY DEF RecordedWithinEarned
<1> USE PayoutsAssumption DEF PayoutsInv, TypeOK, dbVars, engineVars, lndVars
<1>0. recorded[k] \in Nat /\ earned[k] \in Nat /\ recorded[k] <= earned[k]
  BY DEF RecordedWithinEarned
<1>1. CASE RecordPayout
  <2>1. amount * Msat \in Nat
    BY Scales
  <2>2. cur = k => recorded[k] + amount * Msat <= earned[k]
    BY <1>0, <1>1, <2>1 DEF RecordPayout, EngineInv, NodeBalance
  <2> QED  BY <1>0, <1>1, <2>1, <2>2 DEF RecordPayout
<1>2. ASSUME NEW n \in Nodes, Earn(n)  PROVE recorded'[k] <= earned'[k]
  BY <1>0, <1>2 DEF Earn
<1>3. ASSUME NEW n \in Nodes, Register(n) \/ Skip(n) \/ Choose(n)
      PROVE  recorded'[k] <= earned'[k]
  BY <1>0, <1>3 DEF Register, Skip, Choose
<1>4. CASE PassTime \/ Begin \/ End \/ PayConfirmed \/ PayUnconfirmed \/ Crash
           \/ UNCHANGED vars
  BY <1>0, <1>4 DEF PassTime, Begin, End, PayConfirmed, PayUnconfirmed, Crash, vars
<1> QED  BY <1>1, <1>2, <1>3, <1>4 DEF Next, Engine

(* The invariant of the engine: types, what its loop relies on, and the    *)
(* two books.                                                              *)
THEOREM PayoutsInvariant == Spec => []PayoutsInv
<1>1. Init => PayoutsInv
  <2> SUFFICES ASSUME Init  PROVE PayoutsInv
    OBVIOUS
  <2>1. TypeOK
    BY PayoutsTypeInit
  <2>2. EngineInv
    BY PayoutsAssumption DEF Init, EngineInv
  <2>3. AccountInv
    BY PayoutsAssumption, Scales DEF Init, AccountInv, Held
  <2>4. RecordedWithinEarned
    BY DEF Init, RecordedWithinEarned
  <2> QED  BY <2>1, <2>2, <2>3, <2>4 DEF PayoutsInv
<1>2. PayoutsInv /\ [Next]_vars => PayoutsInv'
  BY PayoutsTypeStep, PayoutsEngineStep, PayoutsAccountStep, PayoutsBalanceStep
     DEF PayoutsInv
<1> QED  BY <1>1, <1>2, PTL DEF Spec

----------------------------------------------------------------------------
(* What follows from it. *)

(* README.md:226, "no phantom payouts recorded": no row without a payment  *)
(* that LND made when asked for that amount.                               *)
THEOREM NoPhantom == Spec => []NoPhantomPayout
<1>1. PayoutsInv => NoPhantomPayout
  <2> SUFFICES ASSUME PayoutsInv, NEW n \in Nodes
               PROVE  recorded[n] <= (asked[n] - lost[n]) * Msat
    BY DEF NoPhantomPayout
  <2>1. Held(n) * Msat \in Nat /\ recorded[n] \in Nat
    BY PayoutsAssumption, Scales DEF PayoutsInv, TypeOK, Held
  <2> QED  BY <2>1 DEF PayoutsInv, AccountInv
<1> QED  BY <1>1, PayoutsInvariant, PTL

(* NodeBalance is never negative, whatever is earned and paid meanwhile.   *)
THEOREM NeverOverdrawn == Spec => []RecordedWithinEarned
<1>1. PayoutsInv => RecordedWithinEarned
  BY DEF PayoutsInv
<1> QED  BY <1>1, PayoutsInvariant, PTL

(* The engine asks for more than a node earned only by repeating payments  *)
(* whose rows were lost.                                                   *)
THEOREM NeverOverasked == Spec => []AskedWithinEarned
<1>1. PayoutsInv => AskedWithinEarned
  <2> SUFFICES ASSUME PayoutsInv, NEW n \in Nodes
               PROVE  (asked[n] - lost[n]) * Msat <= earned[n]
    BY DEF AskedWithinEarned
  <2>1. /\ recorded[n] \in Nat /\ earned[n] \in Nat /\ recorded[n] <= earned[n]
        /\ amount * Msat \in Nat /\ 0 * Msat = 0
    BY PayoutsAssumption, Scales DEF PayoutsInv, TypeOK, RecordedWithinEarned
  <2>2. recorded[n] + Held(n) * Msat <= earned[n]
    BY <2>1, PayoutsAssumption
       DEF PayoutsInv, TypeOK, EngineInv, NodeBalance, Held
  <2> QED  BY <2>2 DEF PayoutsInv, AccountInv
<1> QED  BY <1>1, PayoutsInvariant, PTL

(* Between two resets of the counter, confirmed payments stay within the   *)
(* cap: the counter holds all of them but the one about to be counted.     *)
THEOREM CapHolds == Spec => []HourCap
<1>1. PayoutsInv => HourCap
  <2> SUFFICES ASSUME PayoutsInv, MaxPerHour > 0  PROVE hourPaid <= MaxPerHour
    BY DEF HourCap
  <2>1. /\ spentThisHour \in Nat /\ amount \in Nat /\ MaxPerHour \in Nat
        /\ spentThisHour + amount <= MaxPerHour
    BY PayoutsAssumption DEF PayoutsInv, TypeOK, EngineInv
  <2>2. hourPaid = spentThisHour \/ hourPaid = spentThisHour + amount
    BY <2>1 DEF PayoutsInv, EngineInv
  <2> QED  BY <2>1, <2>2
<1> QED  BY <1>1, PayoutsInvariant, PTL

----------------------------------------------------------------------------
(* The refinement of PayoutLedger, step by step. *)

(* Nothing is in flight except the payment the engine is recording.        *)
LEMMA InFlightIsHeld ==
    ASSUME PayoutsInv, NEW n \in Nodes
    PROVE  /\ Ledger!InFlight(n) = Held(n) * Msat
           /\ Held(n) = 0 => Ledger!InFlight(n) = 0
           /\ Held(n) > 0 => Ledger!InFlight(n) > 0
<1>1. Held(n) \in Nat /\ recorded[n] \in Nat
  BY DEF PayoutsInv, TypeOK, Held
<1>2. Held(n) * Msat \in Nat /\ (Held(n) > 0 => Held(n) * Msat > 0) /\ 0 * Msat = 0
  BY <1>1, PayoutsAssumption, Scales
<1>3. Ledger!InFlight(n) = Held(n) * Msat
  BY <1>1, <1>2 DEF PayoutsInv, AccountInv, Ledger!InFlight
<1> QED  BY <1>1, <1>2, <1>3

(* A row that is lost while it is held is forgotten by the ledger.         *)
LEMMA LoseRowForgets ==
    ASSUME PayoutsInv, pc = "record", LoseRow, UNCHANGED <<earned, recorded, asked>>
    PROVE  cur \in Nodes /\ Ledger!Forgotten(cur)
<1> USE PayoutsAssumption DEF PayoutsInv, TypeOK, EngineInv
<1>1. cur \in Nodes /\ amount \in Nat /\ amount > 0 /\ Held(cur) = amount
  BY DEF Held
<1>2. Ledger!InFlight(cur) > 0
  BY <1>1, InFlightIsHeld
<1> DEFINE a == asked[cur] - lost[cur] - amount
<1>3. /\ asked[cur] \in Nat /\ lost[cur] \in Nat /\ recorded[cur] \in Nat
      /\ a \in Int /\ asked[cur] - lost[cur] = a + amount
  BY <1>1
<1>4. recorded[cur] = a * Msat
  <2>1. (a + amount) * Msat = a * Msat + amount * Msat /\ a * Msat \in Int /\ amount * Msat \in Int
    BY <1>1, <1>3, Distributes
  <2>2. (a + amount) * Msat = recorded[cur] + amount * Msat
    BY <1>1, <1>3 DEF AccountInv
  <2> HIDE DEF a
  <2> QED  BY <1>3, <2>1, <2>2
<1>5. a \in Nat
  <2> HIDE DEF a
  <2>1. SUFFICES ASSUME a < 0  PROVE FALSE
    BY <1>3
  <2>2. -a \in Nat /\ -a > 0 /\ (-a) * Msat > 0
    BY <1>3, <2>1, Scales
  <2>3. (a + (-a)) * Msat = a * Msat + (-a) * Msat /\ 0 * Msat = 0
    BY <1>3, Distributes, Scales
  <2> QED  BY <1>3, <1>4, <2>2, <2>3
<1>6. recorded[cur] \div Msat = a
  BY <1>4, <1>5, Exact
<1>7. lost' = [lost EXCEPT ![cur] = asked[cur] - recorded[cur] \div Msat]
  <2>1. lost[cur] + amount = asked[cur] - a
    BY <1>1, <1>3
  <2> QED  BY <1>6, <2>1 DEF LoseRow
<1> QED  BY <1>1, <1>2, <1>7 DEF Ledger!Forgotten

(* Every step is a step of PayoutLedger or changes nothing there.          *)
LEMMA PayoutLedgerStep ==
    ASSUME PayoutsInv, [Next]_vars
    PROVE  [Ledger!PayoutNext]_(Ledger!payoutVars)
<1> USE PayoutsAssumption DEF PayoutsInv, TypeOK, dbVars, engineVars, lndVars
<1>1. ASSUME NEW n \in Nodes, Earn(n)  PROVE Ledger!PayoutNext
  <2>1. PICK g \in Gains : earned' = [earned EXCEPT ![n] = @ + g]
    BY <1>1 DEF Earn
  <2>2. earned'[n] > earned[n] /\ earned' = [earned EXCEPT ![n] = earned'[n]]
    BY <2>1
  <2>3. Ledger!Earned(n)
    BY <1>1, <2>2 DEF Earn, Ledger!Earned
  <2> QED  BY <2>3 DEF Ledger!PayoutNext
<1>paid. ASSUME pc = "pay", LndPays, lost' \in {lost, [lost EXCEPT ![cur] = @ + amount]},
                UNCHANGED <<earned, recorded>>
         PROVE  Ledger!PayoutNext
  <2>1. cur \in Nodes /\ amount > 0 /\ amount * Msat <= NodeBalance(cur) /\ Held(cur) = 0
    BY <1>paid DEF EngineInv, Held
  <2>2. Ledger!InFlight(cur) = 0
    BY <2>1, InFlightIsHeld
  <2>3. /\ asked'[cur] - asked[cur] = amount
        /\ asked' = [asked EXCEPT ![cur] = asked'[cur]]
    BY <1>paid, <2>1 DEF LndPays
  <2>4. Ledger!Sent(cur)
    BY <1>paid, <2>1, <2>2, <2>3 DEF Ledger!Sent, Ledger!Unpaid, NodeBalance
  <2> QED  BY <2>1, <2>4 DEF Ledger!PayoutNext
<1>2. CASE PayConfirmed
  BY <1>2, <1>paid DEF PayConfirmed
<1>3. CASE PayUnconfirmed
  <2>1. CASE UNCHANGED lndVars
    BY <1>3, <2>1 DEF PayUnconfirmed, Ledger!payoutVars
  <2>2. CASE LndPays /\ LoseRow
    BY <1>3, <2>2, <1>paid DEF PayUnconfirmed, LoseRow
  <2> QED  BY <1>3, <2>1, <2>2 DEF PayUnconfirmed
<1>4. CASE RecordPayout
  <2>1. CASE LoseRow /\ UNCHANGED recorded
    BY <1>4, <2>1, LoseRowForgets DEF RecordPayout, Ledger!PayoutNext
  <2>2. CASE recorded' = [recorded EXCEPT ![cur] = @ + amount * Msat] /\ UNCHANGED lost
    <3>1. cur \in Nodes /\ amount > 0 /\ Held(cur) = amount
      BY <1>4 DEF RecordPayout, EngineInv, Held
    <3>2. Ledger!InFlight(cur) > 0 /\ Ledger!InFlight(cur) = amount * Msat
      BY <3>1, InFlightIsHeld
    <3>3. Ledger!Written(cur)
      BY <1>4, <2>2, <3>2 DEF RecordPayout, Ledger!Written
    <3> QED  BY <3>1, <3>3 DEF Ledger!PayoutNext
  <2> QED  BY <1>4, <2>1, <2>2 DEF RecordPayout
<1>5. CASE Crash
  <2>1. CASE pc = "record"
    BY <1>5, <2>1, LoseRowForgets DEF Crash, Ledger!PayoutNext
  <2>2. CASE pc # "record"
    BY <1>5, <2>2 DEF Crash, Ledger!payoutVars
  <2> QED  BY <2>1, <2>2
<1>6. ASSUME NEW n \in Nodes, Register(n) \/ Skip(n) \/ Choose(n)
      PROVE  UNCHANGED Ledger!payoutVars
  BY <1>6 DEF Register, Skip, Choose, Ledger!payoutVars
<1>7. CASE PassTime \/ Begin \/ End \/ UNCHANGED vars
  BY <1>7 DEF PassTime, Begin, End, vars, Ledger!payoutVars
<1> QED  BY <1>1, <1>2, <1>3, <1>4, <1>5, <1>6, <1>7 DEF Next, Engine

(* The engine implements PayoutLedger: with any interleaving of ticks,     *)
(* registrations, faults and crashes it asks only for what is unpaid, when *)
(* nothing is in flight, and writes that down or loses the row.            *)
THEOREM PayoutRefinement == Spec => ImplementsPayoutLedger
<1>1. Init => Ledger!PayoutInit
  BY DEF Init, Ledger!PayoutInit
<1>2. PayoutsInv /\ [Next]_vars => [Ledger!PayoutNext]_(Ledger!payoutVars)
  BY PayoutLedgerStep
<1> QED
  BY <1>1, <1>2, PayoutsInvariant, PTL DEF Spec, ImplementsPayoutLedger, Ledger!PayoutSpec

============================================================================
