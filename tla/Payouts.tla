------------------------------ MODULE Payouts ------------------------------
(***************************************************************************)
(* The payout engine (lightning.PayoutEngine): once a minute it lists the  *)
(* nodes whose balance has reached their threshold and pays each of them   *)
(* through LND, within a cap per hour that it keeps in memory.             *)
(*                                                                         *)
(* Around it: jobs that add to a node's earnings, nodes that register      *)
(* again with another threshold or address, LND, the database and crashes. *)
(* LND is external.  It may have paid although PayAddress returns an error *)
(* (a timeout, an answer that does not parse) or an empty hash; a database *)
(* statement may fail, the INSERT after a payment included; the process    *)
(* may stop between the two.  Faults names which of these an instance      *)
(* considers, MaxFaults how many.                                          *)
(*                                                                         *)
(* Time passes in ticks, Hour of them to an hour.                          *)
(***************************************************************************)
EXTENDS Integers, FiniteSets

CONSTANTS
    Nodes,
    NoNode,
    Msat,          \* msats per sat: 1000 in the code
    MinThreshold,  \* minRedeemThresholdSats
    Thresholds,    \* thresholds a node may register with, in sats (bound)
    MaxPerHour,    \* PayoutEngine.maxPerHour in sats; 0 is unlimited
    Hour,          \* ticks of time per hour
    MaxEarned,     \* msats a node may earn altogether (bound)
    Gains,         \* what one job may earn, in msats (bound)
    Faults,        \* subset of {"ambiguous", "db", "crash"}
    MaxFaults      \* faults considered (bound)

ASSUME PayoutsAssumption ==
    /\ NoNode \notin Nodes
    /\ Msat \in Nat \ {0} /\ Hour \in Nat \ {0}
    /\ MinThreshold \in Nat \ {0}
    /\ Thresholds \subseteq Nat
    /\ MaxPerHour \in Nat /\ MaxEarned \in Nat /\ MaxFaults \in Nat
    /\ Gains \subseteq Nat \ {0}
    /\ Faults \subseteq {"ambiguous", "db", "crash"}

VARIABLES
    earned,         \* database: sum of earned_msats over the node's jobs
    recorded,       \* database: sum of amount_msats over its payouts
    threshold,      \* database: nodes.redeem_threshold in sats
    hasAddr,        \* database: nodes.lightning_addr is not empty
    spentThisHour,  \* PayoutEngine.spentThisHour
    age,            \* ticks since PayoutEngine.hourStart, up to Hour + 1
    pc,             \* processPayouts: where it is,
    todo, listed,   \*   the nodes still to examine and the thresholds listed,
    spent,          \*   its local copy of spentThisHour,
    cur, amount,    \*   the node being paid and the sats
    asked,          \* history: sats asked for in the payments LND made to each node,
    lost,           \*   those of them that no row will ever mention,
    hourPaid,       \*   and those asked for in confirmed payments since hourStart
    faults          \* faults and crashes so far

dbVars     == <<earned, recorded, threshold, hasAddr>>
engineVars == <<spentThisHour, age, pc, todo, listed, spent, cur, amount>>
lndVars    == <<asked, lost, hourPaid, faults>>
vars       == <<dbVars, engineVars, lndVars>>

(* Amounts are non-negative, the engine is at one of its four places, and  *)
(* pays a node only between choosing it and recording the payment.         *)
TypeOK ==
    /\ earned \in [Nodes -> 0..MaxEarned]
    /\ recorded \in [Nodes -> Nat]
    /\ threshold \in [Nodes -> Nat]
    /\ hasAddr \in [Nodes -> BOOLEAN]
    /\ spentThisHour \in Nat /\ spent \in Nat /\ amount \in Nat
    /\ age \in 0..(Hour + 1)
    /\ pc \in {"idle", "each", "pay", "record"}
    /\ todo \subseteq Nodes
    /\ listed \in [Nodes -> Nat]
    /\ cur \in Nodes \union {NoNode}
    /\ pc \in {"pay", "record"} <=> cur # NoNode
    /\ asked \in [Nodes -> Nat] /\ lost \in [Nodes -> Nat] /\ hourPaid \in Nat
    /\ faults \in 0..MaxFaults

Init ==
    /\ earned = [n \in Nodes |-> 0]
    /\ recorded = [n \in Nodes |-> 0]
    /\ threshold = [n \in Nodes |-> MinThreshold]
    /\ hasAddr = [n \in Nodes |-> TRUE]
    /\ spentThisHour = 0 /\ age = 0
    /\ pc = "idle" /\ todo = {} /\ listed = [n \in Nodes |-> 0]
    /\ spent = 0 /\ cur = NoNode /\ amount = 0
    /\ asked = [n \in Nodes |-> 0] /\ lost = [n \in Nodes |-> 0] /\ hourPaid = 0
    /\ faults = 0

----------------------------------------------------------------------------
(* The rest of the system. *)

(* A job is recorded for the node: gateway.handleProxyDone.                *)
Earn(n) ==
    /\ \E g \in Gains :
         /\ earned[n] + g <= MaxEarned
         /\ earned' = [earned EXCEPT ![n] = @ + g]
    /\ UNCHANGED <<recorded, threshold, hasAddr, engineVars, lndVars>>

(* HandleRegister of a known node: RegisterNode updates its row.           *)
Register(n) ==
    /\ \E t \in Thresholds :
         /\ t >= MinThreshold
         /\ threshold' = [threshold EXCEPT ![n] = t]
    /\ \E a \in BOOLEAN : hasAddr' = [hasAddr EXCEPT ![n] = a]
    /\ UNCHANGED <<earned, recorded, engineVars, lndVars>>

PassTime ==
    /\ age' = IF age <= Hour THEN age + 1 ELSE age
    /\ UNCHANGED <<dbVars, spentThisHour, pc, todo, listed, spent, cur, amount,
                   lndVars>>

----------------------------------------------------------------------------
(* processPayouts.  The variants ahead of some definitions are plausible   *)
(* mistakes in them; no action uses them.                                  *)

(* NodeBalance: earned minus what the payouts table says was paid.         *)
EarnedOnly(n) == earned[n]
NodeBalance(n) == earned[n] - recorded[n]

(* PendingPayouts: the nodes with an address and a balance at threshold.   *)
PendingPayoutsAbove ==
    {n \in Nodes : hasAddr[n] /\ NodeBalance(n) > threshold[n] * Msat}
PendingPayouts == {n \in Nodes : hasAddr[n] /\ NodeBalance(n) >= threshold[n] * Msat}

Fault(f) ==
    /\ f \in Faults /\ faults < MaxFaults
    /\ faults' = faults + 1

(* The tick: a new hour resets the counter; the pending payouts are listed *)
(* with the thresholds of that moment.  The tick is over when the list     *)
(* cannot be read.                                                         *)
Begin ==
    /\ pc = "idle"
    /\ IF age > Hour
       THEN spentThisHour' = 0 /\ age' = 0 /\ spent' = 0 /\ hourPaid' = 0
       ELSE spent' = spentThisHour /\ UNCHANGED <<spentThisHour, age, hourPaid>>
    /\ \/ /\ todo' = PendingPayouts
          /\ listed' = [n \in Nodes |-> IF n \in PendingPayouts THEN threshold[n] ELSE 0]
          /\ pc' = "each"
          /\ UNCHANGED faults
       \/ Fault("db") /\ UNCHANGED <<todo, listed, pc>>
    /\ UNCHANGED <<dbVars, cur, amount, asked, lost>>

(* Whole sats, rounded down.                                               *)
PayoutSatsUp(n) == (NodeBalance(n) + Msat - 1) \div Msat
PayoutSats(n) == NodeBalance(n) \div Msat

(* The four checks of the loop body, on a balance read again.              *)
PayableOverCap(n) ==
    /\ NodeBalance(n) > 0
    /\ PayoutSats(n) >= listed[n]
    /\ MaxPerHour > 0 => spent <= MaxPerHour
Payable(n) ==
    /\ NodeBalance(n) > 0
    /\ PayoutSats(n) >= listed[n]
    /\ MaxPerHour > 0 => spent + PayoutSats(n) <= MaxPerHour

(* A check fails, or the balance cannot be read.                           *)
Skip(n) ==
    /\ pc = "each" /\ n \in todo
    /\ \/ ~Payable(n) /\ UNCHANGED faults
       \/ Fault("db")
    /\ todo' = todo \ {n}
    /\ UNCHANGED <<dbVars, spentThisHour, age, pc, listed, spent, cur, amount,
                   asked, lost, hourPaid>>

Choose(n) ==
    /\ pc = "each" /\ n \in todo
    /\ Payable(n)
    /\ todo' = todo \ {n}
    /\ pc' = "pay" /\ cur' = n /\ amount' = PayoutSats(n)
    /\ UNCHANGED <<dbVars, spentThisHour, age, listed, spent, lndVars>>

End ==
    /\ pc = "each" /\ todo = {}
    /\ pc' = "idle"
    /\ listed' = [n \in Nodes |-> 0] /\ spent' = 0
    /\ UNCHANGED <<dbVars, spentThisHour, age, todo, cur, amount, lndVars>>

(* The payment at hand will never have a row.                              *)
LoseRow == lost' = [lost EXCEPT ![cur] = @ + amount]

(* LND pays the invoice that the node's LNURL service returned for         *)
(* `amount`.  Neither PayAddress nor payInvoice compares the amount of the *)
(* invoice with it, so what LND moves may be more or less; what is counted *)
(* here is what the engine asked for and will take for paid.               *)
LndPays == asked' = [asked EXCEPT ![cur] = @ + amount]

(* `continue`: on to the next node of the list.                            *)
NextNode == pc' = "each" /\ cur' = NoNode /\ amount' = 0

(* PayAddress returns a payment hash.                                      *)
PayConfirmed ==
    /\ pc = "pay"
    /\ LndPays
    /\ hourPaid' = hourPaid + amount
    /\ pc' = "record"
    /\ UNCHANGED <<dbVars, spentThisHour, age, todo, listed, spent, cur, amount, lost, faults>>

(* PayAddress returns an error, or no hash: nothing is recorded and the    *)
(* loop goes on.  With a fault the payment was made all the same.          *)
PayUnconfirmedRecorded ==
    /\ pc = "pay"
    /\ pc' = "record"
    /\ UNCHANGED <<dbVars, spentThisHour, age, todo, listed, spent, cur, amount, lndVars>>
PayUnconfirmed ==
    /\ pc = "pay"
    /\ \/ UNCHANGED lndVars
       \/ Fault("ambiguous") /\ LndPays /\ LoseRow /\ UNCHANGED hourPaid
    /\ NextNode
    /\ UNCHANGED <<dbVars, spentThisHour, age, todo, listed, spent>>

(* The payment is added to the engine's counter and to the local copy.     *)
CountSharedOnly == spentThisHour' = spentThisHour + amount /\ UNCHANGED spent
Count == spentThisHour' = spentThisHour + amount /\ spent' = spent + amount

(* RecordPayout, whose failure is only logged, and the counters.           *)
RecordPayout ==
    /\ pc = "record"
    /\ \/ /\ recorded' = [recorded EXCEPT ![cur] = @ + amount * Msat]
          /\ UNCHANGED <<lost, faults>>
       \/ Fault("db") /\ LoseRow /\ UNCHANGED recorded
    /\ Count
    /\ NextNode
    /\ UNCHANGED <<earned, threshold, hasAddr, age, todo, listed, asked, hourPaid>>

(* The process stops and is started again: counter and hour are new.       *)
(* Between a payment and its row, the row is lost.                         *)
Crash ==
    /\ Fault("crash")
    /\ IF pc = "record" THEN LoseRow ELSE UNCHANGED lost
    /\ spentThisHour' = 0 /\ age' = 0 /\ spent' = 0 /\ hourPaid' = 0
    /\ pc' = "idle" /\ todo' = {} /\ listed' = [n \in Nodes |-> 0]
    /\ cur' = NoNode /\ amount' = 0
    /\ UNCHANGED <<dbVars, asked>>

----------------------------------------------------------------------------

Engine == Begin \/ End \/ PayConfirmed \/ PayUnconfirmed \/ RecordPayout
          \/ \E n \in Nodes : Skip(n) \/ Choose(n)

Next ==
    \/ \E n \in Nodes : Earn(n) \/ Register(n)
    \/ PassTime
    \/ Engine
    \/ Crash

Spec == Init /\ [][Next]_vars

(* The engine's loop goes on and time passes; LND, asked again and again   *)
(* to pay a node, does so at last.                                         *)
Fairness ==
    /\ WF_vars(Engine)
    /\ WF_vars(PassTime)
    /\ \A n \in Nodes : SF_vars(cur = n /\ PayConfirmed)

FairSpec == Spec /\ Fairness

----------------------------------------------------------------------------
(* Properties. *)

(* README.md:226, "no phantom payouts recorded": whatever fails between a  *)
(* payment and its row, the payouts table never claims more than was asked *)
(* for in payments that LND made.                                          *)
NoPhantomPayout == \A n \in Nodes : recorded[n] <= (asked[n] - lost[n]) * Msat

(* No node is recorded as paid beyond its earnings, so NodeBalance is      *)
(* never negative: the balance is read again before each payment and whole *)
(* sats are rounded down.                                                  *)
RecordedWithinEarned == \A n \in Nodes : recorded[n] <= earned[n]

(* The engine asks an address to take more than its node's earnings only   *)
(* by repeating payments whose rows were lost: by an ambiguous answer, a   *)
(* failed INSERT or a crash before it.                                     *)
AskedWithinEarned ==
    \A n \in Nodes : (asked[n] - lost[n]) * Msat <= earned[n]

(* Between two resets of the counter, by the end of its hour or a restart, *)
(* the confirmed payments ask for no more than the cap, over all nodes of  *)
(* a tick and all ticks of the hour.  A payment hidden behind an error is  *)
(* not counted by the code either.                                         *)
HourCap == MaxPerHour > 0 => hourPaid <= MaxPerHour

(* Sats paid to n, as the engine sees it, that it is about to record.      *)
Held(n) == IF pc = "record" /\ cur = n THEN amount ELSE 0

(* What the loop relies on between its reads of the database: a node that  *)
(* is listed has a threshold, the amount at hand is still covered by the   *)
(* balance and by the cap, and the two counters agree with each other and  *)
(* with the payments confirmed in the hour.                                *)
EngineInv ==
    /\ \A n \in Nodes : threshold[n] >= MinThreshold
    /\ pc # "idle" => \A n \in todo : listed[n] >= MinThreshold
    /\ pc # "idle" => spent = spentThisHour
    /\ hourPaid = spentThisHour + IF pc = "record" THEN amount ELSE 0
    /\ IF cur = NoNode THEN amount = 0
       ELSE amount > 0 /\ amount * Msat <= NodeBalance(cur)
    /\ MaxPerHour > 0 => spentThisHour + amount <= MaxPerHour /\ spent <= MaxPerHour

(* What was asked for is in a row, lost, or about to be recorded.          *)
AccountInv ==
    \A n \in Nodes : (asked[n] - lost[n]) * Msat = recorded[n] + Held(n) * Msat

(* The inductive invariant of the payout engine.                           *)
PayoutsInv == TypeOK /\ EngineInv /\ AccountInv /\ RecordedWithinEarned

(* A node whose balance has reached its threshold.                         *)
Due(n) == hasAddr[n] /\ NodeBalance(n) >= threshold[n] * Msat

(* docs/index.html:1141, "Earnings accumulate until they reach the payout  *)
(* threshold, at which point the gateway automatically sends a Lightning   *)
(* payment": a node does not stay due forever.  It holds for a node whose  *)
(* balance stays within the cap of an hour, for a larger one is skipped at *)
(* every tick, and once the other nodes earn nothing more and failures     *)
(* have ceased, for the nodes ahead of it in the list, or repeated         *)
(* payments to them, may otherwise use up the cap of every hour.           *)
FitsCap(n) == MaxPerHour > 0 => PayoutSats(n) <= MaxPerHour

OthersQuiet(n) ==
    <>[][faults' = faults /\ \A m \in Nodes \ {n} : earned'[m] = earned[m]]_vars

DueIsPaid == \A n \in Nodes : []FitsCap(n) /\ OthersQuiet(n) => (Due(n) ~> ~Due(n))

(* Ticks, hours, thresholds, failures and crashes aside, the engine does   *)
(* nothing but send what is unpaid and write it down or lose the row.      *)
Ledger == INSTANCE PayoutLedger WITH earned <- earned, recorded <- recorded,
                                     asked <- asked, lost <- lost

ImplementsPayoutLedger == Ledger!PayoutSpec

============================================================================
