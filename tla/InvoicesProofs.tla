--------------------------- MODULE InvoicesProofs ---------------------------
(***************************************************************************)
(* Top-ups for any invoices, users, amounts and number of crashes: the     *)
(* watcher credits exactly the invoices that were paid, once.              *)
(***************************************************************************)
EXTENDS Invoices, SumsProofs

(* Every step keeps the types of the variables.                            *)
LEMMA InvoicesTypeStep == InvoicesInv /\ [Next]_vars => TypeOK'
<1> SUFFICES ASSUME InvoicesInv, [Next]_vars  PROVE TypeOK'
  OBVIOUS
<1> USE InvoicesAssumption DEF InvoicesInv, TypeOK, watcherVars
<1>1. ASSUME NEW i \in Invoices, AskLnd(i)  PROVE TypeOK'
  BY <1>1 DEF AskLnd, CreateInvoice
<1>2. ASSUME NEW i \in Invoices, StoreInvoice(i) \/ StoreFails(i)  PROVE TypeOK'
  BY <1>2 DEF StoreInvoice, StoreFails
<1>3. ASSUME NEW i \in Invoices, Pay(i) \/ LndExpires(i) \/ GrowOld(i)  PROVE TypeOK'
  BY <1>3 DEF Pay, LndExpires, GrowOld
<1>4. CASE ExpireOldInvoices \/ ListPending \/ EndTick
  BY <1>4 DEF ExpireOldInvoices, ListPending, EndTick
<1>5. CASE CreditInvoice \/ CreditFails
  BY <1>5 DEF CreditInvoice, CreditFails, MarkCredited
<1>6. ASSUME NEW i \in Invoices, FoundPaid(i) \/ NotFoundPaid(i)  PROVE TypeOK'
  BY <1>6 DEF FoundPaid, NotFoundPaid
<1>7. ASSUME NEW i \in Invoices, Panic(i)  PROVE TypeOK'
  BY <1>7 DEF Panic, Restart
<1>8. CASE Crash
  BY <1>8 DEF Crash, Restart
<1>9. CASE UNCHANGED vars
  BY <1>9 DEF vars
<1> QED  BY <1>1, <1>2, <1>3, <1>4, <1>5, <1>6, <1>7, <1>8, <1>9 DEF Next, TopUp, Watch

(* Every step keeps the watcher's knowledge true: LND never takes back a   *)
(* settlement, and a row is credited only with a settled invoice at hand.  *)
LEMMA InvoicesWatchStep == InvoicesInv /\ [Next]_vars => WatchInv' /\ CreditedWasPaid'
<1> SUFFICES ASSUME InvoicesInv, [Next]_vars  PROVE WatchInv' /\ CreditedWasPaid'
  OBVIOUS
<1> USE InvoicesAssumption DEF InvoicesInv, TypeOK, WatchInv, CreditedWasPaid, watcherVars
<1>1. ASSUME NEW i \in Invoices, AskLnd(i)  PROVE WatchInv' /\ CreditedWasPaid'
  BY <1>1 DEF AskLnd, CreateInvoice
<1>2. ASSUME NEW i \in Invoices, StoreInvoice(i) \/ StoreFails(i)
      PROVE  WatchInv' /\ CreditedWasPaid'
  BY <1>2 DEF StoreInvoice, StoreFails
<1>3. ASSUME NEW i \in Invoices, Pay(i) \/ LndExpires(i) \/ GrowOld(i)
      PROVE  WatchInv' /\ CreditedWasPaid'
  BY <1>3 DEF Pay, LndExpires, GrowOld
<1>4. CASE ExpireOldInvoices \/ ListPending \/ EndTick
  BY <1>4 DEF ExpireOldInvoices, Expirable, ListPending, EndTick
<1>5. CASE CreditInvoice \/ CreditFails
  BY <1>5 DEF CreditInvoice, CreditFails, MarkCredited
<1>6. ASSUME NEW i \in Invoices, FoundPaid(i) \/ NotFoundPaid(i)
      PROVE  WatchInv' /\ CreditedWasPaid'
  BY <1>6 DEF FoundPaid, NotFoundPaid, CheckInvoice
<1>7. ASSUME NEW i \in Invoices, Panic(i)  PROVE WatchInv' /\ CreditedWasPaid'
  BY <1>7 DEF Panic, Restart
<1>8. CASE Crash
  BY <1>8 DEF Crash, Restart
<1>9. CASE UNCHANGED vars
  BY <1>9 DEF vars
<1> QED  BY <1>1, <1>2, <1>3, <1>4, <1>5, <1>6, <1>7, <1>8, <1>9 DEF Next, TopUp, Watch

(* Only CreditInvoice changes a balance, and it is the step by which the   *)
(* invoice joins the credited ones.                                        *)
LEMMA InvoicesCreditStep == InvoicesInv /\ [Next]_vars => CreditedOnce'
<1> SUFFICES ASSUME InvoicesInv, [Next]_vars, NEW u \in Users
             PROVE  balance'[u] = SumOver(AmountOf, CreditedTo(u)')
  BY DEF CreditedOnce
<1> USE InvoicesAssumption DEF InvoicesInv, TypeOK, watcherVars
<1>0. /\ balance[u] = SumOver(AmountOf, CreditedTo(u))
      /\ CreditedTo(u) \subseteq Invoices /\ IsFiniteSet(CreditedTo(u))
  BY FS_Subset DEF CreditedOnce, CreditedTo
<1>same. ASSUME balance'[u] = balance[u],
                \A k \in Invoices : OwnerOf[k] = u =>
                                      (status'[k] = "credited" <=> status[k] = "credited")
         PROVE  balance'[u] = SumOver(AmountOf, CreditedTo(u)')
  <2>1. CreditedTo(u)' = CreditedTo(u)
    BY <1>same DEF CreditedTo
  <2> QED  BY <1>0, <1>same, <2>1
<1>1. ASSUME NEW i \in Invoices,
             AskLnd(i) \/ StoreFails(i) \/ Pay(i) \/ LndExpires(i) \/ GrowOld(i)
               \/ FoundPaid(i) \/ NotFoundPaid(i) \/ Panic(i)
      PROVE  UNCHANGED <<status, balance>>
  BY <1>1 DEF AskLnd, StoreFails, Pay, LndExpires, GrowOld, FoundPaid, NotFoundPaid,
              Panic, Restart
<1>2. CASE ListPending \/ EndTick \/ CreditFails \/ Crash \/ UNCHANGED vars
  BY <1>2, <1>same DEF ListPending, EndTick, CreditFails, Crash, Restart, vars
<1>3. ASSUME NEW i \in Invoices, StoreInvoice(i)
      PROVE  balance'[u] = SumOver(AmountOf, CreditedTo(u)')
  BY <1>3, <1>same DEF StoreInvoice, WatchInv
<1>4. CASE ExpireOldInvoices
  BY <1>4, <1>same DEF ExpireOldInvoices, Expirable
<1>5. CASE CreditInvoice
  <2>1. CASE status[cur] = "pending" /\ OwnerOf[cur] = u
    <3>1. cur \in Invoices
      BY <1>5 DEF CreditInvoice
    <3>2. balance'[u] = balance[u] + AmountOf[cur]
      BY <1>5, <2>1, <3>1 DEF CreditInvoice
    <3>3. status' = [status EXCEPT ![cur] = "credited"]
      BY <1>5, <2>1 DEF CreditInvoice, MarkCredited
    <3>4. CreditedTo(u)' = CreditedTo(u) \union {cur} /\ cur \notin CreditedTo(u)
      BY <2>1, <3>1, <3>3 DEF CreditedTo
    <3>5. IntOn(AmountOf, CreditedTo(u) \union {cur})
      BY <1>0, <3>1 DEF IntOn
    <3>6. SumOver(AmountOf, CreditedTo(u) \union {cur})
            = AmountOf[cur] + SumOver(AmountOf, CreditedTo(u))
      BY <1>0, <3>4, <3>5, SumAdd
    <3> QED  BY <1>0, <3>1, <3>2, <3>4, <3>6
  <2>2. CASE ~(status[cur] = "pending" /\ OwnerOf[cur] = u)
    <3>1. cur \in Invoices
      BY <1>5 DEF CreditInvoice
    <3> QED  BY <1>5, <1>same, <2>2, <3>1 DEF CreditInvoice, MarkCredited
  <2> QED  BY <2>1, <2>2
<1> QED  BY <1>same, <1>1, <1>2, <1>3, <1>4, <1>5 DEF Next, TopUp, Watch

(* The invariant of top-ups, through failed transactions, panics and       *)
(* crashes.                                                                *)
THEOREM InvoicesInvariant == Spec => []InvoicesInv
<1>1. Init => InvoicesInv
  <2> SUFFICES ASSUME Init  PROVE InvoicesInv
    OBVIOUS
  <2>1. TypeOK /\ WatchInv /\ CreditedWasPaid
    BY InvoicesAssumption DEF Init, TypeOK, WatchInv, CreditedWasPaid
  <2>2. ASSUME NEW u \in Users  PROVE balance[u] = SumOver(AmountOf, CreditedTo(u))
    <3>1. CreditedTo(u) = {}
      BY DEF Init, CreditedTo
    <3> QED  BY <3>1, SumEmpty DEF Init
  <2> QED  BY <2>1, <2>2 DEF InvoicesInv, CreditedOnce
<1>2. InvoicesInv /\ [Next]_vars => InvoicesInv'
  BY InvoicesTypeStep, InvoicesWatchStep, InvoicesCreditStep DEF InvoicesInv
<1> QED  BY <1>1, <1>2, PTL DEF Spec

(* Only what LND has settled is credited.                                  *)
THEOREM OnlyPaidIsCredited == Spec => []CreditedWasPaid
<1>1. InvoicesInv => CreditedWasPaid
  BY DEF InvoicesInv
<1> QED  BY <1>1, InvoicesInvariant, PTL

(* README.md:233, "idempotent crediting (no double-credit)".               *)
THEOREM NoDoubleCredit == Spec => []CreditedOnce
<1>1. InvoicesInv => CreditedOnce
  BY DEF InvoicesInv
<1> QED  BY <1>1, InvoicesInvariant, PTL

----------------------------------------------------------------------------
(* The refinement of TopUpLedger. *)

(* Every step is a step of TopUpLedger or changes nothing there.           *)
LEMMA TopUpLedgerStep ==
    ASSUME InvoicesInv, [Next]_vars
    PROVE  [Ledger!TopUpNext]_(Ledger!topUpVars)
<1> USE InvoicesAssumption DEF InvoicesInv, TypeOK, watcherVars
<1> DEFINE Paid == {i \in Invoices : lnd[i] = "settled"}
<1>1. ASSUME NEW i \in Invoices, AskLnd(i)  PROVE UNCHANGED Ledger!topUpVars
  <2>1. Paid' = Paid
    BY <1>1 DEF AskLnd, CreateInvoice, WatchInv
  <2> QED  BY <1>1, <2>1 DEF AskLnd, Ledger!topUpVars
<1>2. ASSUME NEW i \in Invoices, StoreInvoice(i)  PROVE Ledger!TopUpNext
  <2>1. Ledger!Offered(i)
    BY <1>2 DEF StoreInvoice, WatchInv, Ledger!Offered
  <2> QED  BY <2>1 DEF Ledger!TopUpNext
<1>3. ASSUME NEW i \in Invoices, Pay(i)  PROVE Ledger!TopUpNext
  <2>1. Paid' = Paid \union {i} /\ i \notin Paid
    BY <1>3 DEF Pay
  <2>2. Ledger!Settled(i)
    BY <1>3, <2>1 DEF Pay, WatchInv, Ledger!Settled
  <2> QED  BY <2>2 DEF Ledger!TopUpNext
<1>4. ASSUME NEW i \in Invoices, LndExpires(i)  PROVE UNCHANGED Ledger!topUpVars
  <2>1. Paid' = Paid
    BY <1>4 DEF LndExpires
  <2> QED  BY <1>4, <2>1 DEF LndExpires, Ledger!topUpVars
<1>5. ASSUME NEW i \in Invoices,
             StoreFails(i) \/ GrowOld(i) \/ FoundPaid(i) \/ NotFoundPaid(i) \/ Panic(i)
      PROVE  UNCHANGED Ledger!topUpVars
  BY <1>5 DEF StoreFails, GrowOld, FoundPaid, NotFoundPaid, Panic, Restart, Ledger!topUpVars
<1>6. CASE ListPending \/ EndTick \/ CreditFails \/ Crash \/ UNCHANGED vars
  BY <1>6 DEF ListPending, EndTick, CreditFails, Crash, Restart, vars, Ledger!topUpVars
<1>7. CASE ExpireOldInvoices
  <2>1. CASE UNCHANGED status
    BY <1>7, <2>1 DEF ExpireOldInvoices, Ledger!topUpVars
  <2>2. CASE status' = [i \in Invoices |-> IF Expirable(i) THEN "expired" ELSE status[i]]
    <3> DEFINE S == {i \in Invoices : Expirable(i)}
    <3>1. S \in SUBSET {i \in Invoices : status[i] = "pending"}
      BY DEF Expirable
    <3>2. status' = [i \in Invoices |-> IF i \in S THEN "expired" ELSE status[i]]
      BY <2>2
    <3>3. Ledger!Expired
      <4> HIDE DEF S
      <4> QED  BY <1>7, <3>1, <3>2 DEF ExpireOldInvoices, Ledger!Expired
    <3> QED  BY <3>3 DEF Ledger!TopUpNext
  <2> QED  BY <1>7, <2>1, <2>2 DEF ExpireOldInvoices
<1>8. CASE CreditInvoice
  <2>1. CASE status[cur] = "pending"
    <3>1. cur \in Invoices /\ cur \in Paid
      BY <1>8 DEF CreditInvoice, WatchInv
    <3>2. Ledger!Credited(cur)
      BY <1>8, <2>1, <3>1 DEF CreditInvoice, MarkCredited, Ledger!Credited
    <3> QED  BY <3>1, <3>2 DEF Ledger!TopUpNext
  <2>2. CASE status[cur] # "pending"
    BY <1>8, <2>2 DEF CreditInvoice, Ledger!topUpVars
  <2> QED  BY <2>1, <2>2
<1> QED  BY <1>1, <1>2, <1>3, <1>4, <1>5, <1>6, <1>7, <1>8 DEF Next, TopUp, Watch

(* HandleTopUp, LND and the watcher implement TopUpLedger: an invoice ends *)
(* credited or expired, never both, and a credit is one step with the      *)
(* balance.                                                                *)
THEOREM TopUpRefinement == Spec => ImplementsTopUpLedger
<1>1. Init => Ledger!TopUpInit
  BY DEF Init, Ledger!TopUpInit
<1>2. InvoicesInv /\ [Next]_vars => [Ledger!TopUpNext]_(Ledger!topUpVars)
  BY TopUpLedgerStep
<1> QED
  BY <1>1, <1>2, InvoicesInvariant, PTL DEF Spec, ImplementsTopUpLedger, Ledger!TopUpSpec

============================================================================
