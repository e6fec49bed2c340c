------------------------------ MODULE Invoices ------------------------------
(***************************************************************************)
(* Top-ups: api.HandleTopUp creates a Lightning invoice at LND and stores  *)
(* it as pending; lightning.InvoiceWatcher expires old invoices, looks the *)
(* pending ones up at LND and credits those that are paid.                 *)
(*                                                                         *)
(* LND is external: it knows each invoice as open, settled or cancelled.   *)
(* It cancels an open invoice when its 600 seconds are over, which is not  *)
(* later than the ten minutes of the row, stored after it; a payment may   *)
(* settle it at any moment before.  A row grows old when its ten minutes   *)
(* are over.  The process may stop anywhere; LND goes on.                  *)
(*                                                                         *)
(* LND's answer to CreateInvoice is decoded whatever its status: an error  *)
(* body yields an invoice without text and with an empty payment hash, for *)
(* which LND knows nothing.  Such an invoice is called hollow.             *)
(***************************************************************************)
EXTENDS Integers, FiniteSets, Sums

CONSTANTS
    Invoices,     \* top-up requests and the invoices they lead to
    Users,
    OwnerOf,      \* the user key a top-up is for
    AmountOf,     \* its amount in msats
    NoInvoice,
    MaxCrashes    \* crashes considered (bound)

ASSUME InvoicesAssumption ==
    /\ IsFiniteSet(Invoices)
    /\ OwnerOf \in [Invoices -> Users]
    /\ AmountOf \in [Invoices -> Nat \ {0}]
    /\ NoInvoice \notin Invoices
    /\ MaxCrashes \in Nat

VARIABLES
    request,   \* the HandleTopUp of each invoice: where it is
    lnd,       \* LND's state of the invoice
    hollow,    \* invoices with an empty payment hash
    status,    \* database: invoices.status, "none" without a row
    aged,      \* invoices whose row is older than ten minutes
    balance,   \* database: api_keys.balance_msats, as top-ups change it
    pc, todo,  \* the watcher: where it is, rows of PendingInvoices not yet looked up,
    cur,       \*   the invoice at hand
    crashes    \* crashes so far

watcherVars == <<pc, todo, cur>>
vars == <<request, lnd, hollow, status, aged, balance, watcherVars, crashes>>

(* Values of the state; the watcher has an invoice at hand exactly while   *)
(* it credits one.                                                         *)
TypeOK ==
    /\ request \in [Invoices -> {"new", "created", "returned", "failed"}]
    /\ lnd \in [Invoices -> {"none", "open", "settled", "cancelled"}]
    /\ hollow \subseteq Invoices
    /\ status \in [Invoices -> {"none", "pending", "credited", "expired"}]
    /\ aged \subseteq Invoices
    /\ balance \in [Users -> Nat]
    /\ pc \in {"tick", "list", "each", "credit"}
    /\ todo \subseteq Invoices
    /\ cur \in Invoices \union {NoInvoice}
    /\ pc = "credit" <=> cur # NoInvoice
    /\ crashes \in 0..MaxCrashes

Init ==
    /\ request = [i \in Invoices |-> "new"]
    /\ lnd = [i \in Invoices |-> "none"]
    /\ hollow = {}
    /\ status = [i \in Invoices |-> "none"]
    /\ aged = {}
    /\ balance = [u \in Users |-> 0]
    /\ pc = "tick" /\ todo = {} /\ cur = NoInvoice
    /\ crashes = 0

----------------------------------------------------------------------------
(* HandleTopUp *)

(* LNDClient.CreateInvoice returns an invoice, or an error body taken for  *)
(* one.                                                                    *)
CreateInvoice(i) ==
    \/ lnd' = [lnd EXCEPT ![i] = "open"] /\ UNCHANGED hollow
    \/ hollow' = hollow \union {i} /\ UNCHANGED lnd

(* A top-up with a valid key and amount asks LND; a refused request, or an *)
(* answer that does not decode, ends with an error.                        *)
AskLnd(i) ==
    /\ request[i] = "new"
    /\ \/ /\ CreateInvoice(i)
          /\ request' = [request EXCEPT ![i] = "created"]
       \/ /\ request' = [request EXCEPT ![i] = "failed"]
          /\ UNCHANGED <<lnd, hollow>>
    /\ UNCHANGED <<status, aged, balance, watcherVars, crashes>>

(* The row is inserted, under the primary key payment_hash, and the buyer  *)
(* gets the invoice to pay ...                                             *)
StoreInvoice(i) ==
    /\ request[i] = "created"
    /\ i \in hollow => \A k \in hollow : status[k] = "none"
    /\ status' = [status EXCEPT ![i] = "pending"]
    /\ request' = [request EXCEPT ![i] = "returned"]
    /\ UNCHANGED <<hollow, lnd, aged, balance, watcherVars, crashes>>

(* ... or the INSERT fails and the buyer never sees it; the variant before *)
(* StoreFails ignores the error.                                           *)
StoreFailsReturned(i) ==
    /\ request[i] = "created"
    /\ request' = [request EXCEPT ![i] = "returned"]
    /\ UNCHANGED <<hollow, lnd, status, aged, balance, watcherVars, crashes>>
StoreFails(i) ==
    /\ request[i] = "created"
    /\ request' = [request EXCEPT ![i] = "failed"]
    /\ UNCHANGED <<hollow, lnd, status, aged, balance, watcherVars, crashes>>

----------------------------------------------------------------------------
(* The payer, LND and time. *)

Pay(i) ==
    /\ request[i] = "returned"
    /\ lnd[i] = "open"
    /\ lnd' = [lnd EXCEPT ![i] = "settled"]
    /\ UNCHANGED <<request, hollow, status, aged, balance, watcherVars, crashes>>

LndExpires(i) ==
    /\ lnd[i] = "open"
    /\ lnd' = [lnd EXCEPT ![i] = "cancelled"]
    /\ UNCHANGED <<request, hollow, status, aged, balance, watcherVars, crashes>>

GrowOld(i) ==
    /\ status[i] # "none" /\ i \notin aged
    /\ lnd[i] # "open"
    /\ aged' = aged \union {i}
    /\ UNCHANGED <<request, lnd, hollow, status, balance, watcherVars, crashes>>

----------------------------------------------------------------------------
(* The watcher's tick.  The variants ahead of some definitions are         *)
(* plausible mistakes in them; no action uses them.                        *)

ExpirableFaulty(i) == status[i] = "expired" /\ i \in aged
Expirable(i) == status[i] = "pending" /\ i \in aged

(* ExpireOldInvoices, first of all; its error is ignored.                  *)
ExpireOldInvoices ==
    /\ pc = "tick"
    /\ \/ status' = [i \in Invoices |->
                       IF Expirable(i) THEN "expired" ELSE status[i]]
       \/ UNCHANGED status
    /\ pc' = "list"
    /\ UNCHANGED <<request, lnd, hollow, aged, balance, todo, cur, crashes>>

(* PendingInvoices; on an error the tick is over.                          *)
ListPending ==
    /\ pc = "list"
    /\ \/ todo' = {i \in Invoices : status[i] = "pending"} /\ pc' = "each"
       \/ pc' = "tick" /\ UNCHANGED todo
    /\ UNCHANGED <<request, lnd, hollow, status, aged, balance, cur, crashes>>

(* CheckInvoice: LND's answer is "settled".                                *)
CheckInvoiceFaulty(i) == lnd[i] # "cancelled"
CheckInvoice(i) == lnd[i] = "settled"

(* The lookup says that the invoice is paid, ...                           *)
FoundPaid(i) ==
    /\ pc = "each" /\ i \in todo
    /\ CheckInvoice(i)
    /\ todo' = todo \ {i}
    /\ pc' = "credit" /\ cur' = i
    /\ UNCHANGED <<request, lnd, hollow, status, aged, balance, crashes>>

(* ... not settled yet, or LND does not answer.                            *)
NotFoundPaid(i) ==
    /\ pc = "each" /\ i \in todo \ hollow
    /\ todo' = todo \ {i}
    /\ UNCHANGED <<request, lnd, hollow, status, aged, balance, pc, cur, crashes>>

EndTick ==
    /\ pc = "each" /\ todo = {}
    /\ pc' = "tick"
    /\ UNCHANGED <<request, lnd, hollow, status, aged, balance, todo, cur, crashes>>

MarkForgotten(i) == UNCHANGED status
MarkCredited(i) == status' = [status EXCEPT ![i] = "credited"]

(* CreditInvoice, one transaction: a row that is still pending is marked   *)
(* and its amount added; any other row is left alone.                      *)
CreditInvoice ==
    /\ pc = "credit"
    /\ IF status[cur] = "pending"
       THEN /\ MarkCredited(cur)
            /\ balance' = [balance EXCEPT ![OwnerOf[cur]] = @ + AmountOf[cur]]
       ELSE UNCHANGED <<status, balance>>
    /\ pc' = "each" /\ cur' = NoInvoice
    /\ UNCHANGED <<request, lnd, hollow, aged, todo, crashes>>

(* The transaction is rolled back; the next tick tries again.              *)
CreditFails ==
    /\ pc = "credit"
    /\ pc' = "each" /\ cur' = NoInvoice
    /\ UNCHANGED <<request, lnd, hollow, status, aged, balance, todo, crashes>>

(* The process ends and is started again.                                  *)
Restart ==
    /\ request' = [i \in Invoices |-> IF request[i] = "created" THEN "failed" ELSE request[i]]
    /\ pc' = "tick" /\ todo' = {} /\ cur' = NoInvoice
    /\ UNCHANGED <<lnd, hollow, status, aged, balance>>

(* The lookup of an empty hash is an error, and logging the error takes    *)
(* the first eight bytes of the hash: the watcher panics.                  *)
Panic(i) ==
    /\ pc = "each" /\ i \in todo \intersect hollow
    /\ Restart
    /\ UNCHANGED crashes

Crash ==
    /\ crashes < MaxCrashes
    /\ crashes' = crashes + 1
    /\ Restart

----------------------------------------------------------------------------

TopUp(i) == AskLnd(i) \/ StoreInvoice(i) \/ StoreFails(i)

Watch == ExpireOldInvoices \/ ListPending \/ EndTick \/ CreditInvoice \/ CreditFails
         \/ \E i \in Invoices : FoundPaid(i) \/ NotFoundPaid(i) \/ Panic(i)

Next ==
    \/ \E i \in Invoices : TopUp(i) \/ Pay(i) \/ LndExpires(i) \/ GrowOld(i)
    \/ Watch
    \/ Crash

Spec == Init /\ [][Next]_vars

(* Time passes for rows and for LND, the watcher's loop goes on, and what  *)
(* is retried every tick (expiring, listing, looking up, crediting)        *)
(* succeeds at last.                                                       *)
Fairness ==
    /\ WF_vars(Watch)
    /\ SF_vars(pc = "tick" /\ ExpireOldInvoices
               /\ \A i \in aged : status'[i] # "pending")
    /\ SF_vars(ListPending /\ pc' = "each")
    /\ SF_vars(CreditInvoice)
    /\ \A i \in Invoices : WF_vars(LndExpires(i)) /\ WF_vars(GrowOld(i))
                           /\ SF_vars(FoundPaid(i))

FairSpec == Spec /\ Fairness

----------------------------------------------------------------------------
(* Properties. *)

(* Only paid invoices are credited.                                        *)
CreditedWasPaid == \A i \in Invoices : status[i] = "credited" => lnd[i] = "settled"

(* README.md:233, "idempotent crediting (no double-credit)": a user's      *)
(* balance is the sum of its credited invoices, each counted once,         *)
(* whatever ticks, failed transactions and crashes came between.           *)
CreditedTo(u) == {i \in Invoices : OwnerOf[i] = u /\ status[i] = "credited"}

CreditedOnce == \A u \in Users : balance[u] = SumOver(AmountOf, CreditedTo(u))

(* The inductive invariant of top-ups: an invoice has a row once its       *)
(* request was answered, only such an invoice is ever paid, and the        *)
(* watcher has at hand only an invoice that LND has settled for good.      *)
WatchInv ==
    /\ \A i \in Invoices : request[i] = "returned" <=> status[i] # "none"
    /\ \A i \in Invoices : lnd[i] = "settled" => request[i] = "returned"
    /\ pc = "credit" => lnd[cur] = "settled"

InvoicesInv == TypeOK /\ WatchInv /\ CreditedWasPaid /\ CreditedOnce

(* Every stored invoice is resolved: none stays pending forever, however   *)
(* lookups, transactions and the process fail in between, the panics over  *)
(* a hollow row included.                                                  *)
PendingIsResolved ==
    \A i \in Invoices : status[i] = "pending" ~> status[i] \in {"credited", "expired"}

(* The watcher, LND and time implement the ledger of top-ups: an invoice   *)
(* counts as paid there when LND has settled it.                           *)
Ledger == INSTANCE TopUpLedger WITH status <- status, balance <- balance,
                                    settled <- {i \in Invoices : lnd[i] = "settled"}

ImplementsTopUpLedger == Ledger!TopUpSpec

(* docs/index.html:508, "Your balance updates automatically once the       *)
(* payment confirms": an invoice that LND settled is credited.             *)
PaidIsCredited == \A i \in Invoices : lnd[i] = "settled" ~> status[i] = "credited"

============================================================================
