# RouteCat: a TLA+ verification project

RouteCat is a gateway between buyers of LLM inference, who speak the OpenAI API,
and provider nodes, which hold a WebSocket to the gateway. Buyers pay from a
balance they fill over Lightning; providers are credited per job and paid out over
Lightning. One Go process, one SQLite file, one LND node.

This directory models the gateway wherever goroutines, database statements and
outside services interleave: the life of a job, the hub of node connections, the
limits on requests, top-ups and payouts, and their composition on one database. TLC
checks the models on small instances; TLAPS proves their safety properties and the
refinements for every size. Paths below are relative to the repository; `docs/index.html`
stands for `internal/web/static/docs/index.html`.

## 1. Inventory

| part | code | state | operations | hard because |
|---|---|---|---|---|
| job lifecycle | `gateway/gateway.go`, `api.HandleChatCompletions` | `pendingJobs`, `userJobs`, each job's `ResponseCh`, `DoneCh`, `LastChunk`; jobs table; balances | admit, assign, stream, reject, chunk, done, expire | buyer handler, read loops and cleaner meet on the same job; locks are released between the steps of a handler; Send may fail late; a crash loses the maps and keeps the rows |
| billing | `billing/billing.go`, `btcprice.go`, `capTokens`, `capEarnings` | exchange rate, price table | calculate, cap, fetch | truncation, caps, a rate that is still zero |
| node hub | `gateway.HandleRegister`, `HandleWS`, `readLoop`, `pingLoop`, `handleHeartbeat`, `Send` | `nodes` map, node rows, per connection its mutex, models, queue depth and context | register, connect, replace, disconnect, ping, heartbeat | a reconnect overlaps with the old handler; two kinds of mutexes, one held during network writes |
| router, job proxy | `router/router.go`, `LiveNodeInfos`, `HandleJobProxy` | none of their own | snapshot, pick a node, give out the body of a request | a route is chosen from a snapshot and used later; rows may be registered again |
| user registration, rate limits | `api.HandleRegisterUser`, `gateway/middleware.go` | time stamps per address, user keys | allow, register, clean up | window boundaries; a cutoff computed before the lock |
| payout engine | `lightning/payout.go` | counter and start of the hour (memory), payouts table | list, re-read, pay, record | a payment and its row are not atomic, LND's answer may be lost |
| top-ups | `api.HandleTopUp`, `lightning/invoices.go` | invoices table, balances | create, expire, look up, credit | LND and the table change independently; retried every five seconds |
| store | `store/sqlite.go` | the tables | one statement or one transaction per call | the caller makes several of them without a common transaction |
| LND client | `lightning/lightning.go` | none | pay, create, check | outcomes that cannot be told apart |
| server, wiring | `server.go`, `main.go` | none | start, stop | a stop does not wait for WebSocket handlers or loops |
| read-only endpoints, frontend | rest of `api.go`, `web` | none | report | - |

The parts interact by direct calls and through the database: `HandleChatCompletions`
calls `RouteRequest` and `AssignJob`; `AssignJob` looks the connection up, sends on it and
hands the buyer two channels which the read loops and the cleaner feed and close;
`handleProxyDone` and the cleaner write the rows whose sums the payout engine pays and the
heartbeat reports; the invoice watcher fills the balances that `handleProxyDone` reduces.

What makes each part correct: a job ends once and everybody who waits for it learns of
it; a slot is given back exactly once; the row, the charge and the end of a job agree;
amounts stay within the caps and the advertised split; the map of nodes holds exactly the
connections that are served; a request reaches a node that offers its model, and nobody
else reads it; a limiter decides as a sliding window does, whatever has been pruned;
recorded payouts never exceed earnings and the table never claims more than was asked for in payments
that were made; an
invoice is credited exactly once and only if paid; nothing stays pending for ever; no order
of all these creates money. `PROJECT.json` lists the hazards at their lines, each with the
properties aimed at it.

## 2. Modules

| module | models |
|---|---|
| `Billing` | capTokens, Calculate, capEarnings as integer operators |
| `Bills` | the bill of one job for every report and exchange rate; extends `Billing` |
| `Gateway` | the job lifecycle; extends `Billing`; implements `JobLedger` |
| `Hub` | node rows, connections, heartbeats, routing, the job proxy endpoint |
| `Limits` | the rate limiter, user registration and its own limit |
| `Payouts` | processPayouts, with LND, node registration and time; implements `PayoutLedger` |
| `Invoices` | HandleTopUp and the invoice watcher, with LND, the payer and time; implements `TopUpLedger` |
| `JobLedger`, `PayoutLedger`, `TopUpLedger` | abstract specifications: what each part promises about money |
| `RouteCat` | composition of the three ledgers on one database, and the heartbeat that reads it |
| `Sums` | sums over finite sets, as the SUM of a query |
| `MC...` | instances for TLC, statements of the documentation |
| `BillingProofs`, `GatewayProofs`, `HubProofs`, `LimitsProofs`, `PayoutsProofs`, `InvoicesProofs`, `RouteCatProofs` | theorems on the module of that name |
| `SumsProofs` | lemmas on sums and on induction, used by the others |

Definitions named for a fault (`CloseForgotten`, `RecordJobUnpriced`, `EarnedOnly`, `RemoveAny`,
...) are mistaken variants of the definition that follows them. No action uses them; each
property has one for which TLC finds it violated (`mutants` in `PROJECT.json`).

### Gateway

A request is one element of `Jobs`, the job id drawn for it. Each has a buyer handler
(`buyer[j]`): `Admit`/`Refuse` (ValidateUserKey, UserBalance, the free-tier decision),
`NoRoute`, then AssignJob as `IncrUserJobs`/`TooManyConcurrent`, `NodeGone`/`InsertPending`,
`SendOk`/`SendFails`, `Unwind`, then the select loop as `StreamChunk`, `StreamDone`,
`Disconnect`. Each WebSocket connection has a read loop (`rpc[r]`), one message at a time:
`HandleReject`, `DecrReject`; `HandleProxyChunk`, `ForwardChunk`; `HandleProxyDone`,
`CloseDone`, `DecrDone`, `BillDone`, `RecordDone`/`RecordDoneFails`,
`DeductBalance`/`DeductFails`. Two readers of one node are its old and its new connection:
HandleWS cancels the old one but does not wait for its handler. The cleaner (`cpc`) takes
`ExpireJobs`, then per job `DecrExpired`, `BillExpired`, `RecordExpired`. `FetchPrice`, `TopUp`
and `Crash` are the environment.

A step ends where the code releases a mutex, touches a channel or sends a statement to the
database. Choices that deserve a word:

- *SendFails* may happen after the node has answered: the WebSocket write can report an
  error after its flush, so the error does not show that the node never saw the job. The
  library is outside `src/`; the code treats every error alike.
- *LastChunk* is written without a lock. A read that overlaps a write
  (`ParseUsage`) may see the old value, the new one, or a string that does not decode.
- The read loops accept a message about any job, whether or not the node was told of it
  yet: only the guards of the handlers (`NodeID`, none for a reject) restrict them.
- *Offer* is the select with a default of handleProxyChunk: a chunk for a full `ResponseCh`
  is dropped. A handler that returns drops what is in `ResponseCh`; later chunks go nowhere.
- *Panic*: the cleaner's log line slices eight bytes of the node id, and HandleRegister does
  not check its length. `ShortIds` are the ids for which that panics; nothing recovers in that
  goroutine, so the process ends and systemd starts it again (`Restart`, shared with `Crash`).
- *Stalled* buyers stay connected and stop reading. The server sets no write deadline
  (server.go:57), so Write to such a buyer (api.go:341-343) need not return: the stream loop of
  their jobs is given no fairness. A blocked handler is a `Streaming` step that is never taken, so
  it holds one chunk less than in the code, where the chunk it is writing has left `ResponseCh`.
- *Fetched*: an answer of the price service that is not a positive number leaves the price.
- A job being sent does not grow old: Send gives up after five seconds, and ten minutes are
  the cutoff.
- One UTC day is modelled, so rows count against the quota for ever.
- `slot`, `fate`, `charged` and `credited` are history variables; only `MaxCredit` reads one.
- Chunks carry at most a usage report; texts, headers and status codes are abstracted to the
  branch they take. `handleAccept` changes nothing here; pings and heartbeats are in `Hub`.

### Hub

`Gateway` lets a request be routed to any node, which may be gone at the lookup; `Hub` says
which node, and when. A connection (`Conns`) is one call of HandleWS: `Connect`, `Enter` (the
write section of `Gateway.mu`), `Replace` (cancel the old one), `Count`, then readLoop with
`Heartbeat`, `BeginDepths`/`AddDepth`/`EndDepths`, `SendAck`/`AckSent`, and in parallel
`Ping`/`PingSent`; then `ReadFails`, `Leave`. A connection to which nothing refers any more is
reused for another one (`Collect`), so the run of the system is not limited in length.
A request does `BeginScan`, `Snapshot` per connection, `Route`, `Lookup`, `SendJob`, `JobSent`,
during which the node may `Fetch` its body.

Both mutexes are explicit. `NodeConn.mu` is held for a Send (`sender[c]`). `Gateway.mu` is an
RWMutex: `Reading` are those who stay inside while they take one `NodeConn.mu` after the other,
`WriterWaits` keeps new readers out as Go's RWMutex does. Write sections and single reads never
wait inside and are one step. When a heartbeat's log line panics over a short node id, net/http
recovers and the request's context ends, but HandleWS's cleanup is skipped: the entry stays in
the map (`panicked`) until another connection of the node replaces it. `Offers` includes the
empty set; what a node offers is copied into the connection and not refreshed by a later
registration, as in the code.

### Limits

Time stamps are ages in ticks that stop growing where no comparison tells them apart. Both
limiters keep a list per address and differ in their numbers and in who prunes: `RunCleanup`
takes its cutoff under the lock, `RegCutoff` before `RunRegSweep` waits for it, up to `MaxLag`
ticks. A registration passes both (`RegisterArrives`, `RegisterCounted`) and then inserts its key
(`RegisterReturns`) or fails. `recent` and `regRecent` are history: what was really let through
within the last window.

### Billing

The code computes in float64 and truncates. The model uses integers: a price table of
integer rates, an integer exchange rate and `Scale` for the powers of ten. What rounding to
float64 can change is stated rather than assumed away:

- capEarnings multiplies by a rounded ratio, so its result may be one off: of 370,500 msats in
  390,000 the code keeps 189,999, the exact quotient being 190,000. `CapEarnings` takes that error,
  a member of `Rounding`, as a parameter, and `Gateway` and `Bills` leave it open. `ProviderShare`
  therefore allows two msats, one for the fraction and one for the rounding.
- The total of Calculate may be rounded likewise, but as the rounding keeps the order of its
  arguments and all properties are about the total that was computed, nothing depends on it.
- The fee is an exact product divided by 100 for the integer percentages that are modelled.

With the constants of the code (100,000 per field, 200,000 in total) the proportional
shrinking of capTokens cannot trigger; the proofs cover it for other constants.

### Payouts

`Begin` resets the counter when the hour is over and lists the due nodes with their
thresholds; `Skip`/`Choose` re-read the balance and apply the checks; `PayConfirmed`,
`PayUnconfirmed` are the outcomes of PayAddress as the caller sees them, of which the second
may hide a payment; `RecordPayout` writes the row (or fails to) and counts (`Count`). `Earn`,
`Register`, `PassTime` and `Crash` surround it. A failing SELECT ends the tick or skips the node.

The amounts are those the engine asks for, never those LND moves. PayAddress pays the invoice
that the payee's LNURL service returns (lightning.go:136-155) and neither it nor payInvoice
(lightning.go:215-244) reads the amount in it; a routing fee of up to 50 sats comes on top. The row
and the counter then take the amount asked for. So `asked`, `lost` and `hourPaid` are histories
of sats asked for: in all payments LND made, in those of them no row will mention, and in those
confirmed since the counter was reset. Nothing is said about what arrives at a node, and
nothing could be: see the departures below.

### Invoices

`AskLnd`, `StoreInvoice`/`StoreFails` are HandleTopUp; `ExpireOldInvoices`, `ListPending`,
`FoundPaid`/`NotFoundPaid`/`Panic`, `CreditInvoice`/`CreditFails`, `EndTick` the watcher; `Pay`,
`LndExpires`, `GrowOld`, `Crash` the world. LND's invoices live 600 seconds and rows ten minutes from a
slightly later moment, so a row grows old only after LND has closed the invoice. LND's answer is decoded
whatever its HTTP status, so an error body becomes an invoice with an empty hash (`hollow`),
at most one of which fits under the primary key; the lookup of an empty hash fails, and the
log line for that failure slices eight bytes of it, which panics.

### The ledgers and RouteCat

*JobLedger*: requests are admitted, opened, settled, credited and charged, each at most once and
only in that order; the charge equals the row, is made only for a paid request that its node
finished, and never drives the balance below zero. Settling may concern several requests (the
cleaner, a crash). *PayoutLedger*: a node is asked to take at most what is unpaid and only when no
earlier payment is unaccounted for; a row for the amount asked follows, or is lost. *TopUpLedger*: an invoice is offered
once and ends as credited, only if it was settled and together with the balance, or as expired.

The refinement mappings are the identity on the variables of the same name and hide the rest;
in `Invoices` the settled invoices are those that LND calls so. Each ledger also has the step by
which another part changes what they share: `ToppedUp`, `Earned`, `Spent`.

`RouteCat` composes the parts by composing these ledgers: a step is a step of one of them with
the variables of the others unchanged, on shared variables for the user's balance and for the
rows of jobs, whose sum is the `earned` of the payouts. On top, `ReadEarned`, `ReadPaid` and
`ReadTotal` are the statements of handleHeartbeat (NodeBalance is two of them), with everything
else running in between. Each of them may fail; handleHeartbeat ignores the errors
(gateway.go:358-360) and reports zero for what it could not read.

## 3. Runs

Passing runs:

| run | instance | shows |
|---|---|---|
| `settlement` | 2 jobs, 1 user, 2 connections of 1 node, a top-up of an empty balance, 1 crash | DoneCh closed once, no forgotten buyer, rows and charges agree with how jobs ended, balance = top-ups − charged rows, refinement of JobLedger, the inductive invariant |
| `slots` | 3 jobs, limit 2, 1 connection | the counter matches the holders up to doubly released slots |
| `liveness` | 2 jobs, 2 nodes of which one never answers and has a short id | slots come back, buyers return, read loops finish every message, panics and a buyer that stops reading (`Stalled`) included |
| `billing` | every report in −1..12 squared, 3 models, 7 rates | caps, split, monotonicity |
| `hub` | 2 nodes, 2 keys, 2 connections, 1 request at a time, 2 depths, 1 short id | the map is what is served, nobody is cut off by another's cleanup, routes are true to the map, bodies go to the assignee only |
| `hub_live` | the same with one depth | a replaced connection leaves, routing ends |
| `limits` | 2 addresses, 2 per 2 ticks, registrations 1 per 3 ticks, lag 1, 1 restart | both limiters decide as a sliding window, memory is given back |
| `payouts` | 2 nodes that compete for the cap, 2 payments each, 1 fault | table ≤ asked, table ≤ earned, asked beyond earned only by lost rows, confirmed since the reset ≤ cap, refinement of PayoutLedger, a due node is paid once the others are quiet |
| `invoices` | invoices of 2 users, 2 crashes, panics unbounded | an invoice is credited once and only if settled, no row stays pending, refinement of TopUpLedger |
| `routecat` | 2 jobs, 2 invoices of 1 user, 1 node, 1 lost sat | the books balance; a heartbeat, failing statements included, never overstates what a node is owed |

`SettlementInv`, `HubInv`, `LimitsInv`, `PayoutsInv`, `InvoicesInv` and `BooksInv` are the inductive
invariants of section 4; each contains the type invariant of its module.

Why the bounds suffice. Settlement is about pairs of actors on one job (two connections, or
a connection and the cleaner, or AssignJob and either), and about a second job whose slot or
balance is shared; two jobs and two readers contain every such pair. Exceeding the limit
needs limit + 1 jobs, hence three jobs for two slots. One chunk in the buffer and a buffer of
one give empty, partly and completely full. One usage report with a credit of 3 and a cost
of 2 makes the first charge succeed and the second fail. One crash suffices because it
resets everything volatile; the theorems cover any number. In `hub` two connections are an old
and a new one of one node, or those of two nodes, and reuse lets any number follow; a second
request would only add one more reader, which heartbeats are already. In `limits` the windows are
longer than the lists, so a list can hold stamps of every age around the cutoff, and the two
windows differ. In `payouts`, earnings of 3 msats with 2 msats per sat exercise the remainder, two
jobs per node the second look at a balance, and with a cap of 2 sats either node's first payment
leaves room for the other's, its balance of two jobs does not fit, and in one tick a node is passed
over for the one before it.
In `routecat` one job can be charged and the other borne by the gateway, and the two invoices
differ in their amounts; one node suffices because nodes share nothing there. In `billing` the limits are those of
the code in units of 10,000 tokens and of one sat.

Symmetry is used for jobs of one user, connections of one node, and the connections of the hub,
only in runs without liveness properties. Deadlock checking is on in every run.

### Fairness

`Gateway`: weak fairness of each goroutine that has something to do (a handler that has
begun, AssignJob, the stream loop, the cleaner's ticks) and of time for each job. These are Go
goroutines that wait for nothing but short critical sections, a database call and a Send
bounded by five seconds. The stream loop also waits for Write to the buyer, which ends when the
buyer reads or its connection breaks, and otherwise never: fairness of it is assumed of the
buyers outside `Stalled` only, and `BuyerReturns` is stated for those. Nothing else is assumed
about buyers, and nothing about nodes, the price service or crashes: in the liveness run one of two
buyers is in `Stalled` and one of two nodes never answers. `SlotReleased` and `ReaderReturns` cover
stalled buyers too. Weak fairness of a buyer's `Streaming` as a
whole does not make it prefer DoneCh to chunks; it returns because the chunks a reader can
still put into a finished job's channel are finitely many.

`Hub`: weak fairness of the end of a Send, which has a timeout; strong fairness of what waits for
a mutex, since a Go mutex is handed to a goroutine that has waited for a millisecond and the
readers that wait for an RWMutex enter when a writer leaves; strong fairness of the failing read of a cancelled
connection. Nothing makes nodes connect, report or leave.

`Limits`: weak fairness of time and of the two goroutines' tickers.

`Payouts`: weak fairness of the loop and of time; strong fairness of a confirmed payment, since
the engine asks again every minute and the property is about payments that can succeed.
`DueIsPaid` has two conditions, for the code pays a due node for ever only if others let it. Its
balance must stay within the cap of an hour, and from some time on the other nodes earn
nothing and no failure makes the engine repeat a payment (`OthersQuiet`): a node ahead in the
list that earns a cap's worth every hour starves those behind it. TLC's instance bounds
earnings and failures, so there the second condition holds of every behaviour; it is part of the
statement because the statement is about the code.

`Invoices`: weak fairness of the watcher, of time at LND and for rows; strong fairness of each
operation that every tick retries.

### Runs that refute a statement

Each checks one statement of the documentation that the code does not keep; the findings in
`PROJECT.json` quote it.

| run | statement | what happens |
|---|---|---|
| `doc_stream` | docs/index.html:950, the stream ends with `[DONE]` | DoneCh overtakes buffered chunks |
| `doc_topup` | docs/index.html:508, "updates automatically" | expiry runs before the lookup |

Further departures, which the models contain and the properties are worded around:

- A late Send error and the node's answer both release the slot of a job, so a user may exceed
  README.md:225, "max 3 simultaneous requests per user key", by such jobs (`ConcurrentLimit`).
- A balance larger than the hourly cap is skipped at every tick, and so is any balance behind
  nodes that use up the cap of every hour (docs/index.html:1141, "at which point the gateway
  automatically sends"); `DueIsPaid` has both as conditions.
- `LndPays`: the invoice that a payee returns may be for more or less than the engine asked for
  (lightning.go:136-155), and is paid and recorded as if it were not. The payouts table may then
  differ from what LND moved although no row was lost (README.md:226, "no phantom payouts
  recorded", holds of payments, not of their amounts), and the cap of README.md:223, "10,000
  sats/hour", limits what is asked for, fees and unconfirmed payments aside.
- `Stalled`: a buyer that stays connected and does not read keeps its handler for ever
  (server.go:57 sets no deadline).
- `ReadEarned`, `ReadPaid`, `ReadTotal`: a figure that cannot be read is reported as zero; the total
  earnings may so be below the balance (gateway.go:358-360).
- payout.go:88 takes an error of PayAddress for "payment never happened"; if it did happen, the
  next tick pays again (`lost` in `AskedWithinEarned`).
- `RecordExpired`: an expired job is credited to the node and never charged to the user
  (docs/index.html:1034, "each request deducts from your balance").
- `Admit`: the quota counts rows of finished jobs, so requests in flight are free of it, and a count
  that fails counts as zero (README.md:109, "The free tier (10 requests/day)").
- `Calculate` with `price = 0` after a start: a job settled before the first price fetch is
  recorded with zero earnings (docs/index.html:1141, "for every request they serve").
- `Begin`: the hour is a fixed window, so payments before and after its end may together exceed
  the cap within one hour (README.md:223, "10,000 sats/hour"); a restart begins a new one.
- `CreateInvoice`: an error body of LND passes for an invoice, with empty text and hash
  (docs/index.html:478, "Generate a Lightning Network invoice"); `Panic` is its consequence.
- `Limits`: what README.md:214 and 216 call per IP is per value of X-Real-Ip or, without that header,
  per RemoteAddr, which contains the port; a restart forgets both limits; a key is created later
  than it is counted.
- `Upsert`: registering a known node id with another key answers 201 and keeps the old key.
- `EndDepths`: after a panic the connection stays in the map and is counted as online
  (docs/index.html:589).
- `Best`: the choice is by model and queue depth alone; router.go:2-3 names more criteria.
- `ReadPaid`: a payout recorded between the two statements of NodeBalance makes the reported
  balance too low, below zero even.

## 4. Proofs

Every safety property of section 3, invariant or action property, and every refinement is also a
theorem, for arbitrary nodes, users, jobs, connections, requests, addresses and invoices, any
limits, prices, windows and amounts, and any number of crashes. The constants are restricted only by
the assumptions named in the modules: their types; a fee between 0 and 100 percent and a positive
total limit (`PricingAssumption`, `LimitsAssumption`); finite sets where something is summed or
counted over them; and, in `Hub`, that requests are not called like the other holders of a mutex.
The bounds that keep TLC's state spaces finite (`MaxCredit`, `MaxLost`, ...) are constants without an
upper limit, and so are part of "any".

Each component has one inductive invariant. Its proof has a lemma per group of conjuncts, with one
step per action, and the theorems about single properties follow from it.

### Induction and sums

The library's induction theorems have an operator as parameter, which the backends cannot
instantiate. `SumsProofs` therefore states induction about sets: a set of subsets of a finite `S` that
contains the empty set and is closed under adding an element contains `S` (`SubsetInduction`,
`ElementInduction`), and likewise for naturals (`NatSetInduction`). They are proved from
well-foundedness, whose minimum is stated without such a parameter. From them, `SumsExist` shows that
the recursive function inside the community modules' `MapThenSumSet` is defined by its equation on all
subsets; the laws of sums (adding or removing an element, updating a value, monotonicity, unions,
grouping by class) follow. `LimitsProofs` does the same for sequences (`SeqInduction`).

### Billing

`CapTokensBound`, `CalculateSplits`, `CapEarningsBound` and, composed of them, `EarningsBound`: whatever a
node reports, the two amounts are natural numbers and their sum is at most the cap; `CapsAlwaysHold`
is the run's property. `ProviderShareKept` follows the provider's share through both truncations and the
cap: it is short of its percentage by less than two msats, however the cap's product is rounded. `CostKeepsOrder` has a hypothesis,
`2 * MaxField <= MaxTotal`, which the constants of the code meet with equality: where the proportional
shrinking of capTokens can trigger, more input tokens displace output tokens, which cost more, and the
cost is not monotone.

### Gateway

`SettlementInvariant` shows `Spec => []SettlementInv`. None of the properties is inductive alone:

- `DoneChClosedOnce` needs to know that a reader about to close has the only claim on the job:
  `ReaderInv` (two settling readers never share a job, the channel of a claimed job is still open, no
  row exists yet) and `RequestInv` (a job is in the map exactly while its fate is open, and DoneCh of an
  open job is not closed).
- `NoOrphanBuyer` needs its extension to a buyer still in AssignJob, `AwaitedInv`.
- `RowsExplained` needs the facts a reader carries between two statements (`ReaderInv`: the row it is
  about to charge is there, unpaid, not free, and has the amounts it holds) and the cleaner's
  (`CleanerInv`).
- The slot counter needs `SlotInv`: which jobs hold a slot and who may still release it. At most two
  can, the settling side (`Owed`) and AssignJob (`MayUnwind`), so a slot is released at most twice.
  `SlotAccounting` is then proved from counting lemmas on the sets of holders, and `ConcurrentLimit` from
  it: pending jobs are holders, the counter is at most the limit.
- `BalanceExplained` is inductive relative to `SettlementInv`: a deduction adds one row to the charged
  ones and takes that row's cost, a recorded row no longer changes its amounts.

A restart, by a crash or by the cleaner's panic, has lemmas of its own. `Refinement` shows
`Spec => Ledger!LedgerSpec`: each action maps to one of JobLedger's or to a stutter, using the
invariant for the guards of `Credited` and `Charged`.

### Hub

`HubInv` adds to `MapIsServed`, `NoLiveOrphan` and `BodyOnlyToAssignee` what the goroutines rely on between
two steps. `HandlerInv`: a connection has a node and the key of that node's row, for a row never changes
its key, and it remembers a connection to replace exactly in the step that cancels it. `RequestInv`: an
assignee is the key of the row of the target. With both, whoever fetches a body has the key of a row
registered before the job was sent. `LockInv` ties the holder of each `NodeConn.mu` to the step that holds it.
`ScanInv` is what makes a route true: whoever ranges over the map keeps writers out, so the nodes
still to visit stay connected, and a snapshot contains exactly the visited nodes that offer the model.
`RoutesAreTrue` adds that `Best` of a nonempty snapshot exists (`BestExists`, from `LeastNat`).

### Limits

`DecidesAsWindow` compares a list that was pruned at arbitrary moments, some with an old cutoff, with
the true history. `LimitsInv` says that the two agree on what counts: `recent = Valid(requests)`. It is kept
because filtering twice with a younger and an older cutoff is filtering with the younger
(`ValidTwice`), and because ages that stop growing beyond every cutoff are filtered as the real
ones would be (`ValidOlder`). `Valid` is the loop of the code as a recursive function, which is
shown to exist and to follow appends before anything else (`KeptExists`, `ValidAppend`).

### Payouts and Invoices

`PayoutsInv`: `EngineInv` keeps what was read from the database true until it is used (the amount at hand
is covered by the balance of the current node and by the rest of the cap, because only the engine writes
payouts and earnings only grow; the two counters agree with what was confirmed in the hour), and
`AccountInv` that every sat asked for in a payment LND made is in a row, lost, or about to be recorded.
`NoPhantomPayout`, `AskedWithinEarned` and `HourCap` follow, the first two by cancelling a product. All
of it is about the amounts asked for, as the code is.

`InvoicesInv`: an invoice has a row exactly when its request was answered, only such an invoice is
ever settled, and the one at the watcher's hand is settled (`WatchInv`). `CreditedOnce`, a sum, is inductive
with it: a credit moves one invoice into the credited ones and adds its amount to its owner's balance.

`PayoutRefinement` and `TopUpRefinement` map each action to a step of the ledger or to a stutter. A crash
while an amount is at hand is `Forgotten`.

### RouteCat

`BooksInv` has four parts: what was credited is in a balance or in a charged row (`UserBook`), a node
was asked to take no more than its rows (`NodeBook`) and has payout rows for no more than that
(`RowBook`), and what a heartbeat has read, or the zero it reports instead, can only have grown since
(`HeartbeatInv`). `Solvency` combines the first two: the sum over nodes of the sums over their rows is the
sum over all rows (`SumByClass`), split into charged and borne ones. `HeartbeatsDoNotOverstate` uses the
last two: a zero in place of a balance does not overstate it because no balance is negative. `LedgersCompose` shows that the composition implements all three ledgers at once, which matters
because the components were shown to implement them alone: a credited invoice is `ToppedUp` to the
requests, a charge is `Spent` to the top-ups, and a row is `Earned` to the payouts, in the same step.

### Only model-checked

Liveness, which needs fairness and ENABLED: `SlotReleased`, `BuyerReturns`, `ReaderReturns`, `ReplacedLeaves`,
`RoutingEnds`, `MemoryReleased`, `DueIsPaid`, `PendingIsResolved`. The two runs that refute a statement are
counterexamples and need no proof.

## 5. Not modelled

The read-only endpoints (HandleBalance, HandleStats, HandleAudit, HandleModels, health) and the web frontend change no
state. Karma, regions, VRAM and the statistics of the last 24 hours are stored or reported and decide
nothing. HTTP, JSON, LNURL and hash encodings are abstracted, except where an encoding error becomes a
state; the schema of the database, flags and routes likewise. The day does
not change, so the quota is never renewed. `GetBalance` and `withdraw-ecash` have no behaviour to model.

## 6. Plan

1. Done: `Billing`, `Gateway`, `Hub`, `Limits`, `Payouts`, `Invoices`, the ledgers with their refinements
   and the composition `RouteCat`, all checked.
2. Done: every safety property of the runs and every refinement proved.
3. Left: facts that no run states yet and that the inductive invariants now make cheap: rows and
   credits are never taken back (as action properties of the detailed modules), and bounds on how far
   a heartbeat whose statements succeed can understate a balance.
