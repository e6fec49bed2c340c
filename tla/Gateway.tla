------------------------------ MODULE Gateway ------------------------------
(***************************************************************************)
(* The life of a chat request inside the gateway process, from             *)
(* api.HandleChatCompletions through gateway.AssignJob to the handler that *)
(* settles it: handleReject, handleProxyDone or jobCleanupLoop.            *)
(*                                                                         *)
(* Processes (goroutines of the code):                                     *)
(*   - one buyer handler per request, with program counter buyer[j];       *)
(*   - one read loop per node connection, with program counter rpc[r]; two *)
(*     readers of one node are its old and its new connection around a     *)
(*     reconnect, whose handlers may overlap;                              *)
(*   - the job cleaner, with program counter cpc.                          *)
(* Steps are the critical sections of jobsMu and userJobsMu, the channel   *)
(* operations, the unlocked accesses to LastChunk and the statements sent  *)
(* to the database.  A crash loses everything but the database.            *)
(*                                                                         *)
(* A request is identified by the job id the handler draws for it.  Time   *)
(* is abstract: a job grows old once its ten minutes have passed, and one  *)
(* UTC day is modelled, so a row counts against the quota forever.         *)
(***************************************************************************)
EXTENDS Billing, FiniteSets, Sums

CONSTANTS
    Jobs,           \* requests, by job id (a fresh uuid each)
    Users,          \* user API keys
    Nodes,          \* registered provider nodes
    Readers,        \* read loops of node connections
    UserOf,         \* the key a request is made with
    ModelOf,        \* the model it asks for
    ReaderNode,     \* the node at the other end of a connection
    NoJob, NoNode,  \* "no value"
    MaxConcurrent,  \* maxConcurrentPerUser
    QuotaDaily,     \* api_keys.quota_daily
    ChunkCap,       \* capacity of PendingJob.ResponseCh
    Reports,        \* usage reports a chunk may carry (bound)
    Prices,         \* positive exchange rates the tracker may fetch (bound)
    InitBalance,    \* api_keys.balance_msats at the start
    TopUps,         \* amounts an invoice may add to it (bound)
    MaxCredit,      \* what invoices may add to a balance altogether (bound)
    ShortIds,       \* node ids of fewer than eight bytes
    Stalled,        \* requests whose buyers may stop reading and stay connected
    MaxCrashes      \* crashes and restarts considered (bound)

ASSUME GatewayAssumption ==
    /\ IsFiniteSet(Jobs)
    /\ UserOf \in [Jobs -> Users]
    /\ ReaderNode \in [Readers -> Nodes]
    /\ NoJob \notin Jobs /\ NoNode \notin Nodes
    /\ Stalled \subseteq Jobs
    /\ MaxConcurrent \in Nat /\ QuotaDaily \in Nat
    /\ ChunkCap \in Nat /\ MaxCrashes \in Nat
    /\ Reports \subseteq Usage
    /\ Prices \subseteq Nat \ {0}
    /\ InitBalance \in [Users -> Nat]
    /\ TopUps \subseteq Nat \ {0} /\ MaxCredit \in Nat

VARIABLES
    buyer,        \* where each request's handler is
    node, free,   \* PendingJob.NodeID and .FreeTier, locals of the handler before
    pendingJobs,  \* keys of Gateway.pendingJobs
    old,          \* pending jobs whose StartedAt is before the cleaner's cutoff
    doneCh,       \* how often the job's DoneCh has been closed
    respCh,       \* chunks in the job's ResponseCh that its handler may still read
    lastChunk,    \* what parseUsage makes of the job's LastChunk
    userJobs,     \* Gateway.userJobs; an absent key is 0
    rpc, rjob,    \* per reader: program counter, the job its message is about,
    rusage,       \*   the usage in the chunk being stored,
    rbill,        \*   and the amounts handleProxyDone has computed
    cpc, ctodo,   \* the cleaner: program counter, jobs of `expired` not yet begun,
    cjob, cbill,  \*   the one it is at and its amounts
    price,        \* PriceTracker.price; 0 before the first fetch
    recorded,     \* database: job ids in the jobs table
    earned,       \*   and the amounts of their rows
    balance,      \* database: api_keys.balance_msats
    crashes,      \* crashes so far
    credited,     \* history: what top-ups have added to each balance
    slot,         \* history: what became of the slot each job took
    fate,         \* history: how each job left pendingJobs
    charged       \* history: jobs whose deduction was committed

buyerVars   == <<buyer, node, free>>
jobVars     == <<pendingJobs, old>>
chanVars    == <<doneCh, respCh, lastChunk>>
readerVars  == <<rpc, rjob, rusage, rbill>>
cleanerVars == <<cpc, ctodo, cjob, cbill>>
dbVars      == <<recorded, earned, balance>>
envVars     == <<crashes, credited>>

vars == <<buyerVars, jobVars, chanVars, userJobs, readerVars, cleanerVars,
          price, dbVars, envVars, slot, fate, charged>>

----------------------------------------------------------------------------

BuyerStates   == {"new", "admitted", "counted", "sending", "unwind",
                  "streaming", "returned"}
ReaderStates  == {"read", "chunk", "forward", "closing", "decrReject",
                  "decrDone", "bill", "record", "deduct"}
CleanerStates == {"loop", "bill", "record", "panic"}
SlotStates    == {"none", "held", "free", "twice"}
Fates         == {"none", "open", "rejected", "done", "expired", "failed",
                  "crashed"}

Amounts   == [provider : Nat, fee : Nat]
NoAmounts == [provider |-> 0, fee |-> 0]

(* Every variable has the values the code gives it; MaxConcurrent bounds   *)
(* the counter that incrUserJobs checks.                                   *)
TypeOK ==
    /\ buyer \in [Jobs -> BuyerStates]
    /\ node \in [Jobs -> Nodes \union {NoNode}]
    /\ free \in [Jobs -> BOOLEAN]
    /\ pendingJobs \subseteq Jobs
    /\ old \subseteq Jobs
    /\ doneCh \in [Jobs -> Nat]
    /\ respCh \in [Jobs -> 0..ChunkCap]
    /\ lastChunk \in [Jobs -> Usage]
    /\ userJobs \in [Users -> 0..MaxConcurrent]
    /\ rpc \in [Readers -> ReaderStates]
    /\ rjob \in [Readers -> Jobs \union {NoJob}]
    /\ rusage \in [Readers -> Usage]
    /\ rbill \in [Readers -> Amounts]
    /\ cpc \in CleanerStates
    /\ ctodo \subseteq Jobs
    /\ cjob \in Jobs \union {NoJob}
    /\ cbill \in Amounts
    /\ price \in {0} \union Prices
    /\ recorded \subseteq Jobs
    /\ earned \in [Jobs -> Amounts]
    /\ balance \in [Users -> Nat]
    /\ crashes \in 0..MaxCrashes
    /\ credited \in [Users -> Nat]
    /\ slot \in [Jobs -> SlotStates]
    /\ fate \in [Jobs -> Fates]
    /\ charged \subseteq Jobs

Init ==
    /\ buyer = [j \in Jobs |-> "new"]
    /\ node = [j \in Jobs |-> NoNode]
    /\ free = [j \in Jobs |-> FALSE]
    /\ pendingJobs = {} /\ old = {}
    /\ doneCh = [j \in Jobs |-> 0]
    /\ respCh = [j \in Jobs |-> 0]
    /\ lastChunk = [j \in Jobs |-> NoUsage]
    /\ userJobs = [u \in Users |-> 0]
    /\ rpc = [r \in Readers |-> "read"]
    /\ rjob = [r \in Readers |-> NoJob]
    /\ rusage = [r \in Readers |-> NoUsage]
    /\ rbill = [r \in Readers |-> NoAmounts]
    /\ cpc = "loop" /\ ctodo = {} /\ cjob = NoJob /\ cbill = NoAmounts
    /\ price = 0
    /\ recorded = {}
    /\ earned = [j \in Jobs |-> NoAmounts]
    /\ balance = InitBalance
    /\ crashes = 0
    /\ credited = [u \in Users |-> 0]
    /\ slot = [j \in Jobs |-> "none"]
    /\ fate = [j \in Jobs |-> "none"]
    /\ charged = {}

----------------------------------------------------------------------------
(* What several handlers share.  The definitions named for a fault         *)
(* (...Faulty, ...Forgotten and the like) are variants that a plausible    *)
(* mistake would produce; no action uses them.                             *)

JobsOf(u) == {j \in Jobs : UserOf[j] = u}

(* ValidateUserKey: the quota minus the rows of today, of any tier.        *)
Remaining(u) == QuotaDaily - Cardinality(recorded \intersect JobsOf(u))

(* incrUserJobs may count one more.                                        *)
HasSlotFaulty(u) == userJobs[u] <= MaxConcurrent
HasSlot(u) == userJobs[u] < MaxConcurrent

(* decrUserJobs on behalf of job j.                                        *)
ReleaseSlotUnfloored(j) ==
    /\ userJobs' = [userJobs EXCEPT ![UserOf[j]] = @ - 1]
    /\ slot' = [slot EXCEPT ![j] = IF @ = "held" THEN "free" ELSE "twice"]
ReleaseSlotUncounted(j) ==
    /\ UNCHANGED userJobs
    /\ slot' = [slot EXCEPT ![j] = IF @ = "held" THEN "free" ELSE "twice"]
ReleaseSlotForgotten(j) == UNCHANGED <<userJobs, slot>>
ReleaseSlot(j) ==
    /\ userJobs' = [userJobs EXCEPT ![UserOf[j]] = IF @ > 0 THEN @ - 1 ELSE 0]
    /\ slot' = [slot EXCEPT ![j] = IF @ = "held" THEN "free" ELSE "twice"]

(* close(DoneCh) of the jobs of S.                                         *)
CloseForgotten(S) == UNCHANGED doneCh
Close(S) == doneCh' = [j \in Jobs |-> IF j \in S THEN doneCh[j] + 1 ELSE doneCh[j]]

(* delete(pendingJobs, id) for the jobs of S, which end as f.              *)
SettleWithoutDelete(S, f) ==
    /\ UNCHANGED <<pendingJobs, old>>
    /\ fate' = [j \in Jobs |-> IF j \in S \intersect pendingJobs THEN f ELSE fate[j]]
Settle(S, f) ==
    /\ pendingJobs' = pendingJobs \ S
    /\ old' = old \ S
    /\ fate' = [j \in Jobs |-> IF j \in S \intersect pendingJobs THEN f ELSE fate[j]]

(* Readers inside the unlocked assignment to j's LastChunk.                *)
Writers(j) == {r \in Readers : rpc[r] = "chunk" /\ rjob[r] = j}

(* What parseUsage may find in j's LastChunk: its value or, when the read  *)
(* races with a writer, the value being written or a torn string that does *)
(* not decode.                                                             *)
ParseUsage(j) ==
    {lastChunk[j]} \union UNION {{rusage[r], NoUsage} : r \in Writers(j)}

(* RecordJob: an INSERT under the primary key job_id.                      *)
RecordJobUnpriced(j, e) ==
    /\ j \notin recorded
    /\ recorded' = recorded \union {j}
    /\ UNCHANGED earned
RecordJob(j, e) ==
    /\ j \notin recorded
    /\ recorded' = recorded \union {j}
    /\ earned' = [earned EXCEPT ![j] = e]

(* The condition under which handleProxyDone goes on to a deduction.       *)
BillableFaulty(j, e) == Cost(e) > 0
Billable(j, e) == Cost(e) > 0 /\ ~free[j]

(* The transaction of DeductBalance: all of the cost c, or an error.       *)
Deduct(u, c) ==
    /\ balance[u] >= c
    /\ balance' = [balance EXCEPT ![u] = @ - c]

----------------------------------------------------------------------------
(* The buyer's handler: HandleChatCompletions and AssignJob. *)

(* ValidateUserKey and UserBalance, read before the body and the route.    *)
(* The error of the statement that counts the rows is ignored: the count   *)
(* is then 0 and all of the quota remains.                                 *)
Admit(j) ==
    /\ buyer[j] = "new"
    /\ \E playground, counted \in BOOLEAN :
         LET remaining  == IF counted THEN Remaining(UserOf[j]) ELSE QuotaDaily
             isFreeTier == playground /\ remaining > 0
         IN  /\ isFreeTier \/ balance[UserOf[j]] > 0
             /\ free' = [free EXCEPT ![j] = isFreeTier]
    /\ buyer' = [buyer EXCEPT ![j] = "admitted"]
    /\ UNCHANGED <<node, jobVars, chanVars, userJobs, readerVars, cleanerVars,
                   price, dbVars, envVars, slot, fate, charged>>

(* 401 when the key cannot be read, 429 for a request that is not free     *)
(* when the balance is zero, also because reading it failed.               *)
Refuse(j) ==
    /\ buyer[j] = "new"
    /\ buyer' = [buyer EXCEPT ![j] = "returned"]
    /\ UNCHANGED <<node, free, jobVars, chanVars, userJobs, readerVars,
                   cleanerVars, price, dbVars, envVars, slot, fate, charged>>

(* 400 for a bad body, 503 when RouteRequest finds no node.                *)
NoRoute(j) ==
    /\ buyer[j] = "admitted"
    /\ buyer' = [buyer EXCEPT ![j] = "returned"]
    /\ UNCHANGED <<node, free, jobVars, chanVars, userJobs, readerVars,
                   cleanerVars, price, dbVars, envVars, slot, fate, charged>>

(* RouteRequest chose a node; AssignJob begins with incrUserJobs.          *)
IncrUserJobs(j) ==
    /\ buyer[j] = "admitted"
    /\ HasSlot(UserOf[j])
    /\ \E n \in Nodes : node' = [node EXCEPT ![j] = n]
    /\ userJobs' = [userJobs EXCEPT ![UserOf[j]] = @ + 1]
    /\ slot' = [slot EXCEPT ![j] = "held"]
    /\ buyer' = [buyer EXCEPT ![j] = "counted"]
    /\ UNCHANGED <<free, jobVars, chanVars, readerVars, cleanerVars, price,
                   dbVars, envVars, fate, charged>>

(* ErrTooManyConcurrent: 429 without taking a slot.                        *)
TooManyConcurrent(j) ==
    /\ buyer[j] = "admitted"
    /\ ~HasSlot(UserOf[j])
    /\ buyer' = [buyer EXCEPT ![j] = "returned"]
    /\ UNCHANGED <<node, free, jobVars, chanVars, userJobs, readerVars,
                   cleanerVars, price, dbVars, envVars, slot, fate, charged>>

(* ErrNoNode: the node left between the route and the lookup.              *)
NodeGone(j) ==
    /\ buyer[j] = "counted"
    /\ ReleaseSlot(j)
    /\ buyer' = [buyer EXCEPT ![j] = "returned"]
    /\ UNCHANGED <<node, free, jobVars, chanVars, readerVars, cleanerVars,
                   price, dbVars, envVars, fate, charged>>

(* The job enters the map before the node is told of it.                   *)
InsertPending(j) ==
    /\ buyer[j] = "counted"
    /\ pendingJobs' = pendingJobs \union {j}
    /\ fate' = [fate EXCEPT ![j] = "open"]
    /\ buyer' = [buyer EXCEPT ![j] = "sending"]
    /\ UNCHANGED <<node, free, old, chanVars, userJobs, readerVars, cleanerVars,
                   price, dbVars, envVars, slot, charged>>

SendOk(j) ==
    /\ buyer[j] = "sending"
    /\ buyer' = [buyer EXCEPT ![j] = "streaming"]
    /\ UNCHANGED <<node, free, jobVars, chanVars, userJobs, readerVars,
                   cleanerVars, price, dbVars, envVars, slot, fate, charged>>

(* Send reports an error.  The message may have gone out all the same (the *)
(* websocket write fails after its flush when the connection closes), so   *)
(* the node's answer may already have settled the job.  The map entry is   *)
(* deleted without closing DoneCh: no buyer waits on it.                   *)
SendFails(j) ==
    /\ buyer[j] = "sending"
    /\ Settle({j}, "failed")
    /\ buyer' = [buyer EXCEPT ![j] = "unwind"]
    /\ respCh' = [respCh EXCEPT ![j] = 0]
    /\ UNCHANGED <<node, free, doneCh, lastChunk, userJobs, readerVars, cleanerVars,
                   price, dbVars, envVars, slot, charged>>

(* decrUserJobs of the error path, whoever settled the job, and 502.       *)
Unwind(j) ==
    /\ buyer[j] = "unwind"
    /\ ReleaseSlot(j)
    /\ buyer' = [buyer EXCEPT ![j] = "returned"]
    /\ UNCHANGED <<node, free, jobVars, chanVars, readerVars, cleanerVars,
                   price, dbVars, envVars, fate, charged>>

(* What is left in ResponseCh is dropped with the channel.                 *)
HandlerReturns(j) ==
    /\ buyer' = [buyer EXCEPT ![j] = "returned"]
    /\ respCh' = [respCh EXCEPT ![j] = 0]

(* The select of the stream loop: a chunk, the end of the job, or the      *)
(* buyer's disconnection.  With several ready the choice is arbitrary, so  *)
(* chunks may be left in the buffer when DoneCh is closed.                 *)
StreamChunk(j) ==
    /\ buyer[j] = "streaming"
    /\ respCh[j] > 0
    /\ respCh' = [respCh EXCEPT ![j] = @ - 1]
    /\ UNCHANGED <<buyerVars, jobVars, doneCh, lastChunk, userJobs, readerVars,
                   cleanerVars, price, dbVars, envVars, slot, fate, charged>>

StreamDone(j) ==
    /\ buyer[j] = "streaming"
    /\ doneCh[j] > 0
    /\ HandlerReturns(j)
    /\ UNCHANGED <<node, free, jobVars, doneCh, lastChunk, userJobs, readerVars,
                   cleanerVars, price, dbVars, envVars, slot, fate, charged>>

Disconnect(j) ==
    /\ buyer[j] = "streaming"
    /\ HandlerReturns(j)
    /\ UNCHANGED <<node, free, jobVars, doneCh, lastChunk, userJobs, readerVars,
                   cleanerVars, price, dbVars, envVars, slot, fate, charged>>

----------------------------------------------------------------------------
(* The read loop of a connection: one message at a time. *)

Finish(r) ==
    /\ rpc' = [rpc EXCEPT ![r] = "read"]
    /\ rjob' = [rjob EXCEPT ![r] = NoJob]
    /\ rusage' = [rusage EXCEPT ![r] = NoUsage]
    /\ rbill' = [rbill EXCEPT ![r] = NoAmounts]

Goto(r, pc, j) ==
    /\ rpc' = [rpc EXCEPT ![r] = pc]
    /\ rjob' = [rjob EXCEPT ![r] = j]

(* handleReject: close and delete under jobsMu, for a message of any node. *)
HandleReject(r, j) ==
    /\ rpc[r] = "read"
    /\ j \in pendingJobs
    /\ Close({j})
    /\ Settle({j}, "rejected")
    /\ Goto(r, "decrReject", j)
    /\ UNCHANGED <<buyerVars, respCh, lastChunk, userJobs, rusage, rbill,
                   cleanerVars, price, dbVars, envVars, slot, charged>>

DecrReject(r) ==
    /\ rpc[r] = "decrReject"
    /\ ReleaseSlot(rjob[r])
    /\ Finish(r)
    /\ UNCHANGED <<buyerVars, jobVars, chanVars, cleanerVars, price, dbVars,
                   envVars, fate, charged>>

(* handleProxyChunk: the lookup, under jobsMu, of the sender's own job;    *)
(* the chunk has a usage line to store or it has not.                      *)
HandleProxyChunk(r, j) ==
    /\ rpc[r] = "read"
    /\ j \in pendingJobs
    /\ node[j] = ReaderNode[r]
    /\ \/ /\ Goto(r, "chunk", j)
          /\ \E u \in Reports : rusage' = [rusage EXCEPT ![r] = u]
       \/ /\ Goto(r, "forward", j)
          /\ UNCHANGED rusage
    /\ UNCHANGED <<buyerVars, jobVars, chanVars, userJobs, rbill, cleanerVars,
                   price, dbVars, envVars, slot, fate, charged>>

(* The select with a default: the chunk is put into j's ResponseCh, or     *)
(* dropped when that is full.  Nobody reads it once the handler is gone.   *)
OfferBlocking(j) ==
    /\ buyer[j] \in {"sending", "streaming"} /\ respCh[j] < ChunkCap
    /\ respCh' = [respCh EXCEPT ![j] = @ + 1]
Offer(j) ==
    respCh' = IF buyer[j] \in {"sending", "streaming"} /\ respCh[j] < ChunkCap
              THEN [respCh EXCEPT ![j] = @ + 1]
              ELSE respCh

(* The rest of handleProxyChunk, without a lock: LastChunk is assigned and *)
(* the chunk is offered to the buyer.                                      *)
ForwardChunk(r) ==
    LET j == rjob[r] IN
    /\ rpc[r] \in {"chunk", "forward"}
    /\ lastChunk' = IF rpc[r] = "chunk"
                    THEN [lastChunk EXCEPT ![j] = rusage[r]]
                    ELSE lastChunk
    /\ Offer(j)
    /\ Finish(r)
    /\ UNCHANGED <<buyerVars, jobVars, doneCh, userJobs, cleanerVars, price,
                   dbVars, envVars, slot, fate, charged>>

(* handleProxyDone: the job is taken out of the map under jobsMu ...       *)
HandleProxyDone(r, j) ==
    /\ rpc[r] = "read"
    /\ j \in pendingJobs
    /\ node[j] = ReaderNode[r]
    /\ Settle({j}, "done")
    /\ Goto(r, "closing", j)
    /\ UNCHANGED <<buyerVars, chanVars, userJobs, rusage, rbill, cleanerVars,
                   price, dbVars, envVars, slot, charged>>

(* ... then its channel is closed, outside the lock ...                    *)
CloseDone(r) ==
    /\ rpc[r] = "closing"
    /\ Close({rjob[r]})
    /\ Goto(r, "decrDone", rjob[r])
    /\ UNCHANGED <<buyerVars, jobVars, respCh, lastChunk, userJobs, rusage, rbill,
                   cleanerVars, price, dbVars, envVars, slot, fate, charged>>

(* ... the user's slot is released ...                                     *)
DecrDone(r) ==
    /\ rpc[r] = "decrDone"
    /\ ReleaseSlot(rjob[r])
    /\ Goto(r, "bill", rjob[r])
    /\ UNCHANGED <<buyerVars, jobVars, chanVars, rusage, rbill, cleanerVars,
                   price, dbVars, envVars, fate, charged>>

(* ... the amounts are computed from the last usage and today's price ...  *)
BillDone(r) ==
    LET j == rjob[r] IN
    /\ rpc[r] = "bill"
    /\ \E u \in ParseUsage(j), err \in Rounding :
         rbill' = [rbill EXCEPT ![r] = Earnings(ModelOf[j], u, price, err)]
    /\ Goto(r, "record", j)
    /\ UNCHANGED <<buyerVars, jobVars, chanVars, userJobs, rusage, cleanerVars,
                   price, dbVars, envVars, slot, fate, charged>>

(* ... the row is inserted; a paid job that costs something goes on to the *)
(* deduction, any other is finished (job_complete changes no state here).  *)
RecordDone(r) ==
    LET j == rjob[r] IN
    /\ rpc[r] = "record"
    /\ RecordJob(j, rbill[r])
    /\ IF Billable(j, rbill[r])
       THEN Goto(r, "deduct", j) /\ UNCHANGED <<rusage, rbill>>
       ELSE Finish(r)
    /\ UNCHANGED <<buyerVars, jobVars, chanVars, userJobs, cleanerVars, price,
                   balance, envVars, slot, fate, charged>>

(* The INSERT fails: the handler gives up, the node is not credited.       *)
RecordDoneFails(r) ==
    /\ rpc[r] = "record"
    /\ Finish(r)
    /\ UNCHANGED <<buyerVars, jobVars, chanVars, userJobs, cleanerVars, price,
                   dbVars, envVars, slot, fate, charged>>

(* DeductBalance: all of the cost ...                                      *)
DeductBalance(r) ==
    LET j == rjob[r] IN
    /\ rpc[r] = "deduct"
    /\ Deduct(UserOf[j], Cost(rbill[r]))
    /\ charged' = charged \union {j}
    /\ Finish(r)
    /\ UNCHANGED <<buyerVars, jobVars, chanVars, userJobs, cleanerVars, price,
                   recorded, earned, envVars, slot, fate>>

(* ... or nothing, when the balance is too small or the transaction fails; *)
(* the error is only logged.                                               *)
DeductFails(r) ==
    /\ rpc[r] = "deduct"
    /\ Finish(r)
    /\ UNCHANGED <<buyerVars, jobVars, chanVars, userJobs, cleanerVars, price,
                   dbVars, envVars, slot, fate, charged>>

----------------------------------------------------------------------------
(* jobCleanupLoop and the passing of time. *)

(* Ten minutes have passed since StartedAt.  A job still being sent is     *)
(* young: Send gives up after five seconds.                                *)
GrowOld(j) ==
    /\ j \in pendingJobs \ old
    /\ buyer[j] # "sending"
    /\ old' = old \union {j}
    /\ UNCHANGED <<buyerVars, pendingJobs, chanVars, userJobs, readerVars,
                   cleanerVars, price, dbVars, envVars, slot, fate, charged>>

(* A tick that finds old jobs: under jobsMu all of them are closed and     *)
(* deleted.  A tick that finds none changes nothing.                       *)
ExpireJobs ==
    /\ cpc = "loop" /\ ctodo = {}
    /\ old # {}
    /\ ctodo' = old
    /\ Close(old)
    /\ Settle(old, "expired")
    /\ UNCHANGED <<buyerVars, respCh, lastChunk, userJobs, readerVars, cpc, cjob,
                   cbill, price, dbVars, envVars, slot, charged>>

(* The line logged for an expired job takes the first eight bytes of the   *)
(* node id; a shorter id makes the goroutine, and so the process, panic.   *)
LogExpired ==
    /\ cpc' = IF node[cjob] \in ShortIds THEN "panic" ELSE "loop"
    /\ cjob' = NoJob

(* For each expired job in turn: release the slot ...                      *)
DecrExpired(j) ==
    /\ cpc = "loop"
    /\ j \in ctodo
    /\ ReleaseSlot(j)
    /\ ctodo' = ctodo \ {j}
    /\ cpc' = "bill" /\ cjob' = j
    /\ UNCHANGED <<buyerVars, jobVars, chanVars, readerVars, cbill, price, dbVars,
                   envVars, fate, charged>>

(* ... compute the amounts, unless no token was reported ...               *)
BillExpired ==
    /\ cpc = "bill"
    /\ \E u \in ParseUsage(cjob) :
         \/ /\ CapTokens(u).in + CapTokens(u).out > 0
            /\ \E err \in Rounding : cbill' = Earnings(ModelOf[cjob], u, price, err)
            /\ cpc' = "record"
            /\ UNCHANGED cjob
         \/ /\ CapTokens(u).in + CapTokens(u).out = 0
            /\ LogExpired
            /\ UNCHANGED cbill
    /\ UNCHANGED <<buyerVars, jobVars, chanVars, userJobs, readerVars, ctodo,
                   price, dbVars, envVars, slot, fate, charged>>

(* ... and insert the row, ignoring an error.  The user is not charged.    *)
RecordExpired ==
    /\ cpc = "record"
    /\ RecordJob(cjob, cbill) \/ UNCHANGED <<recorded, earned>>
    /\ LogExpired
    /\ cbill' = NoAmounts
    /\ UNCHANGED <<buyerVars, jobVars, chanVars, userJobs, readerVars, ctodo,
                   price, balance, envVars, slot, fate, charged>>

----------------------------------------------------------------------------
(* The environment: the price tracker and the process itself. *)

(* PriceTracker.fetch: an answer that is not positive, like no answer at   *)
(* all, leaves the price alone; the first fetch, when the process starts,  *)
(* is no different.                                                        *)
Fetched(usd) == IF usd > 0 THEN usd ELSE price

FetchPrice ==
    /\ \E usd \in Prices \union {0} : price' = Fetched(usd)
    /\ UNCHANGED <<buyerVars, jobVars, chanVars, userJobs, readerVars,
                   cleanerVars, dbVars, envVars, slot, fate, charged>>

(* CreditInvoice (module Invoices) adds to the balance of a user.          *)
TopUp(u) ==
    /\ \E a \in TopUps :
         /\ credited[u] + a <= MaxCredit
         /\ credited' = [credited EXCEPT ![u] = @ + a]
         /\ balance' = [balance EXCEPT ![u] = @ + a]
    /\ UNCHANGED <<buyerVars, jobVars, chanVars, userJobs, readerVars, cleanerVars,
                   price, recorded, earned, crashes, slot, fate, charged>>

(* The process is started again: every goroutine, map and channel is gone, *)
(* the database is kept, the price is unknown until a fetch succeeds.      *)
Restart ==
    /\ buyer' = [j \in Jobs |-> IF buyer[j] = "new" THEN "new" ELSE "returned"]
    /\ Settle(pendingJobs, "crashed")
    /\ respCh' = [j \in Jobs |-> 0]
    /\ userJobs' = [u \in Users |-> 0]
    /\ slot' = [j \in Jobs |-> IF slot[j] = "none" THEN "none" ELSE "free"]
    /\ rpc' = [r \in Readers |-> "read"]
    /\ rjob' = [r \in Readers |-> NoJob]
    /\ rusage' = [r \in Readers |-> NoUsage]
    /\ rbill' = [r \in Readers |-> NoAmounts]
    /\ cpc' = "loop" /\ ctodo' = {} /\ cjob' = NoJob /\ cbill' = NoAmounts
    /\ price' = 0
    /\ UNCHANGED <<node, free, doneCh, lastChunk, dbVars, credited, charged>>

(* The process ends at any point, also by its own Stop.                    *)
Crash ==
    /\ crashes < MaxCrashes
    /\ crashes' = crashes + 1
    /\ Restart

(* The cleaner's panic ends it as well.                                    *)
Panic ==
    /\ cpc = "panic"
    /\ Restart
    /\ UNCHANGED crashes

----------------------------------------------------------------------------

(* The handler's steps from the slot on; each is taken without waiting for *)
(* anybody but the node's socket, which Send bounds.                       *)
Assigning(j) == NodeGone(j) \/ InsertPending(j) \/ SendOk(j) \/ SendFails(j) \/ Unwind(j)

Streaming(j) == StreamChunk(j) \/ StreamDone(j)

Requesting(j) == Admit(j) \/ Refuse(j) \/ NoRoute(j) \/ IncrUserJobs(j)
                 \/ TooManyConcurrent(j)

(* Steps inside a message handler that has begun.                          *)
Handling(r) ==
    \/ DecrReject(r) \/ ForwardChunk(r) \/ CloseDone(r) \/ DecrDone(r)
    \/ BillDone(r) \/ RecordDone(r) \/ RecordDoneFails(r)
    \/ DeductBalance(r) \/ DeductFails(r)

Message(r, j) == HandleReject(r, j) \/ HandleProxyChunk(r, j) \/ HandleProxyDone(r, j)

Cleaning == ExpireJobs \/ (\E j \in Jobs : DecrExpired(j)) \/ BillExpired
            \/ RecordExpired \/ Panic

Next ==
    \/ \E j \in Jobs : Requesting(j) \/ Assigning(j) \/ Streaming(j) \/ Disconnect(j)
    \/ \E r \in Readers, j \in Jobs : Message(r, j)
    \/ \E r \in Readers : Handling(r)
    \/ \E j \in Jobs : GrowOld(j)
    \/ Cleaning
    \/ FetchPrice
    \/ \E u \in Users : TopUp(u)
    \/ Crash

(* A goroutine that can go on does; time passes.  Nothing makes a buyer    *)
(* ask or leave, a node answer, the price service reply or the process     *)
(* crash.  The server has no write timeout, so a write to a buyer that has *)
(* stopped reading need not return: the stream loop of such a request may  *)
(* stay where it is for ever.                                              *)
Fairness ==
    /\ \A j \in Jobs : WF_vars(Assigning(j)) /\ WF_vars(GrowOld(j))
    /\ \A j \in Jobs \ Stalled : WF_vars(Streaming(j))
    /\ \A r \in Readers : WF_vars(Handling(r))
    /\ WF_vars(Cleaning)

Spec == Init /\ [][Next]_vars

FairSpec == Spec /\ Fairness

----------------------------------------------------------------------------
(* Properties. *)

(* A Go channel panics when it is closed twice, which would end the        *)
(* process: however a reject, a done message of another connection of the  *)
(* node, the cleaner and the error path of AssignJob interleave, DoneCh is *)
(* closed at most once, and the error path leaves it alone.                *)
DoneChClosedOnce == \A j \in Jobs : doneCh[j] <= 1

(* A buyer in the stream loop is never forgotten: its job is in the map,   *)
(* where a reject, a done or the cleaner will find it, or DoneCh is closed,*)
(* or the reader that claimed the job has yet to close it.                 *)
NoOrphanBuyer ==
    \A j \in Jobs : buyer[j] = "streaming" =>
        \/ j \in pendingJobs
        \/ doneCh[j] > 0
        \/ \E r \in Readers : rpc[r] = "closing" /\ rjob[r] = j

HoldersOf(u) == {j \in JobsOf(u) : slot[j] = "held"}
TwiceOf(u)   == {j \in JobsOf(u) : slot[j] = "twice"}

(* The counter never exceeds the jobs that hold a slot, so no slot is      *)
(* leaked, and falls below them only by the jobs whose slot was released   *)
(* twice: by the node's answer and by AssignJob after a late Send error.   *)
SlotAccounting ==
    \A u \in Users :
        /\ userJobs[u] <= Cardinality(HoldersOf(u))
        /\ Cardinality(HoldersOf(u)) <= userJobs[u] + Cardinality(TwiceOf(u))

(* The limit on concurrent requests, as far as it holds: the jobs of a key *)
(* in the map exceed it by no more than its doubly released slots.         *)
ConcurrentLimit ==
    \A u \in Users :
        Cardinality(pendingJobs \intersect JobsOf(u))
            <= MaxConcurrent + Cardinality(TwiceOf(u))

(* The jobs table agrees with what happened: only a job that a node        *)
(* finished or that expired has a row, and a deduction was made only for a *)
(* paid job that its node finished and whose row is there.                 *)
RowsExplained ==
    /\ \A j \in recorded : fate[j] \in {"done", "expired"}
    /\ \A j \in charged : j \in recorded /\ fate[j] = "done" /\ ~free[j]

(* The user's balance is what it was minus the cost of the charged rows,   *)
(* so no interleaving of handlers loses or repeats a deduction.            *)
RowCosts == [j \in Jobs |-> Cost(earned[j])]

BalanceExplained ==
    \A u \in Users :
        balance[u] = InitBalance[u] + credited[u]
                     - SumOver(RowCosts, charged \intersect JobsOf(u))

(* Every request that took a slot gives it back, whether the node answers  *)
(* or disappears and the buyer reads, leaves or stalls.                    *)
SlotReleased == \A j \in Jobs : slot[j] = "held" ~> slot[j] # "held"

(* Every request that AssignJob accepted returns to its buyer, unless the  *)
(* buyer stops reading: a node that never answers, one that answers during *)
(* the send and other buyers that stall do not hold it up.                 *)
BuyerReturns == \A j \in Jobs \ Stalled : buyer[j] = "counted" ~> buyer[j] = "returned"

(* A read loop finishes every message it takes, so a buyer that reads      *)
(* slowly or has left cannot keep its node's other jobs from being heard.  *)
ReaderReturns == \A r \in Readers : rpc[r] # "read" ~> rpc[r] = "read"

(* The gateway implements the ledger of requests and money: every step     *)
(* opens, settles, credits or charges as JobLedger allows, or changes      *)
(* nothing the ledger sees.                                                *)
Ledger == INSTANCE JobLedger WITH
    Jobs <- Jobs, Users <- Users, UserOf <- UserOf, InitBalance <- InitBalance,
    free <- free, fate <- fate, recorded <- recorded, earned <- earned,
    charged <- charged, balance <- balance

ImplementsJobLedger == Ledger!LedgerSpec

----------------------------------------------------------------------------
(* The inductive invariant behind the safety properties above. *)

(* A reader that has taken a job out of the map and works on it, and one   *)
(* that has yet to release its slot.                                       *)
Settling(r) == rpc[r] \in {"closing", "decrReject", "decrDone", "bill", "record", "deduct"}
Owing(r)    == rpc[r] \in {"closing", "decrReject", "decrDone"}

(* The settling side still has to release j's slot.                        *)
Owed(j) == j \in ctodo \/ \E r \in Readers : Owing(r) /\ rjob[r] = j

(* AssignJob may still release it, too.                                    *)
MayUnwind(j) == buyer[j] \in {"sending", "unwind"}

RequestInv ==
    /\ old \subseteq pendingJobs
    /\ \A j \in Jobs :
        /\ j \in pendingJobs <=> fate[j] = "open"
        /\ buyer[j] \in {"new", "admitted", "counted"} => fate[j] = "none"
        /\ buyer[j] \in {"sending", "streaming", "unwind"} => fate[j] # "none"
        /\ buyer[j] = "unwind" => fate[j] # "open"
        /\ fate[j] \in {"none", "open"} => doneCh[j] = 0

ReaderInv ==
    /\ \A r \in Readers :
        /\ rpc[r] # "read" => rjob[r] \in Jobs /\ fate[rjob[r]] # "none"
        /\ rpc[r] = "decrReject" => fate[rjob[r]] = "rejected"
        /\ Settling(r) /\ rpc[r] # "decrReject" => fate[rjob[r]] = "done"
        /\ rpc[r] = "closing" => doneCh[rjob[r]] = 0
        /\ rpc[r] \in {"closing", "decrDone", "bill", "record"} => rjob[r] \notin recorded
        /\ rpc[r] = "deduct" =>
              /\ rjob[r] \in recorded \ charged
              /\ ~free[rjob[r]]
              /\ earned[rjob[r]] = rbill[r]
              /\ Cost(rbill[r]) > 0
    /\ \A r, q \in Readers : Settling(r) /\ Settling(q) /\ rjob[r] = rjob[q] => r = q

CleanerInv ==
    /\ \A j \in ctodo : fate[j] = "expired"
    /\ cpc \in {"bill", "record"} => cjob \in Jobs /\ fate[cjob] = "expired"

SlotInv ==
    \A j \in Jobs :
        /\ slot[j] = "none" => fate[j] = "none" /\ buyer[j] # "counted"
        /\ buyer[j] \in {"new", "admitted"} => slot[j] = "none"
        /\ buyer[j] = "counted" \/ j \in pendingJobs => slot[j] = "held"
        /\ slot[j] = "free" => ~(Owed(j) /\ MayUnwind(j))
        /\ slot[j] = "twice" => ~Owed(j) /\ ~MayUnwind(j)

(* NoOrphanBuyer, already while AssignJob is sending.                      *)
AwaitedInv ==
    \A j \in Jobs : buyer[j] \in {"sending", "streaming"} =>
        \/ j \in pendingJobs
        \/ doneCh[j] > 0
        \/ \E r \in Readers : rpc[r] = "closing" /\ rjob[r] = j

(* Every job is settled by one handler, which alone closes its channel,    *)
(* releases its slot on the settling side and writes its row; AssignJob is *)
(* the only other releaser.                                                *)
SettlementInv ==
    /\ TypeOK
    /\ RequestInv
    /\ ReaderInv
    /\ CleanerInv
    /\ SlotInv
    /\ AwaitedInv
    /\ DoneChClosedOnce
    /\ RowsExplained

============================================================================
