--------------------------- MODULE GatewayProofs ---------------------------
(***************************************************************************)
(* Proofs about Gateway for any number of jobs, users, nodes, connections  *)
(* and crashes, any limits, price table, reports and exchange rates.       *)
(***************************************************************************)
EXTENDS Gateway, BillingProofs, SumsProofs

(* The groups of variables and the one-line helpers are expanded           *)
(* everywhere.                                                             *)
USE DEF buyerVars, jobVars, chanVars, readerVars, cleanerVars, dbVars, envVars,
        vars, Close, HasSlot, Billable, Deduct, Offer, Fetched

(* The amounts a handler computes are amounts.                             *)
LEMMA AmountsType ==
    ASSUME TypeOK, NEW j \in Jobs, NEW u \in ParseUsage(j), NEW err \in Rounding
    PROVE  Earnings(ModelOf[j], u, price, err) \in Amounts
<1>1. u \in Usage
  BY DEF TypeOK, ParseUsage, Writers, Usage, NoUsage
<1>2. price \in Nat
  BY GatewayAssumption DEF TypeOK
<1> QED  BY <1>1, <1>2, EarningsBound DEF Amounts

(* The first state is well-typed.                                          *)
LEMMA InitType == Init => TypeOK
BY GatewayAssumption
   DEF Init, TypeOK, BuyerStates, ReaderStates, CleanerStates, SlotStates, Fates,
       NoUsage, Usage, NoAmounts, Amounts

(* Taking jobs out of pendingJobs keeps the types of what it changes.      *)
LEMMA SettleType ==
    ASSUME TypeOK, NEW S, NEW f \in Fates, Settle(S, f)
    PROVE  /\ pendingJobs' \subseteq Jobs
           /\ old' \subseteq Jobs
           /\ fate' \in [Jobs -> Fates]
BY DEF TypeOK, Settle

(* Giving a slot back keeps the counter within its range: it stops at      *)
(* zero.                                                                   *)
LEMMA ReleaseType ==
    ASSUME TypeOK, NEW j \in Jobs, ReleaseSlot(j)
    PROVE  /\ userJobs' \in [Users -> 0..MaxConcurrent]
           /\ slot' \in [Jobs -> SlotStates]
<1>1. UserOf[j] \in Users /\ MaxConcurrent \in Nat
  BY GatewayAssumption
<1> QED  BY <1>1 DEF TypeOK, ReleaseSlot, SlotStates

(* A read loop that ends its message keeps the types of its locals.        *)
LEMMA FinishType ==
    ASSUME TypeOK, NEW r \in Readers, Finish(r)
    PROVE  /\ rpc' \in [Readers -> ReaderStates]
           /\ rjob' \in [Readers -> Jobs \union {NoJob}]
           /\ rusage' \in [Readers -> Usage]
           /\ rbill' \in [Readers -> Amounts]
BY DEF TypeOK, Finish, ReaderStates, NoUsage, Usage, NoAmounts, Amounts

(* A read loop that goes on to its next step keeps the types of its        *)
(* locals.                                                                 *)
LEMMA GotoType ==
    ASSUME TypeOK, NEW r \in Readers, NEW pc \in ReaderStates, NEW j \in Jobs, Goto(r, pc, j)
    PROVE  /\ rpc' \in [Readers -> ReaderStates]
           /\ rjob' \in [Readers -> Jobs \union {NoJob}]
BY DEF TypeOK, Goto

(* After a restart every variable but the count of crashes has its type.   *)
LEMMA RestartType ==
    ASSUME TypeOK, Restart, crashes' \in 0..MaxCrashes
    PROVE  TypeOK'
<1>1. /\ pendingJobs' \subseteq Jobs /\ old' \subseteq Jobs /\ fate' \in [Jobs -> Fates]
  BY SettleType DEF Restart, Fates
<1>2. /\ respCh' \in [Jobs -> 0..ChunkCap] /\ userJobs' \in [Users -> 0..MaxConcurrent]
  BY GatewayAssumption DEF TypeOK, Restart
<1>3. /\ rpc' \in [Readers -> ReaderStates]
      /\ rjob' \in [Readers -> Jobs \union {NoJob}]
      /\ rusage' \in [Readers -> Usage]
      /\ rbill' \in [Readers -> Amounts]
  BY DEF Restart, ReaderStates, NoUsage, Usage, NoAmounts, Amounts
<1>4. /\ cpc' \in CleanerStates /\ ctodo' \subseteq Jobs
      /\ cjob' \in Jobs \union {NoJob} /\ cbill' \in Amounts
  BY DEF Restart, CleanerStates, NoAmounts, Amounts
<1>5. buyer' \in [Jobs -> BuyerStates] /\ slot' \in [Jobs -> SlotStates]
  BY DEF TypeOK, Restart, BuyerStates, SlotStates
<1> QED  BY <1>1, <1>2, <1>3, <1>4, <1>5 DEF TypeOK, Restart

(* Each action keeps the types.  That the job a handler works on is a job  *)
(* is part of ReaderInv and CleanerInv.                                    *)
LEMMA TypeStep ==
    ASSUME TypeOK, ReaderInv, CleanerInv, [Next]_vars
    PROVE  TypeOK'
<1>1. ASSUME NEW j \in Jobs, Admit(j)  PROVE TypeOK'
  BY <1>1 DEF TypeOK, BuyerStates, Admit
<1>2. ASSUME NEW j \in Jobs, Refuse(j)  PROVE TypeOK'
  BY <1>2 DEF TypeOK, BuyerStates, Refuse
<1>3. ASSUME NEW j \in Jobs, NoRoute(j)  PROVE TypeOK'
  BY <1>3 DEF TypeOK, BuyerStates, NoRoute
<1>4. ASSUME NEW j \in Jobs, IncrUserJobs(j)  PROVE TypeOK'
  <2>1. UserOf[j] \in Users /\ MaxConcurrent \in Nat
    BY GatewayAssumption
  <2>2. userJobs' \in [Users -> 0..MaxConcurrent]
    BY <1>4, <2>1 DEF TypeOK, IncrUserJobs
  <2>3. node' \in [Jobs -> Nodes \union {NoNode}]
    BY <1>4 DEF TypeOK, IncrUserJobs
  <2> QED  BY <1>4, <2>2, <2>3 DEF TypeOK, BuyerStates, SlotStates, IncrUserJobs
<1>5. ASSUME NEW j \in Jobs, TooManyConcurrent(j)  PROVE TypeOK'
  BY <1>5 DEF TypeOK, BuyerStates, TooManyConcurrent
<1>6. ASSUME NEW j \in Jobs, NodeGone(j)  PROVE TypeOK'
  BY <1>6, ReleaseType DEF TypeOK, BuyerStates, NodeGone
<1>7. ASSUME NEW j \in Jobs, InsertPending(j)  PROVE TypeOK'
  BY <1>7 DEF TypeOK, BuyerStates, Fates, InsertPending
<1>8. ASSUME NEW j \in Jobs, SendOk(j)  PROVE TypeOK'
  BY <1>8 DEF TypeOK, BuyerStates, SendOk
<1>9. ASSUME NEW j \in Jobs, SendFails(j)  PROVE TypeOK'
  BY <1>9, SettleType, GatewayAssumption DEF TypeOK, BuyerStates, Fates, SendFails
<1>10. ASSUME NEW j \in Jobs, Unwind(j)  PROVE TypeOK'
  BY <1>10, ReleaseType DEF TypeOK, BuyerStates, Unwind
<1>11. ASSUME NEW j \in Jobs, StreamChunk(j)  PROVE TypeOK'
  BY <1>11, GatewayAssumption DEF TypeOK, StreamChunk
<1>12. ASSUME NEW j \in Jobs, StreamDone(j)  PROVE TypeOK'
  BY <1>12, GatewayAssumption DEF TypeOK, BuyerStates, HandlerReturns, StreamDone
<1>13. ASSUME NEW j \in Jobs, Disconnect(j)  PROVE TypeOK'
  BY <1>13, GatewayAssumption DEF TypeOK, BuyerStates, HandlerReturns, Disconnect
<1>14. ASSUME NEW r \in Readers, NEW j \in Jobs, HandleReject(r, j)  PROVE TypeOK'
  BY <1>14, SettleType, GotoType DEF TypeOK, Fates, ReaderStates, HandleReject
<1>15. ASSUME NEW r \in Readers, NEW j \in Jobs, HandleProxyChunk(r, j)  PROVE TypeOK'
  BY <1>15, GotoType, GatewayAssumption DEF TypeOK, ReaderStates, HandleProxyChunk
<1>16. ASSUME NEW r \in Readers, NEW j \in Jobs, HandleProxyDone(r, j)  PROVE TypeOK'
  BY <1>16, SettleType, GotoType DEF TypeOK, Fates, ReaderStates, HandleProxyDone
<1>17. ASSUME NEW r \in Readers, DecrReject(r)  PROVE TypeOK'
  BY <1>17, ReleaseType, FinishType DEF TypeOK, ReaderInv, DecrReject
<1>18. ASSUME NEW r \in Readers, ForwardChunk(r)  PROVE TypeOK'
  <2>1. lastChunk' \in [Jobs -> Usage]
    BY <1>18 DEF TypeOK, ForwardChunk
  <2>2. respCh' \in [Jobs -> 0..ChunkCap]
    <3>1. ChunkCap \in Nat
      BY GatewayAssumption
    <3>2. respCh' = respCh \/ respCh[rjob[r]] < ChunkCap
      BY <1>18 DEF ForwardChunk
    <3>3. respCh' = respCh \/ respCh' = [respCh EXCEPT ![rjob[r]] = @ + 1]
      BY <1>18 DEF ForwardChunk
    <3>4. rjob[r] \in Jobs
      BY <1>18 DEF ForwardChunk, ReaderInv
    <3> QED  BY <3>1, <3>2, <3>3, <3>4 DEF TypeOK
  <2> QED  BY <1>18, <2>1, <2>2, FinishType DEF TypeOK, ForwardChunk
<1>19. ASSUME NEW r \in Readers, CloseDone(r)  PROVE TypeOK'
  BY <1>19, GotoType DEF TypeOK, ReaderInv, ReaderStates, CloseDone
<1>20. ASSUME NEW r \in Readers, DecrDone(r)  PROVE TypeOK'
  BY <1>20, ReleaseType, GotoType DEF TypeOK, ReaderInv, ReaderStates, DecrDone
<1>21. ASSUME NEW r \in Readers, BillDone(r)  PROVE TypeOK'
  BY <1>21, AmountsType, GotoType DEF TypeOK, ReaderInv, ReaderStates, BillDone
<1>22. ASSUME NEW r \in Readers, RecordDone(r)  PROVE TypeOK'
  <2>1. rjob[r] \in Jobs /\ rbill[r] \in Amounts
    BY <1>22 DEF TypeOK, ReaderInv, RecordDone
  <2>2. recorded' \subseteq Jobs /\ earned' \in [Jobs -> Amounts]
    BY <1>22, <2>1 DEF TypeOK, RecordDone, RecordJob
  <2>3. /\ rpc' \in [Readers -> ReaderStates]
        /\ rjob' \in [Readers -> Jobs \union {NoJob}]
        /\ rusage' \in [Readers -> Usage]
        /\ rbill' \in [Readers -> Amounts]
    BY <1>22, <2>1, FinishType, GotoType DEF TypeOK, ReaderStates, RecordDone
  <2> QED  BY <1>22, <2>2, <2>3 DEF TypeOK, RecordDone
<1>23. ASSUME NEW r \in Readers, RecordDoneFails(r)  PROVE TypeOK'
  BY <1>23, FinishType DEF TypeOK, RecordDoneFails
<1>24. ASSUME NEW r \in Readers, DeductBalance(r)  PROVE TypeOK'
  <2>1. rjob[r] \in Jobs /\ Cost(rbill[r]) \in Nat
    BY <1>24 DEF TypeOK, ReaderInv, DeductBalance, Amounts, Cost
  <2>2. balance' \in [Users -> Nat]
    BY <1>24, <2>1, GatewayAssumption DEF TypeOK, DeductBalance
  <2> QED  BY <1>24, <2>1, <2>2, FinishType DEF TypeOK, DeductBalance
<1>25. ASSUME NEW r \in Readers, DeductFails(r)  PROVE TypeOK'
  BY <1>25, FinishType DEF TypeOK, DeductFails
<1>26. CASE ExpireJobs
  BY <1>26, SettleType DEF TypeOK, Fates, ExpireJobs
<1>27. ASSUME NEW j \in Jobs, DecrExpired(j)  PROVE TypeOK'
  BY <1>27, ReleaseType DEF TypeOK, CleanerStates, DecrExpired
<1>28. CASE BillExpired
  BY <1>28, AmountsType DEF TypeOK, CleanerInv, CleanerStates, LogExpired, BillExpired
<1>29. CASE RecordExpired
  <2>1. cjob \in Jobs /\ cbill \in Amounts
    BY <1>29 DEF TypeOK, CleanerInv, RecordExpired
  <2>2. recorded' \subseteq Jobs /\ earned' \in [Jobs -> Amounts]
    BY <1>29, <2>1 DEF TypeOK, RecordExpired, RecordJob
  <2>3. cpc' \in CleanerStates /\ cjob' = NoJob /\ cbill' \in Amounts
    BY <1>29 DEF RecordExpired, LogExpired, CleanerStates, NoAmounts, Amounts
  <2> QED  BY <1>29, <2>2, <2>3 DEF TypeOK, RecordExpired
<1>30. CASE Panic
  BY <1>30, RestartType DEF TypeOK, Panic
<1>31. CASE FetchPrice
  BY <1>31, GatewayAssumption DEF TypeOK, FetchPrice
<1>32. ASSUME NEW u \in Users, TopUp(u)  PROVE TypeOK'
  BY <1>32, GatewayAssumption DEF TypeOK, TopUp
<1>33. CASE Crash
  BY <1>33, RestartType, GatewayAssumption DEF TypeOK, Crash
<1>34. ASSUME NEW j \in Jobs, GrowOld(j)  PROVE TypeOK'
  BY <1>34 DEF TypeOK, GrowOld
<1>35. CASE UNCHANGED vars
  BY <1>35 DEF TypeOK
<1> QED
  BY <1>1, <1>2, <1>3, <1>4, <1>5, <1>6, <1>7, <1>8, <1>9, <1>10, <1>11, <1>12,
     <1>13, <1>14, <1>15, <1>16, <1>17, <1>18, <1>19, <1>20, <1>21, <1>22, <1>23,
     <1>24, <1>25, <1>26, <1>27, <1>28, <1>29, <1>30, <1>31, <1>32, <1>33, <1>34,
     <1>35
     DEF Next, Requesting, Assigning, Streaming, Message, Handling, Cleaning

(* The map, the handler and the fate of a request stay in step.            *)
LEMMA RequestStep ==
    ASSUME TypeOK, RequestInv, ReaderInv, [Next]_vars
    PROVE  RequestInv'
<1>1. ASSUME NEW j \in Jobs, Admit(j)  PROVE RequestInv'
  BY <1>1 DEF TypeOK, RequestInv, Admit
<1>2. ASSUME NEW j \in Jobs, Refuse(j)  PROVE RequestInv'
  BY <1>2 DEF TypeOK, RequestInv, Refuse
<1>3. ASSUME NEW j \in Jobs, NoRoute(j)  PROVE RequestInv'
  BY <1>3 DEF TypeOK, RequestInv, NoRoute
<1>4. ASSUME NEW j \in Jobs, IncrUserJobs(j)  PROVE RequestInv'
  BY <1>4 DEF TypeOK, RequestInv, IncrUserJobs
<1>5. ASSUME NEW j \in Jobs, TooManyConcurrent(j)  PROVE RequestInv'
  BY <1>5 DEF TypeOK, RequestInv, TooManyConcurrent
<1>6. ASSUME NEW j \in Jobs, NodeGone(j)  PROVE RequestInv'
  BY <1>6 DEF TypeOK, RequestInv, NodeGone
<1>7. ASSUME NEW j \in Jobs, InsertPending(j)  PROVE RequestInv'
  BY <1>7 DEF TypeOK, RequestInv, InsertPending
<1>8. ASSUME NEW j \in Jobs, SendOk(j)  PROVE RequestInv'
  BY <1>8 DEF TypeOK, RequestInv, SendOk
<1>9. ASSUME NEW j \in Jobs, SendFails(j)  PROVE RequestInv'
  BY <1>9 DEF TypeOK, RequestInv, SendFails, Settle, Fates
<1>10. ASSUME NEW j \in Jobs, Unwind(j)  PROVE RequestInv'
  BY <1>10 DEF TypeOK, RequestInv, Unwind
<1>11. ASSUME NEW j \in Jobs, StreamDone(j)  PROVE RequestInv'
  BY <1>11 DEF TypeOK, RequestInv, StreamDone, HandlerReturns
<1>12. ASSUME NEW j \in Jobs, Disconnect(j)  PROVE RequestInv'
  BY <1>12 DEF TypeOK, RequestInv, Disconnect, HandlerReturns
<1>13. ASSUME NEW r \in Readers, NEW j \in Jobs, HandleReject(r, j)  PROVE RequestInv'
  BY <1>13 DEF TypeOK, RequestInv, HandleReject, Settle
<1>14. ASSUME NEW r \in Readers, NEW j \in Jobs, HandleProxyDone(r, j)  PROVE RequestInv'
  BY <1>14 DEF TypeOK, RequestInv, HandleProxyDone, Settle
<1>15. ASSUME NEW r \in Readers, CloseDone(r)  PROVE RequestInv'
  BY <1>15 DEF TypeOK, RequestInv, CloseDone, ReaderInv, Settling
<1>16. ASSUME NEW j \in Jobs, GrowOld(j)  PROVE RequestInv'
  BY <1>16 DEF TypeOK, RequestInv, GrowOld
<1>17. CASE ExpireJobs
  BY <1>17 DEF TypeOK, RequestInv, ExpireJobs, Settle
<1>18. CASE Panic
  BY <1>18 DEF TypeOK, RequestInv, Panic, Restart, Settle
<1>19. CASE Crash
  BY <1>19 DEF TypeOK, RequestInv, Crash, Restart, Settle
<1>20. ASSUME NEW j \in Jobs,
             StreamChunk(j) \/ DecrExpired(j)
      PROVE  RequestInv'
  BY <1>20 DEF RequestInv, StreamChunk, DecrExpired
<1>21. ASSUME NEW r \in Readers, NEW j \in Jobs, HandleProxyChunk(r, j)  PROVE RequestInv'
  BY <1>21 DEF RequestInv, HandleProxyChunk
<1>22. ASSUME NEW r \in Readers,
             DecrReject(r) \/ ForwardChunk(r) \/ DecrDone(r) \/ BillDone(r) \/
               RecordDone(r) \/ RecordDoneFails(r) \/ DeductBalance(r) \/
               DeductFails(r)
      PROVE  RequestInv'
  BY <1>22
     DEF RequestInv, DecrReject, ForwardChunk, DecrDone, BillDone, RecordDone,
         RecordDoneFails, DeductBalance, DeductFails
<1>23. ASSUME NEW u \in Users, TopUp(u)  PROVE RequestInv'
  BY <1>23 DEF RequestInv, TopUp
<1>24. CASE BillExpired \/ RecordExpired \/ FetchPrice \/ UNCHANGED vars
  BY <1>24 DEF RequestInv, BillExpired, RecordExpired, FetchPrice
<1> QED
  BY <1>1, <1>2, <1>3, <1>4, <1>5, <1>6, <1>7, <1>8, <1>9, <1>10, <1>11, <1>12,
     <1>13, <1>14, <1>15, <1>16, <1>17, <1>18, <1>19, <1>20, <1>21, <1>22, <1>23,
     <1>24
     DEF Next, Requesting, Assigning, Streaming, Message, Handling, Cleaning

(* The reader that took a job out of the map is the only one that settles  *)
(* it.                                                                     *)
LEMMA ReaderStep ==
    ASSUME TypeOK, RequestInv, ReaderInv, CleanerInv, RowsExplained, [Next]_vars
    PROVE  ReaderInv'
<1>1. ASSUME NEW j \in Jobs, Admit(j)  PROVE ReaderInv'
  BY <1>1 DEF TypeOK, ReaderInv, Settling, RequestInv, Admit
<1>2. ASSUME NEW j \in Jobs, InsertPending(j)  PROVE ReaderInv'
  BY <1>2 DEF TypeOK, ReaderInv, Settling, RequestInv, InsertPending
<1>3. ASSUME NEW j \in Jobs, SendFails(j)  PROVE ReaderInv'
  BY <1>3 DEF TypeOK, ReaderInv, Settling, RequestInv, Settle, SendFails
<1>4. ASSUME NEW r \in Readers, NEW j \in Jobs, HandleReject(r, j)  PROVE ReaderInv'
  BY <1>4
     DEF TypeOK, ReaderInv, Settling, RequestInv, Settle, Goto, RowsExplained,
         HandleReject
<1>5. ASSUME NEW r \in Readers, NEW j \in Jobs, HandleProxyChunk(r, j)  PROVE ReaderInv'
  BY <1>5 DEF TypeOK, ReaderInv, Settling, RequestInv, Goto, HandleProxyChunk
<1>6. ASSUME NEW r \in Readers, NEW j \in Jobs, HandleProxyDone(r, j)  PROVE ReaderInv'
  BY <1>6
     DEF TypeOK, ReaderInv, Settling, RequestInv, Settle, Goto, RowsExplained,
         HandleProxyDone
<1>7. ASSUME NEW r \in Readers, DecrReject(r)  PROVE ReaderInv'
  BY <1>7 DEF TypeOK, ReaderInv, Settling, Finish, DecrReject
<1>8. ASSUME NEW r \in Readers, ForwardChunk(r)  PROVE ReaderInv'
  BY <1>8 DEF TypeOK, ReaderInv, Settling, Finish, ForwardChunk
<1>9. ASSUME NEW r \in Readers, CloseDone(r)  PROVE ReaderInv'
  BY <1>9 DEF TypeOK, ReaderInv, Settling, Goto, CloseDone
<1>10. ASSUME NEW r \in Readers, DecrDone(r)  PROVE ReaderInv'
  BY <1>10 DEF TypeOK, ReaderInv, Settling, Goto, DecrDone
<1>11. ASSUME NEW r \in Readers, BillDone(r)  PROVE ReaderInv'
  BY <1>11 DEF TypeOK, ReaderInv, Settling, Goto, BillDone
<1>12. ASSUME NEW r \in Readers, RecordDone(r)  PROVE ReaderInv'
  BY <1>12
     DEF TypeOK, ReaderInv, Settling, Goto, Finish, RecordJob, RowsExplained,
         RecordDone
<1>13. ASSUME NEW r \in Readers, RecordDoneFails(r)  PROVE ReaderInv'
  BY <1>13 DEF TypeOK, ReaderInv, Settling, Finish, RecordDoneFails
<1>14. ASSUME NEW r \in Readers, DeductBalance(r)  PROVE ReaderInv'
  BY <1>14 DEF TypeOK, ReaderInv, Settling, Finish, DeductBalance
<1>15. ASSUME NEW r \in Readers, DeductFails(r)  PROVE ReaderInv'
  BY <1>15 DEF TypeOK, ReaderInv, Settling, Finish, DeductFails
<1>16. CASE ExpireJobs
  BY <1>16 DEF TypeOK, ReaderInv, Settling, RequestInv, Settle, ExpireJobs
<1>17. CASE RecordExpired
  BY <1>17 DEF TypeOK, ReaderInv, Settling, CleanerInv, RecordJob, RecordExpired
<1>18. CASE Panic
  BY <1>18 DEF TypeOK, ReaderInv, Settling, Restart, Settle, Panic
<1>19. CASE Crash
  BY <1>19 DEF TypeOK, ReaderInv, Settling, Restart, Settle, Crash
<1>20. ASSUME NEW j \in Jobs,
             Refuse(j) \/ NoRoute(j) \/ IncrUserJobs(j) \/ TooManyConcurrent(j) \/
               NodeGone(j) \/ SendOk(j) \/ Unwind(j) \/ StreamChunk(j) \/
               StreamDone(j) \/ Disconnect(j) \/ GrowOld(j) \/ DecrExpired(j)
      PROVE  ReaderInv'
  BY <1>20
     DEF ReaderInv, Settling, Refuse, NoRoute, IncrUserJobs, TooManyConcurrent,
         NodeGone, SendOk, Unwind, StreamChunk, StreamDone, Disconnect, GrowOld,
         DecrExpired
<1>21. ASSUME NEW u \in Users, TopUp(u)  PROVE ReaderInv'
  BY <1>21 DEF ReaderInv, Settling, TopUp
<1>22. CASE BillExpired \/ FetchPrice \/ UNCHANGED vars
  BY <1>22 DEF ReaderInv, Settling, BillExpired, FetchPrice
<1> QED
  BY <1>1, <1>2, <1>3, <1>4, <1>5, <1>6, <1>7, <1>8, <1>9, <1>10, <1>11, <1>12,
     <1>13, <1>14, <1>15, <1>16, <1>17, <1>18, <1>19, <1>20, <1>21, <1>22
     DEF Next, Requesting, Assigning, Streaming, Message, Handling, Cleaning

(* The cleaner works on jobs that it took out of the map itself.           *)
LEMMA CleanerStep ==
    ASSUME TypeOK, RequestInv, CleanerInv, [Next]_vars
    PROVE  CleanerInv'
<1>1. ASSUME NEW j \in Jobs, InsertPending(j)  PROVE CleanerInv'
  BY <1>1 DEF TypeOK, CleanerInv, RequestInv, InsertPending
<1>2. ASSUME NEW j \in Jobs, SendFails(j)  PROVE CleanerInv'
  BY <1>2 DEF TypeOK, CleanerInv, RequestInv, Settle, SendFails
<1>3. ASSUME NEW r \in Readers, NEW j \in Jobs, HandleReject(r, j)  PROVE CleanerInv'
  BY <1>3 DEF TypeOK, CleanerInv, RequestInv, Settle, HandleReject
<1>4. ASSUME NEW r \in Readers, NEW j \in Jobs, HandleProxyDone(r, j)  PROVE CleanerInv'
  BY <1>4 DEF TypeOK, CleanerInv, RequestInv, Settle, HandleProxyDone
<1>5. CASE ExpireJobs
  BY <1>5 DEF TypeOK, CleanerInv, RequestInv, Settle, ExpireJobs
<1>6. ASSUME NEW j \in Jobs, DecrExpired(j)  PROVE CleanerInv'
  BY <1>6 DEF TypeOK, CleanerInv, DecrExpired
<1>7. CASE BillExpired
  BY <1>7 DEF TypeOK, CleanerInv, LogExpired, BillExpired
<1>8. CASE RecordExpired
  BY <1>8 DEF TypeOK, CleanerInv, LogExpired, RecordExpired
<1>9. CASE Panic
  BY <1>9 DEF TypeOK, CleanerInv, Restart, Settle, Panic
<1>10. CASE Crash
  BY <1>10 DEF TypeOK, CleanerInv, Restart, Settle, Crash
<1>11. ASSUME NEW j \in Jobs,
             Admit(j) \/ Refuse(j) \/ NoRoute(j) \/ IncrUserJobs(j) \/
               TooManyConcurrent(j) \/ NodeGone(j) \/ SendOk(j) \/ Unwind(j) \/
               StreamChunk(j) \/ StreamDone(j) \/ Disconnect(j) \/ GrowOld(j)
      PROVE  CleanerInv'
  BY <1>11
     DEF CleanerInv, Admit, Refuse, NoRoute, IncrUserJobs, TooManyConcurrent,
         NodeGone, SendOk, Unwind, StreamChunk, StreamDone, Disconnect, GrowOld
<1>12. ASSUME NEW r \in Readers, NEW j \in Jobs, HandleProxyChunk(r, j)  PROVE CleanerInv'
  BY <1>12 DEF CleanerInv, HandleProxyChunk
<1>13. ASSUME NEW r \in Readers,
             DecrReject(r) \/ ForwardChunk(r) \/ CloseDone(r) \/ DecrDone(r) \/
               BillDone(r) \/ RecordDone(r) \/ RecordDoneFails(r) \/
               DeductBalance(r) \/ DeductFails(r)
      PROVE  CleanerInv'
  BY <1>13
     DEF CleanerInv, DecrReject, ForwardChunk, CloseDone, DecrDone, BillDone,
         RecordDone, RecordDoneFails, DeductBalance, DeductFails
<1>14. ASSUME NEW u \in Users, TopUp(u)  PROVE CleanerInv'
  BY <1>14 DEF CleanerInv, TopUp
<1>15. CASE FetchPrice \/ UNCHANGED vars
  BY <1>15 DEF CleanerInv, FetchPrice
<1> QED
  BY <1>1, <1>2, <1>3, <1>4, <1>5, <1>6, <1>7, <1>8, <1>9, <1>10, <1>11, <1>12,
     <1>13, <1>14, <1>15
     DEF Next, Requesting, Assigning, Streaming, Message, Handling, Cleaning

(* Rows and deductions are those of finished or expired jobs.              *)
LEMMA RowsStep ==
    ASSUME TypeOK, RequestInv, ReaderInv, CleanerInv, RowsExplained, [Next]_vars
    PROVE  RowsExplained'
<1>1. ASSUME NEW j \in Jobs, Admit(j)  PROVE RowsExplained'
  BY <1>1 DEF TypeOK, RowsExplained, RequestInv, Admit
<1>2. ASSUME NEW j \in Jobs, InsertPending(j)  PROVE RowsExplained'
  BY <1>2 DEF TypeOK, RowsExplained, RequestInv, InsertPending
<1>3. ASSUME NEW j \in Jobs, SendFails(j)  PROVE RowsExplained'
  BY <1>3 DEF TypeOK, RowsExplained, RequestInv, Settle, SendFails
<1>4. ASSUME NEW r \in Readers, NEW j \in Jobs, HandleReject(r, j)  PROVE RowsExplained'
  BY <1>4 DEF TypeOK, RowsExplained, RequestInv, Settle, HandleReject
<1>5. ASSUME NEW r \in Readers, NEW j \in Jobs, HandleProxyDone(r, j)  PROVE RowsExplained'
  BY <1>5 DEF TypeOK, RowsExplained, RequestInv, Settle, HandleProxyDone
<1>6. ASSUME NEW r \in Readers, RecordDone(r)  PROVE RowsExplained'
  BY <1>6 DEF TypeOK, RowsExplained, ReaderInv, Settling, RecordJob, RecordDone
<1>7. ASSUME NEW r \in Readers, DeductBalance(r)  PROVE RowsExplained'
  BY <1>7 DEF TypeOK, RowsExplained, ReaderInv, Settling, DeductBalance
<1>8. CASE ExpireJobs
  BY <1>8 DEF TypeOK, RowsExplained, RequestInv, Settle, ExpireJobs
<1>9. CASE RecordExpired
  BY <1>9 DEF TypeOK, RowsExplained, CleanerInv, RecordJob, RecordExpired
<1>10. CASE Panic
  BY <1>10 DEF TypeOK, RowsExplained, Restart, Settle, RequestInv, Panic
<1>11. CASE Crash
  BY <1>11 DEF TypeOK, RowsExplained, Restart, Settle, RequestInv, Crash
<1>12. ASSUME NEW j \in Jobs,
             Refuse(j) \/ NoRoute(j) \/ IncrUserJobs(j) \/ TooManyConcurrent(j) \/
               NodeGone(j) \/ SendOk(j) \/ Unwind(j) \/ StreamChunk(j) \/
               StreamDone(j) \/ Disconnect(j) \/ GrowOld(j) \/ DecrExpired(j)
      PROVE  RowsExplained'
  BY <1>12
     DEF RowsExplained, Refuse, NoRoute, IncrUserJobs, TooManyConcurrent,
         NodeGone, SendOk, Unwind, StreamChunk, StreamDone, Disconnect, GrowOld,
         DecrExpired
<1>13. ASSUME NEW r \in Readers, NEW j \in Jobs, HandleProxyChunk(r, j)  PROVE RowsExplained'
  BY <1>13 DEF RowsExplained, HandleProxyChunk
<1>14. ASSUME NEW r \in Readers,
             DecrReject(r) \/ ForwardChunk(r) \/ CloseDone(r) \/ DecrDone(r) \/
               BillDone(r) \/ RecordDoneFails(r) \/ DeductFails(r)
      PROVE  RowsExplained'
  BY <1>14
     DEF RowsExplained, DecrReject, ForwardChunk, CloseDone, DecrDone, BillDone,
         RecordDoneFails, DeductFails
<1>15. ASSUME NEW u \in Users, TopUp(u)  PROVE RowsExplained'
  BY <1>15 DEF RowsExplained, TopUp
<1>16. CASE BillExpired \/ FetchPrice \/ UNCHANGED vars
  BY <1>16 DEF RowsExplained, BillExpired, FetchPrice
<1> QED
  BY <1>1, <1>2, <1>3, <1>4, <1>5, <1>6, <1>7, <1>8, <1>9, <1>10, <1>11, <1>12,
     <1>13, <1>14, <1>15, <1>16
     DEF Next, Requesting, Assigning, Streaming, Message, Handling, Cleaning

(* Whoever closes DoneCh finds it open: the reject and the cleaner close   *)
(* it with the job still in the map, the done handler is its only settler. *)
LEMMA CloseStep ==
    ASSUME TypeOK, RequestInv, ReaderInv, DoneChClosedOnce, [Next]_vars
    PROVE  DoneChClosedOnce'
<1>1. ASSUME NEW r \in Readers, NEW j \in Jobs, HandleReject(r, j)  PROVE DoneChClosedOnce'
  BY <1>1 DEF TypeOK, DoneChClosedOnce, RequestInv, HandleReject
<1>2. ASSUME NEW r \in Readers, CloseDone(r)  PROVE DoneChClosedOnce'
  BY <1>2 DEF TypeOK, DoneChClosedOnce, ReaderInv, CloseDone
<1>3. CASE ExpireJobs
  BY <1>3 DEF TypeOK, DoneChClosedOnce, RequestInv, ExpireJobs
<1>4. CASE Panic
  BY <1>4 DEF TypeOK, DoneChClosedOnce, Restart, Panic
<1>5. CASE Crash
  BY <1>5 DEF TypeOK, DoneChClosedOnce, Restart, Crash
<1>6. ASSUME NEW j \in Jobs,
             Admit(j) \/ Refuse(j) \/ NoRoute(j) \/ IncrUserJobs(j) \/
               TooManyConcurrent(j) \/ NodeGone(j) \/ InsertPending(j) \/
               SendOk(j) \/ SendFails(j) \/ Unwind(j) \/ StreamChunk(j) \/
               StreamDone(j) \/ Disconnect(j) \/ GrowOld(j) \/ DecrExpired(j)
      PROVE  DoneChClosedOnce'
  BY <1>6
     DEF DoneChClosedOnce, Admit, Refuse, NoRoute, IncrUserJobs,
         TooManyConcurrent, NodeGone, InsertPending, SendOk, SendFails, Unwind,
         StreamChunk, StreamDone, Disconnect, GrowOld, DecrExpired
<1>7. ASSUME NEW r \in Readers, NEW j \in Jobs,
             HandleProxyChunk(r, j) \/ HandleProxyDone(r, j)
      PROVE  DoneChClosedOnce'
  BY <1>7 DEF DoneChClosedOnce, HandleProxyChunk, HandleProxyDone
<1>8. ASSUME NEW r \in Readers,
             DecrReject(r) \/ ForwardChunk(r) \/ DecrDone(r) \/ BillDone(r) \/
               RecordDone(r) \/ RecordDoneFails(r) \/ DeductBalance(r) \/
               DeductFails(r)
      PROVE  DoneChClosedOnce'
  BY <1>8
     DEF DoneChClosedOnce, DecrReject, ForwardChunk, DecrDone, BillDone,
         RecordDone, RecordDoneFails, DeductBalance, DeductFails
<1>9. ASSUME NEW u \in Users, TopUp(u)  PROVE DoneChClosedOnce'
  BY <1>9 DEF DoneChClosedOnce, TopUp
<1>10. CASE BillExpired \/ RecordExpired \/ FetchPrice \/ UNCHANGED vars
  BY <1>10 DEF DoneChClosedOnce, BillExpired, RecordExpired, FetchPrice
<1> QED
  BY <1>1, <1>2, <1>3, <1>4, <1>5, <1>6, <1>7, <1>8, <1>9, <1>10
     DEF Next, Requesting, Assigning, Streaming, Message, Handling, Cleaning

(* A job leaves the map with its channel closed, or with a reader that is  *)
(* about to close it, or with nobody waiting.                              *)
LEMMA AwaitedStep ==
    ASSUME TypeOK, RequestInv, ReaderInv, AwaitedInv, [Next]_vars
    PROVE  AwaitedInv'
<1>1. ASSUME NEW j \in Jobs, Admit(j)  PROVE AwaitedInv'
  BY <1>1 DEF TypeOK, AwaitedInv, Admit
<1>2. ASSUME NEW j \in Jobs, Refuse(j)  PROVE AwaitedInv'
  BY <1>2 DEF TypeOK, AwaitedInv, Refuse
<1>3. ASSUME NEW j \in Jobs, NoRoute(j)  PROVE AwaitedInv'
  BY <1>3 DEF TypeOK, AwaitedInv, NoRoute
<1>4. ASSUME NEW j \in Jobs, IncrUserJobs(j)  PROVE AwaitedInv'
  BY <1>4 DEF TypeOK, AwaitedInv, IncrUserJobs
<1>5. ASSUME NEW j \in Jobs, TooManyConcurrent(j)  PROVE AwaitedInv'
  BY <1>5 DEF TypeOK, AwaitedInv, TooManyConcurrent
<1>6. ASSUME NEW j \in Jobs, NodeGone(j)  PROVE AwaitedInv'
  BY <1>6 DEF TypeOK, AwaitedInv, NodeGone
<1>7. ASSUME NEW j \in Jobs, InsertPending(j)  PROVE AwaitedInv'
  BY <1>7 DEF TypeOK, AwaitedInv, InsertPending
<1>8. ASSUME NEW j \in Jobs, SendOk(j)  PROVE AwaitedInv'
  BY <1>8 DEF TypeOK, AwaitedInv, SendOk
<1>9. ASSUME NEW j \in Jobs, SendFails(j)  PROVE AwaitedInv'
  BY <1>9 DEF TypeOK, AwaitedInv, Settle, SendFails
<1>10. ASSUME NEW j \in Jobs, Unwind(j)  PROVE AwaitedInv'
  BY <1>10 DEF TypeOK, AwaitedInv, Unwind
<1>11. ASSUME NEW j \in Jobs, StreamDone(j)  PROVE AwaitedInv'
  BY <1>11 DEF TypeOK, AwaitedInv, HandlerReturns, StreamDone
<1>12. ASSUME NEW j \in Jobs, Disconnect(j)  PROVE AwaitedInv'
  BY <1>12 DEF TypeOK, AwaitedInv, HandlerReturns, Disconnect
<1>13. ASSUME NEW r \in Readers, NEW j \in Jobs, HandleReject(r, j)  PROVE AwaitedInv'
  BY <1>13 DEF TypeOK, AwaitedInv, Settle, Goto, RequestInv, HandleReject
<1>14. ASSUME NEW r \in Readers, NEW j \in Jobs, HandleProxyChunk(r, j)  PROVE AwaitedInv'
  BY <1>14 DEF TypeOK, AwaitedInv, Goto, HandleProxyChunk
<1>15. ASSUME NEW r \in Readers, NEW j \in Jobs, HandleProxyDone(r, j)  PROVE AwaitedInv'
  BY <1>15 DEF TypeOK, AwaitedInv, Settle, Goto, HandleProxyDone
<1>16. ASSUME NEW r \in Readers, DecrReject(r)  PROVE AwaitedInv'
  BY <1>16 DEF TypeOK, AwaitedInv, Finish, DecrReject
<1>17. ASSUME NEW r \in Readers, ForwardChunk(r)  PROVE AwaitedInv'
  BY <1>17 DEF TypeOK, AwaitedInv, Finish, ForwardChunk
<1>18. ASSUME NEW r \in Readers, CloseDone(r)  PROVE AwaitedInv'
  BY <1>18 DEF TypeOK, AwaitedInv, Goto, ReaderInv, CloseDone
<1>19. ASSUME NEW r \in Readers, DecrDone(r)  PROVE AwaitedInv'
  BY <1>19 DEF TypeOK, AwaitedInv, Goto, DecrDone
<1>20. ASSUME NEW r \in Readers, BillDone(r)  PROVE AwaitedInv'
  BY <1>20 DEF TypeOK, AwaitedInv, Goto, BillDone
<1>21. ASSUME NEW r \in Readers, RecordDone(r)  PROVE AwaitedInv'
  BY <1>21 DEF TypeOK, AwaitedInv, Goto, Finish, RecordDone
<1>22. ASSUME NEW r \in Readers, RecordDoneFails(r)  PROVE AwaitedInv'
  BY <1>22 DEF TypeOK, AwaitedInv, Finish, RecordDoneFails
<1>23. ASSUME NEW r \in Readers, DeductBalance(r)  PROVE AwaitedInv'
  BY <1>23 DEF TypeOK, AwaitedInv, Finish, DeductBalance
<1>24. ASSUME NEW r \in Readers, DeductFails(r)  PROVE AwaitedInv'
  BY <1>24 DEF TypeOK, AwaitedInv, Finish, DeductFails
<1>25. CASE ExpireJobs
  BY <1>25 DEF TypeOK, AwaitedInv, Settle, RequestInv, ExpireJobs
<1>26. CASE Panic
  BY <1>26 DEF TypeOK, AwaitedInv, Restart, Panic
<1>27. CASE Crash
  BY <1>27 DEF TypeOK, AwaitedInv, Restart, Crash
<1>28. ASSUME NEW j \in Jobs,
             StreamChunk(j) \/ GrowOld(j) \/ DecrExpired(j)
      PROVE  AwaitedInv'
  BY <1>28 DEF AwaitedInv, StreamChunk, GrowOld, DecrExpired
<1>29. ASSUME NEW u \in Users, TopUp(u)  PROVE AwaitedInv'
  BY <1>29 DEF AwaitedInv, TopUp
<1>30. CASE BillExpired \/ RecordExpired \/ FetchPrice \/ UNCHANGED vars
  BY <1>30 DEF AwaitedInv, BillExpired, RecordExpired, FetchPrice
<1> QED
  BY <1>1, <1>2, <1>3, <1>4, <1>5, <1>6, <1>7, <1>8, <1>9, <1>10, <1>11, <1>12,
     <1>13, <1>14, <1>15, <1>16, <1>17, <1>18, <1>19, <1>20, <1>21, <1>22, <1>23,
     <1>24, <1>25, <1>26, <1>27, <1>28, <1>29, <1>30
     DEF Next, Requesting, Assigning, Streaming, Message, Handling, Cleaning

(* A release keeps SlotInv when j's slot is held, or is free and neither   *)
(* side will release it again.                                             *)
LEMMA SlotRelease ==
    ASSUME TypeOK, SlotInv, NEW j \in Jobs, ReleaseSlot(j),
           j \notin pendingJobs,
           UNCHANGED <<pendingJobs, fate>>,
           \A i \in Jobs \ {j} : buyer'[i] = buyer[i] /\ (Owed(i)' => Owed(i)),
           buyer'[j] \notin {"new", "admitted", "counted"},
           ~(Owed(j)' /\ MayUnwind(j)'),
           slot[j] = "held" \/ (slot[j] = "free" /\ ~Owed(j)' /\ ~MayUnwind(j)')
    PROVE  SlotInv'
<1> SUFFICES ASSUME NEW i \in Jobs
             PROVE  /\ slot'[i] = "none" => fate'[i] = "none" /\ buyer'[i] # "counted"
                    /\ buyer'[i] \in {"new", "admitted"} => slot'[i] = "none"
                    /\ buyer'[i] = "counted" \/ i \in pendingJobs' => slot'[i] = "held"
                    /\ slot'[i] = "free" => ~(Owed(i)' /\ MayUnwind(i)')
                    /\ slot'[i] = "twice" => ~Owed(i)' /\ ~MayUnwind(i)'
  BY DEF SlotInv
<1>1. CASE i = j
  <2>1. slot'[j] = IF slot[j] = "held" THEN "free" ELSE "twice"
    BY DEF TypeOK, ReleaseSlot
  <2> QED  BY <1>1, <2>1
<1>2. CASE i # j
  <2>1. slot'[i] = slot[i] /\ buyer'[i] = buyer[i]
    BY <1>2 DEF TypeOK, ReleaseSlot
  <2>2. MayUnwind(i)' <=> MayUnwind(i)
    BY <2>1 DEF MayUnwind
  <2> QED  BY <1>2, <2>1, <2>2 DEF SlotInv
<1> QED  BY <1>1, <1>2

(* At most one settling handler and AssignJob release a slot, each once.   *)
LEMMA SlotStep ==
    ASSUME TypeOK, RequestInv, ReaderInv, CleanerInv, SlotInv, [Next]_vars
    PROVE  SlotInv'
<1>1. ASSUME NEW j \in Jobs, Admit(j)  PROVE SlotInv'
  BY <1>1 DEF TypeOK, SlotInv, Owed, Owing, MayUnwind, Admit
<1>2. ASSUME NEW j \in Jobs, Refuse(j)  PROVE SlotInv'
  BY <1>2 DEF TypeOK, SlotInv, Owed, Owing, MayUnwind, Refuse
<1>3. ASSUME NEW j \in Jobs, NoRoute(j)  PROVE SlotInv'
  BY <1>3 DEF TypeOK, SlotInv, Owed, Owing, MayUnwind, NoRoute
<1>4. ASSUME NEW j \in Jobs, IncrUserJobs(j)  PROVE SlotInv'
  BY <1>4 DEF TypeOK, SlotInv, Owed, Owing, MayUnwind, IncrUserJobs
<1>5. ASSUME NEW j \in Jobs, TooManyConcurrent(j)  PROVE SlotInv'
  BY <1>5 DEF TypeOK, SlotInv, Owed, Owing, MayUnwind, TooManyConcurrent
<1>6. ASSUME NEW j \in Jobs, NodeGone(j)  PROVE SlotInv'
  <2>1. slot[j] = "held" /\ j \notin pendingJobs /\ fate[j] = "none"
    BY <1>6 DEF RequestInv, SlotInv, NodeGone
  <2>2. ~Owed(j)
    BY <2>1 DEF ReaderInv, CleanerInv, Owed, Owing
  <2>3. \A i \in Jobs : Owed(i)' => Owed(i)
    BY <1>6 DEF Owed, Owing, NodeGone
  <2>4. /\ \A i \in Jobs \ {j} : buyer'[i] = buyer[i]
        /\ buyer'[j] = "returned"
        /\ ReleaseSlot(j) /\ UNCHANGED <<pendingJobs, fate>>
    BY <1>6 DEF TypeOK, NodeGone
  <2> QED  BY <2>1, <2>2, <2>3, <2>4, SlotRelease DEF MayUnwind
<1>7. ASSUME NEW j \in Jobs, InsertPending(j)  PROVE SlotInv'
  BY <1>7 DEF TypeOK, SlotInv, Owed, Owing, MayUnwind, RequestInv, InsertPending
<1>8. ASSUME NEW j \in Jobs, SendOk(j)  PROVE SlotInv'
  BY <1>8 DEF TypeOK, SlotInv, Owed, Owing, MayUnwind, SendOk
<1>9. ASSUME NEW j \in Jobs, SendFails(j)  PROVE SlotInv'
  BY <1>9 DEF TypeOK, SlotInv, Owed, Owing, MayUnwind, Settle, RequestInv, SendFails
<1>10. ASSUME NEW j \in Jobs, Unwind(j)  PROVE SlotInv'
  <2>1. fate[j] # "none" /\ j \notin pendingJobs /\ MayUnwind(j)
    BY <1>10 DEF RequestInv, MayUnwind, Unwind
  <2>2. slot[j] = "held" \/ (slot[j] = "free" /\ ~Owed(j))
    BY <2>1 DEF TypeOK, SlotStates, SlotInv
  <2>3. \A i \in Jobs : Owed(i)' => Owed(i)
    BY <1>10 DEF Owed, Owing, Unwind
  <2>4. /\ \A i \in Jobs \ {j} : buyer'[i] = buyer[i]
        /\ buyer'[j] = "returned"
        /\ ReleaseSlot(j) /\ UNCHANGED <<pendingJobs, fate>>
    BY <1>10 DEF TypeOK, Unwind
  <2> QED  BY <2>1, <2>2, <2>3, <2>4, SlotRelease DEF MayUnwind
<1>11. ASSUME NEW j \in Jobs, StreamDone(j)  PROVE SlotInv'
  BY <1>11 DEF TypeOK, SlotInv, Owed, Owing, MayUnwind, HandlerReturns, StreamDone
<1>12. ASSUME NEW j \in Jobs, Disconnect(j)  PROVE SlotInv'
  BY <1>12 DEF TypeOK, SlotInv, Owed, Owing, MayUnwind, HandlerReturns, Disconnect
<1>13. ASSUME NEW r \in Readers, NEW j \in Jobs, HandleReject(r, j)  PROVE SlotInv'
  BY <1>13
     DEF TypeOK, SlotInv, Owed, Owing, MayUnwind, Settle, Goto, RequestInv,
         HandleReject
<1>14. ASSUME NEW r \in Readers, NEW j \in Jobs, HandleProxyChunk(r, j)  PROVE SlotInv'
  BY <1>14 DEF TypeOK, SlotInv, Owed, Owing, MayUnwind, Goto, HandleProxyChunk
<1>15. ASSUME NEW r \in Readers, NEW j \in Jobs, HandleProxyDone(r, j)  PROVE SlotInv'
  BY <1>15
     DEF TypeOK, SlotInv, Owed, Owing, MayUnwind, Settle, Goto, RequestInv,
         HandleProxyDone
<1>16. ASSUME NEW r \in Readers, DecrReject(r)  PROVE SlotInv'
  <2>0. PICK k \in Jobs : k = rjob[r]
    BY <1>16 DEF ReaderInv, DecrReject
  <2>1. /\ fate[k] = "rejected" /\ k \notin pendingJobs /\ Owed(k)
        /\ buyer[k] \notin {"new", "admitted", "counted"}
    BY <1>16, <2>0 DEF TypeOK, RequestInv, ReaderInv, Owed, Owing, Settling, DecrReject
  <2>2. slot[k] = "held" \/ (slot[k] = "free" /\ ~MayUnwind(k))
    BY <2>1 DEF TypeOK, SlotStates, SlotInv
  <2>3. ~Owed(k)'
    BY <1>16, <2>0, <2>1 DEF TypeOK, ReaderInv, CleanerInv, Settling, Owed, Owing, Finish, DecrReject
  <2>4. \A i \in Jobs \ {k} : Owed(i)' => Owed(i)
    BY <1>16, <2>0, <2>1 DEF TypeOK, Owed, Owing, Finish, DecrReject
  <2>5. ReleaseSlot(k) /\ UNCHANGED <<buyer, pendingJobs, fate>>
    BY <1>16, <2>0 DEF DecrReject
  <2> QED  BY <2>1, <2>2, <2>3, <2>4, <2>5, SlotRelease DEF MayUnwind
<1>17. ASSUME NEW r \in Readers, ForwardChunk(r)  PROVE SlotInv'
  BY <1>17 DEF TypeOK, SlotInv, Owed, Owing, MayUnwind, Finish, ForwardChunk
<1>18. ASSUME NEW r \in Readers, CloseDone(r)  PROVE SlotInv'
  BY <1>18 DEF TypeOK, SlotInv, Owed, Owing, MayUnwind, Goto, CloseDone
<1>19. ASSUME NEW r \in Readers, DecrDone(r)  PROVE SlotInv'
  <2>0. PICK k \in Jobs : k = rjob[r]
    BY <1>19 DEF ReaderInv, DecrDone
  <2>1. /\ fate[k] = "done" /\ k \notin pendingJobs /\ Owed(k)
        /\ buyer[k] \notin {"new", "admitted", "counted"}
    BY <1>19, <2>0 DEF TypeOK, RequestInv, ReaderInv, Owed, Owing, Settling, DecrDone
  <2>2. slot[k] = "held" \/ (slot[k] = "free" /\ ~MayUnwind(k))
    BY <2>1 DEF TypeOK, SlotStates, SlotInv
  <2>3. ~Owed(k)'
    BY <1>19, <2>0, <2>1 DEF TypeOK, ReaderInv, CleanerInv, Settling, Owed, Owing, Goto, DecrDone
  <2>4. \A i \in Jobs \ {k} : Owed(i)' => Owed(i)
    BY <1>19, <2>0, <2>1 DEF TypeOK, Owed, Owing, Goto, DecrDone
  <2>5. ReleaseSlot(k) /\ UNCHANGED <<buyer, pendingJobs, fate>>
    BY <1>19, <2>0 DEF DecrDone
  <2> QED  BY <2>1, <2>2, <2>3, <2>4, <2>5, SlotRelease DEF MayUnwind
<1>20. ASSUME NEW r \in Readers, BillDone(r)  PROVE SlotInv'
  BY <1>20 DEF TypeOK, SlotInv, Owed, Owing, MayUnwind, Goto, BillDone
<1>21. ASSUME NEW r \in Readers, RecordDone(r)  PROVE SlotInv'
  BY <1>21 DEF TypeOK, SlotInv, Owed, Owing, MayUnwind, Goto, Finish, RecordDone
<1>22. ASSUME NEW r \in Readers, RecordDoneFails(r)  PROVE SlotInv'
  BY <1>22 DEF TypeOK, SlotInv, Owed, Owing, MayUnwind, Finish, RecordDoneFails
<1>23. ASSUME NEW r \in Readers, DeductBalance(r)  PROVE SlotInv'
  BY <1>23 DEF TypeOK, SlotInv, Owed, Owing, MayUnwind, Finish, DeductBalance
<1>24. ASSUME NEW r \in Readers, DeductFails(r)  PROVE SlotInv'
  BY <1>24 DEF TypeOK, SlotInv, Owed, Owing, MayUnwind, Finish, DeductFails
<1>25. CASE ExpireJobs
  BY <1>25 DEF TypeOK, SlotInv, Owed, Owing, MayUnwind, Settle, RequestInv, ExpireJobs
<1>26. ASSUME NEW j \in Jobs, DecrExpired(j)  PROVE SlotInv'
  <2>1. /\ fate[j] = "expired" /\ j \notin pendingJobs /\ Owed(j)
        /\ buyer[j] \notin {"new", "admitted", "counted"}
    BY <1>26 DEF TypeOK, RequestInv, CleanerInv, Owed, Owing, Settling, DecrExpired
  <2>2. slot[j] = "held" \/ (slot[j] = "free" /\ ~MayUnwind(j))
    BY <2>1 DEF TypeOK, SlotStates, SlotInv
  <2>3. ~Owed(j)'
    BY <1>26, <2>1 DEF TypeOK, ReaderInv, CleanerInv, Settling, Owed, Owing, DecrExpired
  <2>4. \A i \in Jobs \ {j} : Owed(i)' => Owed(i)
    BY <1>26, <2>1 DEF TypeOK, Owed, Owing, DecrExpired
  <2>5. ReleaseSlot(j) /\ UNCHANGED <<buyer, pendingJobs, fate>>
    BY <1>26 DEF DecrExpired
  <2> QED  BY <2>1, <2>2, <2>3, <2>4, <2>5, SlotRelease DEF MayUnwind
<1>27. CASE Panic
  BY <1>27 DEF TypeOK, SlotInv, Owed, Owing, MayUnwind, Restart, Settle, Panic
<1>28. CASE Crash
  BY <1>28 DEF TypeOK, SlotInv, Owed, Owing, MayUnwind, Restart, Settle, Crash
<1>29. ASSUME NEW j \in Jobs,
             StreamChunk(j) \/ GrowOld(j)
      PROVE  SlotInv'
  BY <1>29 DEF SlotInv, Owed, Owing, MayUnwind, StreamChunk, GrowOld
<1>30. ASSUME NEW u \in Users, TopUp(u)  PROVE SlotInv'
  BY <1>30 DEF SlotInv, Owed, Owing, MayUnwind, TopUp
<1>31. CASE BillExpired \/ RecordExpired \/ FetchPrice \/ UNCHANGED vars
  BY <1>31
     DEF SlotInv, Owed, Owing, MayUnwind, BillExpired, RecordExpired, FetchPrice
<1> QED
  BY <1>1, <1>2, <1>3, <1>4, <1>5, <1>6, <1>7, <1>8, <1>9, <1>10, <1>11, <1>12,
     <1>13, <1>14, <1>15, <1>16, <1>17, <1>18, <1>19, <1>20, <1>21, <1>22, <1>23,
     <1>24, <1>25, <1>26, <1>27, <1>28, <1>29, <1>30, <1>31
     DEF Next, Requesting, Assigning, Streaming, Message, Handling, Cleaning

----------------------------------------------------------------------------
(* Slots. *)

(* The holders of a user's slots, and those released twice, can be         *)
(* counted.                                                                *)
LEMMA SlotSetsFinite ==
    ASSUME NEW u
    PROVE  /\ IsFiniteSet(HoldersOf(u)) /\ IsFiniteSet(TwiceOf(u))
           /\ Cardinality(HoldersOf(u)) \in Nat /\ Cardinality(TwiceOf(u)) \in Nat
<1>1. HoldersOf(u) \subseteq Jobs /\ TwiceOf(u) \subseteq Jobs
  BY DEF HoldersOf, TwiceOf, JobsOf
<1> QED  BY <1>1, GatewayAssumption, FS_Subset, FS_CardinalityType

(* A release takes a holder off the count, or adds a double release.       *)
LEMMA ReleaseAccounting ==
    ASSUME TypeOK, SlotAccounting, NEW j \in Jobs, ReleaseSlot(j),
           slot[j] \in {"held", "free"}
    PROVE  SlotAccounting'
<1> SUFFICES ASSUME NEW u \in Users
             PROVE  /\ userJobs'[u] <= Cardinality(HoldersOf(u)')
                    /\ Cardinality(HoldersOf(u)') <= userJobs'[u] + Cardinality(TwiceOf(u)')
  BY DEF SlotAccounting
<1>1. /\ userJobs[u] <= Cardinality(HoldersOf(u))
      /\ Cardinality(HoldersOf(u)) <= userJobs[u] + Cardinality(TwiceOf(u))
  BY DEF SlotAccounting
<1>2. UserOf[j] \in Users /\ userJobs[u] \in Nat
  BY GatewayAssumption DEF TypeOK
<1>3. CASE UserOf[j] # u
  <2>1. HoldersOf(u)' = HoldersOf(u) /\ TwiceOf(u)' = TwiceOf(u)
    BY <1>3 DEF TypeOK, ReleaseSlot, HoldersOf, TwiceOf, JobsOf
  <2>2. userJobs'[u] = userJobs[u]
    BY <1>2, <1>3 DEF TypeOK, ReleaseSlot
  <2> QED  BY <1>1, <2>1, <2>2
<1>4. CASE UserOf[j] = u
  <2>1. userJobs'[u] = IF userJobs[u] > 0 THEN userJobs[u] - 1 ELSE 0
    BY <1>2, <1>4 DEF TypeOK, ReleaseSlot
  <2>2. CASE slot[j] = "held"
    <3>1. HoldersOf(u)' = HoldersOf(u) \ {j} /\ TwiceOf(u)' = TwiceOf(u)
      BY <1>4, <2>2 DEF TypeOK, ReleaseSlot, HoldersOf, TwiceOf, JobsOf
    <3>2. j \in HoldersOf(u)
      BY <1>4, <2>2 DEF HoldersOf, JobsOf
    <3>3. Cardinality(HoldersOf(u) \ {j}) = Cardinality(HoldersOf(u)) - 1
          /\ Cardinality(HoldersOf(u) \ {j}) \in Nat
      BY <3>2, SlotSetsFinite, FS_RemoveElement, FS_CardinalityType
    <3> QED  BY <1>1, <1>2, <2>1, <3>1, <3>3, SlotSetsFinite
  <2>3. CASE slot[j] = "free"
    <3>1. HoldersOf(u)' = HoldersOf(u) /\ TwiceOf(u)' = TwiceOf(u) \union {j}
      BY <1>4, <2>3 DEF TypeOK, ReleaseSlot, HoldersOf, TwiceOf, JobsOf
    <3>2. j \notin TwiceOf(u)
      BY <2>3 DEF TwiceOf
    <3>3. Cardinality(TwiceOf(u) \union {j}) = Cardinality(TwiceOf(u)) + 1
      BY <3>2, SlotSetsFinite, FS_AddElement
    <3> QED  BY <1>1, <1>2, <2>1, <3>1, <3>3, SlotSetsFinite
  <2> QED  BY <2>2, <2>3
<1> QED  BY <1>3, <1>4

(* Taking a slot raises the counter and adds the holder.                   *)
LEMMA IncrAccounting ==
    ASSUME TypeOK, SlotInv, SlotAccounting, NEW j \in Jobs, IncrUserJobs(j)
    PROVE  SlotAccounting'
<1> SUFFICES ASSUME NEW u \in Users
             PROVE  /\ userJobs'[u] <= Cardinality(HoldersOf(u)')
                    /\ Cardinality(HoldersOf(u)') <= userJobs'[u] + Cardinality(TwiceOf(u)')
  BY DEF SlotAccounting
<1>1. /\ userJobs[u] <= Cardinality(HoldersOf(u))
      /\ Cardinality(HoldersOf(u)) <= userJobs[u] + Cardinality(TwiceOf(u))
  BY DEF SlotAccounting
<1>2. UserOf[j] \in Users /\ userJobs[u] \in Nat
  BY GatewayAssumption DEF TypeOK
<1>3. slot[j] = "none"
  BY DEF SlotInv, IncrUserJobs
<1>4. TwiceOf(u)' = TwiceOf(u)
  BY <1>3 DEF TypeOK, IncrUserJobs, TwiceOf, JobsOf
<1>5. CASE UserOf[j] # u
  <2>1. HoldersOf(u)' = HoldersOf(u) /\ userJobs'[u] = userJobs[u]
    BY <1>2, <1>5 DEF TypeOK, IncrUserJobs, HoldersOf, JobsOf
  <2> QED  BY <1>1, <1>4, <2>1
<1>6. CASE UserOf[j] = u
  <2>1. HoldersOf(u)' = HoldersOf(u) \union {j} /\ userJobs'[u] = userJobs[u] + 1
    BY <1>2, <1>6 DEF TypeOK, IncrUserJobs, HoldersOf, JobsOf
  <2>2. j \notin HoldersOf(u)
    BY <1>3 DEF HoldersOf
  <2>3. Cardinality(HoldersOf(u) \union {j}) = Cardinality(HoldersOf(u)) + 1
    BY <2>2, SlotSetsFinite, FS_AddElement
  <2> QED  BY <1>1, <1>2, <1>4, <2>1, <2>3, SlotSetsFinite
<1> QED  BY <1>5, <1>6

(* A restart leaves no holders and counters at zero.                       *)
LEMMA RestartAccounting ==
    ASSUME TypeOK, Restart
    PROVE  SlotAccounting'
<1> SUFFICES ASSUME NEW u \in Users
             PROVE  /\ userJobs'[u] <= Cardinality(HoldersOf(u)')
                    /\ Cardinality(HoldersOf(u)') <= userJobs'[u] + Cardinality(TwiceOf(u)')
  BY DEF SlotAccounting
<1>1. HoldersOf(u)' = {} /\ TwiceOf(u)' = {} /\ userJobs'[u] = 0
  BY DEF Restart, HoldersOf, TwiceOf, JobsOf
<1> QED  BY <1>1, FS_EmptySet

(* incrUserJobs, the five places that call decrUserJobs, and a restart.    *)
LEMMA AccountingStep ==
    ASSUME TypeOK, RequestInv, ReaderInv, CleanerInv, SlotInv, SlotAccounting, [Next]_vars
    PROVE  SlotAccounting'
<1>1. ASSUME NEW j \in Jobs, IncrUserJobs(j)  PROVE SlotAccounting'
  BY <1>1, IncrAccounting
<1>2. ASSUME NEW j \in Jobs, NodeGone(j)  PROVE SlotAccounting'
  <2>1. slot[j] = "held"
    BY <1>2 DEF SlotInv, NodeGone
  <2> QED  BY <1>2, <2>1, ReleaseAccounting DEF NodeGone
<1>3. ASSUME NEW j \in Jobs, Unwind(j)  PROVE SlotAccounting'
  <2>1. slot[j] \in {"held", "free"}
    BY <1>3 DEF TypeOK, SlotStates, RequestInv, SlotInv, MayUnwind, Unwind
  <2> QED  BY <1>3, <2>1, ReleaseAccounting DEF Unwind
<1>4. ASSUME NEW r \in Readers, DecrReject(r)  PROVE SlotAccounting'
  <2>1. rjob[r] \in Jobs /\ slot[rjob[r]] \in {"held", "free"}
    BY <1>4 DEF TypeOK, SlotStates, ReaderInv, SlotInv, Owed, Owing, DecrReject
  <2> QED  BY <1>4, <2>1, ReleaseAccounting DEF DecrReject
<1>5. ASSUME NEW r \in Readers, DecrDone(r)  PROVE SlotAccounting'
  <2>1. rjob[r] \in Jobs /\ slot[rjob[r]] \in {"held", "free"}
    BY <1>5 DEF TypeOK, SlotStates, ReaderInv, SlotInv, Owed, Owing, DecrDone
  <2> QED  BY <1>5, <2>1, ReleaseAccounting DEF DecrDone
<1>6. ASSUME NEW j \in Jobs, DecrExpired(j)  PROVE SlotAccounting'
  <2>1. slot[j] \in {"held", "free"}
    BY <1>6 DEF TypeOK, SlotStates, CleanerInv, SlotInv, Owed, DecrExpired
  <2> QED  BY <1>6, <2>1, ReleaseAccounting DEF DecrExpired
<1>7. CASE Panic
  BY <1>7, RestartAccounting DEF Panic
<1>8. CASE Crash
  BY <1>8, RestartAccounting DEF Crash
<1>9. ASSUME NEW j \in Jobs,
             Admit(j) \/ Refuse(j) \/ NoRoute(j) \/ TooManyConcurrent(j) \/
               InsertPending(j) \/ SendOk(j) \/ SendFails(j) \/ StreamChunk(j) \/
               StreamDone(j) \/ Disconnect(j) \/ GrowOld(j)
      PROVE  SlotAccounting'
  BY <1>9
     DEF SlotAccounting, HoldersOf, TwiceOf, Admit, Refuse, NoRoute,
         TooManyConcurrent, InsertPending, SendOk, SendFails, StreamChunk,
         StreamDone, Disconnect, GrowOld
<1>10. ASSUME NEW r \in Readers, NEW j \in Jobs,
             HandleReject(r, j) \/ HandleProxyChunk(r, j) \/ HandleProxyDone(r, j)
      PROVE  SlotAccounting'
  BY <1>10
     DEF SlotAccounting, HoldersOf, TwiceOf, HandleReject, HandleProxyChunk,
         HandleProxyDone
<1>11. ASSUME NEW r \in Readers,
             ForwardChunk(r) \/ CloseDone(r) \/ BillDone(r) \/ RecordDone(r) \/
               RecordDoneFails(r) \/ DeductBalance(r) \/ DeductFails(r)
      PROVE  SlotAccounting'
  BY <1>11
     DEF SlotAccounting, HoldersOf, TwiceOf, ForwardChunk, CloseDone, BillDone,
         RecordDone, RecordDoneFails, DeductBalance, DeductFails
<1>12. ASSUME NEW u \in Users, TopUp(u)  PROVE SlotAccounting'
  BY <1>12 DEF SlotAccounting, HoldersOf, TwiceOf, TopUp
<1>13. CASE ExpireJobs \/ BillExpired \/ RecordExpired \/ FetchPrice \/ UNCHANGED vars
  BY <1>13
     DEF SlotAccounting, HoldersOf, TwiceOf, ExpireJobs, BillExpired,
         RecordExpired, FetchPrice
<1> QED
  BY <1>1, <1>2, <1>3, <1>4, <1>5, <1>6, <1>7, <1>8, <1>9, <1>10, <1>11, <1>12,
     <1>13
     DEF Next, Requesting, Assigning, Streaming, Message, Handling, Cleaning

----------------------------------------------------------------------------
(* The theorems. *)

(* The first state satisfies the invariants.                               *)
LEMMA InitInv == Init => SettlementInv /\ SlotAccounting
<1> SUFFICES ASSUME Init  PROVE SettlementInv /\ SlotAccounting
  OBVIOUS
<1>1. TypeOK
  BY InitType
<1>2. RequestInv /\ CleanerInv /\ AwaitedInv /\ DoneChClosedOnce /\ RowsExplained
  BY DEF Init, RequestInv, CleanerInv, AwaitedInv, DoneChClosedOnce, RowsExplained
<1>3. ReaderInv
  BY DEF Init, ReaderInv, Settling
<1>4. SlotInv
  BY DEF Init, SlotInv
<1>5. SlotAccounting
  <2> SUFFICES ASSUME NEW u \in Users
               PROVE  /\ userJobs[u] <= Cardinality(HoldersOf(u))
                      /\ Cardinality(HoldersOf(u)) <= userJobs[u] + Cardinality(TwiceOf(u))
    BY DEF SlotAccounting
  <2>1. HoldersOf(u) = {} /\ TwiceOf(u) = {} /\ userJobs[u] = 0
    BY DEF Init, HoldersOf, TwiceOf, JobsOf
  <2> QED  BY <2>1, FS_EmptySet
<1> QED  BY <1>1, <1>2, <1>3, <1>4, <1>5 DEF SettlementInv

(* SettlementInv is an invariant of the gateway: one handler settles each  *)
(* job, whatever the interleaving of buyers, connections, the cleaner and  *)
(* crashes.                                                                *)
THEOREM SettlementInvariant == Spec => []SettlementInv
<1>1. SettlementInv /\ [Next]_vars => SettlementInv'
  BY TypeStep, RequestStep, ReaderStep, CleanerStep, RowsStep, CloseStep, AwaitedStep,
     SlotStep
     DEF SettlementInv
<1> QED  BY <1>1, InitInv, PTL DEF Spec

(* Type correctness, with the counter of a user within MaxConcurrent.      *)
THEOREM TypeCorrect == Spec => []TypeOK
<1>1. SettlementInv => TypeOK
  BY DEF SettlementInv
<1> QED  BY <1>1, SettlementInvariant, PTL

(* No DoneCh is ever closed twice: the close that would panic and end the  *)
(* process is unreachable.                                                 *)
THEOREM NoDoubleClose == Spec => []DoneChClosedOnce
<1>1. SettlementInv => DoneChClosedOnce
  BY DEF SettlementInv
<1> QED  BY <1>1, SettlementInvariant, PTL

(* A buyer that waits in the stream loop always has somebody who will end  *)
(* its wait.                                                               *)
THEOREM BuyersAreAwaited == Spec => []NoOrphanBuyer
<1>1. SettlementInv => NoOrphanBuyer
  BY DEF SettlementInv, AwaitedInv, NoOrphanBuyer
<1> QED  BY <1>1, SettlementInvariant, PTL

(* Credits and deductions belong to jobs that earned them.                 *)
THEOREM RowsAreExplained == Spec => []RowsExplained
<1>1. SettlementInv => RowsExplained
  BY DEF SettlementInv
<1> QED  BY <1>1, SettlementInvariant, PTL

(* userJobs counts the holders of a slot, short by double releases only.   *)
THEOREM SlotsAreAccounted == Spec => []SlotAccounting
<1>1. SettlementInv /\ SlotAccounting /\ [Next]_vars => SlotAccounting'
  BY AccountingStep DEF SettlementInv
<1> QED  BY <1>1, InitInv, SettlementInvariant, PTL DEF Spec

(* The limit on concurrent requests holds up to the doubly released slots. *)
THEOREM LimitHolds == Spec => []ConcurrentLimit
<1>1. ASSUME SettlementInv, SlotAccounting  PROVE ConcurrentLimit
  <2> SUFFICES ASSUME NEW u \in Users
               PROVE  Cardinality(pendingJobs \intersect JobsOf(u))
                        <= MaxConcurrent + Cardinality(TwiceOf(u))
    BY DEF ConcurrentLimit
  <2>1. pendingJobs \intersect JobsOf(u) \subseteq HoldersOf(u)
    BY <1>1 DEF SettlementInv, SlotInv, HoldersOf, JobsOf
  <2>2. /\ Cardinality(pendingJobs \intersect JobsOf(u)) <= Cardinality(HoldersOf(u))
        /\ Cardinality(pendingJobs \intersect JobsOf(u)) \in Nat
    BY <2>1, SlotSetsFinite, FS_Subset, FS_CardinalityType
  <2>3. Cardinality(HoldersOf(u)) <= userJobs[u] + Cardinality(TwiceOf(u))
    BY <1>1 DEF SlotAccounting
  <2>4. userJobs[u] \in 0..MaxConcurrent /\ MaxConcurrent \in Nat
    BY <1>1, GatewayAssumption DEF SettlementInv, TypeOK
  <2> QED  BY <2>2, <2>3, <2>4, SlotSetsFinite
<1> QED  BY <1>1, SettlementInvariant, SlotsAreAccounted, PTL

----------------------------------------------------------------------------
(* Every deduction is explained by a row. *)

(* The costs of rows are naturals, so they have a sum over any set of      *)
(* jobs.                                                                   *)
LEMMA RowCostsInt ==
    ASSUME TypeOK
    PROVE  /\ \A j \in Jobs : RowCosts[j] \in Nat
           /\ \A S \in SUBSET Jobs : IntOn(RowCosts, S) /\ IsFiniteSet(S)
                                     /\ SumOver(RowCosts, S) \in Int
<1>1. \A j \in Jobs : RowCosts[j] \in Nat
  BY DEF TypeOK, RowCosts, Cost, Amounts
<1> QED  BY <1>1, GatewayAssumption, FS_Subset, SumInt DEF IntOn

(* A row is inserted once and charged only after that, so the rows that    *)
(* explain a balance never change.                                         *)
LEMMA ChargedRowsFixed ==
    ASSUME TypeOK, RowsExplained, NEW k \in Jobs, NEW e \in Amounts, RecordJob(k, e),
           UNCHANGED charged, NEW u \in Users
    PROVE  SumOver(RowCosts', charged' \intersect JobsOf(u))
             = SumOver(RowCosts, charged \intersect JobsOf(u))
<1>1. \A j \in charged \intersect JobsOf(u) : RowCosts'[j] = RowCosts[j]
  BY DEF TypeOK, RowsExplained, RecordJob, RowCosts, JobsOf
<1>2. IsFiniteSet(charged \intersect JobsOf(u))
  BY GatewayAssumption, FS_Subset DEF TypeOK, JobsOf
<1> QED  BY <1>1, <1>2, SumSame

(* No step moves a balance away from top-ups less charged rows: a          *)
(* deduction adds its row to the charged ones and takes just its cost.     *)
LEMMA BalanceStep ==
    ASSUME SettlementInv, BalanceExplained, [Next]_vars
    PROVE  BalanceExplained'
<1> SUFFICES ASSUME NEW u \in Users
             PROVE  balance'[u] = InitBalance[u] + credited'[u]
                                  - SumOver(RowCosts', charged' \intersect JobsOf(u))
  BY DEF BalanceExplained, JobsOf
<1> DEFINE Paid == SumOver(RowCosts, charged \intersect JobsOf(u))
           Goal == balance'[u] = InitBalance[u] + credited'[u]
                                 - SumOver(RowCosts', charged' \intersect JobsOf(u))
<1>inv. TypeOK /\ ReaderInv /\ CleanerInv /\ RowsExplained
  BY DEF SettlementInv
<1>0. /\ balance[u] = InitBalance[u] + credited[u] - Paid
      /\ InitBalance[u] \in Nat /\ credited[u] \in Nat /\ balance[u] \in Nat /\ Paid \in Int
      /\ charged \intersect JobsOf(u) \in SUBSET Jobs
  BY <1>inv, RowCostsInt, GatewayAssumption DEF BalanceExplained, TypeOK, JobsOf
<1>same. ASSUME UNCHANGED <<balance, credited, charged, earned>>  PROVE Goal
  BY <1>0, <1>same DEF RowCosts
<1>1. ASSUME NEW k \in Jobs, NEW e \in Amounts, RecordJob(k, e),
             UNCHANGED <<balance, credited, charged>>
      PROVE  Goal
  BY <1>0, <1>1, <1>inv, ChargedRowsFixed
<1>2. ASSUME NEW r \in Readers, RecordDone(r)  PROVE Goal
  BY <1>1, <1>2, <1>inv DEF RecordDone, TypeOK, ReaderInv
<1>3. CASE RecordExpired
  BY <1>1, <1>3, <1>inv, <1>same DEF RecordExpired, TypeOK, CleanerInv
<1>4. ASSUME NEW v \in Users, TopUp(v)  PROVE Goal
  <2>1. PICK a \in TopUps : /\ credited' = [credited EXCEPT ![v] = @ + a]
                            /\ balance' = [balance EXCEPT ![v] = @ + a]
    BY <1>4 DEF TopUp
  <2>2. a \in Nat /\ RowCosts' = RowCosts /\ charged' = charged
    BY <1>4, GatewayAssumption DEF TopUp, RowCosts
  <2>3. credited'[u] - credited[u] = balance'[u] - balance[u]
        /\ credited'[u] \in Nat /\ balance'[u] \in Nat
    BY <1>inv, <2>1, <2>2 DEF TypeOK
  <2> QED  BY <1>0, <2>2, <2>3
<1>5. ASSUME NEW r \in Readers, DeductBalance(r)  PROVE Goal
  <2> DEFINE k == rjob[r]
             S == charged \intersect JobsOf(u)
  <2>1. /\ k \in Jobs /\ k \notin charged /\ earned[k] = rbill[r]
        /\ RowCosts[k] = Cost(rbill[r]) /\ RowCosts[k] \in Nat
    BY <1>5, <1>inv, RowCostsInt DEF DeductBalance, ReaderInv, RowCosts
  <2>2. /\ balance' = [balance EXCEPT ![UserOf[k]] = @ - Cost(rbill[r])]
        /\ charged' = charged \union {k} /\ RowCosts' = RowCosts /\ credited' = credited
    BY <1>5 DEF DeductBalance, RowCosts
  <2>3. CASE UserOf[k] = u
    <3>1. charged' \intersect JobsOf(u) = S \union {k} /\ k \notin S
      BY <2>1, <2>2, <2>3 DEF JobsOf
    <3>2. S \union {k} \in SUBSET Jobs
      BY <1>0, <2>1
    <3>3. IntOn(RowCosts, S \union {k}) /\ IsFiniteSet(S)
      BY <1>0, <1>inv, <3>2, RowCostsInt
    <3>4. SumOver(RowCosts, S \union {k}) = RowCosts[k] + SumOver(RowCosts, S)
      BY <3>1, <3>3, SumAdd
    <3>5. balance'[u] = balance[u] - RowCosts[k]
      BY <1>inv, <2>1, <2>2, <2>3 DEF TypeOK
    <3>6. SumOver(RowCosts', charged' \intersect JobsOf(u)) = RowCosts[k] + Paid
      BY <2>2, <3>1, <3>4
    <3>7. credited'[u] = credited[u]
      BY <2>2
    <3> HIDE DEF k, Paid
    <3> QED  BY <1>0, <2>1, <3>5, <3>6, <3>7
  <2>4. CASE UserOf[k] # u
    <3>1. charged' \intersect JobsOf(u) = S /\ balance'[u] = balance[u]
      BY <1>inv, <2>1, <2>2, <2>4 DEF JobsOf, TypeOK
    <3> QED  BY <1>0, <2>2, <3>1
  <2> QED  BY <2>3, <2>4
<1>6. CASE Crash \/ Panic
  BY <1>6, <1>same DEF Crash, Panic, Restart
<1>7. ASSUME NEW j \in Jobs,
             Admit(j) \/ Refuse(j) \/ NoRoute(j) \/ IncrUserJobs(j) \/
               TooManyConcurrent(j) \/ NodeGone(j) \/ InsertPending(j) \/
               SendOk(j) \/ SendFails(j) \/ Unwind(j) \/ StreamChunk(j) \/
               StreamDone(j) \/ Disconnect(j) \/ GrowOld(j) \/ DecrExpired(j)
      PROVE  Goal
  BY <1>7, <1>same
     DEF Admit, Refuse, NoRoute, IncrUserJobs, TooManyConcurrent, NodeGone,
         InsertPending, SendOk, SendFails, Unwind, StreamChunk, StreamDone,
         Disconnect, GrowOld, DecrExpired
<1>8. ASSUME NEW r \in Readers, NEW j \in Jobs,
             HandleReject(r, j) \/ HandleProxyChunk(r, j) \/ HandleProxyDone(r, j)
      PROVE  Goal
  BY <1>8, <1>same DEF HandleReject, HandleProxyChunk, HandleProxyDone
<1>9. ASSUME NEW r \in Readers,
             DecrReject(r) \/ ForwardChunk(r) \/ CloseDone(r) \/ DecrDone(r) \/
               BillDone(r) \/ RecordDoneFails(r) \/ DeductFails(r)
      PROVE  Goal
  BY <1>9, <1>same
     DEF DecrReject, ForwardChunk, CloseDone, DecrDone, BillDone, RecordDoneFails,
         DeductFails
<1>10. CASE ExpireJobs \/ BillExpired \/ FetchPrice \/ UNCHANGED vars
  BY <1>10, <1>same DEF ExpireJobs, BillExpired, FetchPrice
<1> QED
  BY <1>2, <1>3, <1>4, <1>5, <1>6, <1>7, <1>8, <1>9, <1>10
     DEF Next, Requesting, Assigning, Streaming, Message, Handling, Cleaning

(* Every balance is the opening balance and the top-ups less the cost of   *)
(* the charged rows: no deduction is lost, repeated or of another amount.  *)
THEOREM BalancesAreExplained == Spec => []BalanceExplained
<1>1. Init => BalanceExplained
  <2> SUFFICES ASSUME Init, NEW u \in Users
               PROVE  balance[u] = InitBalance[u] + credited[u]
                                   - SumOver(RowCosts, charged \intersect JobsOf(u))
    BY DEF BalanceExplained
  <2>1. charged \intersect JobsOf(u) = {} /\ credited[u] = 0 /\ balance[u] = InitBalance[u]
    BY DEF Init
  <2>2. SumOver(RowCosts, charged \intersect JobsOf(u)) = 0
    BY <2>1, SumEmpty
  <2>3. InitBalance[u] \in Nat
    BY GatewayAssumption
  <2> QED  BY <2>1, <2>2, <2>3
<1>2. SettlementInv /\ BalanceExplained /\ [Next]_vars => BalanceExplained'
  BY BalanceStep
<1> QED  BY <1>1, <1>2, SettlementInvariant, PTL DEF Spec

----------------------------------------------------------------------------
(* The gateway implements the job ledger. *)

(* Taking jobs out of pendingJobs is a settlement in JobLedger.            *)
LEMMA SettleRefines ==
    ASSUME TypeOK, RequestInv, NEW S, NEW f, Settle(S, f),
           UNCHANGED <<free, recorded, earned, charged, balance>>
    PROVE  Ledger!SettledAs(f)
<1>1. S \intersect pendingJobs \in SUBSET {j \in Jobs : fate[j] = "open"}
  BY DEF TypeOK, RequestInv
<1>2. fate' = [j \in Jobs |-> IF j \in S \intersect pendingJobs THEN f ELSE fate[j]]
  BY DEF Settle
<1> QED  BY <1>1, <1>2 DEF Ledger!SettledAs

(* Every step is a step of the ledger or leaves it unchanged.              *)
LEMMA LedgerStep ==
    ASSUME TypeOK, RequestInv, ReaderInv, CleanerInv, [Next]_vars
    PROVE  [Ledger!LedgerNext]_(Ledger!ledgerVars)
<1>1. ASSUME NEW j \in Jobs, Admit(j)  PROVE [Ledger!LedgerNext]_(Ledger!ledgerVars)
  <2>1. Ledger!Admitted(j)
    BY <1>1 DEF RequestInv, Admit, Ledger!Admitted
  <2> QED  BY <2>1 DEF Ledger!LedgerNext
<1>2. ASSUME NEW j \in Jobs, InsertPending(j)  PROVE [Ledger!LedgerNext]_(Ledger!ledgerVars)
  <2>1. Ledger!Opened(j)
    BY <1>2 DEF RequestInv, InsertPending, Ledger!Opened
  <2> QED  BY <2>1 DEF Ledger!LedgerNext
<1>3. ASSUME NEW j \in Jobs, SendFails(j)  PROVE [Ledger!LedgerNext]_(Ledger!ledgerVars)
  <2>1. Ledger!SettledAs("failed")
    BY <1>3, SettleRefines DEF SendFails
  <2> QED  BY <2>1 DEF Ledger!LedgerNext, Ledger!Settled
<1>4. ASSUME NEW r \in Readers, NEW j \in Jobs, HandleReject(r, j)  PROVE [Ledger!LedgerNext]_(Ledger!ledgerVars)
  <2>1. Ledger!SettledAs("rejected")
    BY <1>4, SettleRefines DEF HandleReject
  <2> QED  BY <2>1 DEF Ledger!LedgerNext, Ledger!Settled
<1>5. ASSUME NEW r \in Readers, NEW j \in Jobs, HandleProxyDone(r, j)  PROVE [Ledger!LedgerNext]_(Ledger!ledgerVars)
  <2>1. Ledger!SettledAs("done")
    BY <1>5, SettleRefines DEF HandleProxyDone
  <2> QED  BY <2>1 DEF Ledger!LedgerNext, Ledger!Settled
<1>6. ASSUME NEW r \in Readers, RecordDone(r)  PROVE [Ledger!LedgerNext]_(Ledger!ledgerVars)
  <2>1. rjob[r] \in Jobs /\ rbill[r] \in Amounts /\ fate[rjob[r]] = "done"
    BY <1>6 DEF TypeOK, ReaderInv, Settling, RecordDone
  <2>2. PICK k \in Jobs : k = rjob[r]
    BY <2>1
  <2>3. Ledger!Credited(k)
    BY <1>6, <2>1, <2>2 DEF TypeOK, Amounts, RecordDone, RecordJob, Ledger!Credited
  <2> QED  BY <2>3 DEF Ledger!LedgerNext
<1>7. ASSUME NEW r \in Readers, DeductBalance(r)  PROVE [Ledger!LedgerNext]_(Ledger!ledgerVars)
  <2>1. PICK k \in Jobs : k = rjob[r]
    BY <1>7 DEF ReaderInv, DeductBalance
  <2>2. /\ fate[k] = "done" /\ ~free[k] /\ k \in recorded \ charged
        /\ Ledger!Price(k) = Cost(rbill[r]) /\ Cost(rbill[r]) > 0
    BY <1>7, <2>1 DEF ReaderInv, Settling, DeductBalance, Cost, Ledger!Price
  <2>3. Ledger!Charged(k)
    BY <1>7, <2>1, <2>2 DEF DeductBalance, Ledger!Charged
  <2> QED  BY <2>3 DEF Ledger!LedgerNext
<1>8. CASE ExpireJobs
  <2>1. Ledger!SettledAs("expired")
    BY <1>8, SettleRefines DEF ExpireJobs
  <2> QED  BY <2>1 DEF Ledger!LedgerNext, Ledger!Settled
<1>9. CASE RecordExpired
  <2>1. CASE RecordJob(cjob, cbill)
    <3>1. PICK k \in Jobs : k = cjob
      BY <1>9 DEF CleanerInv, RecordExpired
    <3>2. Ledger!Credited(k)
      BY <1>9, <2>1, <3>1 DEF TypeOK, CleanerInv, Amounts, RecordExpired, RecordJob, Ledger!Credited
    <3> QED  BY <3>2 DEF Ledger!LedgerNext
  <2>2. CASE UNCHANGED <<recorded, earned>>
    BY <1>9, <2>2 DEF RecordExpired, Ledger!ledgerVars
  <2> QED  BY <1>9, <2>1, <2>2 DEF RecordExpired
<1>10. CASE Panic
  <2>1. Ledger!SettledAs("crashed")
    BY <1>10, SettleRefines DEF Restart, Panic
  <2> QED  BY <2>1 DEF Ledger!LedgerNext, Ledger!Settled
<1>11. ASSUME NEW u \in Users, TopUp(u)  PROVE [Ledger!LedgerNext]_(Ledger!ledgerVars)
  <2>1. PICK a \in TopUps : balance' = [balance EXCEPT ![u] = @ + a]
    BY <1>11 DEF TopUp
  <2>2. a \in Nat \ {0} /\ balance \in [Users -> Nat]
    BY GatewayAssumption DEF TypeOK
  <2>3. balance'[u] > balance[u] /\ balance' = [balance EXCEPT ![u] = balance'[u]]
    BY <2>1, <2>2
  <2>4. Ledger!ToppedUp(u)
    BY <1>11, <2>3 DEF TopUp, Ledger!ToppedUp
  <2> QED  BY <2>4 DEF Ledger!LedgerNext
<1>12. CASE Crash
  <2>1. Ledger!SettledAs("crashed")
    BY <1>12, SettleRefines DEF Restart, Crash
  <2> QED  BY <2>1 DEF Ledger!LedgerNext, Ledger!Settled
<1>13. ASSUME NEW j \in Jobs,
             Refuse(j) \/ NoRoute(j) \/ IncrUserJobs(j) \/ TooManyConcurrent(j) \/
               NodeGone(j) \/ SendOk(j) \/ Unwind(j) \/ StreamChunk(j) \/
               StreamDone(j) \/ Disconnect(j) \/ GrowOld(j) \/ DecrExpired(j)
      PROVE  [Ledger!LedgerNext]_(Ledger!ledgerVars)
  BY <1>13
     DEF Ledger!ledgerVars, Refuse, NoRoute, IncrUserJobs, TooManyConcurrent,
         NodeGone, SendOk, Unwind, StreamChunk, StreamDone, Disconnect, GrowOld,
         DecrExpired
<1>14. ASSUME NEW r \in Readers, NEW j \in Jobs, HandleProxyChunk(r, j)  PROVE [Ledger!LedgerNext]_(Ledger!ledgerVars)
  BY <1>14 DEF Ledger!ledgerVars, HandleProxyChunk
<1>15. ASSUME NEW r \in Readers,
             DecrReject(r) \/ ForwardChunk(r) \/ CloseDone(r) \/ DecrDone(r) \/
               BillDone(r) \/ RecordDoneFails(r) \/ DeductFails(r)
      PROVE  [Ledger!LedgerNext]_(Ledger!ledgerVars)
  BY <1>15
     DEF Ledger!ledgerVars, DecrReject, ForwardChunk, CloseDone, DecrDone,
         BillDone, RecordDoneFails, DeductFails
<1>16. CASE BillExpired \/ FetchPrice \/ UNCHANGED vars
  BY <1>16 DEF Ledger!ledgerVars, BillExpired, FetchPrice
<1> QED
  BY <1>1, <1>2, <1>3, <1>4, <1>5, <1>6, <1>7, <1>8, <1>9, <1>10, <1>11, <1>12,
     <1>13, <1>14, <1>15, <1>16
     DEF Next, Requesting, Assigning, Streaming, Message, Handling, Cleaning

(* Every behaviour of the gateway, with its overlapping handlers and       *)
(* crashes, is a behaviour of the ledger: a request is settled once,       *)
(* credited at most once, and charged at most once, what its row says.     *)
THEOREM Refinement == Spec => ImplementsJobLedger
<1>1. Init => Ledger!LedgerInit
  BY DEF Init, NoAmounts, Ledger!LedgerInit
<1>2. SettlementInv /\ [Next]_vars => [Ledger!LedgerNext]_(Ledger!ledgerVars)
  BY LedgerStep DEF SettlementInv
<1> QED
  BY <1>1, <1>2, SettlementInvariant, PTL DEF Spec, ImplementsJobLedger, Ledger!LedgerSpec

============================================================================
