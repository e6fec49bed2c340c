----------------------------- MODULE HubProofs -----------------------------
(***************************************************************************)
(* HubInv is an invariant of the hub, for any number of nodes, keys,       *)
(* connections, requests and models, and with it the properties of the map *)
(* of connections, of the job proxy and of the router's snapshot.  Each    *)
(* part of HubInv is preserved by every step, with one case for each       *)
(* action that changes what the part is about.                             *)
(***************************************************************************)
EXTENDS Hub, SumsProofs

(* Every step keeps the types of the variables.                            *)
LEMMA TypesKept ==
    ASSUME HubInv, [Next]_vars
    PROVE  TypeOK'
<1> USE HubAssumption
<1>1. ASSUME NEW n \in Nodes, NEW k \in Keys, NEW ms \in Offers, Register(n, k, ms)
      PROVE  TypeOK'
  BY <1>1 DEF Register, Upsert, connVars, reqVars, HubInv, TypeOK
<1>2. ASSUME NEW c \in Conns, NEW n \in Nodes, Connect(c, n)
      PROVE  TypeOK'
  BY <1>2 DEF Connect, Goto, rowVars, reqVars, HubInv, TypeOK, ConnStates
<1>3. ASSUME NEW c \in Conns, Enter(c)
      PROVE  TypeOK'
  BY <1>3 DEF Enter, Goto, rowVars, reqVars, HubInv, HandlerInv, TypeOK, ConnStates
<1>4. ASSUME NEW c \in Conns, Replace(c)
      PROVE  TypeOK'
  BY <1>4 DEF Replace, CancelOld, Goto, rowVars, reqVars, HubInv, TypeOK, ConnStates
<1>5. ASSUME NEW c \in Conns, Count(c)
      PROVE  TypeOK'
  BY <1>5 DEF Count, Goto, rowVars, reqVars, HubInv, TypeOK, ConnStates
<1>6. ASSUME NEW c \in Conns, ReadFails(c)
      PROVE  TypeOK'
  BY <1>6 DEF ReadFails, Goto, rowVars, reqVars, HubInv, TypeOK, ConnStates
<1>7. ASSUME NEW c \in Conns, Leave(c)
      PROVE  TypeOK'
  BY <1>7 DEF Leave, Remove, Goto, rowVars, reqVars, HubInv, TypeOK, ConnStates
<1>8. ASSUME NEW c \in Conns, Collect(c)
      PROVE  TypeOK'
  BY <1>8 DEF Collect, Goto, rowVars, reqVars, HubInv, TypeOK, ConnStates
<1>9. ASSUME NEW c \in Conns, NEW d \in Depths, Heartbeat(c, d)
      PROVE  TypeOK'
  BY <1>9 DEF Heartbeat, Goto, rowVars, reqVars, HubInv, TypeOK, ConnStates
<1>10. ASSUME NEW c \in Conns, BeginDepths(c)
      PROVE  TypeOK'
  BY <1>10 DEF BeginDepths, Connected, Goto, rowVars, reqVars, HubInv, TypeOK,
     ConnStates
<1>11. ASSUME NEW c \in Conns, NEW n \in Nodes, AddDepth(c, n)
      PROVE  TypeOK'
  BY <1>11 DEF AddDepth, rowVars, connVars, reqVars, HubInv, TypeOK
<1>12. ASSUME NEW c \in Conns, EndDepths(c)
      PROVE  TypeOK'
  <2>1. PICK l \in {"panicked", "ack"} : pc' = [pc EXCEPT ![c] = l]
    BY <1>12 DEF EndDepths, Goto
  <2>2. PICK b \in BOOLEAN : cancelled' = [cancelled EXCEPT ![c] = b]
    <3>1. CASE cnode[c] \in ShortIds
      BY <1>12, <3>1 DEF EndDepths
    <3>2. CASE cnode[c] \notin ShortIds
      <4>1. cancelled' = cancelled
        BY <1>12, <3>2 DEF EndDepths
      <4>2. cancelled \in [Conns -> BOOLEAN]
        BY DEF HubInv, TypeOK
      <4> QED  BY <4>1, <4>2
    <3> QED  BY <3>1, <3>2
  <2>3. pc' \in [Conns -> ConnStates]
    BY <2>1 DEF HubInv, TypeOK, ConnStates
  <2>4. cancelled' \in [Conns -> BOOLEAN]
    BY <2>2 DEF HubInv, TypeOK
  <2>5. UNCHANGED <<rowVars, nodes, cnode, ckey, cmodels, depth, prev, sender, todo, reqVars>>
    BY <1>12 DEF EndDepths
  <2> QED  BY <2>3, <2>4, <2>5 DEF rowVars, reqVars, HubInv, TypeOK
<1>13. ASSUME NEW c \in Conns, SendAck(c)
      PROVE  TypeOK'
  BY <1>13 DEF SendAck, Goto, rowVars, reqVars, HubInv, TypeOK, ConnStates
<1>14. ASSUME NEW c \in Conns, AckSent(c)
      PROVE  TypeOK'
  BY <1>14 DEF AckSent, Goto, rowVars, reqVars, HubInv, TypeOK, ConnStates
<1>15. ASSUME NEW c \in Conns, Ping(c)
      PROVE  TypeOK'
  BY <1>15 DEF Ping, rowVars, connVars, reqVars, HubInv, TypeOK
<1>16. ASSUME NEW c \in Conns, PingSent(c)
      PROVE  TypeOK'
  BY <1>16 DEF PingSent, rowVars, connVars, reqVars, HubInv, TypeOK
<1>17. ASSUME NEW r \in Requests, BeginScan(r)
      PROVE  TypeOK'
  BY <1>17 DEF BeginScan, Connected, rowVars, connVars, HubInv, TypeOK, ReqStates
<1>18. ASSUME NEW r \in Requests, NEW n \in Nodes, Snapshot(r, n)
      PROVE  TypeOK'
  <2>1. nodes[n] \in Conns
    BY <1>18 DEF Snapshot, HubInv, TypeOK, ScanInv, Connected
  <2>2. snap' \in [Requests -> [Nodes -> {-1} \union Depths]]
    <3>1. depth[nodes[n]] \in Depths /\ snap \in [Requests -> [Nodes -> {-1} \union Depths]]
      BY <2>1 DEF HubInv, TypeOK
    <3>2. CASE snap' = snap
      BY <3>1, <3>2
    <3>3. CASE snap' = [snap EXCEPT ![r][n] = depth[nodes[n]]]
      BY <3>1, <3>3
    <3> QED  BY <1>18, <3>2, <3>3 DEF Snapshot
  <2>3. todo' \in [Conns \union Requests -> SUBSET Nodes]
    BY <1>18 DEF Snapshot, HubInv, TypeOK
  <2> QED  BY <1>18, <2>2, <2>3 DEF Snapshot, rowVars, connVars, HubInv, TypeOK
<1>19. ASSUME NEW r \in Requests, Route(r)
      PROVE  TypeOK'
  <2>1. snap' \in [Requests -> [Nodes -> {-1} \union Depths]]
    BY <1>19 DEF Route, HubInv, TypeOK
  <2>2. CASE Return(r)
    BY <1>19, <2>1, <2>2 DEF Route, Return, rowVars, connVars, HubInv, TypeOK, ReqStates
  <2>3. ASSUME NEW n \in Nodes, target' = [target EXCEPT ![r] = n],
               rpc' = [rpc EXCEPT ![r] = "routed"], UNCHANGED <<conn, assignee, fetched>>
        PROVE  TypeOK'
    BY <1>19, <2>1, <2>3 DEF Route, rowVars, connVars, HubInv, TypeOK, ReqStates
  <2> QED  BY <1>19, <2>2, <2>3 DEF Route, Best
<1>20. ASSUME NEW r \in Requests, Lookup(r)
      PROVE  TypeOK'
  <2>1. CASE Return(r)
    BY <1>20, <2>1 DEF Lookup, Return, rowVars, connVars, HubInv, TypeOK, ReqStates
  <2>2. CASE ~Return(r)
    <3> DEFINE c == nodes[target[r]]
    <3>1. target[r] \in Nodes
      BY <1>20 DEF Lookup, HubInv, RequestInv
    <3>2. c \in Conns /\ ckey[c] \in Keys \union {NoKey}
      BY <1>20, <2>2, <3>1 DEF Lookup, HubInv, TypeOK
    <3>3. /\ conn' = [conn EXCEPT ![r] = c]
          /\ assignee' = [assignee EXCEPT ![r] = ckey[c]]
          /\ rpc' = [rpc EXCEPT ![r] = "send"]
          /\ UNCHANGED <<target, fetched>>
          /\ UNCHANGED <<rowVars, nodes, connVars, sender, todo, snap>>
      BY <1>20, <2>2 DEF Lookup
    <3> HIDE DEF c
    <3> QED  BY <3>2, <3>3 DEF rowVars, connVars, HubInv, TypeOK, ReqStates
  <2> QED  BY <2>1, <2>2
<1>21. ASSUME NEW r \in Requests, SendJob(r)
      PROVE  TypeOK'
  BY <1>21 DEF SendJob, rowVars, connVars, HubInv, TypeOK, ReqStates
<1>22. ASSUME NEW r \in Requests, JobSent(r)
      PROVE  TypeOK'
  <2>1. CASE Return(r)
    BY <1>22, <2>1 DEF JobSent, Return, rowVars, connVars, HubInv, TypeOK, ReqStates
  <2>2. CASE ~Return(r)
    BY <1>22, <2>2 DEF JobSent, rowVars, connVars, HubInv, TypeOK, ReqStates
  <2> QED  BY <2>1, <2>2
<1>23. ASSUME NEW r \in Requests, Settled(r)
      PROVE  TypeOK'
  BY <1>23 DEF Settled, Return, rowVars, connVars, HubInv, TypeOK, ReqStates
<1>24. ASSUME NEW r \in Requests, Ask(r)
      PROVE  TypeOK'
  BY <1>24 DEF Ask, rowVars, connVars, HubInv, TypeOK, ReqStates
<1>25. ASSUME NEW r \in Requests, NEW k \in Keys, Fetch(r, k)
      PROVE  TypeOK'
  BY <1>25 DEF Fetch, rowVars, connVars, HubInv, TypeOK
<1>26. ASSUME Restart
      PROVE  TypeOK'
  BY <1>26 DEF Restart, rowVars, HubInv, TypeOK, ConnStates, ReqStates
<1>27. ASSUME UNCHANGED vars  PROVE TypeOK'
  BY <1>27 DEF vars, rowVars, connVars, reqVars, HubInv, TypeOK
<1> QED
  BY <1>1, <1>2, <1>3, <1>4, <1>5, <1>6, <1>7, <1>8, <1>9, <1>10, <1>11, <1>12,
     <1>13, <1>14, <1>15, <1>16, <1>17, <1>18, <1>19, <1>20, <1>21, <1>22, <1>23,
     <1>24, <1>25, <1>26, <1>27 DEF Next, Handler, Routing, SendEnds

(* A row keeps its key, so the one a connection was opened with stays that *)
(* of the row.                                                             *)
LEMMA HandlersKept ==
    ASSUME HubInv, TypeOK', [Next]_vars
    PROVE  HandlerInv'
<1> USE HubAssumption
<1>same. ASSUME UNCHANGED <<rowKey, pc, cnode, ckey, prev>>  PROVE HandlerInv'
  BY <1>same DEF HubInv, TypeOK, HandlerInv
<1>1. ASSUME NEW n \in Nodes, NEW k \in Keys, NEW ms \in Offers, Register(n, k, ms)
      PROVE  HandlerInv'
  BY <1>1 DEF Register, Upsert, connVars, HubInv, TypeOK, HandlerInv
<1>2. ASSUME NEW c \in Conns, NEW n \in Nodes, Connect(c, n)
      PROVE  HandlerInv'
  BY <1>2 DEF Connect, Goto, rowVars, HubInv, TypeOK, HandlerInv
<1>3. ASSUME NEW c \in Conns, Enter(c)
      PROVE  HandlerInv'
  BY <1>3 DEF Enter, Goto, rowVars, HubInv, TypeOK, HandlerInv
<1>4. ASSUME NEW c \in Conns, Replace(c)
      PROVE  HandlerInv'
  BY <1>4 DEF Replace, CancelOld, Goto, rowVars, HubInv, TypeOK, HandlerInv
<1>5. ASSUME NEW c \in Conns, Count(c)
      PROVE  HandlerInv'
  BY <1>5 DEF Count, Goto, rowVars, HubInv, TypeOK, HandlerInv
<1>6. ASSUME NEW c \in Conns, ReadFails(c)
      PROVE  HandlerInv'
  BY <1>6 DEF ReadFails, Goto, rowVars, HubInv, TypeOK, HandlerInv
<1>7. ASSUME NEW c \in Conns, Leave(c)
      PROVE  HandlerInv'
  BY <1>7 DEF Leave, Remove, Goto, rowVars, HubInv, TypeOK, HandlerInv
<1>8. ASSUME NEW c \in Conns, Collect(c)
      PROVE  HandlerInv'
  BY <1>8 DEF Collect, Goto, rowVars, HubInv, TypeOK, HandlerInv
<1>9. ASSUME NEW c \in Conns, NEW d \in Depths, Heartbeat(c, d)
      PROVE  HandlerInv'
  BY <1>9 DEF Heartbeat, Goto, rowVars, HubInv, TypeOK, HandlerInv
<1>10. ASSUME NEW c \in Conns, BeginDepths(c)
      PROVE  HandlerInv'
  BY <1>10 DEF BeginDepths, Goto, rowVars, HubInv, TypeOK, HandlerInv
<1>11. ASSUME NEW c \in Conns, NEW n \in Nodes, AddDepth(c, n)
      PROVE  HandlerInv'
  BY <1>11, <1>same DEF AddDepth, rowVars, connVars
<1>12. ASSUME NEW c \in Conns, EndDepths(c)
      PROVE  HandlerInv'
  BY <1>12 DEF EndDepths, Goto, rowVars, HubInv, TypeOK, HandlerInv
<1>13. ASSUME NEW c \in Conns, SendAck(c)
      PROVE  HandlerInv'
  BY <1>13 DEF SendAck, Goto, rowVars, HubInv, TypeOK, HandlerInv
<1>14. ASSUME NEW c \in Conns, AckSent(c)
      PROVE  HandlerInv'
  BY <1>14 DEF AckSent, Goto, rowVars, HubInv, TypeOK, HandlerInv
<1>15. ASSUME NEW c \in Conns, Ping(c)
      PROVE  HandlerInv'
  BY <1>15, <1>same DEF Ping, rowVars, connVars
<1>16. ASSUME NEW c \in Conns, PingSent(c)
      PROVE  HandlerInv'
  BY <1>16, <1>same DEF PingSent, rowVars, connVars
<1>17. ASSUME NEW r \in Requests, BeginScan(r)
      PROVE  HandlerInv'
  BY <1>17, <1>same DEF BeginScan, rowVars, connVars
<1>18. ASSUME NEW r \in Requests, NEW n \in Nodes, Snapshot(r, n)
      PROVE  HandlerInv'
  BY <1>18, <1>same DEF Snapshot, rowVars, connVars
<1>19. ASSUME NEW r \in Requests, Route(r)
      PROVE  HandlerInv'
  BY <1>19, <1>same DEF Route, rowVars, connVars
<1>20. ASSUME NEW r \in Requests, Lookup(r)
      PROVE  HandlerInv'
  BY <1>20, <1>same DEF Lookup, rowVars, connVars
<1>21. ASSUME NEW r \in Requests, SendJob(r)
      PROVE  HandlerInv'
  BY <1>21, <1>same DEF SendJob, rowVars, connVars
<1>22. ASSUME NEW r \in Requests, JobSent(r)
      PROVE  HandlerInv'
  BY <1>22, <1>same DEF JobSent, rowVars, connVars
<1>23. ASSUME NEW r \in Requests, Settled(r)
      PROVE  HandlerInv'
  BY <1>23, <1>same DEF Settled, rowVars, connVars
<1>24. ASSUME NEW r \in Requests, Ask(r)
      PROVE  HandlerInv'
  BY <1>24, <1>same DEF Ask, rowVars, connVars
<1>25. ASSUME NEW r \in Requests, NEW k \in Keys, Fetch(r, k)
      PROVE  HandlerInv'
  BY <1>25, <1>same DEF Fetch, rowVars, connVars
<1>26. ASSUME Restart
      PROVE  HandlerInv'
  BY <1>26 DEF Restart, HubInv, TypeOK, HandlerInv
<1>27. ASSUME UNCHANGED vars  PROVE HandlerInv'
  BY <1>27, <1>same DEF vars, rowVars, connVars
<1> QED
  BY <1>1, <1>2, <1>3, <1>4, <1>5, <1>6, <1>7, <1>8, <1>9, <1>10, <1>11, <1>12,
     <1>13, <1>14, <1>15, <1>16, <1>17, <1>18, <1>19, <1>20, <1>21, <1>22, <1>23,
     <1>24, <1>25, <1>26, <1>27 DEF Next, Handler, Routing, SendEnds

(* A connection that enters takes the entry of its own node, and only the  *)
(* connection whose entry it is removes it.                                *)
LEMMA MapKept ==
    ASSUME HubInv, TypeOK', [Next]_vars
    PROVE  MapIsServed'
<1> USE HubAssumption
<1>same. ASSUME UNCHANGED <<nodes, pc, cnode>>  PROVE MapIsServed'
  BY <1>same DEF HubInv, TypeOK, MapIsServed, Entered
<1>1. ASSUME NEW n \in Nodes, NEW k \in Keys, NEW ms \in Offers, Register(n, k, ms)
      PROVE  MapIsServed'
  BY <1>1, <1>same DEF Register, connVars
<1>2. ASSUME NEW c \in Conns, NEW n \in Nodes, Connect(c, n)
      PROVE  MapIsServed'
  BY <1>2 DEF Connect, Goto, HubInv, TypeOK, MapIsServed, Entered
<1>3. ASSUME NEW c \in Conns, Enter(c)
      PROVE  MapIsServed'
  BY <1>3 DEF Enter, Goto, HubInv, TypeOK, MapIsServed, Entered
<1>4. ASSUME NEW c \in Conns, Replace(c)
      PROVE  MapIsServed'
  BY <1>4 DEF Replace, CancelOld, Goto, HubInv, TypeOK, MapIsServed, Entered
<1>5. ASSUME NEW c \in Conns, Count(c)
      PROVE  MapIsServed'
  BY <1>5 DEF Count, Goto, HubInv, TypeOK, MapIsServed, Entered
<1>6. ASSUME NEW c \in Conns, ReadFails(c)
      PROVE  MapIsServed'
  BY <1>6 DEF ReadFails, Goto, HubInv, TypeOK, MapIsServed, Entered
<1>7. ASSUME NEW c \in Conns, Leave(c)
      PROVE  MapIsServed'
  BY <1>7 DEF Leave, Remove, Goto, HubInv, TypeOK, MapIsServed, Entered
<1>8. ASSUME NEW c \in Conns, Collect(c)
      PROVE  MapIsServed'
  BY <1>8 DEF Collect, Goto, HubInv, TypeOK, MapIsServed, Entered
<1>9. ASSUME NEW c \in Conns, NEW d \in Depths, Heartbeat(c, d)
      PROVE  MapIsServed'
  BY <1>9 DEF Heartbeat, Goto, HubInv, TypeOK, MapIsServed, Entered
<1>10. ASSUME NEW c \in Conns, BeginDepths(c)
      PROVE  MapIsServed'
  BY <1>10 DEF BeginDepths, Goto, HubInv, TypeOK, MapIsServed, Entered
<1>11. ASSUME NEW c \in Conns, NEW n \in Nodes, AddDepth(c, n)
      PROVE  MapIsServed'
  BY <1>11, <1>same DEF AddDepth, connVars
<1>12. ASSUME NEW c \in Conns, EndDepths(c)
      PROVE  MapIsServed'
  <2>1. \A d \in Conns : Entered(d) => Entered(d)'
    <3>1. CASE cnode[c] \in ShortIds
      BY <1>12, <3>1 DEF EndDepths, Goto, HubInv, TypeOK, Entered
    <3>2. CASE cnode[c] \notin ShortIds
      BY <1>12, <3>2 DEF EndDepths, Goto, HubInv, TypeOK, Entered
    <3> QED  BY <3>1, <3>2
  <2> QED  BY <1>12, <2>1 DEF EndDepths, HubInv, TypeOK, MapIsServed
<1>13. ASSUME NEW c \in Conns, SendAck(c)
      PROVE  MapIsServed'
  BY <1>13 DEF SendAck, Goto, HubInv, TypeOK, MapIsServed, Entered
<1>14. ASSUME NEW c \in Conns, AckSent(c)
      PROVE  MapIsServed'
  BY <1>14 DEF AckSent, Goto, HubInv, TypeOK, MapIsServed, Entered
<1>15. ASSUME NEW c \in Conns, Ping(c)
      PROVE  MapIsServed'
  BY <1>15, <1>same DEF Ping, connVars
<1>16. ASSUME NEW c \in Conns, PingSent(c)
      PROVE  MapIsServed'
  BY <1>16, <1>same DEF PingSent, connVars
<1>17. ASSUME NEW r \in Requests, BeginScan(r)
      PROVE  MapIsServed'
  BY <1>17, <1>same DEF BeginScan, connVars
<1>18. ASSUME NEW r \in Requests, NEW n \in Nodes, Snapshot(r, n)
      PROVE  MapIsServed'
  BY <1>18, <1>same DEF Snapshot, connVars
<1>19. ASSUME NEW r \in Requests, Route(r)
      PROVE  MapIsServed'
  BY <1>19, <1>same DEF Route, connVars
<1>20. ASSUME NEW r \in Requests, Lookup(r)
      PROVE  MapIsServed'
  BY <1>20, <1>same DEF Lookup, connVars
<1>21. ASSUME NEW r \in Requests, SendJob(r)
      PROVE  MapIsServed'
  BY <1>21, <1>same DEF SendJob, connVars
<1>22. ASSUME NEW r \in Requests, JobSent(r)
      PROVE  MapIsServed'
  BY <1>22, <1>same DEF JobSent, connVars
<1>23. ASSUME NEW r \in Requests, Settled(r)
      PROVE  MapIsServed'
  BY <1>23, <1>same DEF Settled, connVars
<1>24. ASSUME NEW r \in Requests, Ask(r)
      PROVE  MapIsServed'
  BY <1>24, <1>same DEF Ask, connVars
<1>25. ASSUME NEW r \in Requests, NEW k \in Keys, Fetch(r, k)
      PROVE  MapIsServed'
  BY <1>25, <1>same DEF Fetch, connVars
<1>26. ASSUME Restart
      PROVE  MapIsServed'
  BY <1>26 DEF Restart, HubInv, TypeOK, MapIsServed
<1>27. ASSUME UNCHANGED vars  PROVE MapIsServed'
  BY <1>27, <1>same DEF vars, connVars
<1> QED
  BY <1>1, <1>2, <1>3, <1>4, <1>5, <1>6, <1>7, <1>8, <1>9, <1>10, <1>11, <1>12,
     <1>13, <1>14, <1>15, <1>16, <1>17, <1>18, <1>19, <1>20, <1>21, <1>22, <1>23,
     <1>24, <1>25, <1>26, <1>27 DEF Next, Handler, Routing, SendEnds

(* The entry a connection loses is handed to the handler that took it,     *)
(* which has it as prev until it cancels it.                               *)
LEMMA NoOrphanKept ==
    ASSUME HubInv, TypeOK', [Next]_vars
    PROVE  NoLiveOrphan'
<1> USE HubAssumption
<1>same. ASSUME UNCHANGED <<nodes, pc, cnode, cancelled, prev>>  PROVE NoLiveOrphan'
  BY <1>same DEF HubInv, TypeOK, NoLiveOrphan, Entered
<1>1. ASSUME NEW n \in Nodes, NEW k \in Keys, NEW ms \in Offers, Register(n, k, ms)
      PROVE  NoLiveOrphan'
  BY <1>1, <1>same DEF Register, connVars
<1>2. ASSUME NEW c \in Conns, NEW n \in Nodes, Connect(c, n)
      PROVE  NoLiveOrphan'
  BY <1>2 DEF Connect, Goto, HubInv, TypeOK, NoLiveOrphan, Entered
<1>3. ASSUME NEW c \in Conns, Enter(c)
      PROVE  NoLiveOrphan'
  <2> SUFFICES ASSUME NEW d \in Conns, Entered(d)', ~cancelled'[d],
                      \A e \in Conns : pc'[e] = "replace" => prev'[e] # d
               PROVE  nodes'[cnode'[d]] = d
    BY DEF NoLiveOrphan
  <2>0. cnode[c] \in Nodes
    BY <1>3 DEF Enter, HubInv, HandlerInv
  <2>1. CASE d = c
    BY <1>3, <2>0, <2>1 DEF Enter, HubInv, TypeOK
  <2>2. CASE d # c
    <3>1. Entered(d) /\ cnode[d] \in Nodes
      BY <1>3, <2>2 DEF Enter, Goto, HubInv, TypeOK, HandlerInv, Entered
    <3>2. ASSUME NEW e \in Conns, pc[e] = "replace"  PROVE prev[e] # d
      <4>1. e # c
        BY <1>3, <3>2 DEF Enter
      <4> QED  BY <1>3, <3>2, <4>1 DEF Enter, Goto, HubInv, TypeOK
    <3>3. nodes[cnode[d]] = d
      BY <1>3, <3>1, <3>2 DEF Enter, HubInv, NoLiveOrphan
    <3>4. cnode[d] # cnode[c]
      <4> SUFFICES ASSUME cnode[d] = cnode[c]  PROVE FALSE
        OBVIOUS
      <4>1. nodes[cnode[c]] = d /\ d # NoConn
        BY <3>3
      <4>2. pc'[c] = "replace" /\ prev'[c] = d
        BY <1>3, <4>1 DEF Enter, Goto, HubInv, TypeOK
      <4> QED  BY <4>2
    <3> QED  BY <1>3, <2>0, <3>1, <3>3, <3>4 DEF Enter, HubInv, TypeOK
  <2> QED  BY <2>1, <2>2
<1>4. ASSUME NEW c \in Conns, Replace(c)
      PROVE  NoLiveOrphan'
  BY <1>4 DEF Replace, CancelOld, Goto, rowVars, reqVars, HubInv, TypeOK,
     ConnStates, HandlerInv, NoLiveOrphan, Entered
<1>5. ASSUME NEW c \in Conns, Count(c)
      PROVE  NoLiveOrphan'
  BY <1>5 DEF Count, Goto, HubInv, TypeOK, NoLiveOrphan, Entered
<1>6. ASSUME NEW c \in Conns, ReadFails(c)
      PROVE  NoLiveOrphan'
  BY <1>6 DEF ReadFails, Goto, HubInv, TypeOK, NoLiveOrphan, Entered
<1>7. ASSUME NEW c \in Conns, Leave(c)
      PROVE  NoLiveOrphan'
  BY <1>7 DEF Leave, Remove, Goto, HubInv, TypeOK, NoLiveOrphan, Entered
<1>8. ASSUME NEW c \in Conns, Collect(c)
      PROVE  NoLiveOrphan'
  BY <1>8 DEF Collect, Goto, HubInv, TypeOK, NoLiveOrphan, Entered
<1>9. ASSUME NEW c \in Conns, NEW d \in Depths, Heartbeat(c, d)
      PROVE  NoLiveOrphan'
  BY <1>9 DEF Heartbeat, Goto, HubInv, TypeOK, NoLiveOrphan, Entered
<1>10. ASSUME NEW c \in Conns, BeginDepths(c)
      PROVE  NoLiveOrphan'
  BY <1>10 DEF BeginDepths, Goto, HubInv, TypeOK, NoLiveOrphan, Entered
<1>11. ASSUME NEW c \in Conns, NEW n \in Nodes, AddDepth(c, n)
      PROVE  NoLiveOrphan'
  BY <1>11, <1>same DEF AddDepth, connVars
<1>12. ASSUME NEW c \in Conns, EndDepths(c)
      PROVE  NoLiveOrphan'
  BY <1>12 DEF EndDepths, Goto, reqVars, HubInv, TypeOK, ConnStates, HandlerInv,
     NoLiveOrphan, Entered
<1>13. ASSUME NEW c \in Conns, SendAck(c)
      PROVE  NoLiveOrphan'
  BY <1>13 DEF SendAck, Goto, HubInv, TypeOK, NoLiveOrphan, Entered
<1>14. ASSUME NEW c \in Conns, AckSent(c)
      PROVE  NoLiveOrphan'
  BY <1>14 DEF AckSent, Goto, HubInv, TypeOK, NoLiveOrphan, Entered
<1>15. ASSUME NEW c \in Conns, Ping(c)
      PROVE  NoLiveOrphan'
  BY <1>15, <1>same DEF Ping, connVars
<1>16. ASSUME NEW c \in Conns, PingSent(c)
      PROVE  NoLiveOrphan'
  BY <1>16, <1>same DEF PingSent, connVars
<1>17. ASSUME NEW r \in Requests, BeginScan(r)
      PROVE  NoLiveOrphan'
  BY <1>17, <1>same DEF BeginScan, connVars
<1>18. ASSUME NEW r \in Requests, NEW n \in Nodes, Snapshot(r, n)
      PROVE  NoLiveOrphan'
  BY <1>18, <1>same DEF Snapshot, connVars
<1>19. ASSUME NEW r \in Requests, Route(r)
      PROVE  NoLiveOrphan'
  BY <1>19, <1>same DEF Route, connVars
<1>20. ASSUME NEW r \in Requests, Lookup(r)
      PROVE  NoLiveOrphan'
  BY <1>20, <1>same DEF Lookup, connVars
<1>21. ASSUME NEW r \in Requests, SendJob(r)
      PROVE  NoLiveOrphan'
  BY <1>21, <1>same DEF SendJob, connVars
<1>22. ASSUME NEW r \in Requests, JobSent(r)
      PROVE  NoLiveOrphan'
  BY <1>22, <1>same DEF JobSent, connVars
<1>23. ASSUME NEW r \in Requests, Settled(r)
      PROVE  NoLiveOrphan'
  BY <1>23, <1>same DEF Settled, connVars
<1>24. ASSUME NEW r \in Requests, Ask(r)
      PROVE  NoLiveOrphan'
  BY <1>24, <1>same DEF Ask, connVars
<1>25. ASSUME NEW r \in Requests, NEW k \in Keys, Fetch(r, k)
      PROVE  NoLiveOrphan'
  BY <1>25, <1>same DEF Fetch, connVars
<1>26. ASSUME Restart
      PROVE  NoLiveOrphan'
  BY <1>26 DEF Restart, HubInv, TypeOK, NoLiveOrphan, Entered
<1>27. ASSUME UNCHANGED vars  PROVE NoLiveOrphan'
  BY <1>27, <1>same DEF vars, connVars
<1> QED
  BY <1>1, <1>2, <1>3, <1>4, <1>5, <1>6, <1>7, <1>8, <1>9, <1>10, <1>11, <1>12,
     <1>13, <1>14, <1>15, <1>16, <1>17, <1>18, <1>19, <1>20, <1>21, <1>22, <1>23,
     <1>24, <1>25, <1>26, <1>27 DEF Next, Handler, Routing, SendEnds

(* Whoever takes the mutex of a connection found it free, and only its     *)
(* holder lets it go.                                                      *)
LEMMA LocksKept ==
    ASSUME HubInv, TypeOK', [Next]_vars
    PROVE  LockInv'
<1> USE HubAssumption
<1>same. ASSUME UNCHANGED <<pc, sender, rpc, conn>>  PROVE LockInv'
  BY <1>same DEF HubInv, TypeOK, LockInv
<1>1. ASSUME NEW n \in Nodes, NEW k \in Keys, NEW ms \in Offers, Register(n, k, ms)
      PROVE  LockInv'
  BY <1>1, <1>same DEF Register, connVars, reqVars
<1>2. ASSUME NEW c \in Conns, NEW n \in Nodes, Connect(c, n)
      PROVE  LockInv'
  BY <1>2 DEF Connect, Goto, reqVars, HubInv, TypeOK, LockInv
<1>3. ASSUME NEW c \in Conns, Enter(c)
      PROVE  LockInv'
  BY <1>3 DEF Enter, Goto, reqVars, HubInv, TypeOK, LockInv
<1>4. ASSUME NEW c \in Conns, Replace(c)
      PROVE  LockInv'
  BY <1>4 DEF Replace, CancelOld, Goto, reqVars, HubInv, TypeOK, LockInv
<1>5. ASSUME NEW c \in Conns, Count(c)
      PROVE  LockInv'
  BY <1>5 DEF Count, Goto, reqVars, HubInv, TypeOK, LockInv
<1>6. ASSUME NEW c \in Conns, ReadFails(c)
      PROVE  LockInv'
  BY <1>6 DEF ReadFails, Goto, reqVars, HubInv, TypeOK, LockInv
<1>7. ASSUME NEW c \in Conns, Leave(c)
      PROVE  LockInv'
  BY <1>7 DEF Leave, Remove, Goto, reqVars, HubInv, TypeOK, LockInv
<1>8. ASSUME NEW c \in Conns, Collect(c)
      PROVE  LockInv'
  BY <1>8 DEF Collect, Goto, reqVars, HubInv, TypeOK, LockInv
<1>9. ASSUME NEW c \in Conns, NEW d \in Depths, Heartbeat(c, d)
      PROVE  LockInv'
  BY <1>9 DEF Heartbeat, Goto, reqVars, HubInv, TypeOK, LockInv
<1>10. ASSUME NEW c \in Conns, BeginDepths(c)
      PROVE  LockInv'
  BY <1>10 DEF BeginDepths, Goto, reqVars, HubInv, TypeOK, LockInv
<1>11. ASSUME NEW c \in Conns, NEW n \in Nodes, AddDepth(c, n)
      PROVE  LockInv'
  BY <1>11, <1>same DEF AddDepth, connVars, reqVars
<1>12. ASSUME NEW c \in Conns, EndDepths(c)
      PROVE  LockInv'
  BY <1>12 DEF EndDepths, Goto, reqVars, HubInv, TypeOK, LockInv
<1>13. ASSUME NEW c \in Conns, SendAck(c)
      PROVE  LockInv'
  BY <1>13 DEF SendAck, Free, Goto, reqVars, HubInv, TypeOK, Nobody, LockInv
<1>14. ASSUME NEW c \in Conns, AckSent(c)
      PROVE  LockInv'
  BY <1>14 DEF AckSent, Goto, reqVars, HubInv, TypeOK, Nobody, LockInv
<1>15. ASSUME NEW c \in Conns, Ping(c)
      PROVE  LockInv'
  BY <1>15 DEF Ping, Free, connVars, reqVars, HubInv, TypeOK, Nobody, LockInv
<1>16. ASSUME NEW c \in Conns, PingSent(c)
      PROVE  LockInv'
  BY <1>16 DEF PingSent, connVars, reqVars, HubInv, TypeOK, Nobody, LockInv
<1>17. ASSUME NEW r \in Requests, BeginScan(r)
      PROVE  LockInv'
  BY <1>17 DEF BeginScan, connVars, HubInv, TypeOK, LockInv
<1>18. ASSUME NEW r \in Requests, NEW n \in Nodes, Snapshot(r, n)
      PROVE  LockInv'
  BY <1>18, <1>same DEF Snapshot, connVars
<1>19. ASSUME NEW r \in Requests, Route(r)
      PROVE  LockInv'
  BY <1>19 DEF Route, Return, connVars, HubInv, TypeOK, LockInv
<1>20. ASSUME NEW r \in Requests, Lookup(r)
      PROVE  LockInv'
  BY <1>20 DEF Lookup, Return, rowVars, connVars, HubInv, TypeOK, ReqStates,
     LockInv, RequestInv
<1>21. ASSUME NEW r \in Requests, SendJob(r)
      PROVE  LockInv'
  BY <1>21 DEF SendJob, Free, connVars, HubInv, TypeOK, Nobody, LockInv
<1>22. ASSUME NEW r \in Requests, JobSent(r)
      PROVE  LockInv'
  <2>1. conn[r] \in Conns /\ sender[conn[r]] = r /\ \A c \in Conns \ {conn[r]} : sender[c] # r
    BY <1>22 DEF JobSent, HubInv, TypeOK, LockInv
  <2>2. sender' = [sender EXCEPT ![conn[r]] = Nobody] /\ pc' = pc
    BY <1>22 DEF JobSent, connVars
  <2>3. rpc'[r] # "sending" /\ \A q \in Requests \ {r} : rpc'[q] = rpc[q] /\ conn'[q] = conn[q]
    BY <1>22 DEF JobSent, Return, HubInv, TypeOK
  <2>4. \A c \in Conns : pc'[c] = "acking" <=> sender'[c] = "ack"
    BY <2>1, <2>2 DEF HubInv, TypeOK, LockInv, Nobody
  <2>5. ASSUME NEW c \in Conns, NEW q \in Requests
        PROVE  sender'[c] = q <=> rpc'[q] = "sending" /\ conn'[q] = c
    <3>1. sender[c] = q <=> rpc[q] = "sending" /\ conn[q] = c
      BY DEF HubInv, LockInv
    <3>2. sender'[c] = q <=> q # r /\ sender[c] = q
      BY <2>1, <2>2 DEF HubInv, TypeOK, Nobody
    <3> QED  BY <2>3, <3>1, <3>2
  <2> QED  BY <2>4, <2>5 DEF LockInv
<1>23. ASSUME NEW r \in Requests, Settled(r)
      PROVE  LockInv'
  BY <1>23 DEF Settled, Return, connVars, HubInv, TypeOK, LockInv
<1>24. ASSUME NEW r \in Requests, Ask(r)
      PROVE  LockInv'
  BY <1>24 DEF Ask, connVars, HubInv, TypeOK, LockInv
<1>25. ASSUME NEW r \in Requests, NEW k \in Keys, Fetch(r, k)
      PROVE  LockInv'
  BY <1>25, <1>same DEF Fetch, connVars
<1>26. ASSUME Restart
      PROVE  LockInv'
  BY <1>26 DEF Restart, HubInv, TypeOK, Nobody, LockInv
<1>27. ASSUME UNCHANGED vars  PROVE LockInv'
  BY <1>27, <1>same DEF vars, connVars, reqVars
<1> QED
  BY <1>1, <1>2, <1>3, <1>4, <1>5, <1>6, <1>7, <1>8, <1>9, <1>10, <1>11, <1>12,
     <1>13, <1>14, <1>15, <1>16, <1>17, <1>18, <1>19, <1>20, <1>21, <1>22, <1>23,
     <1>24, <1>25, <1>26, <1>27 DEF Next, Handler, Routing, SendEnds

(* The connection a request is sent on was opened with the key of the row, *)
(* which is the key the job proxy asks for.                                *)
LEMMA RequestsKept ==
    ASSUME HubInv, TypeOK', [Next]_vars
    PROVE  RequestInv' /\ BodyOnlyToAssignee'
<1> USE HubAssumption
<1>same. ASSUME UNCHANGED <<rowKey, rpc, target, conn, assignee, fetched>>  PROVE RequestInv' /\ BodyOnlyToAssignee'
  BY <1>same DEF HubInv, TypeOK, RequestInv, BodyOnlyToAssignee
<1>1. ASSUME NEW n \in Nodes, NEW k \in Keys, NEW ms \in Offers, Register(n, k, ms)
      PROVE  RequestInv' /\ BodyOnlyToAssignee'
  BY <1>1 DEF Register, Upsert, reqVars, HubInv, TypeOK, RequestInv, BodyOnlyToAssignee
<1>2. ASSUME NEW c \in Conns, NEW n \in Nodes, Connect(c, n)
      PROVE  RequestInv' /\ BodyOnlyToAssignee'
  BY <1>2, <1>same DEF Connect, Goto, rowVars, reqVars
<1>3. ASSUME NEW c \in Conns, Enter(c)
      PROVE  RequestInv' /\ BodyOnlyToAssignee'
  BY <1>3, <1>same DEF Enter, Goto, rowVars, reqVars
<1>4. ASSUME NEW c \in Conns, Replace(c)
      PROVE  RequestInv' /\ BodyOnlyToAssignee'
  BY <1>4, <1>same DEF Replace, Goto, rowVars, reqVars
<1>5. ASSUME NEW c \in Conns, Count(c)
      PROVE  RequestInv' /\ BodyOnlyToAssignee'
  BY <1>5, <1>same DEF Count, Goto, rowVars, reqVars
<1>6. ASSUME NEW c \in Conns, ReadFails(c)
      PROVE  RequestInv' /\ BodyOnlyToAssignee'
  BY <1>6, <1>same DEF ReadFails, Goto, rowVars, reqVars
<1>7. ASSUME NEW c \in Conns, Leave(c)
      PROVE  RequestInv' /\ BodyOnlyToAssignee'
  BY <1>7, <1>same DEF Leave, Goto, rowVars, reqVars
<1>8. ASSUME NEW c \in Conns, Collect(c)
      PROVE  RequestInv' /\ BodyOnlyToAssignee'
  BY <1>8, <1>same DEF Collect, Goto, rowVars, reqVars
<1>9. ASSUME NEW c \in Conns, NEW d \in Depths, Heartbeat(c, d)
      PROVE  RequestInv' /\ BodyOnlyToAssignee'
  BY <1>9, <1>same DEF Heartbeat, Goto, rowVars, reqVars
<1>10. ASSUME NEW c \in Conns, BeginDepths(c)
      PROVE  RequestInv' /\ BodyOnlyToAssignee'
  BY <1>10, <1>same DEF BeginDepths, Goto, rowVars, reqVars
<1>11. ASSUME NEW c \in Conns, NEW n \in Nodes, AddDepth(c, n)
      PROVE  RequestInv' /\ BodyOnlyToAssignee'
  BY <1>11, <1>same DEF AddDepth, rowVars, reqVars
<1>12. ASSUME NEW c \in Conns, EndDepths(c)
      PROVE  RequestInv' /\ BodyOnlyToAssignee'
  BY <1>12, <1>same DEF EndDepths, Goto, rowVars, reqVars
<1>13. ASSUME NEW c \in Conns, SendAck(c)
      PROVE  RequestInv' /\ BodyOnlyToAssignee'
  BY <1>13, <1>same DEF SendAck, Goto, rowVars, reqVars
<1>14. ASSUME NEW c \in Conns, AckSent(c)
      PROVE  RequestInv' /\ BodyOnlyToAssignee'
  BY <1>14, <1>same DEF AckSent, Goto, rowVars, reqVars
<1>15. ASSUME NEW c \in Conns, Ping(c)
      PROVE  RequestInv' /\ BodyOnlyToAssignee'
  BY <1>15, <1>same DEF Ping, rowVars, reqVars
<1>16. ASSUME NEW c \in Conns, PingSent(c)
      PROVE  RequestInv' /\ BodyOnlyToAssignee'
  BY <1>16, <1>same DEF PingSent, rowVars, reqVars
<1>17. ASSUME NEW r \in Requests, BeginScan(r)
      PROVE  RequestInv' /\ BodyOnlyToAssignee'
  BY <1>17 DEF BeginScan, rowVars, HubInv, TypeOK, RequestInv, BodyOnlyToAssignee
<1>18. ASSUME NEW r \in Requests, NEW n \in Nodes, Snapshot(r, n)
      PROVE  RequestInv' /\ BodyOnlyToAssignee'
  BY <1>18, <1>same DEF Snapshot, rowVars
<1>19. ASSUME NEW r \in Requests, Route(r)
      PROVE  RequestInv' /\ BodyOnlyToAssignee'
  <2>1. rpc[r] = "scan" /\ rowKey' = rowKey
    BY <1>19 DEF Route, rowVars
  <2>2. CASE Return(r)
    BY <2>1, <2>2 DEF Return, HubInv, TypeOK, RequestInv, BodyOnlyToAssignee
  <2>3. ASSUME NEW n \in Nodes, target' = [target EXCEPT ![r] = n],
               rpc' = [rpc EXCEPT ![r] = "routed"], UNCHANGED <<conn, assignee, fetched>>
        PROVE  RequestInv' /\ BodyOnlyToAssignee'
    BY <2>1, <2>3 DEF HubInv, TypeOK, RequestInv, BodyOnlyToAssignee
  <2> QED  BY <1>19, <2>2, <2>3 DEF Route, Best
<1>20. ASSUME NEW r \in Requests, Lookup(r)
      PROVE  RequestInv' /\ BodyOnlyToAssignee'
  <2>1. CASE Return(r)
    BY <1>20, <2>1 DEF Lookup, Return, rowVars, HubInv, TypeOK, RequestInv,
       BodyOnlyToAssignee
  <2>2. CASE ~Return(r)
    <3> DEFINE c == nodes[target[r]]
    <3>1. target[r] \in Nodes
      BY <1>20 DEF Lookup, HubInv, RequestInv
    <3>2. c \in Conns
      BY <1>20, <2>2, <3>1 DEF Lookup, HubInv, TypeOK
    <3>9. pc[c] # "idle" /\ cnode[c] = target[r]
      BY <3>1, <3>2 DEF HubInv, MapIsServed, Entered
    <3>3. ckey[c] \in Keys /\ ckey[c] = rowKey[target[r]]
      <4> HIDE DEF c
      <4> QED  BY <3>2, <3>9 DEF HubInv, TypeOK, HandlerInv
    <3>4. /\ conn' = [conn EXCEPT ![r] = c]
          /\ assignee' = [assignee EXCEPT ![r] = ckey[c]]
          /\ rpc' = [rpc EXCEPT ![r] = "send"]
          /\ UNCHANGED <<target, fetched, rowKey>>
      BY <1>20, <2>2 DEF Lookup, rowVars
    <3>5. rpc[r] = "routed" /\ fetched[r] = {}
      BY <1>20 DEF Lookup, HubInv, RequestInv
    <3> HIDE DEF c
    <3>6. RequestInv'
      BY <3>1, <3>2, <3>3, <3>4, <3>5 DEF HubInv, TypeOK, RequestInv
    <3>7. BodyOnlyToAssignee'
      BY <3>4, <3>5 DEF HubInv, TypeOK, BodyOnlyToAssignee
    <3> QED  BY <3>6, <3>7
  <2> QED  BY <2>1, <2>2
<1>21. ASSUME NEW r \in Requests, SendJob(r)
      PROVE  RequestInv' /\ BodyOnlyToAssignee'
  BY <1>21 DEF SendJob, rowVars, HubInv, TypeOK, RequestInv, BodyOnlyToAssignee
<1>22. ASSUME NEW r \in Requests, JobSent(r)
      PROVE  RequestInv' /\ BodyOnlyToAssignee'
  <2>1. CASE Return(r)
    BY <1>22, <2>1 DEF JobSent, Return, rowVars, HubInv, TypeOK, RequestInv,
       BodyOnlyToAssignee
  <2>2. CASE ~Return(r)
    BY <1>22, <2>2 DEF JobSent, rowVars, HubInv, TypeOK, RequestInv, BodyOnlyToAssignee
  <2> QED  BY <2>1, <2>2
<1>23. ASSUME NEW r \in Requests, Settled(r)
      PROVE  RequestInv' /\ BodyOnlyToAssignee'
  BY <1>23 DEF Settled, Return, rowVars, HubInv, TypeOK, RequestInv, BodyOnlyToAssignee
<1>24. ASSUME NEW r \in Requests, Ask(r)
      PROVE  RequestInv' /\ BodyOnlyToAssignee'
  BY <1>24 DEF Ask, rowVars, HubInv, TypeOK, RequestInv, BodyOnlyToAssignee
<1>25. ASSUME NEW r \in Requests, NEW k \in Keys, Fetch(r, k)
      PROVE  RequestInv' /\ BodyOnlyToAssignee'
  BY <1>25 DEF Fetch, OwnsJob, rowVars, HubInv, TypeOK, RequestInv, BodyOnlyToAssignee
<1>26. ASSUME Restart
      PROVE  RequestInv' /\ BodyOnlyToAssignee'
  BY <1>26 DEF Restart, HubInv, TypeOK, RequestInv, BodyOnlyToAssignee
<1>27. ASSUME UNCHANGED vars  PROVE RequestInv' /\ BodyOnlyToAssignee'
  BY <1>27, <1>same DEF vars, rowVars, reqVars
<1> QED
  BY <1>1, <1>2, <1>3, <1>4, <1>5, <1>6, <1>7, <1>8, <1>9, <1>10, <1>11, <1>12,
     <1>13, <1>14, <1>15, <1>16, <1>17, <1>18, <1>19, <1>20, <1>21, <1>22, <1>23,
     <1>24, <1>25, <1>26, <1>27 DEF Next, Handler, Routing, SendEnds

(* No entry of the map changes while somebody ranges over it.              *)
LEMMA ScansKept ==
    ASSUME HubInv, TypeOK', [Next]_vars
    PROVE  ScanInv'
<1> USE HubAssumption
<1>same. ASSUME UNCHANGED <<nodes, pc, cmodels, todo, rpc, snap>>  PROVE ScanInv'
  BY <1>same DEF HubInv, TypeOK, ScanInv, Connected, Offering, HasModel
<1>1. ASSUME NEW n \in Nodes, NEW k \in Keys, NEW ms \in Offers, Register(n, k, ms)
      PROVE  ScanInv'
  BY <1>1, <1>same DEF Register, connVars, reqVars
<1>2. ASSUME NEW c \in Conns, NEW n \in Nodes, Connect(c, n)
      PROVE  ScanInv'
  <2>1. \A m \in Nodes : nodes[m] # c
    BY <1>2 DEF Connect, HubInv, MapIsServed, Entered
  <2>2. Connected' = Connected /\ \A r \in Requests : Offering(r)' = Offering(r)
    BY <1>2, <2>1 DEF Connect, HubInv, TypeOK, Connected, Offering, HasModel
  <2> QED  BY <1>2, <2>2 DEF Connect, Goto, reqVars, HubInv, TypeOK, ScanInv
<1>3. ASSUME NEW c \in Conns, Enter(c)
      PROVE  ScanInv'
  BY <1>3 DEF Enter, CanLock, Reading, Goto, reqVars, HubInv, TypeOK, ScanInv
<1>4. ASSUME NEW c \in Conns, Replace(c)
      PROVE  ScanInv'
  BY <1>4 DEF Replace, CancelOld, Goto, reqVars, HubInv, TypeOK, ScanInv, Connected,
     Offering, HasModel
<1>5. ASSUME NEW c \in Conns, Count(c)
      PROVE  ScanInv'
  BY <1>5 DEF Count, Goto, reqVars, HubInv, TypeOK, ScanInv, Connected, Offering,
     HasModel
<1>6. ASSUME NEW c \in Conns, ReadFails(c)
      PROVE  ScanInv'
  BY <1>6 DEF ReadFails, Goto, reqVars, HubInv, TypeOK, ScanInv, Connected,
     Offering, HasModel
<1>7. ASSUME NEW c \in Conns, Leave(c)
      PROVE  ScanInv'
  BY <1>7 DEF Leave, Remove, CanLock, Reading, Goto, reqVars, HubInv, TypeOK, ScanInv
<1>8. ASSUME NEW c \in Conns, Collect(c)
      PROVE  ScanInv'
  BY <1>8 DEF Collect, Goto, reqVars, HubInv, TypeOK, ScanInv, Connected, Offering,
     HasModel
<1>9. ASSUME NEW c \in Conns, NEW d \in Depths, Heartbeat(c, d)
      PROVE  ScanInv'
  BY <1>9 DEF Heartbeat, Goto, reqVars, HubInv, TypeOK, ScanInv, Connected,
     Offering, HasModel
<1>10. ASSUME NEW c \in Conns, BeginDepths(c)
      PROVE  ScanInv'
  BY <1>10 DEF BeginDepths, Goto, reqVars, HubInv, TypeOK, ScanInv, Connected,
     Offering, HasModel
<1>11. ASSUME NEW c \in Conns, NEW n \in Nodes, AddDepth(c, n)
      PROVE  ScanInv'
  BY <1>11 DEF AddDepth, connVars, reqVars, HubInv, TypeOK, ScanInv, Connected,
     Offering, HasModel
<1>12. ASSUME NEW c \in Conns, EndDepths(c)
      PROVE  ScanInv'
  <2>1. Connected' = Connected /\ \A r \in Requests : Offering(r)' = Offering(r)
    BY <1>12 DEF EndDepths, Connected, Offering, HasModel
  <2>2. todo[c] = {} /\ \A d \in Conns \ {c} : pc'[d] = pc[d]
    BY <1>12 DEF EndDepths, Goto, HubInv, TypeOK
  <2>3. UNCHANGED <<todo, rpc, snap>>
    BY <1>12 DEF EndDepths, reqVars
  <2> QED  BY <2>1, <2>2, <2>3 DEF HubInv, ScanInv
<1>13. ASSUME NEW c \in Conns, SendAck(c)
      PROVE  ScanInv'
  BY <1>13 DEF SendAck, Goto, reqVars, HubInv, TypeOK, ScanInv, Connected, Offering,
     HasModel
<1>14. ASSUME NEW c \in Conns, AckSent(c)
      PROVE  ScanInv'
  BY <1>14 DEF AckSent, Goto, reqVars, HubInv, TypeOK, ScanInv, Connected, Offering,
     HasModel
<1>15. ASSUME NEW c \in Conns, Ping(c)
      PROVE  ScanInv'
  BY <1>15, <1>same DEF Ping, connVars, reqVars
<1>16. ASSUME NEW c \in Conns, PingSent(c)
      PROVE  ScanInv'
  BY <1>16, <1>same DEF PingSent, connVars, reqVars
<1>17. ASSUME NEW r \in Requests, BeginScan(r)
      PROVE  ScanInv'
  BY <1>17 DEF BeginScan, connVars, HubInv, TypeOK, ScanInv, Connected, Offering,
     HasModel
<1>18. ASSUME NEW r \in Requests, NEW n \in Nodes, Snapshot(r, n)
      PROVE  ScanInv'
  <2>1. Connected' = Connected /\ \A q \in Requests : Offering(q)' = Offering(q)
    BY <1>18 DEF Snapshot, connVars, Connected, Offering, HasModel
  <2>2. n \in Connected /\ nodes[n] \in Conns
    BY <1>18 DEF Snapshot, HubInv, TypeOK, ScanInv, Connected
  <2>3. depth[nodes[n]] \in Nat
    BY <2>2 DEF HubInv, TypeOK
  <2>4. ~(snap[r][n] >= 0)
    BY <1>18 DEF Snapshot, HubInv, ScanInv
  <2>5. n \in Offering(r) <=> HasModel(nodes[n], ModelOf[r])
    BY <2>2 DEF Offering
  <2>6. ASSUME NEW q \in Requests, NEW m \in Nodes
        PROVE  snap'[q][m] >= 0 <=> rpc'[q] = "scan" /\ m \in Offering(q) \ todo'[q]
    <3>1. snap[q][m] >= 0 <=> rpc[q] = "scan" /\ m \in Offering(q) \ todo[q]
      BY DEF HubInv, ScanInv
    <3>2. CASE q = r /\ m = n
      <4>1. rpc'[q] = "scan" /\ m \notin todo'[q]
        BY <1>18, <3>2 DEF Snapshot, HubInv, TypeOK
      <4>2. snap'[q][m] = IF n \in Offering(r) THEN depth[nodes[n]] ELSE snap[r][n]
        BY <1>18, <2>5, <3>2 DEF Snapshot, HubInv, TypeOK
      <4> QED  BY <2>3, <2>4, <3>2, <4>1, <4>2
    <3>3. CASE ~(q = r /\ m = n)
      <4>1. snap'[q][m] = snap[q][m]
        BY <1>18, <3>3 DEF Snapshot, HubInv, TypeOK
      <4>2. rpc' = rpc /\ (m \in todo'[q] <=> m \in todo[q])
        BY <1>18, <3>3 DEF Snapshot, HubInv, TypeOK
      <4> QED  BY <3>1, <4>1, <4>2
    <3> QED  BY <3>2, <3>3
  <2>7. /\ \A c \in Conns : todo'[c] # {} => pc'[c] = "depths"
        /\ \A q \in Requests : todo'[q] # {} => rpc'[q] = "scan"
        /\ \A x \in Conns \union Requests : todo'[x] \subseteq Connected
    BY <1>18 DEF Snapshot, connVars, HubInv, TypeOK, ScanInv
  <2> QED  BY <2>1, <2>6, <2>7 DEF ScanInv
<1>19. ASSUME NEW r \in Requests, Route(r)
      PROVE  ScanInv'
  <2>1. Connected' = Connected /\ \A q \in Requests : Offering(q)' = Offering(q)
    BY <1>19 DEF Route, connVars, Connected, Offering, HasModel
  <2>2. rpc'[r] # "scan" /\ \A q \in Requests \ {r} : rpc'[q] = rpc[q]
    BY <1>19 DEF Route, Return, HubInv, TypeOK
  <2>3. /\ \A m \in Nodes : ~(snap'[r][m] >= 0)
        /\ \A q \in Requests \ {r} : snap'[q] = snap[q]
    BY <1>19 DEF Route, HubInv, TypeOK
  <2>4. todo' = todo /\ todo[r] = {} /\ pc' = pc
    BY <1>19 DEF Route, connVars
  <2> QED  BY <2>1, <2>2, <2>3, <2>4 DEF HubInv, ScanInv
<1>20. ASSUME NEW r \in Requests, Lookup(r)
      PROVE  ScanInv'
  <2>1. Connected' = Connected /\ \A q \in Requests : Offering(q)' = Offering(q)
    BY <1>20 DEF Lookup, connVars, Connected, Offering, HasModel
  <2>2. \A q \in Requests : rpc'[q] = "scan" <=> rpc[q] = "scan"
    BY <1>20 DEF Lookup, Return, HubInv, TypeOK
  <2>3. UNCHANGED <<todo, pc, snap>>
    BY <1>20 DEF Lookup, connVars
  <2> QED  BY <2>1, <2>2, <2>3 DEF HubInv, ScanInv
<1>21. ASSUME NEW r \in Requests, SendJob(r)
      PROVE  ScanInv'
  BY <1>21 DEF SendJob, connVars, HubInv, TypeOK, ScanInv, Connected, Offering, HasModel
<1>22. ASSUME NEW r \in Requests, JobSent(r)
      PROVE  ScanInv'
  <2>1. Connected' = Connected /\ \A q \in Requests : Offering(q)' = Offering(q)
    BY <1>22 DEF JobSent, connVars, Connected, Offering, HasModel
  <2>2. \A q \in Requests : rpc'[q] = "scan" <=> rpc[q] = "scan"
    BY <1>22 DEF JobSent, Return, HubInv, TypeOK
  <2>3. UNCHANGED <<todo, pc, snap>>
    BY <1>22 DEF JobSent, connVars
  <2> QED  BY <2>1, <2>2, <2>3 DEF HubInv, ScanInv
<1>23. ASSUME NEW r \in Requests, Settled(r)
      PROVE  ScanInv'
  BY <1>23 DEF Settled, Return, connVars, HubInv, TypeOK, ScanInv, Connected,
     Offering, HasModel
<1>24. ASSUME NEW r \in Requests, Ask(r)
      PROVE  ScanInv'
  BY <1>24 DEF Ask, connVars, HubInv, TypeOK, ScanInv, Connected, Offering, HasModel
<1>25. ASSUME NEW r \in Requests, NEW k \in Keys, Fetch(r, k)
      PROVE  ScanInv'
  BY <1>25, <1>same DEF Fetch, connVars
<1>26. ASSUME Restart
      PROVE  ScanInv'
  BY <1>26 DEF Restart, HubInv, TypeOK, ScanInv
<1>27. ASSUME UNCHANGED vars  PROVE ScanInv'
  BY <1>27, <1>same DEF vars, connVars, reqVars
<1> QED
  BY <1>1, <1>2, <1>3, <1>4, <1>5, <1>6, <1>7, <1>8, <1>9, <1>10, <1>11, <1>12,
     <1>13, <1>14, <1>15, <1>16, <1>17, <1>18, <1>19, <1>20, <1>21, <1>22, <1>23,
     <1>24, <1>25, <1>26, <1>27 DEF Next, Handler, Routing, SendEnds

(* HubInv, the conjunction of what the handlers of HandleWS, the routes of *)
(* RouteRequest and AssignJob and the job proxy rely on, is invariant.     *)
THEOREM HubInvariant == Spec => []HubInv
<1>1. Init => HubInv
  BY HubAssumption DEF Init, HubInv, TypeOK, ConnStates, ReqStates, Nobody,
     HandlerInv, MapIsServed, NoLiveOrphan, Entered, LockInv, RequestInv,
     BodyOnlyToAssignee, ScanInv
<1>2. HubInv /\ [Next]_vars => HubInv'
  BY TypesKept, HandlersKept, MapKept, NoOrphanKept, LocksKept, RequestsKept,
     ScansKept DEF HubInv
<1> QED  BY <1>1, <1>2, PTL DEF Spec

(* However the handlers of reconnecting nodes overlap, an entry of         *)
(* Gateway.nodes is a connection of that node whose handler is still to    *)
(* remove it, or one that panicked.                                        *)
THEOREM EveryEntryIsServed == Spec => []MapIsServed
BY HubInvariant, PTL DEF HubInv

(* HandleWS's cleanup never cuts off the connection that has replaced its  *)
(* own: one that is served and was not replaced is in the map.             *)
THEOREM NoServedConnectionIsLost == Spec => []NoLiveOrphan
BY HubInvariant, PTL DEF HubInv

(* HandleJobProxy gives the body of a request only to the key with which   *)
(* the connection that AssignJob chose was opened, whoever has registered  *)
(* the node's id again in between.                                         *)
THEOREM OnlyAssigneeFetches == Spec => []BodyOnlyToAssignee
BY HubInvariant, PTL DEF HubInv

(* The least loaded node of a snapshot exists when the snapshot has one.   *)
LEMMA BestExists ==
    ASSUME HubInv, NEW r \in Requests, NEW n \in Nodes, snap[r][n] >= 0
    PROVE  Best(r) # {}
<1> DEFINE W == {snap[r][m] : m \in {q \in Nodes : snap[r][q] >= 0}}
<1>1. snap[r] \in [Nodes -> {-1} \union Depths]
  BY DEF HubInv, TypeOK
<1>2. W \in SUBSET Nat /\ W # {}
  <2>1. \A q \in Nodes : snap[r][q] >= 0 => snap[r][q] \in Nat
    <3>1. Depths \subseteq Nat
      BY HubAssumption
    <3>2. ASSUME NEW q \in Nodes, snap[r][q] >= 0  PROVE snap[r][q] \in Nat
      <4>1. snap[r][q] = -1 \/ snap[r][q] \in Nat
        BY <1>1, <3>1
      <4> QED  BY <3>2, <4>1
    <3> QED  BY <3>2
  <2>2. n \in {q \in Nodes : snap[r][q] >= 0}
    OBVIOUS
  <2> QED  BY <2>1, <2>2
<1>3. PICK w \in W : \A v \in W : w <= v
  <2> HIDE DEF W
  <2> QED  BY <1>2, LeastNat
<1>4. PICK m \in Nodes : snap[r][m] >= 0 /\ w = snap[r][m]
  BY <1>3
<1>5. \A q \in Nodes : snap[r][q] >= 0 => snap[r][m] <= snap[r][q]
  BY <1>3, <1>4
<1> QED  BY <1>4, <1>5 DEF Best

(* RouteRequest answers 503 only when no connected node offers the model   *)
(* and otherwise picks one that does, although LiveNodeInfos visits the    *)
(* connections one by one.                                                 *)
THEOREM RoutesAreTrue == Spec => RouteIsTrue
<1>1. ASSUME HubInv, [Next]_vars, NEW r \in Requests, rpc[r] = "scan"
      PROVE  /\ rpc'[r] = "returned" => Offering(r) = {}
             /\ rpc'[r] = "routed" => target'[r] \in Offering(r)
  <2>1. CASE Route(r)
    <3>1. \A n \in Nodes : snap[r][n] >= 0 <=> n \in Offering(r)
      BY <1>1, <2>1 DEF Route, HubInv, ScanInv
    <3>2. Offering(r) \subseteq Nodes
      BY DEF Offering, Connected
    <3>3. CASE Best(r) = {}
      BY <3>1, <3>2, <3>3, <1>1, <2>1, BestExists DEF Route, Return, HubInv, TypeOK
    <3>4. CASE Best(r) # {}
      <4>1. PICK n \in Best(r) : target' = [target EXCEPT ![r] = n] /\ rpc' = [rpc EXCEPT ![r] = "routed"]
        BY <2>1, <3>4 DEF Route
      <4>2. n \in Offering(r)
        BY <4>1, <3>1 DEF Best
      <4> QED  BY <4>1, <4>2, <1>1 DEF HubInv, TypeOK
    <3> QED  BY <3>3, <3>4
  <2>2. CASE ~Route(r)
    <3>1. ASSUME Restart  PROVE rpc'[r] = "lost"
      BY <1>1, <3>1 DEF Restart
    <3>2. ASSUME NEW q \in Requests, BeginScan(q) \/ Lookup(q) \/ SendJob(q) \/ JobSent(q)
                                     \/ Settled(q) \/ Ask(q)
          PROVE  rpc'[r] = rpc[r]
      BY <1>1, <3>2 DEF BeginScan, Lookup, SendJob, JobSent, Settled, Ask, Return,
         HubInv, TypeOK
    <3>3. ASSUME NEW q \in Requests, Route(q)  PROVE rpc'[r] = rpc[r]
      BY <1>1, <2>2, <3>3 DEF Route, Return, HubInv, TypeOK
    <3>4. \/ UNCHANGED rpc \/ Restart
          \/ \E q \in Requests : BeginScan(q) \/ Lookup(q) \/ SendJob(q) \/ JobSent(q)
                                  \/ Settled(q) \/ Ask(q) \/ Route(q)
      BY <1>1 DEF Next, Handler, Routing, SendEnds, vars, reqVars, Register,
         Connect, Enter, Replace, Count, ReadFails, Leave, Collect, Heartbeat,
         BeginDepths, AddDepth, EndDepths, SendAck, AckSent, Ping, PingSent,
         Snapshot, Fetch
    <3> QED  BY <1>1, <3>1, <3>2, <3>3, <3>4
  <2> QED  BY <2>1, <2>2
<1>2. HubInv /\ [Next]_vars
        => [\A r \in Requests :
              rpc[r] = "scan" => /\ rpc'[r] = "returned" => Offering(r) = {}
                                 /\ rpc'[r] = "routed" => target'[r] \in Offering(r)]_vars
  BY <1>1
<1> QED  BY <1>2, HubInvariant, PTL DEF Spec, RouteIsTrue

============================================================================
