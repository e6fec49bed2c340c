-------------------------------- MODULE Hub --------------------------------
(***************************************************************************)
(* The hub of provider nodes: their rows (HandleRegister), their WebSocket *)
(* connections (HandleWS, readLoop, pingLoop, handleHeartbeat), the route  *)
(* a request takes to one of them (RouteRequest over LiveNodeInfos, then   *)
(* AssignJob) and the endpoint where the node fetches the request's body   *)
(* (HandleJobProxy).                                                       *)
(*                                                                         *)
(* Two mutexes order this.  Gateway.mu is an RWMutex over the map of       *)
(* connections, whose RLock waits for a writer that is waiting already;    *)
(* NodeConn.mu is held while a message is sent, which may take as long as  *)
(* Send's five seconds, and taken for each connection in turn by those who *)
(* read all queue depths while they hold Gateway.mu for reading.           *)
(*                                                                         *)
(* A connection is one call of HandleWS; when it is over and nothing       *)
(* refers to it any more it stands for another one.  A write section of    *)
(* Gateway.mu never waits inside and is one step, as is a read section of  *)
(* a single access.                                                        *)
(***************************************************************************)
EXTENDS Integers, FiniteSets

CONSTANTS
    Nodes,      \* node ids
    Keys,       \* API keys of nodes
    Conns,      \* WebSocket connections at one time (bound)
    Requests,   \* chat requests
    Models,     \* model names
    ModelOf,    \* the model a request asks for
    InitKey,    \* the rows of an earlier run of the process, by their keys
    Offers,     \* sets of models that nodes register with (bound)
    ShortIds,   \* node ids of fewer than eight bytes
    Depths,     \* queue depths a node may report (bound)
    NoKey, NoConn, NoNode

ASSUME HubAssumption ==
    /\ ModelOf \in [Requests -> Models]
    /\ InitKey \in [Nodes -> Keys \union {NoKey}]
    /\ \A n, m \in Nodes : InitKey[n] = InitKey[m] => n = m \/ InitKey[n] = NoKey
    /\ Offers \subseteq SUBSET Models
    /\ ShortIds \subseteq Nodes
    /\ Depths \subseteq Nat /\ 0 \in Depths
    /\ NoKey \notin Keys /\ NoConn \notin Conns /\ NoNode \notin Nodes
    /\ Conns \intersect Requests = {}
    /\ {"nobody", "ping", "ack"} \intersect Requests = {}

VARIABLES
    rowKey, rowModels,  \* database: api_key and models of each node's row
    nodes,              \* Gateway.nodes
    pc,                 \* HandleWS: where each connection's handler is,
    cnode, ckey,        \*   NodeConn.NodeID and .APIKey,
    cmodels, depth,     \*   NodeConn.Models and .QueueDepth,
    cancelled,          \*   whether NodeConn.ctx is done,
    prev,               \*   and HandleWS's local `old`
    sender,             \* who holds NodeConn.mu for a Send
    todo,               \* nodes a holder of Gateway.mu for reading has yet to visit
    rpc,                \* where each request is,
    snap,               \*   the queue depths of its snapshot (-1: not in it),
    target, conn,       \*   the node of its route and the connection looked up
    assignee,           \* history: the key its connection was opened with,
    fetched             \*   and the keys that were given its body

rowVars  == <<rowKey, rowModels>>
connVars == <<pc, cnode, ckey, cmodels, depth, cancelled, prev>>
reqVars  == <<rpc, snap, target, conn, assignee, fetched>>
vars     == <<rowVars, nodes, connVars, sender, todo, reqVars>>

ConnStates == {"idle", "enter", "replace", "count", "serve", "stats", "depths",
               "ack", "acking", "leave", "gone", "panicked"}
ReqStates  == {"new", "scan", "routed", "send", "sending", "sent", "returned",
               "lost"}
Nobody     == "nobody"

TypeOK ==
    /\ rowKey \in [Nodes -> Keys \union {NoKey}]
    /\ rowModels \in [Nodes -> SUBSET Models]
    /\ nodes \in [Nodes -> Conns \union {NoConn}]
    /\ pc \in [Conns -> ConnStates]
    /\ cnode \in [Conns -> Nodes \union {NoNode}]
    /\ ckey \in [Conns -> Keys \union {NoKey}]
    /\ cmodels \in [Conns -> SUBSET Models]
    /\ depth \in [Conns -> Depths]
    /\ cancelled \in [Conns -> BOOLEAN]
    /\ prev \in [Conns -> Conns \union {NoConn}]
    /\ sender \in [Conns -> {Nobody, "ping", "ack"} \union Requests]
    /\ todo \in [Conns \union Requests -> SUBSET Nodes]
    /\ rpc \in [Requests -> ReqStates]
    /\ snap \in [Requests -> [Nodes -> {-1} \union Depths]]
    /\ target \in [Requests -> Nodes \union {NoNode}]
    /\ conn \in [Requests -> Conns \union {NoConn}]
    /\ assignee \in [Requests -> Keys \union {NoKey}]
    /\ fetched \in [Requests -> SUBSET Keys]

Init ==
    /\ rowKey = InitKey
    /\ rowModels \in [Nodes -> Offers]
    /\ nodes = [n \in Nodes |-> NoConn]
    /\ pc = [c \in Conns |-> "idle"]
    /\ cnode = [c \in Conns |-> NoNode] /\ ckey = [c \in Conns |-> NoKey]
    /\ cmodels = [c \in Conns |-> {}] /\ depth = [c \in Conns |-> 0]
    /\ cancelled = [c \in Conns |-> FALSE]
    /\ prev = [c \in Conns |-> NoConn]
    /\ sender = [c \in Conns |-> Nobody]
    /\ todo = [x \in Conns \union Requests |-> {}]
    /\ rpc = [r \in Requests |-> "new"]
    /\ snap = [r \in Requests |-> [n \in Nodes |-> -1]]
    /\ target = [r \in Requests |-> NoNode] /\ conn = [r \in Requests |-> NoConn]
    /\ assignee = [r \in Requests |-> NoKey] /\ fetched = [r \in Requests |-> {}]

----------------------------------------------------------------------------
(* The locks.  The variants named for a fault are plausible mistakes in    *)
(* the definitions after them; no action uses them.                        *)

Connected == {n \in Nodes : nodes[n] # NoConn}

(* Gateway.mu.  Readers that stay inside range over the map.               *)
Reading == (\E c \in Conns : pc[c] = "depths") \/ (\E r \in Requests : rpc[r] = "scan")
WriterWaits == \E c \in Conns : pc[c] \in {"enter", "leave"}

CanLock  == ~Reading
CanRLock == ~WriterWaits

(* NodeConn.mu of c is free: nobody is in Send.                            *)
Free(c) == sender[c] = Nobody

----------------------------------------------------------------------------
(* HandleRegister *)

(* RegisterNode: a new row, when no other has the key; an existing one     *)
(* keeps its key, whichever the caller presented, and is given the rest.   *)
UpsertTakesKey(n, k, ms) ==
    /\ \A m \in Nodes \ {n} : rowKey[m] # k
    /\ rowKey' = [rowKey EXCEPT ![n] = k]
    /\ rowModels' = [rowModels EXCEPT ![n] = ms]
Upsert(n, k, ms) ==
    /\ rowKey[n] = NoKey => \A m \in Nodes : rowKey[m] # k
    /\ rowKey' = [rowKey EXCEPT ![n] = IF @ = NoKey THEN k ELSE @]
    /\ rowModels' = [rowModels EXCEPT ![n] = ms]

Register(n, k, ms) ==
    /\ Upsert(n, k, ms)
    /\ UNCHANGED <<nodes, connVars, sender, todo, reqVars>>

----------------------------------------------------------------------------
(* HandleWS *)

Goto(c, l) == pc' = [pc EXCEPT ![c] = l]

(* NodeByAPIKey finds the row; the connection takes the models of that     *)
(* moment.  Its handler goes for the write lock.                           *)
Connect(c, n) ==
    /\ pc[c] = "idle"
    /\ rowKey[n] # NoKey
    /\ cnode' = [cnode EXCEPT ![c] = n]
    /\ ckey' = [ckey EXCEPT ![c] = rowKey[n]]
    /\ cmodels' = [cmodels EXCEPT ![c] = rowModels[n]]
    /\ Goto(c, "enter")
    /\ UNCHANGED <<rowVars, nodes, depth, cancelled, prev, sender, todo, reqVars>>

(* The map has the new connection before the old one is cancelled.         *)
EnterUnlocked(c) ==
    /\ pc[c] = "enter"
    /\ prev' = [prev EXCEPT ![c] = nodes[cnode[c]]]
    /\ nodes' = [nodes EXCEPT ![cnode[c]] = c]
    /\ Goto(c, IF nodes[cnode[c]] = NoConn THEN "count" ELSE "replace")
    /\ UNCHANGED <<rowVars, cnode, ckey, cmodels, depth, cancelled, sender, todo, reqVars>>
Enter(c) ==
    /\ pc[c] = "enter" /\ CanLock
    /\ prev' = [prev EXCEPT ![c] = nodes[cnode[c]]]
    /\ nodes' = [nodes EXCEPT ![cnode[c]] = c]
    /\ Goto(c, IF nodes[cnode[c]] = NoConn THEN "count" ELSE "replace")
    /\ UNCHANGED <<rowVars, cnode, ckey, cmodels, depth, cancelled, sender, todo, reqVars>>

(* old.cancel() and old.conn.Close().                                      *)
CancelOldForgotten(c) == UNCHANGED cancelled
CancelOld(c) == cancelled' = [cancelled EXCEPT ![prev[c]] = TRUE]

Replace(c) ==
    /\ pc[c] = "replace"
    /\ CancelOld(c)
    /\ prev' = [prev EXCEPT ![c] = NoConn]
    /\ Goto(c, "count")
    /\ UNCHANGED <<rowVars, nodes, cnode, ckey, cmodels, depth, sender, todo, reqVars>>

(* ConnectedNodes for the log line, and into readLoop.                     *)
Count(c) ==
    /\ pc[c] = "count" /\ CanRLock
    /\ Goto(c, "serve")
    /\ UNCHANGED <<rowVars, nodes, cnode, ckey, cmodels, depth, cancelled, prev,
                   sender, todo, reqVars>>

(* Read returns an error: the peer has gone or the context is done.        *)
ReadFails(c) ==
    /\ pc[c] = "serve"
    /\ Goto(c, "leave")
    /\ UNCHANGED <<rowVars, nodes, cnode, ckey, cmodels, depth, cancelled, prev,
                   sender, todo, reqVars>>

(* The entry is deleted unless another connection has taken it; then the   *)
(* context is cancelled and the handler returns.                           *)
RemoveForgotten(c) == UNCHANGED nodes
RemoveAny(c) == nodes' = [nodes EXCEPT ![cnode[c]] = NoConn]
Remove(c) == nodes' = [nodes EXCEPT ![cnode[c]] = IF @ = c THEN NoConn ELSE @]

Leave(c) ==
    /\ pc[c] = "leave" /\ CanLock
    /\ Remove(c)
    /\ cancelled' = [cancelled EXCEPT ![c] = TRUE]
    /\ Goto(c, "gone")
    /\ UNCHANGED <<rowVars, cnode, ckey, cmodels, depth, prev, sender, todo, reqVars>>

(* Nothing refers to the NodeConn any more: it stands for another one.     *)
Collect(c) ==
    /\ pc[c] \in {"gone", "panicked"} /\ Free(c)
    /\ \A n \in Nodes : nodes[n] # c
    /\ \A d \in Conns : prev[d] # c
    /\ \A r \in Requests : conn[r] # c
    /\ Goto(c, "idle")
    /\ cnode' = [cnode EXCEPT ![c] = NoNode] /\ ckey' = [ckey EXCEPT ![c] = NoKey]
    /\ cmodels' = [cmodels EXCEPT ![c] = {}] /\ depth' = [depth EXCEPT ![c] = 0]
    /\ cancelled' = [cancelled EXCEPT ![c] = FALSE]
    /\ UNCHANGED <<rowVars, nodes, prev, sender, todo, reqVars>>

----------------------------------------------------------------------------
(* handleHeartbeat and pingLoop *)

(* The message's figures are stored under NodeConn.mu; the statistics are  *)
(* read from the database.                                                 *)
Heartbeat(c, d) ==
    /\ pc[c] = "serve" /\ Free(c)
    /\ depth' = [depth EXCEPT ![c] = d]
    /\ Goto(c, "stats")
    /\ UNCHANGED <<rowVars, nodes, cnode, ckey, cmodels, cancelled, prev, sender,
                   todo, reqVars>>

(* globalQueueDepth: RLock, every connection's mutex in turn, RUnlock.     *)
BeginDepths(c) ==
    /\ pc[c] = "stats" /\ CanRLock
    /\ todo' = [todo EXCEPT ![c] = Connected]
    /\ Goto(c, "depths")
    /\ UNCHANGED <<rowVars, nodes, cnode, ckey, cmodels, depth, cancelled, prev,
                   sender, reqVars>>

AddDepth(c, n) ==
    /\ pc[c] = "depths" /\ n \in todo[c] /\ Free(nodes[n])
    /\ todo' = [todo EXCEPT ![c] = @ \ {n}]
    /\ UNCHANGED <<rowVars, nodes, connVars, sender, reqVars>>

(* The log line takes the first eight bytes of the node id.  A shorter id  *)
(* makes it panic: the HTTP server recovers and the request's context ends,*)
(* but HandleWS does not get to its cleanup.                               *)
EndDepths(c) ==
    /\ pc[c] = "depths" /\ todo[c] = {}
    /\ IF cnode[c] \in ShortIds
       THEN Goto(c, "panicked") /\ cancelled' = [cancelled EXCEPT ![c] = TRUE]
       ELSE Goto(c, "ack") /\ UNCHANGED cancelled
    /\ UNCHANGED <<rowVars, nodes, cnode, ckey, cmodels, depth, prev, sender, todo, reqVars>>

(* Send of the ack: NodeConn.mu is held until the write ends or times out; *)
(* an error is only logged.                                                *)
SendAck(c) ==
    /\ pc[c] = "ack" /\ Free(c)
    /\ sender' = [sender EXCEPT ![c] = "ack"]
    /\ Goto(c, "acking")
    /\ UNCHANGED <<rowVars, nodes, cnode, ckey, cmodels, depth, cancelled, prev,
                   todo, reqVars>>

AckSentLocked(c) ==
    /\ pc[c] = "acking"
    /\ Goto(c, "serve")
    /\ UNCHANGED <<rowVars, nodes, cnode, ckey, cmodels, depth, cancelled, prev,
                   sender, todo, reqVars>>
AckSent(c) ==
    /\ pc[c] = "acking"
    /\ sender' = [sender EXCEPT ![c] = Nobody]
    /\ Goto(c, "serve")
    /\ UNCHANGED <<rowVars, nodes, cnode, ckey, cmodels, depth, cancelled, prev,
                   todo, reqVars>>

(* pingLoop, from the start of readLoop until the context is done or a     *)
(* ping fails.                                                             *)
Ping(c) ==
    /\ pc[c] \in {"serve", "stats", "depths", "ack", "leave"}
    /\ ~cancelled[c] /\ Free(c)
    /\ sender' = [sender EXCEPT ![c] = "ping"]
    /\ UNCHANGED <<rowVars, nodes, connVars, todo, reqVars>>

PingSent(c) ==
    /\ sender[c] = "ping"
    /\ sender' = [sender EXCEPT ![c] = Nobody]
    /\ UNCHANGED <<rowVars, nodes, connVars, todo, reqVars>>

----------------------------------------------------------------------------
(* RouteRequest and AssignJob *)

(* LiveNodeInfos: RLock ...                                                *)
BeginScan(r) ==
    /\ rpc[r] = "new" /\ CanRLock
    /\ todo' = [todo EXCEPT ![r] = Connected]
    /\ rpc' = [rpc EXCEPT ![r] = "scan"]
    /\ UNCHANGED <<rowVars, nodes, connVars, sender, snap, target, conn, assignee, fetched>>

(* ... every connection under its own mutex; RouteRequest will skip the    *)
(* ones without the model ...                                              *)
HasModel(c, m) == m \in cmodels[c]

Snapshot(r, n) ==
    /\ rpc[r] = "scan" /\ n \in todo[r] /\ Free(nodes[n])
    /\ todo' = [todo EXCEPT ![r] = @ \ {n}]
    /\ snap' = IF HasModel(nodes[n], ModelOf[r])
               THEN [snap EXCEPT ![r][n] = depth[nodes[n]]]
               ELSE snap
    /\ UNCHANGED <<rowVars, nodes, connVars, sender, rpc, target, conn, assignee, fetched>>

(* ... and RUnlock.  The first of the least loaded in the map's arbitrary  *)
(* order is the route: any of them.  Without one it is 503.                *)
Best(r) ==
    {n \in Nodes : /\ snap[r][n] >= 0
                   /\ \A m \in Nodes : snap[r][m] >= 0 => snap[r][n] <= snap[r][m]}

(* The request is answered and its locals are gone.                        *)
Return(r) ==
    /\ rpc' = [rpc EXCEPT ![r] = "returned"]
    /\ target' = [target EXCEPT ![r] = NoNode] /\ conn' = [conn EXCEPT ![r] = NoConn]
    /\ assignee' = [assignee EXCEPT ![r] = NoKey] /\ fetched' = [fetched EXCEPT ![r] = {}]

Route(r) ==
    /\ rpc[r] = "scan" /\ todo[r] = {}
    /\ \/ Best(r) = {} /\ Return(r)
       \/ \E n \in Best(r) :
            /\ target' = [target EXCEPT ![r] = n]
            /\ rpc' = [rpc EXCEPT ![r] = "routed"]
            /\ UNCHANGED <<conn, assignee, fetched>>
    /\ snap' = [snap EXCEPT ![r] = [n \in Nodes |-> -1]]
    /\ UNCHANGED <<rowVars, nodes, connVars, sender, todo>>

(* AssignJob looks the node up again: ErrNoNode when it has left,          *)
(* otherwise the job enters pendingJobs.                                   *)
Lookup(r) ==
    LET c == nodes[target[r]] IN
    /\ rpc[r] = "routed" /\ CanRLock
    /\ \/ c = NoConn /\ Return(r)
       \/ /\ c # NoConn
          /\ conn' = [conn EXCEPT ![r] = c]
          /\ assignee' = [assignee EXCEPT ![r] = ckey[c]]
          /\ rpc' = [rpc EXCEPT ![r] = "send"]
          /\ UNCHANGED <<target, fetched>>
    /\ UNCHANGED <<rowVars, nodes, connVars, sender, todo, snap>>

SendJob(r) ==
    /\ rpc[r] = "send" /\ Free(conn[r])
    /\ sender' = [sender EXCEPT ![conn[r]] = r]
    /\ rpc' = [rpc EXCEPT ![r] = "sending"]
    /\ UNCHANGED <<rowVars, nodes, connVars, todo, snap, target, conn, assignee, fetched>>

(* The write ends; after an error the job is taken back: 502.              *)
JobSent(r) ==
    /\ rpc[r] = "sending"
    /\ sender' = [sender EXCEPT ![conn[r]] = Nobody]
    /\ \/ Return(r)
       \/ /\ rpc' = [rpc EXCEPT ![r] = "sent"]
          /\ conn' = [conn EXCEPT ![r] = NoConn]
          /\ UNCHANGED <<target, assignee, fetched>>
    /\ UNCHANGED <<rowVars, nodes, connVars, todo, snap>>

(* The job is settled (module Gateway).                                    *)
Settled(r) ==
    /\ rpc[r] = "sent"
    /\ Return(r)
    /\ UNCHANGED <<rowVars, nodes, connVars, sender, todo, snap>>

(* Another request for the same model.                                     *)
Ask(r) ==
    /\ rpc[r] \in {"returned", "lost"}
    /\ rpc' = [rpc EXCEPT ![r] = "new"]
    /\ UNCHANGED <<rowVars, nodes, connVars, sender, todo, snap, target, conn, assignee, fetched>>

(* HandleJobProxy: the job is in pendingJobs and the presented key belongs *)
(* to the row of its node.                                                 *)
OwnsJob(r, k) == rowKey[target[r]] = k

Fetch(r, k) ==
    /\ rpc[r] \in {"send", "sending", "sent"}
    /\ OwnsJob(r, k)
    /\ fetched' = [fetched EXCEPT ![r] = @ \union {k}]
    /\ UNCHANGED <<rowVars, nodes, connVars, sender, todo, rpc, snap, target, conn,
                   assignee>>

----------------------------------------------------------------------------

(* The process is started again: only the rows are kept.                   *)
Restart ==
    /\ nodes' = [n \in Nodes |-> NoConn]
    /\ pc' = [c \in Conns |-> "idle"]
    /\ cnode' = [c \in Conns |-> NoNode] /\ ckey' = [c \in Conns |-> NoKey]
    /\ cmodels' = [c \in Conns |-> {}] /\ depth' = [c \in Conns |-> 0]
    /\ cancelled' = [c \in Conns |-> FALSE]
    /\ prev' = [c \in Conns |-> NoConn]
    /\ sender' = [c \in Conns |-> Nobody]
    /\ todo' = [x \in Conns \union Requests |-> {}]
    /\ rpc' = [r \in Requests |-> IF rpc[r] = "new" THEN "new" ELSE "lost"]
    /\ snap' = [r \in Requests |-> [n \in Nodes |-> -1]]
    /\ target' = [r \in Requests |-> NoNode] /\ conn' = [r \in Requests |-> NoConn]
    /\ assignee' = [r \in Requests |-> NoKey] /\ fetched' = [r \in Requests |-> {}]
    /\ UNCHANGED rowVars

(* Steps a handler takes by itself, once it has the lock it waits for.     *)
Handler(c) ==
    \/ Enter(c) \/ Replace(c) \/ Count(c) \/ Leave(c) \/ Collect(c)
    \/ BeginDepths(c) \/ EndDepths(c) \/ SendAck(c)
    \/ \E n \in Nodes : AddDepth(c, n)

Routing(r) ==
    \/ BeginScan(r) \/ Route(r) \/ Lookup(r) \/ SendJob(r)
    \/ \E n \in Nodes : Snapshot(r, n)

SendEnds(c) == AckSent(c) \/ PingSent(c)

Next ==
    \/ \E n \in Nodes, k \in Keys, ms \in Offers : Register(n, k, ms)
    \/ \E c \in Conns :
         \/ \E n \in Nodes : Connect(c, n)
         \/ Handler(c) \/ ReadFails(c) \/ Ping(c) \/ SendEnds(c)
         \/ \E d \in Depths : Heartbeat(c, d)
    \/ \E r \in Requests :
         \/ Routing(r) \/ JobSent(r) \/ Settled(r) \/ Ask(r)
         \/ \E k \in Keys : Fetch(r, k)
    \/ Restart

Spec == Init /\ [][Next]_vars

(* Send gives up after five seconds.  A goroutine that waits for a mutex   *)
(* gets it at last, however often others are first: Go hands a mutex over  *)
(* to one that has waited for a millisecond, and the readers that wait for *)
(* an RWMutex enter when its writer leaves.  Reading from a connection     *)
(* whose context is done fails at last.                                    *)
Fairness ==
    /\ \A c \in Conns :
         /\ WF_vars(SendEnds(c))
         /\ SF_vars(Handler(c))
         /\ SF_vars(cancelled[c] /\ ReadFails(c))
    /\ \A r \in Requests : WF_vars(JobSent(r)) /\ SF_vars(Routing(r))

FairSpec == Spec /\ Fairness

----------------------------------------------------------------------------
(* Properties. *)

(* Connections that were entered in the map and have not been taken out.   *)
Entered(c) == pc[c] \in {"replace", "count", "serve", "stats", "depths", "ack",
                         "acking", "leave", "panicked"}

(* However the handlers of a reconnecting node overlap, an entry of the    *)
(* map is a connection of that node whose handler is still to remove it,   *)
(* or one whose handler panicked.                                          *)
MapIsServed ==
    \A n \in Nodes : nodes[n] # NoConn => Entered(nodes[n]) /\ cnode[nodes[n]] = n

(* Nobody is cut off by the cleanup of another: a connection that is being *)
(* served and was not replaced is in the map.                              *)
NoLiveOrphan ==
    \A c \in Conns :
        Entered(c) /\ ~cancelled[c] /\ (\A d \in Conns : pc[d] = "replace" => prev[d] # c)
            => nodes[cnode[c]] = c

(* gateway.go:584, "only the assigned node can fetch the request": the key *)
(* that is given the body of a request is the key with which the           *)
(* connection that was told of the job was opened, whoever has registered  *)
(* the node's id again in between.                                         *)
BodyOnlyToAssignee ==
    \A r \in Requests : fetched[r] \subseteq {assignee[r]}

(* A handler that is past the key check acts for the row with that key,    *)
(* and has somebody to cancel just between Enter and Replace.              *)
HandlerInv ==
    \A c \in Conns :
        /\ pc[c] # "idle" => cnode[c] \in Nodes /\ ckey[c] = rowKey[cnode[c]] /\ ckey[c] # NoKey
        /\ pc[c] = "replace" <=> prev[c] # NoConn

(* The mutex of a connection is held by nobody, by its own handler or ping *)
(* loop, or by the one request that is sending on it.                      *)
LockInv ==
    /\ \A c \in Conns : pc[c] = "acking" <=> sender[c] = "ack"
    /\ \A c \in Conns, r \in Requests :
         sender[c] = r <=> rpc[r] = "sending" /\ conn[r] = c

(* A request has a target once it is routed, a connection while it is      *)
(* being sent, and an assignee, with the key of its target's row, while it *)
(* is in pendingJobs.                                                      *)
RequestInv ==
    \A r \in Requests :
        /\ rpc[r] \in {"routed", "send", "sending", "sent"} => target[r] \in Nodes
        /\ rpc[r] \in {"send", "sending"} <=> conn[r] # NoConn
        /\ IF rpc[r] \in {"send", "sending", "sent"}
           THEN assignee[r] \in Keys /\ assignee[r] = rowKey[target[r]]
           ELSE fetched[r] = {}

(* The connected nodes that offer the model a request asks for.            *)
Offering(r) == {n \in Connected : HasModel(nodes[n], ModelOf[r])}

(* Who ranges over the map holds Gateway.mu, and the nodes still to visit  *)
(* are connected; a snapshot has exactly the nodes visited that offer the  *)
(* model.                                                                  *)
ScanInv ==
    /\ \A c \in Conns : todo[c] # {} => pc[c] = "depths"
    /\ \A r \in Requests : todo[r] # {} => rpc[r] = "scan"
    /\ \A x \in Conns \union Requests : todo[x] \subseteq Connected
    /\ \A r \in Requests, n \in Nodes :
         snap[r][n] >= 0 <=> rpc[r] = "scan" /\ n \in Offering(r) \ todo[r]

(* The inductive invariant: what the handlers and the requests rely on     *)
(* between two of their steps, while the others take theirs.               *)
HubInv ==
    /\ TypeOK /\ HandlerInv /\ MapIsServed /\ NoLiveOrphan
    /\ LockInv /\ RequestInv /\ BodyOnlyToAssignee /\ ScanInv

(* A request is answered 503 only when no connected node offers its model, *)
(* and otherwise routed to one that does: the map does not change between  *)
(* the first connection visited and the last.                              *)
RouteIsTrue ==
    [][\A r \in Requests :
         rpc[r] = "scan" => /\ rpc'[r] = "returned" => Offering(r) = {}
                            /\ rpc'[r] = "routed" => target'[r] \in Offering(r)]_vars

(* A connection that another has replaced in the map.                      *)
Replaced(c) == Entered(c) /\ pc[c] # "panicked" /\ nodes[cnode[c]] # c

(* A connection that was replaced leaves, whatever its handler was doing   *)
(* and whoever held the locks it needed.                                   *)
ReplacedLeaves == \A c \in Conns : Replaced(c) ~> ~Replaced(c)

(* A request that began to look for a node is sent to one or answered: the *)
(* locks of heartbeats, pings, reconnects and other requests never hold it *)
(* up for ever.                                                            *)
RoutingEnds ==
    \A r \in Requests : rpc[r] = "scan" ~> rpc[r] \in {"sent", "returned", "lost"}

============================================================================
