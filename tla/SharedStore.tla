----------------------------- MODULE SharedStore -----------------------------
(***************************************************************************)
(* Several engines on one PostgreSQL database (pkg/memory/engine.go with   *)
(* store_postgres.go): adapters of different processes with the same       *)
(* postgres_conn_string.  Each loads both tables when it starts, with one  *)
(* SELECT after the other, writes through to them ever after, and never    *)
(* looks again: what others write it does not see.                         *)
(*                                                                         *)
(* One action is one statement with the change of the map beside it, which *)
(* no other goroutine of the process sees before the lock is released.     *)
(* MemoryEngine is about the failing statements; here none fails.          *)
(***************************************************************************)
EXTENDS MemoryData

CONSTANTS
  Engines,      \* one for each process
  MaxTime,      \* bound on the clock
  MaxCalls      \* bound on the calls of Remember and RememberEdge

ASSUME SharedAssumption ==
  /\ None \notin Engines
  /\ NodeIds \cap EdgeIds = {}
  /\ MaxTime \in Nat /\ MaxCalls \in Nat

VARIABLES
  diskNodes, diskEdges,   \* criteria_nodes, criteria_edges
  status,                 \* of each engine: "down", "loading", "open"
  nodes, edges,           \* its maps
  op,                     \* what it is in the middle of
  now,                    \* time.Now()
  calls,                  \* the calls of Remember and RememberEdge so far
  foreign,                \* the entries others have written since it loaded them
  written                 \* all that has ever been stored under a user's ID

disk == <<diskNodes, diskEdges>>
maps == <<nodes, edges>>
history == <<foreign, written>>
bounds == <<now, calls>>
vars == <<disk, status, maps, op, bounds, history>>

Op == [stage   : {"idle", "saveEdges", "drop"},
       batch   : Seq(EdgeRequest),      \* saveEdges: edges still to save
       victims : SUBSET NodeIds,        \* drop: nodes still to delete
       deleted : SUBSET NodeIds]        \* drop: deletedIDs
Idle == [stage |-> "idle", batch |-> <<>>, victims |-> {}, deleted |-> {}]

\* The tables and the maps hold nodes and edges.
TypeOK ==
  /\ diskNodes \in NodeTable /\ diskEdges \in EdgeTable
  /\ status \in [Engines -> {"down", "loading", "open"}]
  /\ nodes \in [Engines -> NodeTable] /\ edges \in [Engines -> EdgeTable]
  /\ op \in [Engines -> Op]
  /\ now \in Nat /\ calls \in Nat
  /\ foreign \in [Engines -> SUBSET (NodeIds \cup EdgeIds)]
  /\ written \in [UserIds -> SUBSET Contents]

\* CREATE TABLE IF NOT EXISTS: two empty tables.
Init ==
  /\ diskNodes = NoNodes /\ diskEdges = NoEdges
  /\ status = [p \in Engines |-> "down"]
  /\ nodes = [p \in Engines |-> NoNodes] /\ edges = [p \in Engines |-> NoEdges]
  /\ op = [p \in Engines |-> Idle]
  /\ now = 0 /\ calls = 0
  /\ foreign = [p \in Engines |-> {}]
  /\ written = [n \in UserIds |-> {}]

-----------------------------------------------------------------------------
(* The statements.  With a statement of p the entry becomes foreign to the *)
(* others, and p's own map gets what p has written.                        *)

Foreign(p, key) ==
  [q \in Engines |->
     IF q = p \/ status[q] = "down" THEN foreign[q] ELSE foreign[q] \cup {key}]

\* INSERT ... ON CONFLICT DO UPDATE, or DELETE for v = None.
PutNode(p, n, v) ==
  /\ diskNodes' = [diskNodes EXCEPT ![n] = v]
  /\ nodes' = [nodes EXCEPT ![p][n] = v]
  /\ foreign' = Foreign(p, n)
  /\ UNCHANGED <<diskEdges, edges>>

PutEdge_mapOnly(p, e, x) ==
  /\ edges' = [edges EXCEPT ![p][e] = x]
  /\ foreign' = Foreign(p, e)
  /\ UNCHANGED <<diskNodes, diskEdges, nodes>>
PutEdge(p, e, x) ==
  /\ diskEdges' = [diskEdges EXCEPT ![e] = x]
  /\ edges' = [edges EXCEPT ![p][e] = x]
  /\ foreign' = Foreign(p, e)
  /\ UNCHANGED <<diskNodes, nodes>>

-----------------------------------------------------------------------------
(* NewMemoryEngine, Close and the end of a process.                        *)

LoadNodes(p) ==
  /\ status[p] = "down"
  /\ status' = [status EXCEPT ![p] = "loading"]
  /\ nodes' = [nodes EXCEPT ![p] = diskNodes]
  /\ UNCHANGED <<disk, edges, op, bounds, history>>

\* What was written to the edges before they are read is read.
LoadEdges(p) ==
  /\ status[p] = "loading"
  /\ status' = [status EXCEPT ![p] = "open"]
  /\ edges' = [edges EXCEPT ![p] = diskEdges]
  /\ foreign' = [foreign EXCEPT ![p] = @ \ EdgeIds]
  /\ UNCHANGED <<disk, nodes, op, bounds, written>>

Stop(p) ==
  /\ status[p] # "down"
  /\ status' = [status EXCEPT ![p] = "down"]
  /\ nodes' = [nodes EXCEPT ![p] = NoNodes]
  /\ edges' = [edges EXCEPT ![p] = NoEdges]
  /\ op' = [op EXCEPT ![p] = Idle]
  /\ foreign' = [foreign EXCEPT ![p] = {}]
  /\ UNCHANGED <<disk, bounds, written>>

-----------------------------------------------------------------------------
(* The operations, as in MemoryEngine.                                     *)

CanLock(p) == status[p] = "open" /\ op[p] = Idle

Hold(p, stage, batch, victims) ==
  op' = [op EXCEPT ![p] = [Idle EXCEPT !.stage = stage, !.batch = batch, !.victims = victims]]

Return(p) ==
  /\ op' = [op EXCEPT ![p] = Idle]
  /\ UNCHANGED <<disk, status, maps, bounds, history>>

Called == calls < MaxCalls /\ calls' = calls + 1

Remember(p) == \E n \in UserIds, v \in Contents, batch \in Batches :
  /\ CanLock(p)
  /\ PutNode(p, n, v)
  /\ written' = [written EXCEPT ![n] = @ \cup {v}]
  /\ Hold(p, "saveEdges", batch, {})
  /\ Called
  /\ UNCHANGED <<status, now>>

NextEdge(p) == Head(op[p].batch)
MoreEdges(p) == op[p].stage = "saveEdges" /\ op[p].batch # <<>>

SkipEdge(p) ==
  /\ MoreEdges(p) /\ NextEdge(p).id = None
  /\ op' = [op EXCEPT ![p].batch = Tail(@)]
  /\ UNCHANGED <<disk, status, maps, bounds, history>>

SaveEdge(p) ==
  /\ MoreEdges(p) /\ NextEdge(p).id # None /\ ~Blank(NextEdge(p))
  /\ PutEdge(p, NextEdge(p).id, EdgeOf(NextEdge(p)))
  /\ op' = [op EXCEPT ![p].batch = Tail(@)]
  /\ UNCHANGED <<status, bounds, written>>

RejectEdge(p) ==
  /\ MoreEdges(p) /\ NextEdge(p).id # None /\ Blank(NextEdge(p))
  /\ Return(p)

RememberReturns(p) == op[p].stage = "saveEdges" /\ op[p].batch = <<>> /\ Return(p)

RememberEdge(p) == \E e \in EdgeIds, x \in Ends :
  /\ CanLock(p)
  /\ PutEdge(p, e, x)
  /\ Called
  /\ UNCHANGED <<status, op, now, written>>

\* The engine's copy of a node decides, not the node in the database.
PruneExpired(p) ==
  /\ CanLock(p)
  /\ Expired(nodes[p], now) # {}
  /\ Hold(p, "drop", <<>>, Expired(nodes[p], now))
  /\ UNCHANGED <<disk, status, maps, bounds, history>>

\* The minted ID is one that no process has used.
Unused(f) == diskNodes[f] = None /\ \A q \in Engines : nodes[q][f] = None

Consolidate_unsaved(p) ==
  \E project \in Projects \cup {None}, type \in Types \cup {None}, f \in FactIds :
    /\ CanLock(p)
    /\ Cardinality(Matching(nodes[p], project, type)) >= 2
    /\ Unused(f)
    /\ nodes' = [nodes EXCEPT ![p][f] = FactOf(project)]
    /\ Hold(p, "drop", <<>>, Matching(nodes[p], project, type))
    /\ UNCHANGED <<disk, edges, status, bounds, history>>
Consolidate(p) ==
  \E project \in Projects \cup {None}, type \in Types \cup {None}, f \in FactIds :
    /\ CanLock(p)
    /\ Cardinality(Matching(nodes[p], project, type)) >= 2
    /\ Unused(f)
    /\ PutNode(p, f, FactOf(project))
    /\ Hold(p, "drop", <<>>, Matching(nodes[p], project, type))
    /\ UNCHANGED <<status, bounds, written>>

DropNode(p) == \E n \in op[p].victims :
  /\ op[p].stage = "drop"
  /\ PutNode(p, n, None)
  /\ op' = [op EXCEPT ![p].victims = @ \ {n}, ![p].deleted = @ \cup {n}]
  /\ UNCHANGED <<status, bounds, written>>

DropEdge(p) == \E e \in Touching(edges[p], op[p].deleted) :
  /\ op[p].stage = "drop" /\ op[p].victims = {}
  /\ PutEdge(p, e, None)
  /\ UNCHANGED <<status, op, bounds, written>>

DropReturns(p) ==
  /\ op[p].stage = "drop" /\ op[p].victims = {}
  /\ Touching(edges[p], op[p].deleted) = {}
  /\ Return(p)

Tick ==
  /\ now < MaxTime
  /\ now' = now + 1
  /\ UNCHANGED <<disk, status, maps, op, calls, history>>

Step(p) ==
  \/ LoadNodes(p) \/ LoadEdges(p) \/ Stop(p)
  \/ Remember(p) \/ SkipEdge(p) \/ SaveEdge(p) \/ RejectEdge(p) \/ RememberReturns(p)
  \/ RememberEdge(p)
  \/ PruneExpired(p) \/ Consolidate(p)
  \/ DropNode(p) \/ DropEdge(p) \/ DropReturns(p)

Next == (\E p \in Engines : Step(p)) \/ Tick

Spec == Init /\ [][Next]_vars

-----------------------------------------------------------------------------
(* Properties of the copies and of the database.                           *)

\* Where an engine serves something else than what is stored, another one has
\* written since: the two SELECTs miss nothing that was there before them, no
\* engine overtakes its own statements, and a start in which nobody writes
\* gives a copy of the database.
DriftIsForeign ==
  \A p \in Engines :
    /\ status[p] # "down" =>
         \A n \in NodeIds : nodes[p][n] # diskNodes[n] => n \in foreign[p]
    /\ status[p] = "open" =>
         \A e \in EdgeIds : edges[p][e] # diskEdges[e] => e \in foreign[p]

\* However stale the copies that engines prune and consolidate, and wherever
\* they stop: a memory that nobody ever gave a deadline that has passed is in
\* the database, or a fact of a project it had is.
Lasting(n) ==
  written[n] # {} /\ \A v \in written[n] : v.validTo = None \/ v.validTo >= now
LastingMemoriesAreKept ==
  \A n \in UserIds : Lasting(n) =>
    \/ diskNodes[n] # None
    \/ \E f \in FactIds, v \in written[n] :
         diskNodes[f] # None /\ diskNodes[f].project \in {None, v.project}

\* "PruneExpired removes all memory nodes whose valid_to timestamp is before
\* now": a node leaves the database only if it is such a node, or a fact of
\* its project is stored.
RemovalIsJustified ==
  [][\A n \in Stored(diskNodes) \ Stored(diskNodes') :
       \/ n \in Expired(diskNodes, now)
       \/ \E f \in FactIds :
            diskNodes[f] # None /\ diskNodes[f].project \in {None, diskNodes[n].project}]_vars
=============================================================================
