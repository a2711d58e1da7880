---------------------------- MODULE MemoryEngine ----------------------------
(***************************************************************************)
(* pkg/memory's MemoryEngine: the node and edge maps it serves queries     *)
(* from, the store (bbolt or PostgreSQL) it writes through to, and the     *)
(* RWMutex its callers contend for.  Every store call is a transaction of  *)
(* its own, so an operation that makes several of them can be cut short by *)
(* the end of the process after any of them.                               *)
(*                                                                         *)
(* One action is what happens between two points at which another actor    *)
(* could matter: taking the lock together with the first store call under  *)
(* it, then one store call at a time with the map update beside it.  A     *)
(* call that changes nothing (a rejected argument, a save that fails       *)
(* before the lock protects anything) is a stuttering step and has no      *)
(* action of its own.                                                      *)
(***************************************************************************)
EXTENDS MemoryData

CONSTANTS
  Callers,      \* goroutines using the engine
  Faults,       \* how a store call can fail, see Fails
  Backends,     \* server processes a given-up statement can be left in
  Stops,        \* how the process can stop: "close", "crash"
  MaxTime       \* bound on the clock

ASSUME EnvironmentAssumption ==
  /\ None \notin Callers
  /\ Faults \subseteq {"lost", "inDoubt"}
  /\ Stops \subseteq {"close", "crash"}
  /\ MaxTime \in Nat
  /\ NodeIds \cap EdgeIds = {}    \* an ID tells its bucket or table

VARIABLES
  nodes, edges,           \* the engine's maps
  diskNodes, diskEdges,   \* the store's buckets or tables
  late,                   \* statements given up that may still commit
  doubted,                \* history: IDs whose last statement was given up
  status,                 \* of the engine: "open", "closed" (Close), "down"
  mu,                     \* the caller holding the write lock
  readers,                \* the callers holding the read lock
  op,                     \* what each caller is in the middle of
  now                     \* time.Now()

doubt == <<late, doubted>>
disk == <<diskNodes, diskEdges, doubt>>
locks == <<mu, readers, op>>
vars == <<nodes, edges, disk, status, locks, now>>

Op == [stage   : {"idle", "saveEdges", "drop"},
       batch   : Seq(EdgeRequest),      \* saveEdges: edges still to save
       victims : SUBSET NodeIds,        \* drop: nodes still to delete
       deleted : SUBSET NodeIds]        \* drop: deletedIDs

Idle == [stage |-> "idle", batch |-> <<>>, victims |-> {}, deleted |-> {}]

Statement == [id : NodeIds, value : Node \cup {None}]
               \cup [id : EdgeIds, value : Edge \cup {None}]

\* The store and the maps hold nodes and edges, the lock is held as op says.
TypeOK ==
  /\ nodes \in NodeTable /\ diskNodes \in NodeTable
  /\ edges \in EdgeTable /\ diskEdges \in EdgeTable
  /\ late \in [Backends -> Statement \cup {None}]
  /\ doubted \subseteq NodeIds \cup EdgeIds
  /\ status \in {"open", "closed", "down"}
  /\ mu \in Callers \cup {None}
  /\ readers \subseteq Callers
  /\ op \in [Callers -> Op]
  /\ now \in Nat

Init ==
  /\ nodes = NoNodes /\ diskNodes = NoNodes
  /\ edges = NoEdges /\ diskEdges = NoEdges
  /\ late = [b \in Backends |-> None] /\ doubted = {}
  /\ status = "open"
  /\ mu = None
  /\ readers = {}
  /\ op = [c \in Callers |-> Idle]
  /\ now = 0

-----------------------------------------------------------------------------
(* The store's answers.                                                    *)

\* The IDs of the statements that may still commit.
Pending == {late[b].id : b \in {b \in Backends : late[b] # None}}

\* A call that returns nil has committed.  An older statement on the same
\* entry may still be to come.
Succeeds(id) ==
  /\ doubted' = IF id \in Pending THEN doubted ELSE doubted \ {id}
  /\ UNCHANGED late

\* A call that returns an error has not written so far: its transaction is
\* rolled back ("lost"), or the 5 s context of a PostgreSQL statement expires
\* and the server is left with a statement that nobody waits for ("inDoubt").
Fails(id, value) ==
  \/ "lost" \in Faults /\ UNCHANGED doubt
  \/ /\ "inDoubt" \in Faults
     /\ \E b \in Backends :
          /\ late[b] = None
          /\ late' = [late EXCEPT ![b] = [id |-> id, value |-> value]]
     /\ doubted' = doubted \cup {id}

Unchecked_skipped(table, id, value) == table' = table /\ UNCHANGED doubt

\* A store call whose error the engine discards.
Unchecked(table, id, value) ==
  \/ table' = [table EXCEPT ![id] = value] /\ Succeeds(id)
  \/ table' = table /\ Fails(id, value)

\* The server is done with a statement nobody waits for: it commits, whatever
\* has happened to the entry since, or it is rolled back.
LateEnds == \E b \in Backends :
  /\ late[b] # None
  /\ late' = [late EXCEPT ![b] = None]
  /\ LET s == late[b] IN
       \/ UNCHANGED <<diskNodes, diskEdges>>
       \/ /\ s.id \in NodeIds
          /\ diskNodes' = [diskNodes EXCEPT ![s.id] = s.value]
          /\ UNCHANGED diskEdges
       \/ /\ s.id \in EdgeIds
          /\ diskEdges' = [diskEdges EXCEPT ![s.id] = s.value]
          /\ UNCHANGED diskNodes
  /\ UNCHANGED <<nodes, edges, doubted, status, locks, now>>

-----------------------------------------------------------------------------
(* The lock.                                                               *)

CanLock_readers(c) == status = "open" /\ mu = None /\ op[c] = Idle
CanLock_writers(c) == status = "open" /\ readers = {} /\ op[c] = Idle

CanLock(c) ==
  status = "open" /\ mu = None /\ readers = {} /\ op[c] = Idle

Hold(c, stage, batch, victims) ==
  /\ mu' = c
  /\ op' = [op EXCEPT ![c] = [Idle EXCEPT !.stage = stage,
                                          !.batch = batch,
                                          !.victims = victims]]
  /\ UNCHANGED readers

Return(c) ==
  /\ mu' = None
  /\ op' = [op EXCEPT ![c] = Idle]
  /\ UNCHANGED readers

-----------------------------------------------------------------------------
(* Remember: the node, then its edges one by one.                          *)

Remember(c) == \E n \in UserIds, v \in Contents, batch \in Batches :
  /\ CanLock(c)
  /\ diskNodes' = [diskNodes EXCEPT ![n] = v]
  /\ nodes' = [nodes EXCEPT ![n] = v]
  /\ Succeeds(n)
  /\ Hold(c, "saveEdges", batch, {})
  /\ UNCHANGED <<edges, diskEdges, status, now>>

RememberFails_mapFirst(c) == \E n \in UserIds, v \in Contents :
  /\ CanLock(c)
  /\ nodes' = [nodes EXCEPT ![n] = v]
  /\ Fails(n, v)
  /\ UNCHANGED <<edges, diskNodes, diskEdges, status, locks, now>>

\* SaveNode returns an error: Remember gives up before it touches the maps.
RememberFails(c) == \E n \in UserIds, v \in Contents :
  /\ CanLock(c)
  /\ Fails(n, v)
  /\ UNCHANGED <<nodes, edges, diskNodes, diskEdges, status, locks, now>>

NextEdge(c) == Head(op[c].batch)
MoreEdges(c) == op[c].stage = "saveEdges" /\ op[c].batch # <<>>

\* continue: an edge without an ID is left out.
SkipEdge(c) ==
  /\ MoreEdges(c) /\ NextEdge(c).id = None
  /\ op' = [op EXCEPT ![c].batch = Tail(@)]
  /\ UNCHANGED <<nodes, edges, disk, status, mu, readers, now>>

SaveEdge(c) ==
  /\ MoreEdges(c) /\ NextEdge(c).id # None /\ ~Blank(NextEdge(c))
  /\ edges' = [edges EXCEPT ![NextEdge(c).id] = EdgeOf(NextEdge(c))]
  /\ diskEdges' = [diskEdges EXCEPT ![NextEdge(c).id] = EdgeOf(NextEdge(c))]
  /\ Succeeds(NextEdge(c).id)
  /\ op' = [op EXCEPT ![c].batch = Tail(@)]
  /\ UNCHANGED <<nodes, diskNodes, status, mu, readers, now>>

RejectEdge_noUnlock(c) ==
  /\ MoreEdges(c) /\ NextEdge(c).id # None /\ Blank(NextEdge(c))
  /\ op' = [op EXCEPT ![c] = Idle]
  /\ UNCHANGED <<nodes, edges, disk, status, mu, readers, now>>

\* An edge with a blank end, or one the store fails to save, ends Remember
\* with an error; the node and the edges before it stay.
RejectEdge(c) ==
  /\ MoreEdges(c) /\ NextEdge(c).id # None /\ Blank(NextEdge(c))
  /\ Return(c)
  /\ UNCHANGED <<nodes, edges, disk, status, now>>

SaveEdgeFails(c) ==
  /\ MoreEdges(c) /\ NextEdge(c).id # None /\ ~Blank(NextEdge(c))
  /\ Fails(NextEdge(c).id, EdgeOf(NextEdge(c)))
  /\ Return(c)
  /\ UNCHANGED <<nodes, edges, diskNodes, diskEdges, status, now>>

RememberReturns(c) ==
  /\ op[c].stage = "saveEdges" /\ op[c].batch = <<>>
  /\ Return(c)
  /\ UNCHANGED <<nodes, edges, disk, status, now>>

RememberEdge(c) == \E e \in EdgeIds, x \in Ends :
  /\ CanLock(c)
  /\ diskEdges' = [diskEdges EXCEPT ![e] = x]
  /\ edges' = [edges EXCEPT ![e] = x]
  /\ Succeeds(e)
  /\ UNCHANGED <<nodes, diskNodes, status, locks, now>>

RememberEdgeFails(c) == \E e \in EdgeIds, x \in Ends :
  /\ CanLock(c)
  /\ Fails(e, x)
  /\ UNCHANGED <<nodes, edges, diskNodes, diskEdges, status, locks, now>>

-----------------------------------------------------------------------------
(* PruneExpired and Consolidate: pick the victims, drop them one by one,   *)
(* then the edges that touch them.  The errors of the store are discarded. *)

PruneExpired(c) ==
  /\ CanLock(c)
  /\ Expired(nodes, now) # {}
  /\ Hold(c, "drop", <<>>, Expired(nodes, now))
  /\ UNCHANGED <<nodes, edges, disk, status, now>>

\* The minted ID embeds the clock's nanoseconds: one no entry has.
Consolidate(c) ==
  \E project \in Projects \cup {None}, type \in Types \cup {None}, f \in FactIds :
    /\ CanLock(c)
    /\ Cardinality(Matching(nodes, project, type)) >= 2
    /\ nodes[f] = None /\ diskNodes[f] = None /\ f \notin Pending
    /\ nodes' = [nodes EXCEPT ![f] = FactOf(project)]
    /\ Unchecked(diskNodes, f, FactOf(project))
    /\ Hold(c, "drop", <<>>, Matching(nodes, project, type))
    /\ UNCHANGED <<edges, diskEdges, status, now>>

DropNode(c) == \E n \in op[c].victims :
  /\ op[c].stage = "drop"
  /\ nodes' = [nodes EXCEPT ![n] = None]
  /\ Unchecked(diskNodes, n, None)
  /\ op' = [op EXCEPT ![c].victims = @ \ {n}, ![c].deleted = @ \cup {n}]
  /\ UNCHANGED <<edges, diskEdges, status, mu, readers, now>>

DropEdge_eager(c) == \E e \in Touching(edges, op[c].deleted) :
  /\ op[c].stage = "drop"
  /\ edges' = [edges EXCEPT ![e] = None]
  /\ Unchecked(diskEdges, e, None)
  /\ UNCHANGED <<nodes, diskNodes, status, locks, now>>

DropEdge(c) == \E e \in Touching(edges, op[c].deleted) :
  /\ op[c].stage = "drop" /\ op[c].victims = {}
  /\ edges' = [edges EXCEPT ![e] = None]
  /\ Unchecked(diskEdges, e, None)
  /\ UNCHANGED <<nodes, diskNodes, status, locks, now>>

DropReturns(c) ==
  /\ op[c].stage = "drop" /\ op[c].victims = {}
  /\ Touching(edges, op[c].deleted) = {}
  /\ Return(c)
  /\ UNCHANGED <<nodes, edges, disk, status, now>>

-----------------------------------------------------------------------------
(* Recall and GetStats read both maps under the read lock.  Close leaves   *)
(* the maps as they are, so they can still be read.                        *)

BeginRead(c) ==
  /\ status # "down" /\ mu = None /\ op[c] = Idle
  /\ c \notin readers
  /\ readers' = readers \cup {c}
  /\ UNCHANGED <<nodes, edges, disk, status, mu, op, now>>

EndRead(c) ==
  /\ c \in readers
  /\ readers' = readers \ {c}
  /\ UNCHANGED <<nodes, edges, disk, status, mu, op, now>>

-----------------------------------------------------------------------------
(* Close, the end of the process at any point, NewMemoryEngine, the clock. *)

Close(c) ==
  /\ "close" \in Stops
  /\ CanLock(c)
  /\ status' = "closed"
  /\ UNCHANGED <<nodes, edges, disk, locks, now>>

Crash ==
  /\ "crash" \in Stops
  /\ status # "down"
  /\ status' = "down"
  /\ nodes' = NoNodes /\ edges' = NoEdges
  /\ mu' = None /\ readers' = {} /\ op' = [c \in Callers |-> Idle]
  /\ UNCHANGED <<disk, now>>

\* NewMemoryEngine: the maps are what LoadAll finds in the store.
NewMemoryEngine ==
  /\ status \in {"closed", "down"} /\ readers = {}
  /\ status' = "open"
  /\ nodes' = diskNodes /\ edges' = diskEdges
  /\ doubted' = Pending
  /\ UNCHANGED <<diskNodes, diskEdges, late, locks, now>>

Tick ==
  /\ now < MaxTime
  /\ now' = now + 1
  /\ UNCHANGED <<nodes, edges, disk, status, locks>>

\* What the holder of the lock does until it returns.
Continue(c) ==
  \/ SkipEdge(c) \/ SaveEdge(c) \/ RejectEdge(c) \/ SaveEdgeFails(c)
  \/ RememberReturns(c)
  \/ DropNode(c) \/ DropEdge(c) \/ DropReturns(c)

Next ==
  \/ \E c \in Callers :
       \/ Remember(c) \/ RememberFails(c)
       \/ RememberEdge(c) \/ RememberEdgeFails(c)
       \/ PruneExpired(c) \/ Consolidate(c)
       \/ Continue(c)
       \/ BeginRead(c) \/ EndRead(c)
       \/ Close(c)
  \/ LateEnds \/ Crash \/ NewMemoryEngine \/ Tick

Spec == Init /\ [][Next]_vars

\* A goroutine that holds a lock keeps running: no operation waits for
\* anything but the store, whose calls all have deadlines or are local.
Fairness == \A c \in Callers : WF_vars(Continue(c)) /\ WF_vars(EndRead(c))
FairSpec == Spec /\ Fairness

-----------------------------------------------------------------------------
(* Properties of the two copies of the graph.                              *)

\* While every store call succeeds, the maps a live engine serves are the
\* store's contents: at every point of every operation a stop would lose
\* nothing (store.SaveX before e.nodes[..] =, e.store.DeleteX beside delete).
CacheIsDisk ==
  status # "down" => nodes = diskNodes /\ edges = diskEdges

\* Even if store calls fail, what a caller remembered and can still recall is
\* what the store holds: Remember and RememberEdge leave no map ahead of it.
\* The exceptions are the entries in doubt, of which a statement was given up
\* since the tables were loaded and not followed, once it had ended, by one
\* that succeeded.  (Not so for the facts of Consolidate, whose save may fail
\* unnoticed.)
AckedIsDurable ==
  status # "down" =>
    /\ \A n \in Stored(nodes) \cap UserIds : diskNodes[n] = nodes[n] \/ n \in doubted
    /\ \A e \in Stored(edges) : diskEdges[e] = edges[e] \/ e \in doubted

\* A node leaves the store only if its valid_to has passed or a consolidated
\* fact of its project, already in the store, has taken its place: stopping
\* between the steps of Consolidate loses no memory.
Summarises(fact, n) ==
  diskNodes'[fact] # None /\ diskNodes'[fact].project \in {None, diskNodes[n].project}

DeletionIsJustified ==
  [][\A n \in Stored(diskNodes) \ Stored(diskNodes') :
       \/ n \in Expired(diskNodes, now)
       \/ \E fact \in FactIds : Summarises(fact, n)]_vars

\* A consolidated fact is never changed, merged again or pruned.
FactsAreKept ==
  [][\A f \in FactIds \cap Stored(diskNodes) : diskNodes'[f] = diskNodes[f]]_vars

\* What the engine served when it was closed is what it serves when it is
\* opened again.
ReopenKeepsGraph ==
  [][status = "closed" /\ status' = "open" =>
       nodes' = nodes /\ edges' = edges]_vars

\* Recall and GetStats walk two maps that no other goroutine is changing,
\* from the start of the walk to its end.
StableWhileRead ==
  [][readers # {} /\ status' # "down" => UNCHANGED <<nodes, edges>>]_vars

\* No operation keeps the lock: the loops over the victims and over the edges
\* that touch them come to an end.
LockIsReleased == mu # None ~> mu = None
=============================================================================
