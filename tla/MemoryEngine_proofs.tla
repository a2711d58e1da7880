------------------------ MODULE MemoryEngine_proofs -------------------------
(***************************************************************************)
(* Theorems about MemoryEngine, for any sets of nodes, edges, callers and  *)
(* inputs and any clock: types, the discipline of the lock, and what the   *)
(* maps and the store have to do with one another under each kind of       *)
(* store fault.                                                            *)
(***************************************************************************)
EXTENDS MemoryEngine, TLAPS

USE DEF NodeIds

\* A call whose error is discarded wrote the entry, or failed.
LEMMA UncheckedNode ==
  ASSUME NEW n, NEW v, Unchecked(diskNodes, n, v)
  PROVE  \/ diskNodes' = [diskNodes EXCEPT ![n] = v] /\ Succeeds(n)
         \/ diskNodes' = diskNodes /\ Fails(n, v) /\ Faults # {}
BY DEF Unchecked, Fails

LEMMA UncheckedEdge ==
  ASSUME NEW e, NEW x, Unchecked(diskEdges, e, x)
  PROVE  \/ diskEdges' = [diskEdges EXCEPT ![e] = x] /\ Succeeds(e)
         \/ diskEdges' = diskEdges /\ Fails(e, x) /\ Faults # {}
BY DEF Unchecked, Fails

LEMMA IdleType == Idle \in Op
BY DEF Idle, Op

\* A table stays one when an entry is written or removed.
LEMMA TableUpdate ==
  /\ \A t \in NodeTable, n \in NodeIds, v \in Node \cup {None} :
       [t EXCEPT ![n] = v] \in NodeTable
  /\ \A t \in EdgeTable, e \in EdgeIds, x \in Edge \cup {None} :
       [t EXCEPT ![e] = x] \in EdgeTable
BY DEF NodeTable, EdgeTable

\* So does the record of what is in doubt.
LEMMA DoubtType ==
  ASSUME TypeOK, NEW id, NEW value,
         \/ id \in NodeIds /\ value \in Node \cup {None}
         \/ id \in EdgeIds /\ value \in Edge \cup {None},
         Succeeds(id) \/ Fails(id, value)
  PROVE  /\ late' \in [Backends -> Statement \cup {None}]
         /\ doubted' \subseteq NodeIds \cup EdgeIds
<1>1. CASE Succeeds(id)
  BY <1>1 DEF Succeeds, TypeOK
<1>2. CASE UNCHANGED doubt
  BY <1>2 DEF doubt, TypeOK
<1>3. ASSUME NEW b \in Backends,
             late' = [late EXCEPT ![b] = [id |-> id, value |-> value]],
             doubted' = doubted \cup {id}
      PROVE  /\ late' \in [Backends -> Statement \cup {None}]
             /\ doubted' \subseteq NodeIds \cup EdgeIds
  <2>1. [id |-> id, value |-> value] \in Statement
    BY DEF Statement
  <2> QED BY <1>3, <2>1 DEF TypeOK
<1> QED BY <1>1, <1>2, <1>3 DEF Fails

LEMMA PendingType ==
  ASSUME TypeOK
  PROVE  /\ Pending \subseteq NodeIds \cup EdgeIds
         /\ \A b \in Backends : late[b] # None =>
              \/ late[b].id \in NodeIds /\ late[b].value \in Node \cup {None}
              \/ late[b].id \in EdgeIds /\ late[b].value \in Edge \cup {None}
<1>1. \A b \in Backends : late[b] # None => late[b] \in Statement
  BY DEF TypeOK
<1> QED BY <1>1 DEF Pending, Statement

LEMMA FactIsNode == \A project \in Projects \cup {None} : FactOf(project) \in Node
BY DEF FactOf, Node

-----------------------------------------------------------------------------
\* What each caller is in the middle of stays well formed.
LEMMA HoldType ==
  ASSUME TypeOK, NEW c \in Callers, NEW stage \in {"saveEdges", "drop"},
         NEW batch \in Seq(EdgeRequest), NEW victims \in SUBSET NodeIds,
         Hold(c, stage, batch, victims)
  PROVE  mu' \in Callers /\ readers' \subseteq Callers /\ op' \in [Callers -> Op]
BY DEF TypeOK, Hold, Op, Idle

LEMMA ReturnType ==
  ASSUME TypeOK, NEW c \in Callers, Return(c)
  PROVE  mu' = None /\ readers' \subseteq Callers /\ op' \in [Callers -> Op]
BY IdleType DEF TypeOK, Return

LEMMA NextEdgeType ==
  ASSUME TypeOK, NEW c \in Callers, MoreEdges(c)
  PROVE  /\ NextEdge(c) \in EdgeRequest
         /\ [op EXCEPT ![c].batch = Tail(@)] \in [Callers -> Op]
         /\ NextEdge(c).id # None /\ ~Blank(NextEdge(c)) =>
              NextEdge(c).id \in EdgeIds /\ EdgeOf(NextEdge(c)) \in Edge
<1>1. op[c] \in Op /\ op[c].batch \in Seq(EdgeRequest) /\ op[c].batch # <<>>
  BY DEF TypeOK, MoreEdges, Op
<1>2. NextEdge(c) \in EdgeRequest /\ Tail(op[c].batch) \in Seq(EdgeRequest)
  BY <1>1 DEF NextEdge
<1>3. [op EXCEPT ![c].batch = Tail(@)] \in [Callers -> Op]
  BY <1>1, <1>2 DEF TypeOK, Op
<1>4. ASSUME NextEdge(c).id # None, ~Blank(NextEdge(c))
      PROVE  NextEdge(c).id \in EdgeIds /\ EdgeOf(NextEdge(c)) \in Edge
  BY <1>2, <1>4 DEF Blank, EdgeOf, Edge, EdgeRequest
<1> QED BY <1>2, <1>3, <1>4

\* The tables, the locks and the clock have their types throughout.
THEOREM TypeCorrect == Spec => []TypeOK
<1>1. Init => TypeOK
  BY IdleType, EnvironmentAssumption
     DEF Init, TypeOK, NodeTable, EdgeTable, NoNodes, NoEdges
<1>2. TypeOK /\ [Next]_vars => TypeOK'
  <2> SUFFICES ASSUME TypeOK, [Next]_vars PROVE TypeOK'
    OBVIOUS
  <2> USE DEF locks, disk, doubt
  <2>1. ASSUME NEW c \in Callers, Remember(c) PROVE TypeOK'
    <3>1. PICK n \in UserIds, v \in Contents, batch \in Batches :
            /\ diskNodes' = [diskNodes EXCEPT ![n] = v]
            /\ nodes' = [nodes EXCEPT ![n] = v]
            /\ Succeeds(n)
            /\ Hold(c, "saveEdges", batch, {})
            /\ UNCHANGED <<edges, diskEdges, status, now>>
      BY <2>1 DEF Remember
    <3>2. v \in Node /\ batch \in Seq(EdgeRequest)
      BY InputAssumption
    <3>3. nodes' \in NodeTable /\ diskNodes' \in NodeTable
      BY <3>1, <3>2, TableUpdate DEF TypeOK
    <3>4. /\ late' \in [Backends -> Statement \cup {None}]
          /\ doubted' \subseteq NodeIds \cup EdgeIds
      BY <3>1, <3>2, DoubtType
    <3> QED BY <3>1, <3>2, <3>3, <3>4, HoldType DEF TypeOK
  <2>2. ASSUME NEW c \in Callers, RememberFails(c) PROVE TypeOK'
    <3>1. PICK n \in UserIds, v \in Contents : Fails(n, v)
      BY <2>2 DEF RememberFails
    <3>2. /\ late' \in [Backends -> Statement \cup {None}]
          /\ doubted' \subseteq NodeIds \cup EdgeIds
      BY <3>1, DoubtType, InputAssumption
    <3> QED BY <2>2, <3>2 DEF RememberFails, TypeOK
  <2>3. ASSUME NEW c \in Callers, SkipEdge(c) PROVE TypeOK'
    BY <2>3, NextEdgeType DEF SkipEdge, TypeOK
  <2>4. ASSUME NEW c \in Callers, SaveEdge(c) PROVE TypeOK'
    <3>1. NextEdge(c).id \in EdgeIds /\ EdgeOf(NextEdge(c)) \in Edge
      BY <2>4, NextEdgeType DEF SaveEdge
    <3>2. edges' \in EdgeTable /\ diskEdges' \in EdgeTable
      BY <2>4, <3>1, TableUpdate DEF SaveEdge, TypeOK
    <3>3. /\ late' \in [Backends -> Statement \cup {None}]
          /\ doubted' \subseteq NodeIds \cup EdgeIds
      BY <2>4, <3>1, DoubtType DEF SaveEdge
    <3> QED BY <2>4, <3>2, <3>3, NextEdgeType DEF SaveEdge, TypeOK
  <2>5. ASSUME NEW c \in Callers, RejectEdge(c) PROVE TypeOK'
    BY <2>5, ReturnType DEF RejectEdge, TypeOK
  <2>6. ASSUME NEW c \in Callers, SaveEdgeFails(c) PROVE TypeOK'
    <3>1. /\ late' \in [Backends -> Statement \cup {None}]
          /\ doubted' \subseteq NodeIds \cup EdgeIds
      BY <2>6, NextEdgeType, DoubtType DEF SaveEdgeFails
    <3> QED BY <2>6, <3>1, ReturnType DEF SaveEdgeFails, TypeOK
  <2>7. ASSUME NEW c \in Callers, RememberReturns(c) PROVE TypeOK'
    BY <2>7, ReturnType DEF RememberReturns, TypeOK
  <2>8. ASSUME NEW c \in Callers, RememberEdge(c) PROVE TypeOK'
    <3>1. PICK e \in EdgeIds, x \in Ends :
            /\ diskEdges' = [diskEdges EXCEPT ![e] = x]
            /\ edges' = [edges EXCEPT ![e] = x]
            /\ Succeeds(e)
      BY <2>8 DEF RememberEdge
    <3>2. diskEdges' \in EdgeTable /\ edges' \in EdgeTable
      BY <3>1, TableUpdate, InputAssumption DEF TypeOK
    <3>3. /\ late' \in [Backends -> Statement \cup {None}]
          /\ doubted' \subseteq NodeIds \cup EdgeIds
      BY <3>1, DoubtType, InputAssumption
    <3> QED BY <2>8, <3>2, <3>3 DEF RememberEdge, TypeOK
  <2>9. ASSUME NEW c \in Callers, RememberEdgeFails(c) PROVE TypeOK'
    <3>1. PICK e \in EdgeIds, x \in Ends : Fails(e, x)
      BY <2>9 DEF RememberEdgeFails
    <3>2. /\ late' \in [Backends -> Statement \cup {None}]
          /\ doubted' \subseteq NodeIds \cup EdgeIds
      BY <3>1, DoubtType, InputAssumption
    <3> QED BY <2>9, <3>2 DEF RememberEdgeFails, TypeOK
  <2>10. ASSUME NEW c \in Callers, PruneExpired(c) PROVE TypeOK'
    <3>1. Expired(nodes, now) \in SUBSET NodeIds
      BY DEF Expired, Stored, TypeOK, NodeTable
    <3>2. <<>> \in Seq(EdgeRequest)
      OBVIOUS
    <3> QED BY <2>10, <3>1, <3>2, HoldType DEF PruneExpired, TypeOK
  <2>11. ASSUME NEW c \in Callers, Consolidate(c) PROVE TypeOK'
    <3>1. PICK project \in Projects \cup {None}, type \in Types \cup {None}, f \in FactIds :
            /\ nodes' = [nodes EXCEPT ![f] = FactOf(project)]
            /\ Unchecked(diskNodes, f, FactOf(project))
            /\ Hold(c, "drop", <<>>, Matching(nodes, project, type))
            /\ UNCHANGED <<edges, diskEdges, status, now>>
      BY <2>11 DEF Consolidate
    <3>2. Matching(nodes, project, type) \in SUBSET NodeIds
      BY DEF Matching, Stored, TypeOK, NodeTable
    <3>3. <<>> \in Seq(EdgeRequest)
      OBVIOUS
    <3>w. diskNodes' = diskNodes \/ diskNodes' = [diskNodes EXCEPT ![f] = FactOf(project)]
      BY <3>1, UncheckedNode
    <3>4. nodes' \in NodeTable /\ diskNodes' \in NodeTable
      <4>1. FactOf(project) \in Node \cup {None} /\ f \in NodeIds
        BY FactIsNode
      <4>2. nodes' = [nodes EXCEPT ![f] = FactOf(project)]
        BY <3>1
      <4>3. [nodes EXCEPT ![f] = FactOf(project)] \in NodeTable
        BY <4>1, TableUpdate DEF TypeOK
      <4>4. [diskNodes EXCEPT ![f] = FactOf(project)] \in NodeTable
        BY <4>1, TableUpdate DEF TypeOK
      <4> QED BY <3>w, <4>2, <4>3, <4>4 DEF TypeOK
    <3>5. /\ late' \in [Backends -> Statement \cup {None}]
          /\ doubted' \subseteq NodeIds \cup EdgeIds
      BY <3>1, FactIsNode, UncheckedNode, DoubtType
    <3> QED BY <3>1, <3>2, <3>3, <3>4, <3>5, HoldType DEF TypeOK
  <2>12. ASSUME NEW c \in Callers, DropNode(c) PROVE TypeOK'
    <3>1. PICK n \in op[c].victims :
            /\ nodes' = [nodes EXCEPT ![n] = None]
            /\ Unchecked(diskNodes, n, None)
            /\ op' = [op EXCEPT ![c].victims = @ \ {n}, ![c].deleted = @ \cup {n}]
            /\ UNCHANGED <<edges, diskEdges, status, mu, readers, now>>
      BY <2>12 DEF DropNode
    <3>2. op[c] \in Op /\ n \in NodeIds
      BY DEF TypeOK, Op
    <3>3. op' \in [Callers -> Op]
      BY <3>1, <3>2 DEF TypeOK, Op
    <3>w. diskNodes' = diskNodes \/ diskNodes' = [diskNodes EXCEPT ![n] = None]
      BY <3>1, UncheckedNode
    <3>4. nodes' \in NodeTable /\ diskNodes' \in NodeTable
      <4>1. nodes' = [nodes EXCEPT ![n] = None]
        BY <3>1
      <4>2. [nodes EXCEPT ![n] = None] \in NodeTable /\ [diskNodes EXCEPT ![n] = None] \in NodeTable
        BY <3>2, TableUpdate DEF TypeOK
      <4> QED BY <3>w, <4>1, <4>2 DEF TypeOK
    <3>5. /\ late' \in [Backends -> Statement \cup {None}]
          /\ doubted' \subseteq NodeIds \cup EdgeIds
      BY <3>1, <3>2, UncheckedNode, DoubtType
    <3> QED BY <3>1, <3>3, <3>4, <3>5 DEF TypeOK
  <2>13. ASSUME NEW c \in Callers, DropEdge(c) PROVE TypeOK'
    <3>1. PICK e \in Touching(edges, op[c].deleted) :
            /\ edges' = [edges EXCEPT ![e] = None]
            /\ Unchecked(diskEdges, e, None)
            /\ UNCHANGED <<nodes, diskNodes, status, mu, readers, op, now>>
      BY <2>13 DEF DropEdge
    <3>2. e \in EdgeIds
      BY DEF Touching, Stored, TypeOK, EdgeTable
    <3>w. diskEdges' = diskEdges \/ diskEdges' = [diskEdges EXCEPT ![e] = None]
      BY <3>1, UncheckedEdge
    <3>3. edges' \in EdgeTable /\ diskEdges' \in EdgeTable
      <4>1. edges' = [edges EXCEPT ![e] = None]
        BY <3>1
      <4>2. [edges EXCEPT ![e] = None] \in EdgeTable /\ [diskEdges EXCEPT ![e] = None] \in EdgeTable
        BY <3>2, TableUpdate DEF TypeOK
      <4> QED BY <3>w, <4>1, <4>2 DEF TypeOK
    <3>4. /\ late' \in [Backends -> Statement \cup {None}]
          /\ doubted' \subseteq NodeIds \cup EdgeIds
      BY <3>1, <3>2, UncheckedEdge, DoubtType
    <3> QED BY <3>1, <3>3, <3>4 DEF TypeOK
  <2>14. ASSUME NEW c \in Callers, DropReturns(c) PROVE TypeOK'
    BY <2>14, ReturnType DEF DropReturns, TypeOK
  <2>15. ASSUME NEW c \in Callers, BeginRead(c) \/ EndRead(c) \/ Close(c) PROVE TypeOK'
    BY <2>15 DEF BeginRead, EndRead, Close, TypeOK
  <2>16. CASE Crash
    BY <2>16, IdleType DEF Crash, TypeOK, NodeTable, EdgeTable, NoNodes, NoEdges
  <2>17. CASE NewMemoryEngine
    BY <2>17, PendingType DEF NewMemoryEngine, TypeOK
  <2>18. CASE Tick
    BY <2>18 DEF Tick, TypeOK
  <2>19. CASE UNCHANGED vars
    BY <2>19 DEF vars, TypeOK
  <2>20. CASE LateEnds
    <3>1. PICK b \in Backends :
            /\ late[b] # None
            /\ late' = [late EXCEPT ![b] = None]
            /\ \/ UNCHANGED <<diskNodes, diskEdges>>
               \/ /\ late[b].id \in NodeIds
                  /\ diskNodes' = [diskNodes EXCEPT ![late[b].id] = late[b].value]
                  /\ UNCHANGED diskEdges
               \/ /\ late[b].id \in EdgeIds
                  /\ diskEdges' = [diskEdges EXCEPT ![late[b].id] = late[b].value]
                  /\ UNCHANGED diskNodes
      BY <2>20 DEF LateEnds
    <3>2. \/ late[b].id \in NodeIds /\ late[b].value \in Node \cup {None}
          \/ late[b].id \in EdgeIds /\ late[b].value \in Edge \cup {None}
      BY <3>1, PendingType
    <3>3. diskNodes' \in NodeTable /\ diskEdges' \in EdgeTable
      BY <3>1, <3>2, TableUpdate, EnvironmentAssumption DEF TypeOK
    <3> QED BY <2>20, <3>1, <3>3 DEF LateEnds, TypeOK
  <2> QED
    BY <2>1, <2>2, <2>3, <2>4, <2>5, <2>6, <2>7, <2>8, <2>9, <2>10, <2>11, <2>12,
       <2>13, <2>14, <2>15, <2>16, <2>17, <2>18, <2>19, <2>20 DEF Next, Continue
<1> QED BY <1>1, <1>2, PTL DEF Spec

-----------------------------------------------------------------------------
(* The lock: whoever is in the middle of an operation holds it, and nobody *)
(* reads, closes or reopens the engine meanwhile.                          *)

LockInv ==
  /\ \A c \in Callers : op[c] # Idle => mu = c
  /\ mu # None => readers = {} /\ status = "open"

LEMMA InsideHoldsLock ==
  ASSUME LockInv, NEW c \in Callers,
         op[c].stage = "drop" \/ op[c].stage = "saveEdges"
  PROVE  mu = c /\ readers = {} /\ status = "open"
BY EnvironmentAssumption DEF LockInv, Idle

\* What the holder does to the lock in each step of its operation.
LEMMA ContinueLock ==
  ASSUME TypeOK, LockInv, NEW c \in Callers, Continue(c)
  PROVE  /\ mu = c /\ readers = {} /\ status = "open"
         /\ UNCHANGED <<readers, status, now>>
         /\ \A o \in Callers \ {c} : op'[o] = op[o]
         /\ mu' = c \/ (mu' = None /\ op'[c] = Idle)
<1>1. op[c].stage = "drop" \/ op[c].stage = "saveEdges"
  BY DEF Continue, SkipEdge, SaveEdge, RejectEdge, SaveEdgeFails, RememberReturns,
         DropNode, DropEdge, DropReturns, MoreEdges
<1>2. mu = c /\ readers = {} /\ status = "open"
  BY <1>1, InsideHoldsLock
<1>3. op \in [Callers -> Op]
  BY DEF TypeOK
<1>4. CASE SkipEdge(c) \/ SaveEdge(c)
  BY <1>2, <1>3, <1>4 DEF SkipEdge, SaveEdge
<1>5. CASE RejectEdge(c) \/ SaveEdgeFails(c) \/ RememberReturns(c) \/ DropReturns(c)
  BY <1>2, <1>3, <1>5
     DEF RejectEdge, SaveEdgeFails, RememberReturns, DropReturns, Return
<1>6. CASE DropNode(c)
  <2>1. PICK n \in op[c].victims :
          /\ op' = [op EXCEPT ![c].victims = @ \ {n}, ![c].deleted = @ \cup {n}]
          /\ UNCHANGED <<status, mu, readers, now>>
    BY <1>6 DEF DropNode
  <2> QED BY <1>2, <1>3, <2>1
<1>7. CASE DropEdge(c)
  BY <1>2, <1>7 DEF DropEdge, locks
<1> QED BY <1>2, <1>4, <1>5, <1>6, <1>7 DEF Continue

LEMMA HoldLock ==
  ASSUME TypeOK, LockInv, NEW c \in Callers, CanLock(c),
         NEW stage, NEW batch, NEW victims, Hold(c, stage, batch, victims),
         UNCHANGED status
  PROVE  LockInv'
<1>1. readers' = {} /\ status' = "open" /\ mu' = c
  BY DEF CanLock, Hold
<1>2. \A o \in Callers \ {c} : op'[o] = Idle
  <2>1. \A o \in Callers : op[o] = Idle
    BY EnvironmentAssumption DEF LockInv, CanLock
  <2> QED BY <2>1 DEF Hold, TypeOK
<1> QED BY <1>1, <1>2 DEF LockInv

THEOREM LockDiscipline == Spec => []LockInv
<1>1. Init => LockInv
  BY DEF Init, LockInv
<1>2. TypeOK /\ LockInv /\ [Next]_vars => LockInv'
  <2> SUFFICES ASSUME TypeOK, LockInv, [Next]_vars PROVE LockInv'
    OBVIOUS
  <2> USE DEF locks
  <2>1. ASSUME NEW c \in Callers, Remember(c) PROVE LockInv'
    BY <2>1, HoldLock DEF Remember
  <2>2. ASSUME NEW c \in Callers, PruneExpired(c) PROVE LockInv'
    BY <2>2, HoldLock DEF PruneExpired
  <2>3. ASSUME NEW c \in Callers, Consolidate(c) PROVE LockInv'
    BY <2>3, HoldLock DEF Consolidate
  <2>4. ASSUME NEW c \in Callers,
               RememberFails(c) \/ RememberEdge(c) \/ RememberEdgeFails(c)
        PROVE  LockInv'
    BY <2>4 DEF RememberFails, RememberEdge, RememberEdgeFails, LockInv
  <2>5. ASSUME NEW c \in Callers, Continue(c) PROVE LockInv'
    <3>1. \A o \in Callers \ {c} : op'[o] = Idle
      BY <2>5, ContinueLock DEF LockInv
    <3> QED BY <2>5, <3>1, ContinueLock DEF LockInv
  <2>6. ASSUME NEW c \in Callers, BeginRead(c) \/ EndRead(c) PROVE LockInv'
    BY <2>6 DEF BeginRead, EndRead, LockInv
  <2>7. ASSUME NEW c \in Callers, Close(c) PROVE LockInv'
    BY <2>7 DEF Close, CanLock, LockInv
  <2>8. CASE Crash
    BY <2>8 DEF Crash, LockInv
  <2>9. CASE NewMemoryEngine
    BY <2>9 DEF NewMemoryEngine, LockInv
  <2>10. CASE Tick \/ LateEnds
    BY <2>10 DEF Tick, LateEnds, LockInv
  <2>11. CASE UNCHANGED vars
    BY <2>11 DEF vars, LockInv
  <2> QED
    BY <2>1, <2>2, <2>3, <2>4, <2>5, <2>6, <2>7, <2>8, <2>9, <2>10, <2>11 DEF Next
<1> QED BY <1>1, <1>2, TypeCorrect, PTL DEF Spec

\* A step that changes a map of a live engine finds no reader.
THEOREM NoWriteUnderRead == Spec => StableWhileRead
<1>1. TypeOK /\ LockInv /\ [Next]_vars =>
        [readers # {} /\ status' # "down" => UNCHANGED <<nodes, edges>>]_vars
  <2> SUFFICES ASSUME TypeOK, LockInv, Next, readers # {}, status' # "down"
               PROVE  UNCHANGED <<nodes, edges>>
    OBVIOUS
  <2>1. ASSUME NEW c \in Callers,
               \/ Remember(c) \/ RememberFails(c)
               \/ RememberEdge(c) \/ RememberEdgeFails(c)
               \/ PruneExpired(c) \/ Consolidate(c) \/ Close(c)
        PROVE  FALSE
    BY <2>1 DEF Remember, RememberFails, RememberEdge, RememberEdgeFails,
                PruneExpired, Consolidate, Close, CanLock
  <2>2. ASSUME NEW c \in Callers, Continue(c) PROVE FALSE
    BY <2>2, ContinueLock
  <2>3. ASSUME NEW c \in Callers, BeginRead(c) \/ EndRead(c)
        PROVE  UNCHANGED <<nodes, edges>>
    BY <2>3 DEF BeginRead, EndRead
  <2>4. CASE Crash
    BY <2>4 DEF Crash
  <2>5. CASE NewMemoryEngine
    BY <2>5 DEF NewMemoryEngine
  <2>6. CASE Tick \/ LateEnds
    BY <2>6 DEF Tick, LateEnds
  <2> QED BY <2>1, <2>2, <2>3, <2>4, <2>5, <2>6 DEF Next
<1> QED BY <1>1, TypeCorrect, LockDiscipline, PTL DEF Spec, StableWhileRead

-----------------------------------------------------------------------------
(* The maps and the store.                                                 *)

\* A store that rolls back what fails leaves nothing in doubt.
NoDoubt == doubted = {} /\ \A b \in Backends : late[b] = None

LEMMA NothingInDoubt ==
  ASSUME "inDoubt" \notin Faults PROVE Spec => []NoDoubt
<1>1. Init => NoDoubt
  BY DEF Init, NoDoubt
<1>2. NoDoubt /\ [Next]_vars => NoDoubt'
  <2> SUFFICES ASSUME NoDoubt, [Next]_vars PROVE NoDoubt'
    OBVIOUS
  <2> USE DEF locks, disk, doubt
  <2>1. ASSUME NEW id, NEW value, Succeeds(id) \/ Fails(id, value) PROVE NoDoubt'
    BY <2>1 DEF Succeeds, Fails, NoDoubt
  <2>2. ASSUME NEW c \in Callers,
               Remember(c) \/ RememberFails(c) \/ RememberEdge(c) \/ RememberEdgeFails(c)
        PROVE  NoDoubt'
    BY <2>1, <2>2 DEF Remember, RememberFails, RememberEdge, RememberEdgeFails
  <2>3. ASSUME NEW c \in Callers, SaveEdge(c) \/ SaveEdgeFails(c) PROVE NoDoubt'
    BY <2>1, <2>3 DEF SaveEdge, SaveEdgeFails
  <2>4. ASSUME NEW c \in Callers, Consolidate(c) PROVE NoDoubt'
    <3>1. PICK f, v : Unchecked(diskNodes, f, v)
      BY <2>4 DEF Consolidate
    <3> QED BY <2>1, <3>1, UncheckedNode
  <2>5. ASSUME NEW c \in Callers, DropNode(c) PROVE NoDoubt'
    <3>1. PICK n : Unchecked(diskNodes, n, None)
      BY <2>5 DEF DropNode
    <3> QED BY <2>1, <3>1, UncheckedNode
  <2>6. ASSUME NEW c \in Callers, DropEdge(c) PROVE NoDoubt'
    <3>1. PICK e : Unchecked(diskEdges, e, None)
      BY <2>6 DEF DropEdge
    <3> QED BY <2>1, <3>1, UncheckedEdge
  <2>7. ASSUME NEW c \in Callers,
               \/ SkipEdge(c) \/ RejectEdge(c) \/ RememberReturns(c) \/ DropReturns(c)
               \/ PruneExpired(c) \/ BeginRead(c) \/ EndRead(c) \/ Close(c)
        PROVE  NoDoubt'
    BY <2>7 DEF SkipEdge, RejectEdge, RememberReturns, DropReturns, PruneExpired,
                BeginRead, EndRead, Close, NoDoubt
  <2>8. CASE Crash \/ Tick \/ UNCHANGED vars
    BY <2>8 DEF Crash, Tick, vars, NoDoubt
  <2>9. CASE NewMemoryEngine
    <3>1. Pending = {}
      BY DEF Pending, NoDoubt
    <3> QED BY <2>9, <3>1 DEF NewMemoryEngine, NoDoubt
  <2>10. CASE LateEnds
    BY <2>10 DEF LateEnds, NoDoubt
  <2> QED
    BY <2>2, <2>3, <2>4, <2>5, <2>6, <2>7, <2>8, <2>9, <2>10 DEF Next, Continue
<1> QED BY <1>1, <1>2, PTL DEF Spec

\* With a store that does not fail, the maps equal the store after each
\* single step of each operation.
THEOREM CacheMatchesStore ==
  ASSUME Faults = {} PROVE Spec => []CacheIsDisk
<1>1. Init => CacheIsDisk
  BY DEF Init, CacheIsDisk
<1>2. LockInv /\ NoDoubt /\ CacheIsDisk /\ [Next]_vars => CacheIsDisk'
  <2> SUFFICES ASSUME LockInv, NoDoubt, CacheIsDisk, [Next]_vars PROVE CacheIsDisk'
    OBVIOUS
  <2> USE DEF locks, disk, doubt
  <2>1. ASSUME NEW c \in Callers, Remember(c) \/ RememberEdge(c) PROVE CacheIsDisk'
    BY <2>1 DEF Remember, RememberEdge, CanLock, CacheIsDisk
  <2>2. ASSUME NEW c \in Callers, RememberFails(c) \/ RememberEdgeFails(c) PROVE FALSE
    BY <2>2 DEF RememberFails, RememberEdgeFails, Fails
  <2>3. ASSUME NEW c \in Callers, SaveEdgeFails(c) PROVE FALSE
    BY <2>3 DEF SaveEdgeFails, Fails
  <2>4. ASSUME NEW c \in Callers, SaveEdge(c) PROVE CacheIsDisk'
    BY <2>4, InsideHoldsLock DEF SaveEdge, MoreEdges, CacheIsDisk
  <2>5. ASSUME NEW c \in Callers, Consolidate(c) PROVE CacheIsDisk'
    BY <2>5, UncheckedNode DEF Consolidate, CanLock, CacheIsDisk
  <2>6. ASSUME NEW c \in Callers, DropNode(c) PROVE CacheIsDisk'
    BY <2>6, InsideHoldsLock, UncheckedNode DEF DropNode, CacheIsDisk
  <2>7. ASSUME NEW c \in Callers, DropEdge(c) PROVE CacheIsDisk'
    BY <2>7, InsideHoldsLock, UncheckedEdge DEF DropEdge, CacheIsDisk
  <2>8. ASSUME NEW c \in Callers,
               \/ SkipEdge(c) \/ RejectEdge(c) \/ RememberReturns(c) \/ DropReturns(c)
               \/ PruneExpired(c) \/ BeginRead(c) \/ EndRead(c) \/ Close(c)
        PROVE  CacheIsDisk'
    BY <2>8 DEF SkipEdge, RejectEdge, RememberReturns, DropReturns, PruneExpired,
                BeginRead, EndRead, Close, CanLock, CacheIsDisk
  <2>9. CASE Crash \/ NewMemoryEngine \/ Tick
    BY <2>9 DEF Crash, NewMemoryEngine, Tick, CacheIsDisk
  <2>10. CASE UNCHANGED vars \/ LateEnds
    BY <2>10 DEF vars, LateEnds, NoDoubt, CacheIsDisk
  <2> QED
    BY <2>1, <2>2, <2>3, <2>4, <2>5, <2>6, <2>7, <2>8, <2>9, <2>10 DEF Next, Continue
<1>3. Spec => []NoDoubt
  BY NothingInDoubt
<1> QED BY <1>1, <1>2, <1>3, LockDiscipline, PTL DEF Spec

\* Without store faults, closing and opening again changes no map.
THEOREM ReopeningKeepsGraph ==
  ASSUME Faults = {} PROVE Spec => ReopenKeepsGraph
<1>1. CacheIsDisk /\ [Next]_vars =>
        [status = "closed" /\ status' = "open" => nodes' = nodes /\ edges' = edges]_vars
  <2> SUFFICES ASSUME CacheIsDisk, Next, status = "closed", status' = "open"
               PROVE  nodes' = nodes /\ edges' = edges
    OBVIOUS
  <2> USE DEF locks, disk, doubt
  <2>1. ASSUME NEW c \in Callers,
               \/ Remember(c) \/ RememberFails(c)
               \/ RememberEdge(c) \/ RememberEdgeFails(c)
               \/ PruneExpired(c) \/ Consolidate(c)
               \/ BeginRead(c) \/ EndRead(c) \/ Close(c)
        PROVE  FALSE
    BY <2>1 DEF Remember, RememberFails, RememberEdge, RememberEdgeFails, PruneExpired,
                Consolidate, BeginRead, EndRead, Close, CanLock
  <2>2. ASSUME NEW c \in Callers, Continue(c) PROVE FALSE
    BY <2>2 DEF Continue, SkipEdge, SaveEdge, RejectEdge, SaveEdgeFails, RememberReturns,
                DropNode, DropEdge, DropReturns
  <2>3. CASE Crash \/ Tick \/ LateEnds
    BY <2>3 DEF Crash, Tick, LateEnds
  <2>4. CASE NewMemoryEngine
    BY <2>4 DEF NewMemoryEngine, CacheIsDisk
  <2> QED BY <2>1, <2>2, <2>3, <2>4 DEF Next
<1> QED BY <1>1, CacheMatchesStore, PTL DEF Spec, ReopenKeepsGraph

\* What the store may still be made to do, an entry in doubt says.
PendingInv == Pending \subseteq doubted
AckedInv == AckedIsDurable /\ PendingInv

\* A given-up statement puts its entry in doubt, a successful call takes it out
\* unless one is left, and leaves the others as they were.
LEMMA DoubtStep ==
  ASSUME TypeOK, PendingInv, NEW id, NEW value
  PROVE  /\ Succeeds(id) => PendingInv' /\ \A k : k # id /\ k \in doubted => k \in doubted'
         /\ Fails(id, value) => PendingInv' /\ doubted \subseteq doubted'
<1> USE DEF PendingInv
<1>2. late' = late => Pending' = Pending
  BY DEF Pending
<1>3. ASSUME NEW b \in Backends, late[b] = None,
             late' = [late EXCEPT ![b] = [id |-> id, value |-> value]],
             doubted' = doubted \cup {id}
      PROVE  PendingInv' /\ doubted \subseteq doubted'
  <2>1. \A o \in Backends : late'[o] = late[o] \/ late'[o].id = id
    BY <1>3 DEF TypeOK
  <2>2. \A o \in Backends : late'[o] # None => late'[o].id \in doubted'
    BY <1>3, <2>1 DEF Pending
  <2> QED BY <1>3, <2>2 DEF Pending
<1>4. Fails(id, value) => PendingInv' /\ doubted \subseteq doubted'
  BY <1>2, <1>3 DEF Fails, doubt
<1>5. Succeeds(id) => PendingInv' /\ \A k : k # id /\ k \in doubted => k \in doubted'
  BY <1>2 DEF Succeeds
<1> QED BY <1>4, <1>5

\* Whatever the store does, with calls that fail and statements that commit
\* later, and whenever the process stops: what a caller remembered and can
\* still recall is what the store holds, or its entry is in doubt.
THEOREM AckedIsStored == Spec => []AckedIsDurable
<1>1. Init => AckedInv
  BY DEF Init, AckedInv, AckedIsDurable, PendingInv, Pending, Stored, NoNodes, NoEdges
<1>2. TypeOK /\ AckedInv /\ [Next]_vars => AckedInv'
  <2> SUFFICES ASSUME TypeOK, AckedIsDurable, PendingInv, [Next]_vars PROVE AckedInv'
    BY DEF AckedInv
  <2> USE DEF locks, disk, doubt
  <2>t. /\ DOMAIN nodes = NodeIds /\ DOMAIN diskNodes = NodeIds
        /\ DOMAIN edges = EdgeIds /\ DOMAIN diskEdges = EdgeIds
        /\ \A k \in EdgeIds : k \notin NodeIds
    BY EnvironmentAssumption DEF TypeOK, NodeTable, EdgeTable
  <2>u. \A n \in UserIds : n \in NodeIds /\ n \notin FactIds
    BY IdAssumption
  <2>f. ASSUME NEW id, NEW value, Fails(id, value),
               UNCHANGED <<nodes, edges, diskNodes, diskEdges, status>>
        PROVE  AckedInv'
    BY <2>f, DoubtStep DEF AckedInv, AckedIsDurable
  <2>1. ASSUME NEW c \in Callers, Remember(c) PROVE AckedInv'
    <3>1. PICK n \in UserIds, v \in Contents :
            /\ diskNodes' = [diskNodes EXCEPT ![n] = v]
            /\ nodes' = [nodes EXCEPT ![n] = v]
            /\ Succeeds(n)
            /\ UNCHANGED <<edges, diskEdges, status, now>>
      BY <2>1 DEF Remember
    <3>2. PendingInv' /\ \A k : k # n /\ k \in doubted => k \in doubted'
      BY <3>1, DoubtStep
    <3>3. diskNodes'[n] = nodes'[n] /\ \A k \in EdgeIds : k # n
      BY <2>t, <2>u, <3>1
    <3> QED BY <2>t, <3>1, <3>2, <3>3 DEF AckedInv, AckedIsDurable, Stored
  <2>2. ASSUME NEW c \in Callers, RememberFails(c) PROVE AckedInv'
    BY <2>2, <2>f DEF RememberFails
  <2>3. ASSUME NEW c \in Callers, SaveEdge(c) PROVE AckedInv'
    <3>1. /\ UNCHANGED <<nodes, diskNodes, status>>
          /\ edges' = [edges EXCEPT ![NextEdge(c).id] = EdgeOf(NextEdge(c))]
          /\ diskEdges' = [diskEdges EXCEPT ![NextEdge(c).id] = EdgeOf(NextEdge(c))]
          /\ Succeeds(NextEdge(c).id)
      BY <2>3 DEF SaveEdge
    <3>2. NextEdge(c).id \in EdgeIds
      BY <2>3, NextEdgeType DEF SaveEdge
    <3>3. PendingInv' /\ \A k : k # NextEdge(c).id /\ k \in doubted => k \in doubted'
      BY <3>1, DoubtStep
    <3> QED BY <2>t, <2>u, <3>1, <3>2, <3>3 DEF AckedInv, AckedIsDurable, Stored
  <2>4. ASSUME NEW c \in Callers, SaveEdgeFails(c) PROVE AckedInv'
    BY <2>4, <2>f DEF SaveEdgeFails
  <2>5. ASSUME NEW c \in Callers, RememberEdge(c) PROVE AckedInv'
    <3>1. PICK e \in EdgeIds, x \in Ends :
            /\ diskEdges' = [diskEdges EXCEPT ![e] = x]
            /\ edges' = [edges EXCEPT ![e] = x]
            /\ Succeeds(e)
            /\ UNCHANGED <<nodes, diskNodes, status>>
      BY <2>5 DEF RememberEdge
    <3>2. PendingInv' /\ \A k : k # e /\ k \in doubted => k \in doubted'
      BY <3>1, DoubtStep
    <3> QED BY <2>t, <2>u, <3>1, <3>2 DEF AckedInv, AckedIsDurable, Stored
  <2>6. ASSUME NEW c \in Callers, RememberEdgeFails(c) PROVE AckedInv'
    BY <2>6, <2>f DEF RememberEdgeFails
  <2>7. ASSUME NEW c \in Callers, Consolidate(c) PROVE AckedInv'
    <3>1. PICK project \in Projects \cup {None}, f \in FactIds :
            /\ nodes' = [nodes EXCEPT ![f] = FactOf(project)]
            /\ Unchecked(diskNodes, f, FactOf(project))
            /\ UNCHANGED <<edges, diskEdges, status>>
      BY <2>7 DEF Consolidate
    <3>2. diskNodes' = diskNodes \/ diskNodes' = [diskNodes EXCEPT ![f] = FactOf(project)]
      BY <3>1, UncheckedNode
    <3>3. PendingInv' /\ \A k : k # f /\ k \in doubted => k \in doubted'
      BY <3>1, UncheckedNode, DoubtStep
    <3> QED BY <2>t, <2>u, <3>1, <3>2, <3>3 DEF AckedInv, AckedIsDurable, Stored
  <2>8. ASSUME NEW c \in Callers, DropNode(c) PROVE AckedInv'
    <3>1. PICK n \in op[c].victims :
            /\ nodes' = [nodes EXCEPT ![n] = None]
            /\ Unchecked(diskNodes, n, None)
            /\ UNCHANGED <<edges, diskEdges, status>>
      BY <2>8 DEF DropNode
    <3>2. diskNodes' = diskNodes \/ diskNodes' = [diskNodes EXCEPT ![n] = None]
      BY <3>1, UncheckedNode
    <3>3. PendingInv' /\ \A k : k # n /\ k \in doubted => k \in doubted'
      BY <3>1, UncheckedNode, DoubtStep
    <3>4. n \in NodeIds
      BY DEF TypeOK, Op
    <3> QED BY <2>t, <3>1, <3>2, <3>3, <3>4 DEF AckedInv, AckedIsDurable, Stored
  <2>9. ASSUME NEW c \in Callers, DropEdge(c) PROVE AckedInv'
    <3>1. PICK e \in Touching(edges, op[c].deleted) :
            /\ edges' = [edges EXCEPT ![e] = None]
            /\ Unchecked(diskEdges, e, None)
            /\ UNCHANGED <<nodes, diskNodes, status>>
      BY <2>9 DEF DropEdge
    <3>2. diskEdges' = diskEdges \/ diskEdges' = [diskEdges EXCEPT ![e] = None]
      BY <3>1, UncheckedEdge
    <3>3. PendingInv' /\ \A k : k # e /\ k \in doubted => k \in doubted'
      BY <3>1, UncheckedEdge, DoubtStep
    <3>4. e \in EdgeIds
      BY <2>t DEF Touching, Stored
    <3> QED BY <2>t, <2>u, <3>1, <3>2, <3>3, <3>4 DEF AckedInv, AckedIsDurable, Stored
  <2>10. ASSUME NEW c \in Callers,
                \/ SkipEdge(c) \/ RejectEdge(c) \/ RememberReturns(c) \/ DropReturns(c)
                \/ PruneExpired(c) \/ BeginRead(c) \/ EndRead(c) \/ Close(c)
         PROVE  AckedInv'
    BY <2>10 DEF SkipEdge, RejectEdge, RememberReturns, DropReturns, PruneExpired, BeginRead,
                 EndRead, Close, CanLock, AckedInv, AckedIsDurable, PendingInv, Pending
  <2>11. CASE Crash \/ Tick \/ UNCHANGED vars
    BY <2>11 DEF Crash, Tick, vars, AckedInv, AckedIsDurable, PendingInv, Pending
  <2>12. CASE NewMemoryEngine
    BY <2>12 DEF NewMemoryEngine, AckedInv, AckedIsDurable, PendingInv, Pending
  <2>13. CASE LateEnds
    <3>1. PICK b \in Backends :
            /\ late[b] # None
            /\ late' = [late EXCEPT ![b] = None]
            /\ \/ UNCHANGED <<diskNodes, diskEdges>>
               \/ /\ diskNodes' = [diskNodes EXCEPT ![late[b].id] = late[b].value]
                  /\ UNCHANGED diskEdges
               \/ /\ diskEdges' = [diskEdges EXCEPT ![late[b].id] = late[b].value]
                  /\ UNCHANGED diskNodes
            /\ UNCHANGED <<nodes, edges, doubted, status>>
      BY <2>13 DEF LateEnds
    <3>2. late[b].id \in doubted
      BY <3>1 DEF PendingInv, Pending
    <3>3. \A o \in Backends : late'[o] # None => late'[o] = late[o]
      BY <3>1 DEF TypeOK
    <3>4. PendingInv'
      BY <3>1, <3>3 DEF PendingInv, Pending
    <3> QED BY <2>t, <2>u, <3>1, <3>2, <3>4 DEF AckedInv, AckedIsDurable, Stored
  <2> QED
    BY <2>1, <2>2, <2>3, <2>4, <2>5, <2>6, <2>7, <2>8, <2>9, <2>10, <2>11, <2>12, <2>13
       DEF Next, Continue
<1>3. AckedInv => AckedIsDurable
  BY DEF AckedInv
<1> QED BY <1>1, <1>2, <1>3, TypeCorrect, PTL DEF Spec

\* If a failing store call is rolled back, as bbolt does, the stored value is
\* without exception the one that can be recalled.
THEOREM RollbackKeepsAcked ==
  ASSUME "inDoubt" \notin Faults
  PROVE  Spec => [](status # "down" =>
           /\ \A n \in Stored(nodes) \cap UserIds : diskNodes[n] = nodes[n]
           /\ \A e \in Stored(edges) : diskEdges[e] = edges[e])
<1>1. AckedIsDurable /\ NoDoubt =>
        (status # "down" =>
           /\ \A n \in Stored(nodes) \cap UserIds : diskNodes[n] = nodes[n]
           /\ \A e \in Stored(edges) : diskEdges[e] = edges[e])
  BY DEF AckedIsDurable, NoDoubt
<1> QED BY <1>1, AckedIsStored, NothingInDoubt, PTL

-----------------------------------------------------------------------------
(* Consolidated facts.                                                     *)

\* An entry under a minted ID is a fact, and a fact is never a victim: it has
\* no deadline and Consolidate leaves its own type out.
FactShape(table) ==
  \A f \in FactIds : table[f] # None =>
    table[f].type = ConsolidatedFact /\ table[f].validTo = None

\* A statement in doubt on a fact is its only one and adds it.
FactsInDoubt ==
  \A b \in Backends : late[b] # None /\ late[b].id \in FactIds =>
    /\ diskNodes[late[b].id] = None
    /\ late[b].value.type = ConsolidatedFact /\ late[b].value.validTo = None
    /\ \A o \in Backends : late[o] # None /\ late[o].id = late[b].id => o = b

FactInv ==
  /\ FactShape(nodes) /\ FactShape(diskNodes)
  /\ \A c \in Callers : op[c].victims \subseteq UserIds
  /\ FactsInDoubt

\* Writing a user's node, or a fact, or removing an entry keeps the shape.
LEMMA FactShapeKept ==
  ASSUME NEW t \in NodeTable, FactShape(t), NEW n, NEW v,
         n \in UserIds \/ v = None \/ (v.type = ConsolidatedFact /\ v.validTo = None),
         NEW u, u = t \/ u = [t EXCEPT ![n] = v]
  PROVE  FactShape(u)
<1>1. DOMAIN t = NodeIds /\ \A f \in FactIds : f \notin UserIds
  BY IdAssumption DEF NodeTable
<1> QED BY <1>1 DEF FactShape

LEMMA VictimsAreUsers ==
  ASSUME TypeOK, FactShape(nodes)
  PROVE  /\ Expired(nodes, now) \subseteq UserIds
         /\ \A project, type : Matching(nodes, project, type) \subseteq UserIds
<1>1. DOMAIN nodes = UserIds \cup FactIds
  BY DEF TypeOK, NodeTable
<1> QED BY <1>1 DEF FactShape, Expired, Matching, Stored

\* A call on an entry that is no fact leaves what is in doubt of facts.
LEMMA NoFactInDoubt ==
  ASSUME TypeOK, FactsInDoubt, NEW id, NEW value, id \notin FactIds,
         Succeeds(id) \/ Fails(id, value),
         \A f \in FactIds : diskNodes'[f] = diskNodes[f]
  PROVE  FactsInDoubt'
<1>1. CASE late' = late
  BY <1>1 DEF FactsInDoubt
<1>2. ASSUME NEW b \in Backends,
             late' = [late EXCEPT ![b] = [id |-> id, value |-> value]]
      PROVE  FactsInDoubt'
  <2>1. \A o \in Backends : late'[o] = late[o] \/ late'[o].id = id
    BY <1>2 DEF TypeOK
  <2> QED BY <2>1 DEF FactsInDoubt
<1> QED BY <1>1, <1>2 DEF Succeeds, Fails, doubt

\* Consolidate's save of a minted ID is the only statement on it.
LEMMA NewFactInDoubt ==
  ASSUME TypeOK, FactsInDoubt, NEW f \in FactIds, NEW v,
         v.type = ConsolidatedFact /\ v.validTo = None,
         diskNodes[f] = None, f \notin Pending, Unchecked(diskNodes, f, v)
  PROVE  FactsInDoubt'
<1>1. \A o \in Backends : late[o] # None => late[o].id # f
  BY DEF Pending
<1>2. DOMAIN diskNodes = NodeIds
  BY DEF TypeOK, NodeTable
<1>3. CASE late' = late /\ diskNodes' = [diskNodes EXCEPT ![f] = v]
  BY <1>1, <1>2, <1>3 DEF FactsInDoubt
<1>4. CASE late' = late /\ diskNodes' = diskNodes
  BY <1>4 DEF FactsInDoubt
<1>5. ASSUME NEW b \in Backends, late[b] = None, diskNodes' = diskNodes,
             late' = [late EXCEPT ![b] = [id |-> f, value |-> v]]
      PROVE  FactsInDoubt'
  <2>1. late'[b].id = f /\ late'[b].value = v /\ \A o \in Backends \ {b} : late'[o] = late[o]
    BY <1>5 DEF TypeOK
  <2> QED BY <1>1, <1>5, <2>1 DEF FactsInDoubt
<1> QED BY <1>3, <1>4, <1>5, UncheckedNode DEF Succeeds, Fails, doubt

LEMMA FactInvariant == Spec => []FactInv
<1>1. Init => FactInv
  BY DEF Init, FactInv, FactsInDoubt, FactShape, NoNodes, Idle
<1>2. TypeOK /\ FactInv /\ [Next]_vars => FactInv'
  <2> SUFFICES ASSUME TypeOK, FactInv, [Next]_vars PROVE FactInv'
    OBVIOUS
  <2> USE DEF locks, disk, doubt
  <2>t. nodes \in NodeTable /\ diskNodes \in NodeTable /\ op \in [Callers -> Op]
    BY DEF TypeOK
  <2>h. ASSUME NEW c \in Callers, NEW stage, NEW batch, NEW victims \in SUBSET UserIds,
               Hold(c, stage, batch, victims)
        PROVE  \A o \in Callers : op'[o].victims \subseteq UserIds
    BY <2>t, <2>h DEF Hold, Idle, FactInv
  <2>r. ASSUME NEW c \in Callers, Return(c)
        PROVE  \A o \in Callers : op'[o].victims \subseteq UserIds
    BY <2>t, <2>r DEF Return, Idle, FactInv
  <2>i. /\ DOMAIN diskNodes = NodeIds
        /\ \A n \in UserIds \cup EdgeIds : n \notin FactIds
    BY IdAssumption, EnvironmentAssumption DEF TypeOK, NodeTable
  <2>1. ASSUME NEW c \in Callers, Remember(c) PROVE FactInv'
    <3>1. PICK n \in UserIds, v \in Contents, batch \in Batches :
            /\ diskNodes' = [diskNodes EXCEPT ![n] = v]
            /\ nodes' = [nodes EXCEPT ![n] = v]
            /\ Succeeds(n)
            /\ Hold(c, "saveEdges", batch, {})
      BY <2>1 DEF Remember
    <3>2. FactShape(nodes)' /\ FactShape(diskNodes)'
      BY <2>t, <3>1, FactShapeKept DEF FactInv
    <3>3. FactsInDoubt'
      BY <2>i, <3>1, NoFactInDoubt DEF FactInv
    <3> QED BY <2>h, <3>1, <3>2, <3>3 DEF FactInv
  <2>2. ASSUME NEW c \in Callers, RememberFails(c) PROVE FactInv'
    <3>1. PICK n \in UserIds, v \in Contents : Fails(n, v)
      BY <2>2 DEF RememberFails
    <3>2. FactsInDoubt'
      BY <2>2, <2>i, <3>1, NoFactInDoubt DEF RememberFails, FactInv
    <3> QED BY <2>2, <3>2 DEF RememberFails, FactInv
  <2>3. ASSUME NEW c \in Callers, SkipEdge(c) \/ SaveEdge(c) PROVE FactInv'
    <3>1. op' = [op EXCEPT ![c].batch = Tail(@)]
      BY <2>3 DEF SkipEdge, SaveEdge
    <3>2. \A o \in Callers : op'[o].victims = op[o].victims
      BY <2>t, <3>1 DEF Op
    <3>3. FactsInDoubt'
      <4>1. CASE SkipEdge(c)
        BY <4>1 DEF SkipEdge, FactInv, FactsInDoubt
      <4>2. CASE SaveEdge(c)
        BY <2>i, <4>2, NextEdgeType, NoFactInDoubt DEF SaveEdge, FactInv
      <4> QED BY <2>3, <4>1, <4>2
    <3> QED BY <2>3, <3>2, <3>3 DEF SkipEdge, SaveEdge, FactInv
  <2>4. ASSUME NEW c \in Callers,
               RejectEdge(c) \/ SaveEdgeFails(c) \/ RememberReturns(c) \/ DropReturns(c)
        PROVE  FactInv'
    <3>1. FactsInDoubt'
      <4>1. CASE SaveEdgeFails(c)
        BY <2>i, <4>1, NextEdgeType, NoFactInDoubt DEF SaveEdgeFails, FactInv
      <4>2. CASE RejectEdge(c) \/ RememberReturns(c) \/ DropReturns(c)
        BY <4>2 DEF RejectEdge, RememberReturns, DropReturns, FactInv, FactsInDoubt
      <4> QED BY <2>4, <4>1, <4>2
    <3> QED
      BY <2>r, <2>4, <3>1 DEF RejectEdge, SaveEdgeFails, RememberReturns, DropReturns, FactInv
  <2>5. ASSUME NEW c \in Callers, PruneExpired(c) PROVE FactInv'
    BY <2>h, <2>5, VictimsAreUsers DEF PruneExpired, FactInv, FactsInDoubt
  <2>6. ASSUME NEW c \in Callers, Consolidate(c) PROVE FactInv'
    <3>1. PICK project \in Projects \cup {None}, type \in Types \cup {None}, f \in FactIds :
            /\ diskNodes[f] = None /\ f \notin Pending
            /\ nodes' = [nodes EXCEPT ![f] = FactOf(project)]
            /\ Unchecked(diskNodes, f, FactOf(project))
            /\ Hold(c, "drop", <<>>, Matching(nodes, project, type))
      BY <2>6 DEF Consolidate
    <3>2. diskNodes' = diskNodes \/ diskNodes' = [diskNodes EXCEPT ![f] = FactOf(project)]
      BY <3>1, UncheckedNode
    <3>3. FactOf(project).type = ConsolidatedFact /\ FactOf(project).validTo = None
      BY DEF FactOf
    <3>4. FactShape(nodes') /\ FactShape(diskNodes')
      BY <2>t, <3>1, <3>2, <3>3, FactShapeKept DEF FactInv
    <3>5. FactsInDoubt'
      BY <3>1, <3>3, NewFactInDoubt DEF FactInv
    <3> QED BY <2>h, <3>1, <3>4, <3>5, VictimsAreUsers DEF FactInv
  <2>7. ASSUME NEW c \in Callers, DropNode(c) PROVE FactInv'
    <3>1. PICK n \in op[c].victims :
            /\ nodes' = [nodes EXCEPT ![n] = None]
            /\ Unchecked(diskNodes, n, None)
            /\ op' = [op EXCEPT ![c].victims = @ \ {n}, ![c].deleted = @ \cup {n}]
      BY <2>7 DEF DropNode
    <3>2. diskNodes' = diskNodes \/ diskNodes' = [diskNodes EXCEPT ![n] = None]
      BY <3>1, UncheckedNode
    <3>3. FactShape(nodes') /\ FactShape(diskNodes')
      BY <2>t, <3>1, <3>2, FactShapeKept DEF FactInv
    <3>4. \A o \in Callers : op'[o].victims \subseteq op[o].victims
      BY <2>t, <3>1 DEF Op
    <3>5. n \in UserIds
      BY DEF FactInv
    <3>6. \A f \in FactIds : diskNodes'[f] = diskNodes[f]
      BY <2>i, <3>2, <3>5
    <3>7. FactsInDoubt'
      BY <2>i, <3>1, <3>5, <3>6, UncheckedNode, NoFactInDoubt DEF FactInv
    <3> QED BY <3>3, <3>4, <3>7 DEF FactInv
  <2>8. ASSUME NEW c \in Callers,
               \/ RememberEdge(c) \/ RememberEdgeFails(c) \/ DropEdge(c)
               \/ BeginRead(c) \/ EndRead(c) \/ Close(c)
        PROVE  FactInv'
    <3>1. FactsInDoubt'
      <4>1. CASE RememberEdge(c) \/ RememberEdgeFails(c)
        <5>1. PICK e \in EdgeIds, x \in Ends : Succeeds(e) \/ Fails(e, x)
          BY <4>1 DEF RememberEdge, RememberEdgeFails
        <5> QED BY <2>i, <4>1, <5>1, NoFactInDoubt DEF RememberEdge, RememberEdgeFails, FactInv
      <4>2. CASE DropEdge(c)
        <5>1. PICK e \in Touching(edges, op[c].deleted) : Unchecked(diskEdges, e, None)
          BY <4>2 DEF DropEdge
        <5>2. e \in EdgeIds
          BY DEF Touching, Stored, TypeOK, EdgeTable
        <5> QED
          BY <2>i, <4>2, <5>1, <5>2, UncheckedEdge, NoFactInDoubt DEF DropEdge, FactInv
      <4>3. CASE BeginRead(c) \/ EndRead(c) \/ Close(c)
        BY <4>3 DEF BeginRead, EndRead, Close, FactInv, FactsInDoubt
      <4> QED BY <2>8, <4>1, <4>2, <4>3
    <3> QED
      BY <2>8, <3>1
         DEF RememberEdge, RememberEdgeFails, DropEdge, BeginRead, EndRead, Close, FactInv
  <2>9. CASE Crash
    BY <2>9 DEF Crash, FactInv, FactsInDoubt, FactShape, NoNodes, Idle
  <2>10. CASE NewMemoryEngine \/ Tick
    BY <2>10 DEF NewMemoryEngine, Tick, FactInv, FactsInDoubt
  <2>11. CASE UNCHANGED vars
    BY <2>11 DEF vars, FactInv, FactsInDoubt
  <2>12. CASE LateEnds
    <3>1. PICK b \in Backends :
            /\ late[b] # None
            /\ late' = [late EXCEPT ![b] = None]
            /\ \/ diskNodes' = diskNodes
               \/ diskNodes' = [diskNodes EXCEPT ![late[b].id] = late[b].value]
            /\ UNCHANGED <<nodes, op>>
      BY <2>12 DEF LateEnds
    <3>2. late'[b] = None /\ \A o \in Backends \ {b} : late'[o] = late[o]
      BY <3>1 DEF TypeOK
    <3>3. FactShape(diskNodes')
      BY <2>i, <3>1 DEF FactInv, FactShape, FactsInDoubt
    <3>4. FactsInDoubt'
      BY <2>i, <3>1, <3>2 DEF FactInv, FactsInDoubt
    <3> QED BY <3>1, <3>3, <3>4 DEF FactInv
  <2> QED
    BY <2>1, <2>2, <2>3, <2>4, <2>5, <2>6, <2>7, <2>8, <2>9, <2>10, <2>11, <2>12
       DEF Next, Continue
<1> QED BY <1>1, <1>2, TypeCorrect, PTL DEF Spec

\* A step that touches the store's entry of a consolidated fact adds it.
THEOREM FactsStay == Spec => FactsAreKept
<1>1. TypeOK /\ FactInv /\ [Next]_vars =>
        [\A f \in FactIds \cap Stored(diskNodes) : diskNodes'[f] = diskNodes[f]]_vars
  <2> SUFFICES ASSUME TypeOK, FactInv, Next,
                      NEW f \in FactIds, f \in Stored(diskNodes)
               PROVE  diskNodes'[f] = diskNodes[f]
    OBVIOUS
  <2> USE DEF locks, disk, doubt
  <2>t. DOMAIN diskNodes = NodeIds /\ f \notin UserIds /\ diskNodes[f] # None
    BY IdAssumption DEF TypeOK, NodeTable, Stored
  <2>1. ASSUME NEW n, NEW v, n # f,
               diskNodes' = diskNodes \/ diskNodes' = [diskNodes EXCEPT ![n] = v]
        PROVE  diskNodes'[f] = diskNodes[f]
    BY <2>t, <2>1
  <2>2. ASSUME NEW c \in Callers, Remember(c) PROVE diskNodes'[f] = diskNodes[f]
    BY <2>t, <2>2 DEF Remember
  <2>3. ASSUME NEW c \in Callers, RememberFails(c) PROVE diskNodes'[f] = diskNodes[f]
    BY <2>3 DEF RememberFails
  <2>4. ASSUME NEW c \in Callers, Consolidate(c) PROVE diskNodes'[f] = diskNodes[f]
    <3>1. PICK project \in Projects \cup {None}, g \in FactIds :
            diskNodes[g] = None /\ Unchecked(diskNodes, g, FactOf(project))
      BY <2>4 DEF Consolidate
    <3> QED BY <2>t, <2>1, <3>1, UncheckedNode
  <2>5. ASSUME NEW c \in Callers, DropNode(c) PROVE diskNodes'[f] = diskNodes[f]
    <3>1. PICK n \in op[c].victims : Unchecked(diskNodes, n, None)
      BY <2>5 DEF DropNode
    <3>2. n # f
      BY <2>t DEF FactInv
    <3> QED BY <2>1, <3>1, <3>2, UncheckedNode
  <2>6. ASSUME NEW c \in Callers,
               \/ RememberEdge(c) \/ RememberEdgeFails(c) \/ PruneExpired(c)
               \/ SkipEdge(c) \/ SaveEdge(c) \/ RejectEdge(c) \/ SaveEdgeFails(c)
               \/ RememberReturns(c) \/ DropEdge(c) \/ DropReturns(c)
               \/ BeginRead(c) \/ EndRead(c) \/ Close(c)
        PROVE  diskNodes' = diskNodes
    BY <2>6 DEF RememberEdge, RememberEdgeFails, PruneExpired, SkipEdge, SaveEdge,
                RejectEdge, SaveEdgeFails, RememberReturns, DropEdge, DropReturns,
                BeginRead, EndRead, Close
  <2>7. CASE Crash \/ NewMemoryEngine \/ Tick
    BY <2>7 DEF Crash, NewMemoryEngine, Tick
  <2>8. CASE LateEnds
    <3>1. PICK b \in Backends :
            /\ late[b] # None
            /\ \/ diskNodes' = diskNodes
               \/ diskNodes' = [diskNodes EXCEPT ![late[b].id] = late[b].value]
      BY <2>8 DEF LateEnds
    <3>2. late[b].id # f
      BY <2>t, <3>1 DEF FactInv, FactsInDoubt
    <3> QED BY <2>1, <3>1, <3>2
  <2> QED BY <2>2, <2>3, <2>4, <2>5, <2>6, <2>7, <2>8 DEF Next, Continue
<1> QED BY <1>1, TypeCorrect, FactInvariant, PTL DEF Spec, FactsAreKept

-----------------------------------------------------------------------------
(* Nothing leaves the store unjustified, if no store call fails.           *)

\* While nodes are being dropped, either every one left is past its deadline
\* or a fact in the store, no victim itself, covers every one left.
HasFact(victims) ==
  \E f \in FactIds :
    /\ diskNodes[f] # None /\ f \notin victims
    /\ \A n \in victims : diskNodes[f].project \in {None, diskNodes[n].project}

DropInv ==
  \A c \in Callers : op[c].stage = "drop" =>
    op[c].victims \subseteq Expired(diskNodes, now) \/ HasFact(op[c].victims)

\* Taking one victim out leaves the others justified, and was so itself.
LEMMA DropStep ==
  ASSUME TypeOK, FactInv, DropInv, NEW c \in Callers, op[c].stage = "drop",
         NEW n \in op[c].victims, NEW rest, rest = op[c].victims \ {n},
         diskNodes' = [diskNodes EXCEPT ![n] = None],
         UNCHANGED now
  PROVE  /\ n \in Expired(diskNodes, now) \/ \E f \in FactIds : Summarises(f, n)
         /\ rest \subseteq Expired(diskNodes, now)' \/ HasFact(rest)'
<1>1. DOMAIN diskNodes = NodeIds
  BY DEF TypeOK, NodeTable
<1>2. CASE op[c].victims \subseteq Expired(diskNodes, now)
  BY <1>1, <1>2 DEF Expired, Stored
<1>3. CASE HasFact(op[c].victims)
  <2>1. PICK f \in FactIds :
          /\ diskNodes[f] # None /\ f \notin op[c].victims
          /\ \A m \in op[c].victims : diskNodes[f].project \in {None, diskNodes[m].project}
    BY <1>3 DEF HasFact
  <2>2. diskNodes'[f] = diskNodes[f] /\ \A m \in op[c].victims \ {n} : diskNodes'[m] = diskNodes[m]
    BY <1>1, <2>1
  <2> QED BY <2>1, <2>2 DEF HasFact, Summarises
<1> QED BY <1>2, <1>3 DEF DropInv

\* A write to a node that is not in hand changes nothing for the others; the
\* steps other than DropNode and Consolidate find nothing being dropped.
LEMMA NothingDropped ==
  ASSUME TypeOK, LockInv, NEW c \in Callers,
         CanLock(c) \/ op[c].stage = "saveEdges"
  PROVE  \A o \in Callers : op[o].stage # "drop"
<1>1. CASE CanLock(c)
  <2>1. \A o \in Callers : op[o] = Idle
    BY <1>1, EnvironmentAssumption DEF LockInv, CanLock
  <2> QED BY <2>1 DEF Idle
<1>2. CASE op[c].stage = "saveEdges"
  <2>1. mu = c
    BY <1>2, InsideHoldsLock
  <2>2. \A o \in Callers \ {c} : op[o] = Idle
    BY <2>1 DEF LockInv
  <2> QED BY <1>2, <2>2 DEF Idle
<1> QED BY <1>1, <1>2

LEMMA DropInvariant ==
  ASSUME Faults = {} PROVE Spec => []DropInv
<1>1. Init => DropInv
  BY DEF Init, DropInv, Idle
<1>2. TypeOK /\ LockInv /\ FactInv /\ NoDoubt /\ CacheIsDisk /\ DropInv /\ [Next]_vars => DropInv'
  <2> SUFFICES ASSUME TypeOK, LockInv, FactInv, NoDoubt, CacheIsDisk, DropInv, [Next]_vars
               PROVE  DropInv'
    OBVIOUS
  <2> USE DEF locks, disk, doubt
  <2>t. /\ DOMAIN nodes = NodeIds /\ DOMAIN diskNodes = NodeIds
        /\ op \in [Callers -> Op] /\ now \in Nat
    BY DEF TypeOK, NodeTable
  <2>1. ASSUME NEW c \in Callers,
               \/ Remember(c) \/ RememberFails(c)
               \/ RememberEdge(c) \/ RememberEdgeFails(c) \/ Close(c)
        PROVE  \A o \in Callers : op'[o].stage # "drop"
    <3>1. CanLock(c)
      BY <2>1 DEF Remember, RememberFails, RememberEdge, RememberEdgeFails, Close
    <3>2. \A o \in Callers : op[o].stage # "drop"
      BY <3>1, NothingDropped
    <3>3. CASE Remember(c)
      <4>1. PICK batch \in Batches : Hold(c, "saveEdges", batch, {})
        BY <3>3 DEF Remember
      <4>2. op' = [op EXCEPT ![c] = [Idle EXCEPT !.stage = "saveEdges",
                                                 !.batch = batch, !.victims = {}]]
        BY <4>1 DEF Hold
      <4> QED BY <2>t, <3>2, <4>2 DEF Idle
    <3> QED BY <2>1, <3>2, <3>3 DEF RememberFails, RememberEdge, RememberEdgeFails, Close
  <2>2. ASSUME NEW c \in Callers,
               \/ SkipEdge(c) \/ SaveEdge(c) \/ RejectEdge(c) \/ SaveEdgeFails(c)
               \/ RememberReturns(c)
        PROVE  \A o \in Callers : op'[o].stage # "drop"
    <3>1. op[c].stage = "saveEdges"
      BY <2>2 DEF SkipEdge, SaveEdge, RejectEdge, SaveEdgeFails, RememberReturns, MoreEdges
    <3>2. \A o \in Callers : op[o].stage # "drop"
      BY <3>1, NothingDropped
    <3>3. CASE SkipEdge(c) \/ SaveEdge(c)
      <4>1. op' = [op EXCEPT ![c].batch = Tail(@)]
        BY <3>3 DEF SkipEdge, SaveEdge
      <4> QED BY <2>t, <3>2, <4>1 DEF Op
    <3>4. CASE RejectEdge(c) \/ SaveEdgeFails(c) \/ RememberReturns(c)
      BY <2>t, <3>2, <3>4 DEF RejectEdge, SaveEdgeFails, RememberReturns, Return, Idle
    <3> QED BY <2>2, <3>3, <3>4
  <2>3. ASSUME NEW c \in Callers, PruneExpired(c) PROVE DropInv'
    <3>1. /\ op' = [op EXCEPT ![c] = [Idle EXCEPT !.stage = "drop", !.batch = <<>>,
                                                  !.victims = Expired(nodes, now)]]
          /\ CanLock(c) /\ UNCHANGED <<diskNodes, now>>
      BY <2>3 DEF PruneExpired, Hold
    <3>2. nodes = diskNodes
      BY <3>1 DEF CanLock, CacheIsDisk
    <3>3. \A o \in Callers : op[o].stage # "drop"
      BY <3>1, NothingDropped
    <3>4. op'[c].victims = Expired(diskNodes', now')
      BY <2>t, <3>1, <3>2 DEF Idle
    <3>5. \A o \in Callers \ {c} : op'[o].stage # "drop"
      BY <2>t, <3>1, <3>3
    <3> QED BY <3>4, <3>5 DEF DropInv
  <2>4. ASSUME NEW c \in Callers, Consolidate(c) PROVE DropInv'
    <3>1. PICK project \in Projects \cup {None}, type \in Types \cup {None}, f \in FactIds :
            /\ CanLock(c) /\ diskNodes[f] = None
            /\ Unchecked(diskNodes, f, FactOf(project))
            /\ Hold(c, "drop", <<>>, Matching(nodes, project, type))
      BY <2>4 DEF Consolidate
    <3> DEFINE victims == Matching(nodes, project, type)
    <3>2. op' = [op EXCEPT ![c] = [Idle EXCEPT !.stage = "drop", !.batch = <<>>,
                                               !.victims = victims]]
      BY <3>1 DEF Hold
    <3>3. \A o \in Callers : op[o].stage # "drop"
      BY <3>1, NothingDropped
    <3>4. op'[c].victims = victims
      BY <2>t, <3>2 DEF Idle
    <3>5. \A o \in Callers \ {c} : op'[o].stage # "drop"
      BY <2>t, <3>2, <3>3
    <3>6. nodes = diskNodes
      BY <3>1 DEF CanLock, CacheIsDisk
    <3>7. diskNodes' = [diskNodes EXCEPT ![f] = FactOf(project)]
      BY <3>1, UncheckedNode
    <3>8. f \notin victims
      BY <3>1, <3>6 DEF Matching, Stored
    <3>9. \A n \in victims : project \in {None, diskNodes[n].project} /\ n \in NodeIds
      BY <2>t, <3>6 DEF Matching, Stored
    <3>10. diskNodes'[f] = FactOf(project) /\ \A n \in victims : diskNodes'[n] = diskNodes[n]
      BY <2>t, <3>7, <3>8, <3>9
    <3>11. FactOf(project) # None /\ FactOf(project).project = project
      BY IdAssumption, FactIsNode DEF FactOf
    <3>12. HasFact(op[c].victims)'
      BY <3>4, <3>8, <3>9, <3>10, <3>11 DEF HasFact
    <3> QED BY <3>5, <3>12 DEF DropInv
  <2>5. ASSUME NEW c \in Callers, DropNode(c) PROVE DropInv'
    <3>1. PICK n \in op[c].victims :
            /\ op[c].stage = "drop" /\ UNCHANGED now
            /\ Unchecked(diskNodes, n, None)
            /\ op' = [op EXCEPT ![c].victims = @ \ {n}, ![c].deleted = @ \cup {n}]
      BY <2>5 DEF DropNode
    <3>2. diskNodes' = [diskNodes EXCEPT ![n] = None]
      BY <3>1, UncheckedNode
    <3>r. PICK rest : rest = op[c].victims \ {n}
      OBVIOUS
    <3>3. op'[c].victims = rest
      BY <2>t, <3>1, <3>r DEF Op
    <3>4. rest \subseteq Expired(diskNodes, now)' \/ HasFact(rest)'
      BY <3>1, <3>2, <3>r, DropStep
    <3>5. \A o \in Callers \ {c} : op[o] = Idle
      BY <3>1, InsideHoldsLock DEF LockInv
    <3>6. \A o \in Callers \ {c} : op'[o].stage # "drop"
      BY <2>t, <3>1, <3>5 DEF Idle
    <3> QED BY <3>3, <3>4, <3>6 DEF DropInv
  <2>6. ASSUME NEW c \in Callers, DropReturns(c) PROVE DropInv'
    BY <2>t, <2>6 DEF DropReturns, Return, Idle, DropInv, HasFact
  <2>7. ASSUME NEW c \in Callers, DropEdge(c) \/ BeginRead(c) \/ EndRead(c) PROVE DropInv'
    BY <2>7 DEF DropEdge, BeginRead, EndRead, DropInv, HasFact
  <2>8. CASE Crash
    BY <2>8 DEF Crash, DropInv, Idle
  <2>9. CASE NewMemoryEngine
    BY <2>9 DEF NewMemoryEngine, DropInv, HasFact
  <2>10. CASE Tick
    <3>1. Expired(diskNodes, now) \subseteq Expired(diskNodes, now)'
      <4>1. \A n \in Stored(diskNodes) : diskNodes[n].validTo \in Nat \cup {None}
        BY DEF TypeOK, NodeTable, Node, Stored
      <4> QED BY <2>t, <2>10, <4>1 DEF Tick, Expired
    <3> QED BY <2>10, <3>1 DEF Tick, DropInv, HasFact
  <2>11. CASE UNCHANGED vars
    BY <2>11 DEF vars, DropInv, HasFact
  <2>12. ~LateEnds
    BY DEF LateEnds, NoDoubt
  <2> QED
    BY <2>1, <2>2, <2>3, <2>4, <2>5, <2>6, <2>7, <2>8, <2>9, <2>10, <2>11, <2>12
       DEF Next, Continue, DropInv
<1>3. Spec => []NoDoubt /\ []CacheIsDisk
  BY NothingInDoubt, CacheMatchesStore
<1> QED
  BY <1>1, <1>2, <1>3, TypeCorrect, LockDiscipline, FactInvariant, PTL DEF Spec

\* Stopping an engine whose store calls all succeed, between any two steps of
\* Consolidate or PruneExpired, loses no node that is neither expired nor
\* covered by a stored fact.
THEOREM NothingIsLost ==
  ASSUME Faults = {} PROVE Spec => DeletionIsJustified
<1>1. TypeOK /\ FactInv /\ NoDoubt /\ DropInv /\ [Next]_vars =>
        [\A n \in Stored(diskNodes) \ Stored(diskNodes') :
           \/ n \in Expired(diskNodes, now)
           \/ \E fact \in FactIds : Summarises(fact, n)]_vars
  <2> SUFFICES ASSUME TypeOK, FactInv, NoDoubt, DropInv, Next,
                      NEW n \in Stored(diskNodes), n \notin Stored(diskNodes')
               PROVE  \/ n \in Expired(diskNodes, now)
                      \/ \E fact \in FactIds : Summarises(fact, n)
    OBVIOUS
  <2> USE DEF locks, disk, doubt
  <2>t. DOMAIN diskNodes = NodeIds /\ n \in NodeIds /\ diskNodes[n] # None
    BY DEF TypeOK, NodeTable, Stored
  <2>1. ASSUME NEW m, NEW v, v # None,
               diskNodes' = diskNodes \/ diskNodes' = [diskNodes EXCEPT ![m] = v]
        PROVE  FALSE
    BY <2>t, <2>1 DEF Stored
  <2>2. ASSUME NEW c \in Callers, Remember(c) \/ RememberFails(c) PROVE FALSE
    <3>1. PICK m \in UserIds, v \in Contents :
            diskNodes' = [diskNodes EXCEPT ![m] = v] \/ diskNodes' = diskNodes
      BY <2>2 DEF Remember, RememberFails
    <3>2. v # None
      BY IdAssumption, InputAssumption
    <3> QED BY <2>1, <3>1, <3>2
  <2>3. ASSUME NEW c \in Callers, Consolidate(c) PROVE FALSE
    <3>1. PICK project \in Projects \cup {None}, f \in FactIds :
            Unchecked(diskNodes, f, FactOf(project))
      BY <2>3 DEF Consolidate
    <3>2. FactOf(project) # None
      BY IdAssumption, FactIsNode
    <3> QED BY <2>1, <3>1, <3>2, UncheckedNode
  <2>4. ASSUME NEW c \in Callers, DropNode(c)
        PROVE  \/ n \in Expired(diskNodes, now)
               \/ \E fact \in FactIds : Summarises(fact, n)
    <3>1. PICK m \in op[c].victims :
            /\ op[c].stage = "drop" /\ UNCHANGED now
            /\ Unchecked(diskNodes, m, None)
      BY <2>4 DEF DropNode
    <3>2. diskNodes' = [diskNodes EXCEPT ![m] = None]
      BY <3>1, UncheckedNode
    <3>3. n = m
      BY <2>t, <3>2 DEF Stored
    <3> QED BY <3>1, <3>2, <3>3, DropStep
  <2>5. ASSUME NEW c \in Callers,
               \/ RememberEdge(c) \/ RememberEdgeFails(c) \/ PruneExpired(c)
               \/ SkipEdge(c) \/ SaveEdge(c) \/ RejectEdge(c) \/ SaveEdgeFails(c)
               \/ RememberReturns(c) \/ DropEdge(c) \/ DropReturns(c)
               \/ BeginRead(c) \/ EndRead(c) \/ Close(c)
        PROVE  FALSE
    BY <2>t, <2>5 DEF RememberEdge, RememberEdgeFails, PruneExpired, SkipEdge, SaveEdge,
                RejectEdge, SaveEdgeFails, RememberReturns, DropEdge, DropReturns,
                BeginRead, EndRead, Close, Stored
  <2>6. CASE Crash \/ NewMemoryEngine \/ Tick
    BY <2>t, <2>6 DEF Crash, NewMemoryEngine, Tick, Stored
  <2>7. ~LateEnds
    BY DEF LateEnds, NoDoubt
  <2> QED BY <2>2, <2>3, <2>4, <2>5, <2>6, <2>7 DEF Next, Continue
<1>2. Spec => []NoDoubt /\ []DropInv
  BY NothingInDoubt, DropInvariant
<1> QED
  BY <1>1, <1>2, TypeCorrect, FactInvariant, PTL DEF Spec, DeletionIsJustified
=============================================================================
