---------------------- MODULE MemoryEngineView_proofs -----------------------
(***************************************************************************)
(* The engine implements the graph of MemoryGraph: each of its steps is,   *)
(* to its clients, a whole operation or nothing at all; and the end of the *)
(* process in the middle of a removal leaves what Interrupted describes,   *)
(* which alone can take a node from under its edges.                       *)
(***************************************************************************)
EXTENDS MemoryEngineView, MemoryEngine_proofs, WellFoundedInduction

-----------------------------------------------------------------------------
(* The operators of MemoryData, as MemoryGraph has them, are the engine's. *)

LEMMA SameSets ==
  /\ \A table : Graph!Stored(table) = Stored(table)
  /\ \A table, t : Graph!Expired(table, t) = Expired(table, t)
  /\ \A table, project, type :
       Graph!Matching(table, project, type) = Matching(table, project, type)
  /\ \A table, ids : Graph!Touching(table, ids) = Touching(table, ids)
<1>1. \A table : Graph!Stored(table) = Stored(table)
  BY DEF Graph!Stored, Stored
<1>2. \A table, t : Graph!Expired(table, t) = Expired(table, t)
  BY <1>1 DEF Graph!Expired, Expired
<1>3. \A table, project, type :
        Graph!Matching(table, project, type) = Matching(table, project, type)
  BY <1>1 DEF Graph!Matching, Matching, Graph!ConsolidatedFact, ConsolidatedFact
<1>4. \A table, ids : Graph!Touching(table, ids) = Touching(table, ids)
  BY <1>1 DEF Graph!Touching, Touching
<1> QED BY <1>1, <1>2, <1>3, <1>4

LEMMA SameSize == \A S : Graph!Cardinality(S) = Cardinality(S)
BY DEF Graph!Cardinality, Cardinality

LEMMA SameValues ==
  /\ \A project : Graph!FactOf(project) = FactOf(project)
  /\ \A request : Graph!EdgeOf(request) = EdgeOf(request)
  /\ \A request : Graph!Blank(request) = Blank(request)
BY DEF Graph!FactOf, FactOf, Graph!EdgeOf, EdgeOf, Graph!Blank, Blank,
       Graph!ConsolidatedFact, ConsolidatedFact

-----------------------------------------------------------------------------
(* The edges of a batch, attached one by one.                              *)

\* What the batch's first k requests make of the edges of the view.
Requests(batch, k, e) == {i \in 1 .. k : batch[i].id = e}
LatestOf(batch, R, e) ==
  IF R = {} THEN view.edges[e]
  ELSE EdgeOf(batch[CHOOSE i \in R : \A j \in R : j <= i])
AttachedUpTo(batch, k) == [e \in EdgeIds |-> LatestOf(batch, Requests(batch, k, e), e)]
AttachableUpTo(batch, k) ==
  \A i \in 1 .. k : batch[i].id = None \/ ~Blank(batch[i])

LEMMA LargestRequest ==
  ASSUME NEW batch, NEW k \in Nat, NEW e, Requests(batch, k, e) # {}
  PROVE  \E m \in Requests(batch, k, e) : \A j \in Requests(batch, k, e) : j <= m
<1> DEFINE R == Requests(batch, k, e)
           S == {i \in 0 .. k : k - i \in R}
<1>1. R \subseteq 1 .. k
  BY DEF Requests
<1>2. S \in SUBSET Nat /\ S # {}
  <2>1. PICK j \in R : TRUE
    OBVIOUS
  <2>2. k - (k - j) = j /\ k - j \in 0 .. k
    BY <1>1
  <2> QED BY <2>1, <2>2
<1>3. PICK i \in S : \A j \in S : i <= j
  <2> HIDE DEF S
  <2>1. PICK i \in S : \A j \in S : <<j, i>> \notin OpToRel(<, Nat)
    BY <1>2, NatLessThanWellFounded, WFMin
  <2>2. ASSUME NEW j \in S PROVE i <= j
    <3>1. i \in Nat /\ j \in Nat
      BY <1>2
    <3>2. ~(j < i)
      BY <2>1, <3>1 DEF OpToRel
    <3> QED BY <3>1, <3>2
  <2> QED BY <2>2
<1>4. ASSUME NEW j \in R PROVE j <= k - i
  <2>1. k - (k - j) = j /\ k - j \in 0 .. k
    BY <1>1
  <2>2. k - j \in S
    BY <2>1
  <2>3. i <= k - j /\ i \in Nat /\ j \in Nat
    BY <1>1, <1>3, <2>2
  <2> QED BY <2>3
<1> QED BY <1>3, <1>4

LEMMA Prefix ==
  ASSUME NEW batch \in Seq(EdgeRequest), NEW k \in 0 .. Len(batch)
  PROVE  /\ DOMAIN SubSeq(batch, 1, k) = 1 .. k
         /\ \A i \in 1 .. k : SubSeq(batch, 1, k)[i] = batch[i]
OBVIOUS

\* They are what MemoryGraph says of the prefix of length k.
LEMMA AttachedPrefix ==
  ASSUME NEW batch \in Seq(EdgeRequest), NEW k \in 0 .. Len(batch)
  PROVE  /\ Graph!Attached(SubSeq(batch, 1, k)) = AttachedUpTo(batch, k)
         /\ Graph!Attachable(SubSeq(batch, 1, k)) <=> AttachableUpTo(batch, k)
<1> DEFINE s == SubSeq(batch, 1, k)
<1>1. DOMAIN s = 1 .. k /\ \A i \in 1 .. k : s[i] = batch[i]
  BY Prefix
<1> HIDE DEF s
<1>2. \A e : {i \in DOMAIN s : s[i].id = e} = Requests(batch, k, e)
  BY <1>1 DEF Requests
<1>3. ASSUME NEW e \in EdgeIds
      PROVE  Graph!Attached(s)[e] = AttachedUpTo(batch, k)[e]
  <2> DEFINE R == Requests(batch, k, e)
             last == CHOOSE i \in R : \A j \in R : j <= i
  <2>1. Graph!Attached(s)[e] = IF R = {} THEN view.edges[e] ELSE Graph!EdgeOf(s[last])
    <3>1. {i \in DOMAIN s : s[i].id = e} = R
      BY <1>2
    <3>2. Graph!Attached(s)[e] =
            LET Q == {i \in DOMAIN s : s[i].id = e}
            IN  IF Q = {} THEN view.edges[e]
                ELSE Graph!EdgeOf(s[CHOOSE i \in Q : \A j \in Q : j <= i])
      BY <1>3, Zenon DEF Graph!Attached
    <3> QED BY <3>1, <3>2, Zenon
  <2>2. AttachedUpTo(batch, k)[e] = IF R = {} THEN view.edges[e] ELSE EdgeOf(batch[last])
    BY <1>3 DEF AttachedUpTo, LatestOf
  <2>3. ASSUME R # {} PROVE s[last] = batch[last]
    <3>1. \E m \in R : \A j \in R : j <= m
      BY <2>3, LargestRequest
    <3>2. last \in R
      BY <3>1
    <3> QED BY <1>1, <3>2 DEF Requests
  <2> QED BY <2>1, <2>2, <2>3, SameValues
<1>4. Graph!Attached(s) = AttachedUpTo(batch, k)
  BY <1>3 DEF Graph!Attached, AttachedUpTo
<1>5. Graph!Attachable(s) <=> AttachableUpTo(batch, k)
  BY <1>1, SameValues DEF Graph!Attachable, AttachableUpTo
<1> QED BY <1>4, <1>5 DEF s

\* One request more: left out, or attached.
LEMMA AttachNothing ==
  ASSUME NEW batch \in Seq(EdgeRequest), NEW k \in 0 .. Len(batch) - 1,
         batch[k + 1].id = None
  PROVE  /\ AttachedUpTo(batch, k + 1) = AttachedUpTo(batch, k)
         /\ AttachableUpTo(batch, k) => AttachableUpTo(batch, k + 1)
<1>1. \A e \in EdgeIds : Requests(batch, k + 1, e) = Requests(batch, k, e)
  BY IdAssumption DEF Requests
<1>2. AttachedUpTo(batch, k + 1) = AttachedUpTo(batch, k)
  BY <1>1 DEF AttachedUpTo
<1>3. AttachableUpTo(batch, k) => AttachableUpTo(batch, k + 1)
  BY DEF AttachableUpTo
<1> QED BY <1>2, <1>3

LEMMA AttachOne ==
  ASSUME NEW batch \in Seq(EdgeRequest), NEW k \in 0 .. Len(batch) - 1,
         batch[k + 1].id \in EdgeIds, ~Blank(batch[k + 1])
  PROVE  /\ AttachedUpTo(batch, k + 1) =
              [AttachedUpTo(batch, k) EXCEPT ![batch[k + 1].id] = EdgeOf(batch[k + 1])]
         /\ AttachableUpTo(batch, k) => AttachableUpTo(batch, k + 1)
<1> DEFINE new == batch[k + 1].id
<1>1. \A e \in EdgeIds \ {new} : Requests(batch, k + 1, e) = Requests(batch, k, e)
  BY DEF Requests
<1>2. \A e \in EdgeIds \ {new} : AttachedUpTo(batch, k + 1)[e] = AttachedUpTo(batch, k)[e]
  BY <1>1 DEF AttachedUpTo
<1>3. AttachedUpTo(batch, k + 1)[new] = EdgeOf(batch[k + 1])
  <2> DEFINE R == Requests(batch, k + 1, new)
             last == CHOOSE i \in R : \A j \in R : j <= i
  <2>1. k + 1 \in R /\ R \subseteq 1 .. k + 1
    BY DEF Requests
  <2>2. last = k + 1
    <3> HIDE DEF R
    <3>1. \A j \in R : j <= k + 1
      BY <2>1
    <3>2. last \in R /\ \A j \in R : j <= last
      BY <2>1, <3>1, Zenon
    <3> HIDE DEF last
    <3>3. last \in 1 .. k + 1 /\ k + 1 <= last
      BY <2>1, <3>2
    <3> QED BY <3>3
  <2>3. AttachedUpTo(batch, k + 1)[new] =
          IF R = {} THEN view.edges[new] ELSE EdgeOf(batch[last])
    BY DEF AttachedUpTo, LatestOf
  <2> QED BY <2>1, <2>2, <2>3
<1>4. AttachedUpTo(batch, k + 1) = [AttachedUpTo(batch, k) EXCEPT ![new] = EdgeOf(batch[k + 1])]
  BY <1>2, <1>3 DEF AttachedUpTo
<1>5. AttachableUpTo(batch, k) => AttachableUpTo(batch, k + 1)
  BY DEF AttachableUpTo
<1> QED BY <1>4, <1>5

LEMMA AttachedAtStart ==
  ASSUME NEW batch, view.edges \in EdgeTable
  PROVE  AttachedUpTo(batch, 0) = view.edges /\ AttachableUpTo(batch, 0)
<1>1. \A e : Requests(batch, 0, e) = {}
  BY DEF Requests
<1>2. \A e \in EdgeIds : AttachedUpTo(batch, 0)[e] = view.edges[e]
  BY <1>1 DEF AttachedUpTo, LatestOf
<1>3. AttachedUpTo(batch, 0) = view.edges
  BY <1>2 DEF AttachedUpTo, EdgeTable
<1>4. AttachableUpTo(batch, 0)
  BY DEF AttachableUpTo
<1> QED BY <1>3, <1>4

-----------------------------------------------------------------------------
(* What an operation has done so far to the graph that clients last saw.   *)

\* Remember has stored its node and the first k of its edges.
Saving(c) ==
  \E n \in UserIds, v \in Contents, batch \in Batches : \E k \in 0 .. Len(batch) :
    /\ op[c].batch = SubSeq(batch, k + 1, Len(batch))
    /\ AttachableUpTo(batch, k)
    /\ nodes = [view.nodes EXCEPT ![n] = v]
    /\ edges = AttachedUpTo(batch, k)

\* What PruneExpired or Consolidate set out to remove, and the nodes with the
\* fact if there is one.
Removal(doomed, fact) ==
  \/ /\ \E t \in 0 .. now : doomed = Expired(view.nodes, t)
     /\ fact = view.nodes
  \/ \E project \in Projects \cup {None}, type \in Types \cup {None}, f \in FactIds :
       /\ doomed = Matching(view.nodes, project, type)
       /\ Cardinality(doomed) >= 2
       /\ view.nodes[f] = None
       /\ fact = [view.nodes EXCEPT ![f] = FactOf(project)]

\* The nodes deleted are gone, and then some of the edges.
Dropping(c) ==
  \E doomed \in SUBSET NodeIds, fact \in NodeTable :
    /\ Removal(doomed, fact)
    /\ doomed = op[c].victims \cup op[c].deleted
    /\ nodes = Graph!Without(fact, op[c].deleted)
    /\ \E lost \in SUBSET Touching(view.edges, doomed) :
         /\ edges = Graph!Without(view.edges, lost)
         /\ op[c].victims # {} => lost = {}

Outside ==
  /\ status = "down" => view = [nodes |-> diskNodes, edges |-> diskEdges]
  /\ status # "down" /\ mu = None => view = [nodes |-> nodes, edges |-> edges]

ViewInv ==
  /\ view.nodes \in NodeTable /\ view.edges \in EdgeTable
  /\ Outside
  /\ mu # None => mu \in Callers /\ op[mu].stage \in {"saveEdges", "drop"}
  /\ \A c \in Callers : op[c].stage = "saveEdges" => Saving(c)
  /\ \A c \in Callers : op[c].stage = "drop" => Dropping(c)

-----------------------------------------------------------------------------
(* What the steps of an operation make of it.                              *)

\* While a removal goes on, its keys are taken out of a table one by one.
LEMMA NoneLess ==
  ASSUME NEW table, table \in NodeTable \/ table \in EdgeTable
  PROVE  Graph!Without(table, {}) = table
BY DEF Graph!Without, NodeTable, EdgeTable

LEMMA OneLess ==
  ASSUME NEW table, NEW keys, NEW key \in DOMAIN table
  PROVE  [Graph!Without(table, keys) EXCEPT ![key] = None] =
           Graph!Without(table, keys \cup {key})
BY DEF Graph!Without

LEMMA Suffix ==
  ASSUME NEW batch \in Seq(EdgeRequest), NEW k \in 0 .. Len(batch),
         SubSeq(batch, k + 1, Len(batch)) # <<>>
  PROVE  /\ k \in 0 .. Len(batch) - 1
         /\ Head(SubSeq(batch, k + 1, Len(batch))) = batch[k + 1]
         /\ Tail(SubSeq(batch, k + 1, Len(batch))) = SubSeq(batch, k + 1 + 1, Len(batch))
<1>1. k \in 0 .. Len(batch) - 1
  OBVIOUS
<1>2. Head(SubSeq(batch, k + 1, Len(batch))) = batch[k + 1]
  BY <1>1
<1>3. Tail(SubSeq(batch, k + 1, Len(batch))) = SubSeq(batch, k + 1 + 1, Len(batch))
  BY <1>1
<1> QED BY <1>1, <1>2, <1>3

LEMMA SameView ==
  ASSUME view' = view
  PROVE  \A batch, k : AttachedUpTo(batch, k)' = AttachedUpTo(batch, k)
BY DEF AttachedUpTo, LatestOf

\* What an operation set out to remove it still does later.
LEMMA SameRemoval ==
  ASSUME view' = view, 0 .. now \subseteq 0 .. now'
  PROVE  \A doomed, fact : Removal(doomed, fact) => Removal(doomed, fact)'
BY DEF Removal

\* Nobody is in an operation while the lock is free.
LEMMA AllIdle ==
  ASSUME LockInv, mu = None PROVE \A c \in Callers : op[c] = Idle
BY EnvironmentAssumption DEF LockInv

\* ... and then clients see the maps, or the store.
LEMMA SeenOutside ==
  ASSUME TypeOK', See, mu' = None, \A c \in Callers : op'[c] = Idle
  PROVE  ViewInv'
<1>1. \/ status' = "down" /\ view' = [nodes |-> diskNodes', edges |-> diskEdges']
      \/ status' # "down" /\ view' = [nodes |-> nodes', edges |-> edges']
  BY DEF See
<1>2. view'.nodes \in NodeTable /\ view'.edges \in EdgeTable
  BY <1>1 DEF TypeOK
<1>3. Outside'
  BY <1>1 DEF Outside
<1>4. \A c \in Callers : op'[c].stage # "saveEdges" /\ op'[c].stage # "drop"
  BY DEF Idle
<1> QED BY <1>2, <1>3, <1>4 DEF ViewInv

\* From within an operation they see nothing of it.
LEMMA SeenInside ==
  ASSUME ViewInv, See, NEW c \in Callers, mu' = c, status' = "open",
         \A o \in Callers \ {c} : op'[o] = Idle,
         \/ op'[c].stage = "saveEdges" /\ Saving(c)'
         \/ op'[c].stage = "drop" /\ Dropping(c)'
  PROVE  ViewInv'
<1>1. view' = view
  BY EnvironmentAssumption DEF See
<1>2. \A o \in Callers \ {c} : op'[o].stage # "saveEdges" /\ op'[o].stage # "drop"
  BY DEF Idle
<1>3. Outside'
  BY EnvironmentAssumption DEF Outside
<1>4. view'.nodes \in NodeTable /\ view'.edges \in EdgeTable
  BY <1>1 DEF ViewInv
<1>5. mu' \in Callers /\ op'[mu'].stage \in {"saveEdges", "drop"}
  OBVIOUS
<1>6. \A o \in Callers : op'[o].stage = "saveEdges" => Saving(o)'
  BY <1>2
<1>7. \A o \in Callers : op'[o].stage = "drop" => Dropping(o)'
  BY <1>2
<1> QED BY <1>3, <1>4, <1>5, <1>6, <1>7 DEF ViewInv

\* Remember: nothing attached yet, then one request after the other.
LEMMA RememberSeen ==
  ASSUME TypeOK, LockInv, ViewInv, See, NEW c \in Callers, Remember(c)
  PROVE  ViewInv'
<1>1. PICK n \in UserIds, v \in Contents, batch \in Batches :
        /\ nodes' = [nodes EXCEPT ![n] = v]
        /\ Hold(c, "saveEdges", batch, {})
        /\ UNCHANGED <<edges, diskEdges, status, now>>
  BY DEF Remember
<1>2. status = "open" /\ mu = None /\ view = [nodes |-> nodes, edges |-> edges]
  BY DEF Remember, CanLock, ViewInv, Outside
<1>3. mu' = c /\ status' = "open" /\ \A o \in Callers \ {c} : op'[o] = Idle
  BY <1>1, <1>2, AllIdle DEF Hold, TypeOK
<1>4. op'[c].stage = "saveEdges" /\ op'[c].batch = batch
  BY <1>1 DEF Hold, TypeOK, Idle
<1>5. view' = view
  BY <1>3, EnvironmentAssumption DEF See
<1>6. batch \in Seq(EdgeRequest)
  BY InputAssumption
<1>7. Saving(c)'
  <2>1. op'[c].batch = SubSeq(batch, 0 + 1, Len(batch)) /\ 0 \in 0 .. Len(batch)
    BY <1>4, <1>6
  <2>2. AttachableUpTo(batch, 0) /\ edges' = AttachedUpTo(batch, 0)'
    BY <1>1, <1>2, <1>5, SameView, AttachedAtStart DEF ViewInv
  <2>3. nodes' = [view'.nodes EXCEPT ![n] = v]
    BY <1>1, <1>2, <1>5
  <2> QED BY <2>1, <2>2, <2>3 DEF Saving
<1> QED BY <1>3, <1>4, <1>7, SeenInside

LEMMA BatchSeen ==
  ASSUME TypeOK, LockInv, ViewInv, See, NEW c \in Callers, SkipEdge(c) \/ SaveEdge(c)
  PROVE  ViewInv'
<1>1. /\ op[c].stage = "saveEdges" /\ op[c].batch # <<>> /\ op \in [Callers -> Op]
      /\ op' = [op EXCEPT ![c].batch = Tail(@)]
      /\ UNCHANGED <<nodes, status, mu, now>>
  BY DEF SkipEdge, SaveEdge, MoreEdges, TypeOK, disk
<1>2. mu = c /\ status = "open" /\ view' = view
  BY <1>1, InsideHoldsLock, EnvironmentAssumption DEF See
<1>3. \A o \in Callers \ {c} : op'[o] = Idle
  BY <1>1, <1>2 DEF LockInv
<1>4. PICK n \in UserIds, v \in Contents, batch \in Batches : \E k \in 0 .. Len(batch) :
        /\ op[c].batch = SubSeq(batch, k + 1, Len(batch))
        /\ AttachableUpTo(batch, k)
        /\ nodes = [view.nodes EXCEPT ![n] = v]
        /\ edges = AttachedUpTo(batch, k)
  BY <1>1 DEF ViewInv, Saving
<1>k. PICK k \in 0 .. Len(batch) :
        /\ op[c].batch = SubSeq(batch, k + 1, Len(batch))
        /\ AttachableUpTo(batch, k)
        /\ nodes = [view.nodes EXCEPT ![n] = v]
        /\ edges = AttachedUpTo(batch, k)
  BY <1>4
<1>5. batch \in Seq(EdgeRequest)
  BY InputAssumption
<1>6. /\ k \in 0 .. Len(batch) - 1
      /\ NextEdge(c) = batch[k + 1]
      /\ Tail(op[c].batch) = SubSeq(batch, k + 1 + 1, Len(batch))
  BY <1>1, <1>k, <1>5, Suffix DEF NextEdge
<1>7. op'[c].stage = "saveEdges" /\ op'[c].batch = SubSeq(batch, k + 1 + 1, Len(batch))
  BY <1>1, <1>6 DEF Op
<1>8. AttachableUpTo(batch, k + 1) /\ edges' = AttachedUpTo(batch, k + 1)
  <2>1. CASE SkipEdge(c)
    BY <1>k, <1>5, <1>6, <2>1, AttachNothing DEF SkipEdge
  <2>2. CASE SaveEdge(c)
    <3>1. NextEdge(c).id \in EdgeIds /\ ~Blank(NextEdge(c))
      BY <2>2, NextEdgeType DEF SaveEdge
    <3> QED BY <1>k, <1>5, <1>6, <2>2, <3>1, AttachOne DEF SaveEdge
  <2> QED BY <2>1, <2>2
<1>9. Saving(c)'
  <2>1. k + 1 \in 0 .. Len(batch)
    BY <1>6
  <2>2. edges' = AttachedUpTo(batch, k + 1)'
    BY <1>2, <1>8, SameView
  <2>3. nodes' = [view'.nodes EXCEPT ![n] = v]
    BY <1>1, <1>2, <1>k
  <2> QED BY <1>7, <1>8, <2>1, <2>2, <2>3 DEF Saving
<1> QED BY <1>1, <1>2, <1>3, <1>7, <1>9, SeenInside

\* PruneExpired and Consolidate: nothing removed yet, then node after node,
\* then edge after edge.
LEMMA RemovalSeen ==
  ASSUME TypeOK, LockInv, ViewInv, See, NEW c \in Callers,
         PruneExpired(c) \/ Consolidate(c)
  PROVE  ViewInv'
<1> USE DEF disk, doubt
<1>1. /\ status = "open" /\ mu = None /\ view = [nodes |-> nodes, edges |-> edges]
      /\ UNCHANGED <<edges, status, now>>
  BY DEF PruneExpired, Consolidate, CanLock, ViewInv, Outside
<1>2. PICK doomed \in SUBSET NodeIds, fact \in NodeTable :
        Hold(c, "drop", <<>>, doomed) /\ nodes' = fact /\ Removal(doomed, fact)
  <2>1. CASE PruneExpired(c)
    <3>1. Expired(nodes, now) \in SUBSET NodeIds
      BY DEF Expired, Stored, TypeOK, NodeTable
    <3>2. now \in 0 .. now
      BY DEF TypeOK
    <3> QED BY <1>1, <2>1, <3>1, <3>2 DEF PruneExpired, Removal, TypeOK
  <2>2. CASE Consolidate(c)
    <3>1. PICK project \in Projects \cup {None}, type \in Types \cup {None}, f \in FactIds :
            /\ Cardinality(Matching(nodes, project, type)) >= 2
            /\ nodes[f] = None
            /\ nodes' = [nodes EXCEPT ![f] = FactOf(project)]
            /\ Hold(c, "drop", <<>>, Matching(nodes, project, type))
      BY <2>2 DEF Consolidate
    <3>2. Matching(nodes, project, type) \in SUBSET NodeIds
      BY DEF Matching, Stored, TypeOK, NodeTable
    <3>3. nodes' \in NodeTable
      BY <3>1, FactIsNode, TableUpdate DEF TypeOK, NodeIds
    <3>4. Removal(Matching(nodes, project, type), [nodes EXCEPT ![f] = FactOf(project)])
      BY <1>1, <3>1 DEF Removal
    <3> QED BY <3>1, <3>2, <3>3, <3>4
  <2> QED BY <2>1, <2>2
<1>3. mu' = c /\ status' = "open" /\ \A o \in Callers \ {c} : op'[o] = Idle
  BY <1>1, <1>2, AllIdle DEF Hold, TypeOK
<1>4. op'[c].stage = "drop" /\ op'[c].victims = doomed /\ op'[c].deleted = {}
  BY <1>2 DEF Hold, TypeOK, Idle
<1>5. view' = view
  BY <1>3, EnvironmentAssumption DEF See
<1>6. Dropping(c)'
  <2>1. Removal(doomed, fact)'
    BY <1>1, <1>2, <1>5, SameRemoval
  <2>2. nodes' = Graph!Without(fact, op'[c].deleted)
    BY <1>2, <1>4, NoneLess
  <2>3. edges' = Graph!Without(view'.edges, {})
    BY <1>1, <1>5, NoneLess DEF ViewInv
  <2> QED BY <1>2, <1>4, <2>1, <2>2, <2>3 DEF Dropping
<1> QED BY <1>3, <1>4, <1>6, SeenInside

LEMMA DropNodeSeen ==
  ASSUME TypeOK, LockInv, ViewInv, See, NEW c \in Callers, DropNode(c)
  PROVE  ViewInv'
<1>1. PICK n \in op[c].victims :
        /\ nodes' = [nodes EXCEPT ![n] = None]
        /\ op' = [op EXCEPT ![c].victims = @ \ {n}, ![c].deleted = @ \cup {n}]
        /\ op[c].stage = "drop"
        /\ UNCHANGED <<edges, status, mu, now>>
  BY DEF DropNode
<1>2. mu = c /\ status = "open" /\ view' = view
  BY <1>1, InsideHoldsLock, EnvironmentAssumption DEF See
<1>3. \A o \in Callers \ {c} : op'[o] = Idle
  BY <1>1, <1>2 DEF LockInv, TypeOK
<1>4. PICK doomed \in SUBSET NodeIds, fact \in NodeTable :
        /\ Removal(doomed, fact)
        /\ doomed = op[c].victims \cup op[c].deleted
        /\ nodes = Graph!Without(fact, op[c].deleted)
        /\ \E lost \in SUBSET Touching(view.edges, doomed) :
             /\ edges = Graph!Without(view.edges, lost)
             /\ op[c].victims # {} => lost = {}
  BY <1>1 DEF ViewInv, Dropping
<1>5. /\ op'[c].stage = "drop"
      /\ op'[c].victims = op[c].victims \ {n}
      /\ op'[c].deleted = op[c].deleted \cup {n}
  BY <1>1 DEF TypeOK, Op
<1>6. Dropping(c)'
  <2>1. Removal(doomed, fact)'
    BY <1>1, <1>2, <1>4, SameRemoval
  <2>2. nodes' = Graph!Without(fact, op'[c].deleted)
    <3>1. n \in DOMAIN fact
      BY <1>4 DEF NodeTable
    <3>2. [Graph!Without(fact, op[c].deleted) EXCEPT ![n] = None] =
            Graph!Without(fact, op[c].deleted \cup {n})
      BY <3>1, OneLess
    <3> QED BY <1>1, <1>4, <1>5, <3>2
  <2>3. edges' = Graph!Without(view'.edges, {})
    BY <1>1, <1>2, <1>4
  <2>4. doomed = op'[c].victims \cup op'[c].deleted
    BY <1>4, <1>5
  <2> QED BY <2>1, <2>2, <2>3, <2>4 DEF Dropping
<1> QED BY <1>1, <1>2, <1>3, <1>5, <1>6, SeenInside

LEMMA DropEdgeSeen ==
  ASSUME TypeOK, LockInv, ViewInv, See, NEW c \in Callers, DropEdge(c)
  PROVE  ViewInv'
<1>1. PICK e \in Touching(edges, op[c].deleted) :
        /\ edges' = [edges EXCEPT ![e] = None]
        /\ op[c].stage = "drop" /\ op[c].victims = {}
        /\ UNCHANGED <<nodes, status, mu, op, now>>
  BY DEF DropEdge, locks
<1>2. mu = c /\ status = "open" /\ view' = view
  BY <1>1, InsideHoldsLock, EnvironmentAssumption DEF See
<1>3. \A o \in Callers \ {c} : op'[o] = Idle
  BY <1>1, <1>2 DEF LockInv
<1>4. PICK doomed \in SUBSET NodeIds, fact \in NodeTable :
        /\ Removal(doomed, fact)
        /\ doomed = op[c].victims \cup op[c].deleted
        /\ nodes = Graph!Without(fact, op[c].deleted)
        /\ \E lost \in SUBSET Touching(view.edges, doomed) :
             edges = Graph!Without(view.edges, lost)
  BY <1>1 DEF ViewInv, Dropping
<1>5. PICK lost \in SUBSET Touching(view.edges, doomed) :
        edges = Graph!Without(view.edges, lost)
  BY <1>4
<1>6. e \in EdgeIds /\ e \in Touching(view.edges, doomed)
  <2>1. e \in EdgeIds /\ edges[e] # None
    BY DEF Touching, Stored, TypeOK, EdgeTable
  <2>2. edges[e] = view.edges[e]
    BY <1>5, <2>1 DEF Graph!Without, ViewInv, EdgeTable
  <2>3. op[c].deleted = doomed
    BY <1>1, <1>4
  <2> QED BY <2>1, <2>2, <2>3 DEF Touching, Stored, ViewInv, EdgeTable
<1>7. Dropping(c)'
  <2>1. Removal(doomed, fact)'
    BY <1>1, <1>2, <1>4, SameRemoval
  <2>2. edges' = Graph!Without(view'.edges, lost \cup {e})
    <3>1. e \in DOMAIN view.edges
      BY <1>6 DEF ViewInv, EdgeTable
    <3>2. [Graph!Without(view.edges, lost) EXCEPT ![e] = None] =
            Graph!Without(view.edges, lost \cup {e})
      BY <3>1, OneLess
    <3> QED BY <1>1, <1>2, <1>5, <3>2
  <2>3. lost \cup {e} \in SUBSET Touching(view'.edges, doomed)
    BY <1>2, <1>6
  <2>4. nodes' = Graph!Without(fact, op'[c].deleted) /\ op'[c].victims = {}
        /\ doomed = op'[c].victims \cup op'[c].deleted
    BY <1>1, <1>4
  <2> QED BY <2>1, <2>2, <2>3, <2>4 DEF Dropping
<1> QED BY <1>1, <1>2, <1>3, <1>7, SeenInside

\* The clock moves on under an operation: what had expired has expired.
LEMMA TickSeen ==
  ASSUME TypeOK, LockInv, ViewInv, TypeOK', See, Tick \/ LateEnds PROVE ViewInv'
<1> USE DEF locks, disk, doubt
<1>1. /\ UNCHANGED <<nodes, edges, status, mu, op>>
      /\ now' \in {now, now + 1} /\ now \in Nat
  BY DEF Tick, LateEnds, TypeOK
<1>2. CASE mu = None
  BY <1>1, <1>2, AllIdle, SeenOutside
<1>3. CASE mu # None
  <2> DEFINE c == mu
  <2>1. c \in Callers /\ op[c].stage \in {"saveEdges", "drop"} /\ status = "open"
    BY <1>3 DEF ViewInv, LockInv
  <2>2. \A o \in Callers \ {c} : op'[o] = Idle
    BY <1>1 DEF LockInv
  <2>3. view' = view
    BY <1>1, <1>3, <2>1 DEF See
  <2>4. ASSUME op[c].stage = "saveEdges" PROVE Saving(c)'
    BY <1>1, <2>1, <2>3, <2>4, SameView DEF ViewInv, Saving
  <2>5. ASSUME op[c].stage = "drop" PROVE Dropping(c)'
    <3>1. \A doomed, fact : Removal(doomed, fact) => Removal(doomed, fact)'
      <4>1. 0 .. now \subseteq 0 .. now'
        BY <1>1
      <4> QED BY <2>3, <4>1, SameRemoval
    <3> QED BY <1>1, <2>1, <2>3, <2>5, <3>1 DEF ViewInv, Dropping
  <2> QED BY <1>1, <2>1, <2>2, <2>4, <2>5, SeenInside
<1> QED BY <1>2, <1>3

\* The view only watches.
LEMMA ViewIsHistory == ViewSpec => Spec
<1>1. ViewInit => Init
  BY DEF ViewInit
<1>2. [Next /\ See]_<<vars, view>> => [Next]_vars
  OBVIOUS
<1> QED BY <1>1, <1>2, PTL DEF ViewSpec, Spec

\* What clients see, and what an operation has done behind their backs.
LEMMA ViewInvariant == ViewSpec => []ViewInv
<1>1. ViewInit => ViewInv
  <2> SUFFICES ASSUME ViewInit PROVE ViewInv
    OBVIOUS
  <2>1. view.nodes \in NodeTable /\ view.edges \in EdgeTable
    BY DEF ViewInit, Init, NoNodes, NoEdges, NodeTable, EdgeTable
  <2>2. Outside
    BY DEF ViewInit, Init, Outside
  <2>3. \A c \in Callers : op[c].stage = "idle"
    BY DEF ViewInit, Init, Idle
  <2> QED BY <2>1, <2>2, <2>3 DEF ViewInit, Init, ViewInv
<1>2. TypeOK /\ LockInv /\ ViewInv /\ TypeOK' /\ LockInv' /\ [Next /\ See]_<<vars, view>>
        => ViewInv'
  <2> SUFFICES ASSUME TypeOK, LockInv, ViewInv, TypeOK', LockInv',
                      [Next /\ See]_<<vars, view>>
               PROVE  ViewInv'
    OBVIOUS
  <2> USE DEF locks, disk, doubt
  <2>1. CASE UNCHANGED <<vars, view>>
    <3>1. UNCHANGED <<nodes, edges, disk, status, mu, op, now, view>>
      BY <2>1 DEF vars
    <3>2. \A c \in Callers : Saving(c) => Saving(c)'
      BY <3>1, SameView DEF Saving
    <3>3. \A c \in Callers : Dropping(c) => Dropping(c)'
      <4>1. \A doomed, fact : Removal(doomed, fact) => Removal(doomed, fact)'
        BY <3>1, SameRemoval
      <4> QED BY <3>1, <4>1 DEF Dropping
    <3>4. Outside'
      BY <3>1 DEF ViewInv, Outside
    <3> QED BY <3>1, <3>2, <3>3, <3>4 DEF ViewInv
  <2>2. CASE Next /\ See
    <3> USE <2>2
    <3>1. ASSUME NEW c \in Callers,
                 \/ RememberFails(c) \/ RememberEdge(c) \/ RememberEdgeFails(c)
                 \/ BeginRead(c) \/ EndRead(c) \/ Close(c)
          PROVE  ViewInv'
      <4>1. mu = None /\ UNCHANGED <<mu, op>>
        BY <3>1 DEF RememberFails, RememberEdge, RememberEdgeFails, BeginRead, EndRead,
                    Close, CanLock, LockInv
      <4> QED BY <4>1, AllIdle, SeenOutside
    <3>2. ASSUME NEW c \in Callers,
                 RejectEdge(c) \/ SaveEdgeFails(c) \/ RememberReturns(c) \/ DropReturns(c)
          PROVE  ViewInv'
      <4>1. mu' = None
        BY <3>2 DEF RejectEdge, SaveEdgeFails, RememberReturns, DropReturns, Return
      <4>2. \A o \in Callers : op'[o] = Idle
        BY <4>1, EnvironmentAssumption DEF LockInv
      <4> QED BY <4>1, <4>2, SeenOutside
    <3>3. CASE Crash
      BY <3>3, SeenOutside DEF Crash
    <3>4. CASE NewMemoryEngine
      <4>1. mu = None /\ UNCHANGED <<mu, op>>
        BY <3>4 DEF NewMemoryEngine, LockInv
      <4> QED BY <4>1, AllIdle, SeenOutside
    <3> QED
      BY <3>1, <3>2, <3>3, <3>4, RememberSeen, BatchSeen, RemovalSeen, DropNodeSeen,
         DropEdgeSeen, TickSeen DEF Next, Continue
  <2> QED BY <2>1, <2>2
<1> QED BY <1>1, <1>2, ViewIsHistory, TypeCorrect, LockDiscipline, PTL DEF ViewSpec

-----------------------------------------------------------------------------
(* Each step of the engine as a step of the graph.                         *)

\* Remember is seen when it returns, with all its edges or some.
LEMMA RememberIsPartly ==
  ASSUME ViewInv, NEW c \in Callers, op[c].stage = "saveEdges",
         view' = [nodes |-> nodes, edges |-> edges], UNCHANGED now
  PROVE  Graph!Next
<1>1. PICK n \in UserIds, v \in Contents, batch \in Batches : \E k \in 0 .. Len(batch) :
        /\ AttachableUpTo(batch, k)
        /\ nodes = [view.nodes EXCEPT ![n] = v]
        /\ edges = AttachedUpTo(batch, k)
  BY DEF ViewInv, Saving
<1>2. PICK k \in 0 .. Len(batch) :
        /\ AttachableUpTo(batch, k)
        /\ nodes = [view.nodes EXCEPT ![n] = v]
        /\ edges = AttachedUpTo(batch, k)
  BY <1>1
<1>3. Graph!Remember(n, v, SubSeq(batch, 1, k))
  <2>1. batch \in Seq(EdgeRequest)
    BY InputAssumption
  <2> QED BY <1>2, <2>1, AttachedPrefix DEF Graph!Remember
<1>4. Graph!RememberPartly(n, v, batch)
  BY <1>3 DEF Graph!RememberPartly
<1> QED BY <1>4 DEF Graph!Next

\* A removal is seen when it returns, with all the edges that touch its nodes.
LEMMA RemovalIsWhole ==
  ASSUME ViewInv, NEW c \in Callers, op[c].stage = "drop", op[c].victims = {},
         Touching(edges, op[c].deleted) = {},
         view' = [nodes |-> nodes, edges |-> edges], UNCHANGED now
  PROVE  Graph!Next
<1>1. PICK doomed \in SUBSET NodeIds, fact \in NodeTable :
        /\ Removal(doomed, fact)
        /\ doomed = op[c].deleted
        /\ nodes = Graph!Without(fact, doomed)
        /\ \E lost \in SUBSET Touching(view.edges, doomed) :
             edges = Graph!Without(view.edges, lost)
  BY DEF ViewInv, Dropping
<1>2. PICK lost \in SUBSET Touching(view.edges, doomed) :
        edges = Graph!Without(view.edges, lost)
  BY <1>1
<1>3. lost = Touching(view.edges, doomed)
  <2>1. ASSUME NEW e \in Touching(view.edges, doomed), e \notin lost PROVE FALSE
    <3>1. e \in DOMAIN view.edges
      BY DEF Touching, Stored
    <3>2. DOMAIN edges = DOMAIN view.edges /\ edges[e] = view.edges[e]
      BY <1>2, <2>1, <3>1 DEF Graph!Without
    <3>3. e \in Touching(edges, doomed)
      BY <3>1, <3>2 DEF Touching, Stored
    <3> QED BY <1>1, <3>3
  <2> QED BY <2>1
<1>4. view'.edges = Graph!Without(view.edges, Graph!Touching(view.edges, doomed))
  BY <1>2, <1>3, SameSets
<1>5. CASE fact = view.nodes /\ \E t \in 0 .. now : doomed = Expired(view.nodes, t)
  <2>1. PICK t \in 0 .. now : doomed = Graph!Expired(view.nodes, t)
    BY <1>5, SameSets
  <2>2. Graph!Prune(t)
    BY <1>1, <1>4, <1>5, <2>1 DEF Graph!Prune
  <2> QED BY <2>2 DEF Graph!Next
<1>6. CASE \E project \in Projects \cup {None}, type \in Types \cup {None}, f \in FactIds :
             /\ doomed = Matching(view.nodes, project, type)
             /\ Cardinality(doomed) >= 2
             /\ view.nodes[f] = None
             /\ fact = [view.nodes EXCEPT ![f] = FactOf(project)]
  <2>1. PICK project \in Projects \cup {None}, type \in Types \cup {None}, f \in FactIds :
          /\ doomed = Matching(view.nodes, project, type)
          /\ Cardinality(doomed) >= 2
          /\ view.nodes[f] = None
          /\ fact = [view.nodes EXCEPT ![f] = FactOf(project)]
    BY <1>6
  <2>2. f \notin doomed
    BY <2>1 DEF Matching, Stored
  <2>3. Graph!Without(fact, doomed) =
          [Graph!Without(view.nodes, doomed) EXCEPT ![f] = Graph!FactOf(project)]
    BY <2>1, <2>2, SameValues DEF Graph!Without
  <2>4. Graph!Consolidate(project, type, f)
    BY <1>1, <1>4, <2>1, <2>3, SameSets, SameSize DEF Graph!Consolidate
  <2> QED BY <2>4 DEF Graph!Next
<1> QED BY <1>1, <1>5, <1>6 DEF Removal

\* If the process ends first, some of it is done.
LEMMA RemovalIsCut ==
  ASSUME ViewInv, NEW c \in Callers, op[c].stage = "drop",
         view' = [nodes |-> nodes, edges |-> edges], UNCHANGED now
  PROVE  Graph!Interrupted
<1>1. PICK doomed \in SUBSET NodeIds, fact \in NodeTable :
        /\ Removal(doomed, fact)
        /\ doomed = op[c].victims \cup op[c].deleted
        /\ nodes = Graph!Without(fact, op[c].deleted)
        /\ \E lost \in SUBSET Touching(view.edges, doomed) :
             /\ edges = Graph!Without(view.edges, lost)
             /\ op[c].victims # {} => lost = {}
  BY DEF ViewInv, Dropping
<1>2. Graph!PartOf(doomed, fact)
  <2>1. CASE op[c].victims = {}
    <3>1. nodes = Graph!Without(fact, doomed)
      BY <1>1, <2>1
    <3> QED BY <1>1, <3>1, SameSets DEF Graph!PartOf
  <2>2. CASE op[c].victims # {}
    <3>1. edges = view.edges
      BY <1>1, <2>2, NoneLess DEF ViewInv
    <3>2. op[c].deleted \in SUBSET doomed
      BY <1>1
    <3> QED BY <1>1, <3>1, <3>2 DEF Graph!PartOf
  <2> QED BY <2>1, <2>2
<1>3. CASE fact = view.nodes /\ \E t \in 0 .. now : doomed = Expired(view.nodes, t)
  BY <1>2, <1>3, SameSets DEF Graph!PruneCut, Graph!Interrupted
<1>4. CASE \E project \in Projects \cup {None}, type \in Types \cup {None}, f \in FactIds :
             /\ doomed = Matching(view.nodes, project, type)
             /\ Cardinality(doomed) >= 2
             /\ view.nodes[f] = None
             /\ fact = [view.nodes EXCEPT ![f] = FactOf(project)]
  <2>1. PICK project \in Projects \cup {None}, type \in Types \cup {None}, f \in FactIds :
          /\ doomed = Matching(view.nodes, project, type)
          /\ Cardinality(doomed) >= 2
          /\ view.nodes[f] = None
          /\ fact = [view.nodes EXCEPT ![f] = FactOf(project)]
    BY <1>4
  <2>2. Graph!ConsolidateCut(project, type, f)
    BY <1>2, <2>1, SameSets, SameSize, SameValues DEF Graph!ConsolidateCut
  <2> QED BY <2>2 DEF Graph!Interrupted
<1> QED BY <1>1, <1>3, <1>4 DEF Removal

\* A step of a live engine is a step of the graph, or is not seen.
LEMMA LiveStep ==
  ASSUME TypeOK, LockInv, ViewInv, Next, See, ~Crash, ~NewMemoryEngine,
         status # "down" \/ ~LateEnds
  PROVE  Graph!Next \/ UNCHANGED Graph!gvars
<1> USE DEF locks, disk, doubt, Graph!gvars
<1> DEFINE maps == [nodes |-> nodes, edges |-> edges]
<1>1. ASSUME NEW c \in Callers, Remember(c) \/ PruneExpired(c) \/ Consolidate(c)
      PROVE  UNCHANGED Graph!gvars
  <2>1. status' = "open" /\ mu' = c /\ now' = now
    BY <1>1 DEF Remember, PruneExpired, Consolidate, CanLock, Hold
  <2> QED BY <2>1, EnvironmentAssumption DEF See
<1>2. ASSUME NEW c \in Callers,
             SkipEdge(c) \/ SaveEdge(c) \/ DropNode(c) \/ DropEdge(c)
      PROVE  UNCHANGED Graph!gvars
  <2>1. Continue(c) /\ mu' = mu /\ now' = now
    BY <1>2 DEF SkipEdge, SaveEdge, DropNode, DropEdge, Continue
  <2>2. status' = "open" /\ mu' = c
    BY <2>1, ContinueLock
  <2> QED BY <2>1, <2>2, EnvironmentAssumption DEF See
<1>3. ASSUME NEW c \in Callers,
             \/ RememberFails(c) \/ RememberEdgeFails(c)
             \/ BeginRead(c) \/ EndRead(c) \/ Close(c)
      PROVE  UNCHANGED Graph!gvars
  <2>1. mu = None /\ mu' = None /\ UNCHANGED <<nodes, edges, now>>
    BY <1>3 DEF RememberFails, RememberEdgeFails, BeginRead, EndRead, Close, CanLock, LockInv
  <2>2. \/ status # "down" /\ status' # "down"
        \/ status = "down" /\ status' = "down" /\ UNCHANGED disk
    BY <1>3 DEF RememberFails, RememberEdgeFails, BeginRead, EndRead, Close, CanLock
  <2>3. view' = view
    BY <2>1, <2>2 DEF See, ViewInv, Outside
  <2> QED BY <2>1, <2>3
<1>4. ASSUME NEW c \in Callers, RememberEdge(c) PROVE Graph!Next
  <2>1. PICK e \in EdgeIds, x \in Ends :
          edges' = [edges EXCEPT ![e] = x] /\ UNCHANGED <<nodes, now>>
    BY <1>4 DEF RememberEdge
  <2>2. view = maps /\ view' = [nodes |-> nodes', edges |-> edges']
    BY <1>4 DEF RememberEdge, CanLock, ViewInv, Outside, See
  <2>3. Graph!RememberEdge(e, x)
    BY <2>1, <2>2 DEF Graph!RememberEdge
  <2> QED BY <2>3 DEF Graph!Next
<1>5. ASSUME NEW c \in Callers, RejectEdge(c) \/ SaveEdgeFails(c) \/ RememberReturns(c)
      PROVE  Graph!Next
  <2>1. /\ op[c].stage = "saveEdges" /\ Continue(c)
        /\ mu' = None /\ UNCHANGED <<nodes, edges, now>>
    BY <1>5 DEF RejectEdge, SaveEdgeFails, RememberReturns, MoreEdges, Return, Continue
  <2>2. view' = maps
    BY <2>1, ContinueLock DEF See
  <2> QED BY <2>1, <2>2, RememberIsPartly
<1>6. ASSUME NEW c \in Callers, DropReturns(c) PROVE Graph!Next
  <2>1. /\ op[c].stage = "drop" /\ op[c].victims = {} /\ Continue(c)
        /\ Touching(edges, op[c].deleted) = {}
        /\ mu' = None /\ UNCHANGED <<nodes, edges, now>>
    BY <1>6 DEF DropReturns, Return, Continue
  <2>2. view' = maps
    BY <2>1, ContinueLock DEF See
  <2> QED BY <2>1, <2>2, RemovalIsWhole
<1>7. CASE Tick
  <2>1. view' = view
    BY <1>7 DEF Tick, See, ViewInv, Outside
  <2>2. Graph!Tick
    BY <1>7, <2>1 DEF Tick, Graph!Tick
  <2> QED BY <2>2 DEF Graph!Next
<1>8. CASE LateEnds
  <2>1. UNCHANGED <<nodes, edges, mu, status, now>>
    BY <1>8 DEF LateEnds
  <2>2. view' = view
    BY <1>8, <2>1 DEF See, ViewInv, Outside
  <2> QED BY <2>1, <2>2
<1> QED BY <1>1, <1>2, <1>3, <1>4, <1>5, <1>6, <1>7, <1>8 DEF Next, Continue

\* Without store faults, reopening is not seen, and the end of the process
\* completes a Remember or cuts a removal short.
LEMMA ReopenStep ==
  ASSUME LockInv, ViewInv, CacheIsDisk, NewMemoryEngine, See
  PROVE  UNCHANGED Graph!gvars
<1>1. /\ mu' = None /\ status' = "open" /\ now' = now
      /\ nodes' = diskNodes /\ edges' = diskEdges
  BY DEF NewMemoryEngine, locks, LockInv
<1>2. view' = [nodes |-> diskNodes, edges |-> diskEdges]
  BY <1>1 DEF See
<1>3. view = [nodes |-> diskNodes, edges |-> diskEdges]
  BY DEF NewMemoryEngine, LockInv, ViewInv, Outside, CacheIsDisk
<1> QED BY <1>1, <1>2, <1>3 DEF Graph!gvars

LEMMA CrashStep ==
  ASSUME LockInv, ViewInv, CacheIsDisk, Crash, See
  PROVE  Graph!Next \/ Graph!Interrupted \/ UNCHANGED Graph!gvars
<1>1. /\ view' = [nodes |-> nodes, edges |-> edges]
      /\ status # "down" /\ UNCHANGED now
  BY DEF Crash, See, CacheIsDisk, disk
<1>2. CASE mu = None
  BY <1>1, <1>2 DEF ViewInv, Outside, Graph!gvars
<1>3. CASE mu # None
  <2>1. mu \in Callers /\ op[mu].stage \in {"saveEdges", "drop"}
    BY <1>3 DEF ViewInv
  <2> QED BY <1>1, <2>1, RememberIsPartly, RemovalIsCut
<1> QED BY <1>2, <1>3

LEMMA ViewStart == ViewInit => Graph!Init
BY DEF ViewInit, Init, Graph!Init, NoNodes, NoEdges, Graph!NoNodes, Graph!NoEdges,
       NodeIds, Graph!NodeIds

\* Whatever store calls fail, as long as the process lives every operation is
\* one step of the graph that clients share.
THEOREM EngineIsAGraph ==
  ASSUME Stops = {} PROVE ViewSpec => RefinesGraph
<1>1. Init => status = "open"
  BY DEF Init
<1>2. status = "open" => ~Crash /\ ~NewMemoryEngine /\ \A c \in Callers : ~Close(c)
  BY DEF Crash, NewMemoryEngine, Close
<1>3. status = "open" /\ [Next]_vars => (status = "open")'
  BY <1>2 DEF Next, Continue, vars, Remember, RememberFails, RememberEdge,
     RememberEdgeFails, PruneExpired, Consolidate, BeginRead, EndRead, Tick, LateEnds, SkipEdge,
     SaveEdge, RejectEdge, SaveEdgeFails, RememberReturns, DropNode, DropEdge, DropReturns
<1>4. TypeOK /\ LockInv /\ ViewInv /\ status = "open" /\ [Next /\ See]_<<vars, view>>
        => [Graph!Next]_(Graph!gvars)
  <2> SUFFICES ASSUME TypeOK, LockInv, ViewInv, status = "open",
                      [Next /\ See]_<<vars, view>>
               PROVE  [Graph!Next]_(Graph!gvars)
    OBVIOUS
  <2>1. CASE Next /\ See
    BY <1>2, <2>1, LiveStep
  <2>2. CASE UNCHANGED <<vars, view>>
    BY <2>2 DEF vars, Graph!gvars
  <2> QED BY <2>1, <2>2
<1> QED
  BY <1>1, <1>3, <1>4, ViewStart, ViewInvariant, ViewIsHistory, TypeCorrect,
     LockDiscipline, PTL DEF ViewSpec, Spec, RefinesGraph, Graph!Spec

\* As long as no store call fails, the same is true of an engine that is closed
\* and opened again at will; and if the process can end anywhere, all that can
\* be seen of it is a removal cut short.
THEOREM EngineIsAGraphUpToCrash ==
  ASSUME Faults = {} PROVE ViewSpec => RefinesGraphUpToCrash
<1>1. TypeOK /\ LockInv /\ ViewInv /\ NoDoubt /\ CacheIsDisk /\ [Next /\ See]_<<vars, view>>
        => [Graph!Next \/ Graph!Interrupted]_(Graph!gvars)
  <2> SUFFICES ASSUME TypeOK, LockInv, ViewInv, NoDoubt, CacheIsDisk,
                      [Next /\ See]_<<vars, view>>
               PROVE  [Graph!Next \/ Graph!Interrupted]_(Graph!gvars)
    OBVIOUS
  <2>1. CASE Next /\ See
    <3>1. ~LateEnds
      BY DEF LateEnds, NoDoubt
    <3> QED BY <2>1, <3>1, LiveStep, ReopenStep, CrashStep
  <2>2. CASE UNCHANGED <<vars, view>>
    BY <2>2 DEF vars, Graph!gvars
  <2> QED BY <2>1, <2>2
<1>2. Spec => []NoDoubt
  BY NothingInDoubt
<1> QED
  BY <1>1, <1>2, ViewStart, ViewInvariant, ViewIsHistory, TypeCorrect, LockDiscipline,
     CacheMatchesStore, PTL DEF ViewSpec, RefinesGraphUpToCrash, Graph!CrashSpec

\* An engine that is closed and opened again at will, and whose store calls all
\* succeed, is the graph to its clients: closing and reopening is not seen.
THEOREM EngineIsAGraphOverReopening ==
  ASSUME Faults = {}, "crash" \notin Stops PROVE ViewSpec => RefinesGraph
<1>1. TypeOK /\ LockInv /\ ViewInv /\ NoDoubt /\ CacheIsDisk /\ [Next /\ See]_<<vars, view>>
        => [Graph!Next]_(Graph!gvars)
  <2> SUFFICES ASSUME TypeOK, LockInv, ViewInv, NoDoubt, CacheIsDisk,
                      [Next /\ See]_<<vars, view>>
               PROVE  [Graph!Next]_(Graph!gvars)
    OBVIOUS
  <2>1. CASE Next /\ See
    <3>1. ~Crash /\ ~LateEnds
      BY DEF Crash, LateEnds, NoDoubt
    <3> QED BY <2>1, <3>1, LiveStep, ReopenStep
  <2>2. CASE UNCHANGED <<vars, view>>
    BY <2>2 DEF vars, Graph!gvars
  <2> QED BY <2>1, <2>2
<1>2. Spec => []NoDoubt
  BY NothingInDoubt
<1> QED
  BY <1>1, <1>2, ViewStart, ViewInvariant, ViewIsHistory, TypeCorrect, LockDiscipline,
     CacheMatchesStore, PTL DEF ViewSpec, RefinesGraph, Graph!Spec

-----------------------------------------------------------------------------
(* Edges and their ends.                                                   *)

\* What an edge that stays needs of its ends: neither is taken out.
LEMMA EndsRemain ==
  ASSUME NEW e \in EdgeIds, Attached(e, view), view'.edges[e] = view.edges[e],
         \A n \in {view.edges[e].source, view.edges[e].target} : view'.nodes[n] # None
  PROVE  Attached(e, view')
BY DEF Attached

\* Nodes taken out together with the edges that touch them leave every edge
\* that stays its ends.
LEMMA WithoutKeepsEnds ==
  ASSUME ViewInv, NEW e \in EdgeIds, Attached(e, view),
         view'.edges[e] = view.edges[e], NEW doomed,
         view'.edges = Graph!Without(view.edges, Touching(view.edges, doomed))
  PROVE  view.edges[e].source \notin doomed /\ view.edges[e].target \notin doomed
<1>1. DOMAIN view.edges = EdgeIds
  BY DEF ViewInv, EdgeTable
<1>2. view'.edges[e] # None
  BY DEF Attached
<1>3. e \notin Touching(view.edges, doomed)
  BY <1>1, <1>2 DEF Graph!Without
<1> QED BY <1>1, <1>3 DEF Touching, Stored, Attached

\* No operation of the graph takes a node from under an edge that stays.
LEMMA GraphKeepsEnds ==
  ASSUME ViewInv, Graph!Next \/ UNCHANGED Graph!gvars, NEW e \in EdgeIds,
         Attached(e, view), view'.edges[e] = view.edges[e]
  PROVE  Attached(e, view')
<1> DEFINE ends == {view.edges[e].source, view.edges[e].target}
<1>1. /\ view.nodes \in NodeTable /\ view.edges \in EdgeTable
      /\ ends \subseteq NodeIds /\ \A n \in ends : view.nodes[n] # None
  <2>1. view.nodes \in NodeTable /\ view.edges \in EdgeTable
    BY DEF ViewInv
  <2>2. view.edges[e] \in Edge
    BY <2>1 DEF EdgeTable, Attached
  <2> QED BY <2>1, <2>2 DEF Edge, Attached
<1>2. None \notin Node /\ Contents \subseteq Node
  BY IdAssumption, InputAssumption
<1>3. ASSUME NEW n \in UserIds, NEW v \in Contents, view'.nodes = [view.nodes EXCEPT ![n] = v]
      PROVE  \A m \in ends : view'.nodes[m] # None
  BY <1>1, <1>2, <1>3 DEF NodeTable
<1>4. CASE \E n \in UserIds, v \in Contents, batch \in Batches :
             Graph!RememberPartly(n, v, batch)
  BY <1>3, <1>4, EndsRemain DEF Graph!RememberPartly, Graph!Remember
<1>5. CASE \E d \in EdgeIds, x \in Ends : Graph!RememberEdge(d, x)
  BY <1>1, <1>5, EndsRemain DEF Graph!RememberEdge
<1>6. ASSUME NEW t, Graph!Prune(t) PROVE Attached(e, view')
  <2>1. /\ view'.nodes = Graph!Without(view.nodes, Expired(view.nodes, t))
        /\ view'.edges = Graph!Without(view.edges,
                            Touching(view.edges, Expired(view.nodes, t)))
    BY <1>6, SameSets DEF Graph!Prune
  <2>2. \A n \in ends : n \notin Expired(view.nodes, t)
    BY <2>1, WithoutKeepsEnds
  <2>3. \A n \in ends : view'.nodes[n] = view.nodes[n]
    BY <1>1, <2>1, <2>2 DEF Graph!Without, NodeTable
  <2> QED BY <1>1, <2>3, EndsRemain
<1>7. ASSUME NEW project \in Projects \cup {None}, NEW type, NEW f \in FactIds,
             Graph!Consolidate(project, type, f)
      PROVE  Attached(e, view')
  <2> DEFINE merged == Matching(view.nodes, project, type)
  <2>1. /\ view'.nodes = [Graph!Without(view.nodes, merged) EXCEPT ![f] = FactOf(project)]
        /\ view'.edges = Graph!Without(view.edges, Touching(view.edges, merged))
    BY <1>7, SameSets, SameValues DEF Graph!Consolidate
  <2>2. \A n \in ends : n \notin merged
    BY <2>1, WithoutKeepsEnds
  <2>3. FactOf(project) # None
    BY <1>2 DEF FactOf, Node, ConsolidatedFact
  <2>4. \A n \in ends : view'.nodes[n] # None
    BY <1>1, <2>1, <2>2, <2>3 DEF Graph!Without, NodeTable
  <2> QED BY <2>4, EndsRemain
<1>8. CASE Graph!Tick \/ UNCHANGED Graph!gvars
  BY <1>1, <1>8, EndsRemain DEF Graph!Tick, Graph!gvars
<1> QED BY <1>4, <1>5, <1>6, <1>7, <1>8 DEF Graph!Next

\* Only a crash takes a node from under its edges: as long as the process does
\* not end in the middle of an operation, whatever store calls fail in one that
\* is never closed, and in one that is closed and reopened as long as none
\* fails, an edge that had both its ends and stays has both its ends.
THEOREM NodesGoWithTheirEdges ==
  ASSUME Stops = {} \/ (Faults = {} /\ "crash" \notin Stops)
  PROVE  ViewSpec => NoEdgeIsOrphaned
<1>1. ViewSpec => RefinesGraph
  BY EngineIsAGraph, EngineIsAGraphOverReopening
<1>2. ViewInv /\ [Graph!Next]_(Graph!gvars)
        => [\A e \in EdgeIds :
              Attached(e, view) /\ view'.edges[e] = view.edges[e] => Attached(e, view')]_view
  BY GraphKeepsEnds
<1> QED
  BY <1>1, <1>2, ViewInvariant, PTL DEF RefinesGraph, Graph!Spec, NoEdgeIsOrphaned
=============================================================================
