-------------------------- MODULE SharedStore_proofs --------------------------
(***************************************************************************)
(* Theorems about SharedStore: for any number of engines, starting and     *)
(* stopping anywhere, a copy differs from the database only where others   *)
(* wrote, no memory without a deadline is lost, and only what others wrote *)
(* is removed that should not be.                                          *)
(***************************************************************************)
EXTENDS SharedStore, TLAPS

USE IdAssumption, InputAssumption, SharedAssumption

-----------------------------------------------------------------------------
(* Types.                                                                  *)

LEMMA IdleType == Idle \in Op
<1>1. <<>> \in Seq(EdgeRequest)
  OBVIOUS
<1> QED BY <1>1 DEF Idle, Op

LEMMA FactIsNode == \A project \in Projects \cup {None} : FactOf(project) \in Node
BY DEF FactOf, Node

LEMMA ForeignType ==
  ASSUME TypeOK, NEW p \in Engines, NEW key \in NodeIds \cup EdgeIds
  PROVE  /\ Foreign(p, key) \in [Engines -> SUBSET (NodeIds \cup EdgeIds)]
         /\ \A q \in Engines : foreign[q] \subseteq Foreign(p, key)[q]
         /\ \A q \in Engines : q # p /\ status[q] # "down" => key \in Foreign(p, key)[q]
BY DEF TypeOK, Foreign

\* The tables, the maps and what is known about them, as the statements leave
\* them.
Tables ==
  /\ diskNodes \in NodeTable /\ diskEdges \in EdgeTable
  /\ nodes \in [Engines -> NodeTable] /\ edges \in [Engines -> EdgeTable]
  /\ foreign \in [Engines -> SUBSET (NodeIds \cup EdgeIds)]

LEMMA PutNodeType ==
  ASSUME TypeOK, NEW p \in Engines, NEW n \in NodeIds, NEW v \in Node \cup {None},
         PutNode(p, n, v)
  PROVE  /\ Tables'
         /\ \A m \in NodeIds : diskNodes'[m] = IF m = n THEN v ELSE diskNodes[m]
         /\ \A q \in Engines, m \in NodeIds :
              nodes'[q][m] = IF q = p /\ m = n THEN v ELSE nodes[q][m]
<1>1. foreign' \in [Engines -> SUBSET (NodeIds \cup EdgeIds)]
  BY ForeignType DEF PutNode
<1>2. diskNodes' \in NodeTable /\ \A m \in NodeIds : diskNodes'[m] = IF m = n THEN v ELSE diskNodes[m]
  BY DEF PutNode, TypeOK, NodeTable
<1>3. nodes[p] \in NodeTable
  BY DEF TypeOK
<1>4. nodes' = [nodes EXCEPT ![p] = [nodes[p] EXCEPT ![n] = v]]
  BY DEF PutNode
<1>5. [nodes[p] EXCEPT ![n] = v] \in NodeTable
  BY <1>3 DEF NodeTable
<1>6. nodes' \in [Engines -> NodeTable]
  BY <1>4, <1>5 DEF TypeOK
<1>7. \A q \in Engines, m \in NodeIds :
        nodes'[q][m] = IF q = p /\ m = n THEN v ELSE nodes[q][m]
  BY <1>3, <1>4 DEF TypeOK, NodeTable
<1> QED BY <1>1, <1>2, <1>6, <1>7 DEF PutNode, TypeOK, Tables

LEMMA PutEdgeType ==
  ASSUME TypeOK, NEW p \in Engines, NEW e \in EdgeIds, NEW x \in Edge \cup {None},
         PutEdge(p, e, x)
  PROVE  /\ Tables'
         /\ \A g \in EdgeIds : diskEdges'[g] = IF g = e THEN x ELSE diskEdges[g]
         /\ \A q \in Engines, g \in EdgeIds :
              edges'[q][g] = IF q = p /\ g = e THEN x ELSE edges[q][g]
<1>1. foreign' \in [Engines -> SUBSET (NodeIds \cup EdgeIds)]
  BY ForeignType DEF PutEdge
<1>2. diskEdges' \in EdgeTable /\ \A g \in EdgeIds : diskEdges'[g] = IF g = e THEN x ELSE diskEdges[g]
  BY DEF PutEdge, TypeOK, EdgeTable
<1>3. edges[p] \in EdgeTable
  BY DEF TypeOK
<1>4. edges' = [edges EXCEPT ![p] = [edges[p] EXCEPT ![e] = x]]
  BY DEF PutEdge
<1>5. [edges[p] EXCEPT ![e] = x] \in EdgeTable
  BY <1>3 DEF EdgeTable
<1>6. edges' \in [Engines -> EdgeTable]
  BY <1>4, <1>5 DEF TypeOK
<1>7. \A q \in Engines, g \in EdgeIds :
        edges'[q][g] = IF q = p /\ g = e THEN x ELSE edges[q][g]
  BY <1>3, <1>4 DEF TypeOK, EdgeTable
<1> QED BY <1>1, <1>2, <1>6, <1>7 DEF PutEdge, TypeOK, Tables

LEMMA NextEdgeType ==
  ASSUME TypeOK, NEW p \in Engines, MoreEdges(p)
  PROVE  /\ [op EXCEPT ![p].batch = Tail(@)] \in [Engines -> Op]
         /\ NextEdge(p).id # None /\ ~Blank(NextEdge(p)) =>
              NextEdge(p).id \in EdgeIds /\ EdgeOf(NextEdge(p)) \in Edge
<1>1. op[p] \in Op /\ op[p].batch \in Seq(EdgeRequest) /\ op[p].batch # <<>>
  BY DEF TypeOK, MoreEdges, Op
<1>2. NextEdge(p) \in EdgeRequest /\ Tail(op[p].batch) \in Seq(EdgeRequest)
  BY <1>1 DEF NextEdge
<1>3. [op EXCEPT ![p].batch = Tail(@)] \in [Engines -> Op]
  BY <1>1, <1>2 DEF TypeOK, Op
<1>4. ASSUME NextEdge(p).id # None, ~Blank(NextEdge(p))
      PROVE  NextEdge(p).id \in EdgeIds /\ EdgeOf(NextEdge(p)) \in Edge
  BY <1>2, <1>4 DEF Blank, EdgeOf, Edge, EdgeRequest
<1> QED BY <1>3, <1>4

LEMMA HoldType ==
  ASSUME TypeOK, NEW p \in Engines, NEW stage \in {"saveEdges", "drop"},
         NEW batch \in Seq(EdgeRequest), NEW victims \in SUBSET NodeIds,
         Hold(p, stage, batch, victims)
  PROVE  op' \in [Engines -> Op]
<1>1. [Idle EXCEPT !.stage = stage, !.batch = batch, !.victims = victims] \in Op
  BY IdleType DEF Op
<1> QED BY <1>1 DEF Hold, TypeOK

-----------------------------------------------------------------------------
(* What a step does to the tables, the maps, the history and the engines'  *)
(* operations: a theorem for each of the kinds of steps.                   *)

StoresNode(p, n, v) ==
  /\ PutNode(p, n, v)
  /\ status' = status /\ now' = now

StoresEdge(p) == \E e \in EdgeIds, x \in Edge \cup {None} :
  /\ PutEdge(p, e, x)
  /\ status' = status /\ now' = now /\ written' = written

Quiet == UNCHANGED <<disk, maps, status, foreign, written, now>>

LEMMA RememberType ==
  ASSUME TypeOK, NEW p \in Engines, Remember(p)
  PROVE  \E n \in UserIds, v \in Contents :
           /\ StoresNode(p, n, v) /\ v \in Node /\ n \in NodeIds
           /\ op' \in [Engines -> Op] /\ op'[p].victims = {}
           /\ \A q \in Engines \ {p} : op'[q] = op[q]
           /\ written' = [written EXCEPT ![n] = @ \cup {v}]
<1>1. PICK n \in UserIds, v \in Contents, batch \in Batches :
        /\ PutNode(p, n, v) /\ Hold(p, "saveEdges", batch, {})
        /\ written' = [written EXCEPT ![n] = @ \cup {v}]
        /\ status' = status /\ now' = now
  BY DEF Remember
<1>2. op' \in [Engines -> Op]
  BY <1>1, HoldType
<1>3. op'[p].victims = {} /\ \A q \in Engines \ {p} : op'[q] = op[q]
  BY <1>1 DEF Hold, TypeOK, Idle
<1> QED BY <1>1, <1>2, <1>3 DEF StoresNode, NodeIds

LEMMA ConsolidateType ==
  ASSUME TypeOK, NEW p \in Engines, Consolidate(p)
  PROVE  \E project \in Projects \cup {None}, type \in Types \cup {None}, f \in FactIds :
           /\ StoresNode(p, f, FactOf(project)) /\ f \in NodeIds /\ Unused(f)
           /\ written' = written
           /\ op' \in [Engines -> Op]
           /\ op'[p].victims = Matching(nodes[p], project, type)
           /\ \A q \in Engines \ {p} : op'[q] = op[q]
<1>1. PICK project \in Projects \cup {None}, type \in Types \cup {None}, f \in FactIds :
        /\ PutNode(p, f, FactOf(project)) /\ Unused(f)
        /\ Hold(p, "drop", <<>>, Matching(nodes[p], project, type))
        /\ status' = status /\ now' = now /\ written' = written
  BY DEF Consolidate, bounds
<1>2. Matching(nodes[p], project, type) \in SUBSET NodeIds /\ <<>> \in Seq(EdgeRequest)
  BY DEF Matching, Stored, TypeOK, NodeTable
<1>3. op' \in [Engines -> Op]
  BY <1>1, <1>2, HoldType
<1>4. op'[p].victims = Matching(nodes[p], project, type)
      /\ \A q \in Engines \ {p} : op'[q] = op[q]
  BY <1>1 DEF Hold, TypeOK, Idle
<1> QED BY <1>1, <1>3, <1>4 DEF StoresNode, NodeIds

LEMMA PruneType ==
  ASSUME TypeOK, NEW p \in Engines, PruneExpired(p)
  PROVE  /\ Quiet
         /\ op' \in [Engines -> Op]
         /\ op'[p].victims = Expired(nodes[p], now)
         /\ \A q \in Engines \ {p} : op'[q] = op[q]
<1>1. Hold(p, "drop", <<>>, Expired(nodes[p], now)) /\ Quiet
  BY DEF PruneExpired, Quiet, bounds, history
<1>2. Expired(nodes[p], now) \in SUBSET NodeIds /\ <<>> \in Seq(EdgeRequest)
  BY DEF Expired, Stored, TypeOK, NodeTable
<1>3. op' \in [Engines -> Op]
  BY <1>1, <1>2, HoldType
<1>4. op'[p].victims = Expired(nodes[p], now) /\ \A q \in Engines \ {p} : op'[q] = op[q]
  BY <1>1 DEF Hold, TypeOK, Idle
<1> QED BY <1>1, <1>3, <1>4

LEMMA DropNodeType ==
  ASSUME TypeOK, NEW p \in Engines, DropNode(p)
  PROVE  \E n \in op[p].victims :
           /\ StoresNode(p, n, None) /\ n \in NodeIds
           /\ written' = written
           /\ op' \in [Engines -> Op]
           /\ \A q \in Engines : op'[q].victims \subseteq op[q].victims
<1>1. PICK n \in op[p].victims :
        /\ PutNode(p, n, None)
        /\ op' = [op EXCEPT ![p].victims = @ \ {n}, ![p].deleted = @ \cup {n}]
        /\ status' = status /\ now' = now /\ written' = written
  BY DEF DropNode, bounds
<1>2. op[p] \in Op /\ n \in NodeIds
  BY DEF TypeOK, Op
<1>3. op' \in [Engines -> Op]
  BY <1>1, <1>2 DEF TypeOK, Op
<1>4. \A q \in Engines : op'[q].victims \subseteq op[q].victims
  BY <1>1, <1>2 DEF TypeOK, Op
<1> QED BY <1>1, <1>2, <1>3, <1>4 DEF StoresNode

\* The steps that store no node and give no engine a node to delete.
OtherStep(p) ==
  /\ LoadNodes(p) \/ LoadEdges(p) \/ Stop(p) \/ StoresEdge(p) \/ Quiet
  /\ written' = written /\ now' = now
  /\ op' \in [Engines -> Op]
  /\ \A q \in Engines : op'[q].victims \subseteq op[q].victims

LEMMA OtherSteps ==
  ASSUME TypeOK, NEW p \in Engines,
         \/ LoadNodes(p) \/ LoadEdges(p) \/ Stop(p)
         \/ SkipEdge(p) \/ SaveEdge(p) \/ RejectEdge(p) \/ RememberReturns(p)
         \/ RememberEdge(p) \/ DropEdge(p) \/ DropReturns(p)
  PROVE  OtherStep(p)
<1> USE DEF bounds, history
<1>0. op[p] \in Op /\ op \in [Engines -> Op] /\ Idle \in Op /\ Idle.victims = {}
  BY IdleType DEF TypeOK, Idle
<1>1. CASE LoadNodes(p) BY <1>0, <1>1 DEF LoadNodes, OtherStep
<1>2. CASE LoadEdges(p) BY <1>0, <1>2 DEF LoadEdges, OtherStep
<1>3. CASE Stop(p) BY <1>0, <1>3 DEF Stop, OtherStep
<1>4. CASE SkipEdge(p)
  BY <1>0, <1>4, NextEdgeType DEF SkipEdge, OtherStep, Quiet, Op
<1>5. CASE SaveEdge(p)
  <2>1. StoresEdge(p)
    BY <1>5, NextEdgeType DEF SaveEdge, StoresEdge
  <2> QED BY <1>0, <1>5, <2>1, NextEdgeType DEF SaveEdge, OtherStep, Op
<1>6. ASSUME Return(p) PROVE OtherStep(p)
  BY <1>0, <1>6 DEF Return, OtherStep, Quiet
<1>7. CASE RememberEdge(p)
  <2>1. StoresEdge(p)
    BY <1>7 DEF RememberEdge, StoresEdge
  <2> QED BY <1>0, <1>7, <2>1 DEF RememberEdge, OtherStep
<1>8. CASE DropEdge(p)
  <2>1. Touching(edges[p], op[p].deleted) \subseteq EdgeIds
    BY DEF Touching, Stored, TypeOK, EdgeTable
  <2>2. StoresEdge(p)
    BY <1>8, <2>1 DEF DropEdge, StoresEdge
  <2> QED BY <1>0, <1>8, <2>2 DEF DropEdge, OtherStep
<1> QED BY <1>1, <1>2, <1>3, <1>4, <1>5, <1>6, <1>7, <1>8 DEF RejectEdge, RememberReturns, DropReturns

LEMMA StepCases ==
  ASSUME TypeOK, NEW p \in Engines, Step(p)
  PROVE  OtherStep(p) \/ Remember(p) \/ Consolidate(p) \/ PruneExpired(p) \/ DropNode(p)
BY OtherSteps DEF Step

\* The tables, the maps and the operations keep their types.
THEOREM TypeCorrect == Spec => []TypeOK
<1>1. Init => TypeOK
  BY IdleType DEF Init, TypeOK, NodeTable, EdgeTable, NoNodes, NoEdges
<1>2. TypeOK /\ [Next]_vars => TypeOK'
  <2> SUFFICES ASSUME TypeOK, [Next]_vars PROVE TypeOK'
    OBVIOUS
  <2> USE DEF disk, maps, history, bounds
  <2>1. ASSUME NEW p \in Engines, Step(p) PROVE calls' \in Nat
    <3>1. Called => calls' \in Nat
      BY DEF Called, TypeOK
    <3>2. Called \/ calls' = calls
      BY <2>1 DEF Step, LoadNodes, LoadEdges, Stop, Remember, SkipEdge, SaveEdge, RejectEdge,
          RememberReturns, RememberEdge, PruneExpired, Consolidate, DropNode, DropEdge,
          DropReturns, Return
    <3> QED BY <3>1, <3>2 DEF TypeOK
  <2>2. ASSUME NEW p \in Engines, OtherStep(p)
        PROVE  /\ Tables' /\ status' \in [Engines -> {"down", "loading", "open"}]
               /\ now' \in Nat /\ op' \in [Engines -> Op]
               /\ written' \in [UserIds -> SUBSET Contents]
    <3> SUFFICES Tables' /\ status' \in [Engines -> {"down", "loading", "open"}]
      BY <2>2 DEF OtherStep, TypeOK
    <3>1. CASE LoadNodes(p) BY <3>1 DEF LoadNodes, TypeOK, Tables
    <3>2. CASE LoadEdges(p) BY <3>2 DEF LoadEdges, TypeOK, Tables
    <3>3. CASE Stop(p)
      <4>1. NoNodes \in NodeTable /\ NoEdges \in EdgeTable
        BY DEF NoNodes, NoEdges, NodeTable, EdgeTable
      <4> QED BY <3>3, <4>1 DEF Stop, TypeOK, Tables
    <3>4. CASE StoresEdge(p)
      BY <3>4, PutEdgeType DEF StoresEdge, TypeOK
    <3>5. CASE Quiet BY <3>5 DEF Quiet, TypeOK, Tables
    <3> QED BY <2>2, <3>1, <3>2, <3>3, <3>4, <3>5 DEF OtherStep
  <2>3. ASSUME NEW p \in Engines, NEW n \in NodeIds, NEW v \in Node \cup {None},
               StoresNode(p, n, v)
        PROVE  Tables' /\ status' \in [Engines -> {"down", "loading", "open"}] /\ now' \in Nat
    BY <2>3, PutNodeType DEF StoresNode, TypeOK
  <2>4. ASSUME NEW p \in Engines, Step(p) PROVE TypeOK'
    <3>1. CASE OtherStep(p) BY <2>1, <2>2, <2>4, <3>1 DEF Tables, TypeOK
    <3>2. CASE Remember(p)
      <4>1. PICK n \in UserIds, v \in Contents :
              /\ StoresNode(p, n, v) /\ v \in Node /\ n \in NodeIds /\ op' \in [Engines -> Op]
              /\ written' = [written EXCEPT ![n] = @ \cup {v}]
        BY <3>2, RememberType
      <4>2. written' \in [UserIds -> SUBSET Contents]
        BY <4>1 DEF TypeOK
      <4> QED BY <2>1, <2>3, <2>4, <4>1, <4>2 DEF Tables, TypeOK
    <3>3. CASE Consolidate(p)
      BY <2>1, <2>3, <2>4, <3>3, ConsolidateType, FactIsNode DEF Tables, TypeOK
    <3>4. CASE PruneExpired(p)
      BY <2>1, <2>4, <3>4, PruneType DEF Quiet, TypeOK
    <3>5. CASE DropNode(p)
      BY <2>1, <2>3, <2>4, <3>5, DropNodeType DEF Tables, TypeOK
    <3> QED BY <2>4, <3>1, <3>2, <3>3, <3>4, <3>5, StepCases
  <2>5. CASE Tick BY <2>5 DEF Tick, TypeOK
  <2>6. CASE UNCHANGED vars BY <2>6 DEF vars, TypeOK
  <2> QED BY <2>4, <2>5, <2>6 DEF Next
<1> QED BY <1>1, <1>2, PTL DEF Spec

-----------------------------------------------------------------------------
(* The copies.                                                             *)

LEMMA DriftStep == TypeOK /\ DriftIsForeign /\ [Next]_vars => DriftIsForeign'
<1> SUFFICES ASSUME TypeOK, DriftIsForeign, [Next]_vars PROVE DriftIsForeign'
  OBVIOUS
<1> USE DEF DriftIsForeign
<1>1. ASSUME NEW p \in Engines, NEW n \in NodeIds, NEW v \in Node \cup {None},
             StoresNode(p, n, v)
      PROVE  DriftIsForeign'
  <2>1. /\ \A m \in NodeIds : diskNodes'[m] = IF m = n THEN v ELSE diskNodes[m]
        /\ \A q \in Engines, m \in NodeIds :
             nodes'[q][m] = IF q = p /\ m = n THEN v ELSE nodes[q][m]
    BY <1>1, PutNodeType DEF StoresNode
  <2>2. /\ \A q \in Engines : foreign[q] \subseteq foreign'[q]
        /\ \A q \in Engines : q # p /\ status[q] # "down" => n \in foreign'[q]
    BY <1>1, ForeignType DEF StoresNode, PutNode
  <2>3. status' = status /\ edges' = edges /\ diskEdges' = diskEdges
    BY <1>1 DEF StoresNode, PutNode
  <2> QED BY <2>1, <2>2, <2>3
<1>2. ASSUME NEW p \in Engines, StoresEdge(p) PROVE DriftIsForeign'
  <2>0. PICK e \in EdgeIds, x \in Edge \cup {None} : PutEdge(p, e, x) /\ status' = status
    BY <1>2 DEF StoresEdge
  <2>1. /\ \A g \in EdgeIds : diskEdges'[g] = IF g = e THEN x ELSE diskEdges[g]
        /\ \A q \in Engines, g \in EdgeIds :
             edges'[q][g] = IF q = p /\ g = e THEN x ELSE edges[q][g]
    BY <2>0, PutEdgeType
  <2>2. /\ \A q \in Engines : foreign[q] \subseteq foreign'[q]
        /\ \A q \in Engines : q # p /\ status[q] # "down" => e \in foreign'[q]
    BY <2>0, ForeignType DEF PutEdge
  <2>3. nodes' = nodes /\ diskNodes' = diskNodes
    BY <2>0 DEF PutEdge
  <2> QED BY <2>0, <2>1, <2>2, <2>3
<1>3. ASSUME NEW p \in Engines, LoadNodes(p) PROVE DriftIsForeign'
  BY <1>3 DEF LoadNodes, TypeOK, disk, history
<1>4. ASSUME NEW p \in Engines, LoadEdges(p) PROVE DriftIsForeign'
  <2>1. /\ \A q \in Engines : status'[q] = IF q = p THEN "open" ELSE status[q]
        /\ \A q \in Engines : edges'[q] = IF q = p THEN diskEdges ELSE edges[q]
        /\ \A q \in Engines : foreign'[q] = IF q = p THEN foreign[p] \ EdgeIds ELSE foreign[q]
        /\ nodes' = nodes /\ diskNodes' = diskNodes /\ diskEdges' = diskEdges
        /\ status[p] = "loading"
    BY <1>4 DEF LoadEdges, TypeOK, disk
  <2> QED BY <2>1
<1>5. ASSUME NEW p \in Engines, Stop(p) PROVE DriftIsForeign'
  BY <1>5 DEF Stop, TypeOK, disk
<1>6. CASE Quiet BY <1>6 DEF Quiet, disk, maps
<1>7. ASSUME NEW p \in Engines, Step(p) PROVE DriftIsForeign'
  <2>1. CASE OtherStep(p)
    BY <1>2, <1>3, <1>4, <1>5, <1>6, <2>1 DEF OtherStep
  <2>2. CASE Remember(p) BY <1>1, <2>2, RememberType
  <2>3. CASE Consolidate(p) BY <1>1, <2>3, ConsolidateType, FactIsNode
  <2>4. CASE PruneExpired(p) BY <1>6, <2>4, PruneType
  <2>5. CASE DropNode(p) BY <1>1, <2>5, DropNodeType
  <2> QED BY <1>7, <2>1, <2>2, <2>3, <2>4, <2>5, StepCases
<1>8. CASE Tick BY <1>8 DEF Tick, disk, maps, history
<1>9. CASE UNCHANGED vars BY <1>9 DEF vars, disk, maps, history
<1> QED BY <1>7, <1>8, <1>9 DEF Next

\* An engine serves what is stored, except where another one has written since
\* it loaded its copy.
THEOREM DriftHasACause == Spec => []DriftIsForeign
<1>1. Init => DriftIsForeign
  BY DEF Init, DriftIsForeign
<1> QED BY <1>1, DriftStep, TypeCorrect, PTL DEF Spec

-----------------------------------------------------------------------------
(* The memories.                                                           *)

\* A stored fact stands for memory n, or its deadline has passed.
Covered(n) == \E f \in FactIds, v \in written[n] :
  diskNodes[f] # None /\ diskNodes[f].project \in {None, v.project}
PassedDeadline(n) == \E v \in written[n] : v.validTo # None /\ v.validTo < now
MayGo(n) == Covered(n) \/ PassedDeadline(n)

IsFact(v) == v.type = ConsolidatedFact /\ v.validTo = None

\* What the tables and the copies hold was remembered, or is a fact; what an
\* engine is about to delete may go; what is missing has gone.
LastingInv ==
  /\ \A n \in UserIds :
       /\ diskNodes[n] # None => diskNodes[n] \in written[n]
       /\ \A p \in Engines : nodes[p][n] # None => nodes[p][n] \in written[n]
  /\ \A f \in FactIds, p \in Engines : nodes[p][f] # None => IsFact(nodes[p][f])
  /\ \A f \in FactIds : diskNodes[f] # None => IsFact(diskNodes[f])
  /\ \A p \in Engines : \A n \in op[p].victims : n \in UserIds /\ MayGo(n)
  /\ \A n \in UserIds : written[n] # {} => diskNodes[n] # None \/ MayGo(n)

\* What may go may still go when facts stay, deadlines pass and more is written.
LEMMA MayGoStays ==
  ASSUME TypeOK, TypeOK', now <= now',
         \A n \in UserIds : written[n] \subseteq written'[n],
         \A f \in FactIds : diskNodes[f] # None => diskNodes'[f] = diskNodes[f]
  PROVE  \A n \in UserIds : MayGo(n) => MayGo(n)'
<1> SUFFICES ASSUME NEW n \in UserIds, MayGo(n) PROVE MayGo(n)'
  OBVIOUS
<1>1. CASE Covered(n)
  BY <1>1 DEF MayGo, Covered
<1>2. CASE PassedDeadline(n)
  <2>1. PICK v \in written[n] : v.validTo # None /\ v.validTo < now
    BY <1>2 DEF PassedDeadline
  <2>2. v \in Node /\ v.validTo \in Nat
    BY <2>1 DEF TypeOK, Node
  <2>3. v \in written'[n] /\ v.validTo < now'
    BY <2>1, <2>2 DEF TypeOK
  <2> QED BY <2>1, <2>3 DEF MayGo, PassedDeadline
<1> QED BY <1>1, <1>2 DEF MayGo

\* An engine prunes or merges only what may go.
LEMMA ExpiredMayGo ==
  ASSUME TypeOK, LastingInv, NEW p \in Engines
  PROVE  \A n \in Expired(nodes[p], now) : n \in UserIds /\ MayGo(n)
<1> SUFFICES ASSUME NEW n \in Expired(nodes[p], now) PROVE n \in UserIds /\ MayGo(n)
  OBVIOUS
<1>1. /\ n \in NodeIds /\ nodes[p][n] # None
      /\ nodes[p][n].validTo # None /\ nodes[p][n].validTo < now
  BY DEF Expired, Stored, TypeOK, NodeTable
<1>2. n \in UserIds
  BY <1>1 DEF NodeIds, LastingInv, IsFact
<1>3. nodes[p][n] \in written[n]
  BY <1>1, <1>2 DEF LastingInv
<1> QED BY <1>1, <1>2, <1>3 DEF MayGo, PassedDeadline

LEMMA MatchingMayGo ==
  ASSUME TypeOK, LastingInv, NEW p \in Engines,
         NEW project \in Projects \cup {None}, NEW type \in Types \cup {None},
         NEW f \in FactIds, diskNodes'[f] = FactOf(project), written' = written
  PROVE  \A n \in Matching(nodes[p], project, type) : n \in UserIds /\ MayGo(n)'
<1> SUFFICES ASSUME NEW n \in Matching(nodes[p], project, type)
             PROVE  n \in UserIds /\ MayGo(n)'
  OBVIOUS
<1>1. /\ n \in NodeIds /\ nodes[p][n] # None
      /\ project \in {None, nodes[p][n].project} /\ nodes[p][n].type # ConsolidatedFact
  BY DEF Matching, Stored, TypeOK, NodeTable
<1>2. n \in UserIds
  BY <1>1 DEF NodeIds, LastingInv, IsFact
<1>3. nodes[p][n] \in written'[n]
  BY <1>1, <1>2 DEF LastingInv
<1>4. diskNodes'[f] # None /\ diskNodes'[f].project = project
  BY FactIsNode DEF FactOf
<1> QED BY <1>1, <1>2, <1>3, <1>4 DEF MayGo, Covered

LEMMA LastingStep == TypeOK /\ TypeOK' /\ LastingInv /\ [Next]_vars => LastingInv'
<1> SUFFICES ASSUME TypeOK, TypeOK', LastingInv, [Next]_vars PROVE LastingInv'
  OBVIOUS
<1>0. now \in Nat /\ now' \in Nat /\ UserIds \subseteq NodeIds /\ FactIds \subseteq NodeIds
  BY DEF TypeOK, NodeIds
<1>1. ASSUME NEW p \in Engines, Remember(p) PROVE LastingInv'
  <2>1. PICK n \in UserIds, v \in Contents :
          /\ StoresNode(p, n, v) /\ v \in Node /\ n \in NodeIds
          /\ op'[p].victims = {} /\ \A q \in Engines \ {p} : op'[q] = op[q]
          /\ written' = [written EXCEPT ![n] = @ \cup {v}]
    BY <1>1, RememberType
  <2>2. /\ \A m \in NodeIds : diskNodes'[m] = IF m = n THEN v ELSE diskNodes[m]
        /\ \A q \in Engines, m \in NodeIds :
             nodes'[q][m] = IF q = p /\ m = n THEN v ELSE nodes[q][m]
        /\ now' = now /\ v # None
    BY <2>1, PutNodeType DEF StoresNode
  <2>3. v \in written'[n] /\ \A m \in UserIds : written[m] \subseteq written'[m]
                         /\ (m # n => written'[m] = written[m])
    BY <2>1 DEF TypeOK
  <2>4. \A f \in FactIds : f # n
    OBVIOUS
  <2>a. now <= now' /\ \A f \in FactIds : diskNodes'[f] = diskNodes[f]
    BY <1>0, <2>2, <2>4
  <2>b. \A m \in UserIds : written[m] \subseteq written'[m]
    BY <2>3
  <2>5. \A m \in UserIds : MayGo(m) => MayGo(m)'
    BY <2>a, <2>b, MayGoStays
  <2>c. ASSUME NEW m \in UserIds
        PROVE  /\ diskNodes'[m] # None => diskNodes'[m] \in written'[m]
               /\ \A q \in Engines : nodes'[q][m] # None => nodes'[q][m] \in written'[m]
               /\ written'[m] # {} => diskNodes'[m] # None \/ MayGo(m)'
    <3>1. CASE m = n
      <4>1. diskNodes'[m] = v /\ v \in written'[m]
        BY <1>0, <2>2, <2>3, <3>1
      <4>2. \A q \in Engines : nodes'[q][m] = v \/ nodes'[q][m] = nodes[q][m]
        BY <1>0, <2>2
      <4>3. \A q \in Engines : nodes[q][m] # None => nodes[q][m] \in written'[m]
        BY <2>b DEF LastingInv
      <4> QED BY <2>2, <4>1, <4>2, <4>3
    <3>2. CASE m # n
      <4>1. /\ diskNodes'[m] = diskNodes[m] /\ written'[m] = written[m]
            /\ \A q \in Engines : nodes'[q][m] = nodes[q][m]
        BY <1>0, <2>2, <2>3, <3>2
      <4> QED BY <2>5, <4>1 DEF LastingInv
    <3> QED BY <3>1, <3>2
  <2>6. \A m \in UserIds :
          /\ diskNodes'[m] # None => diskNodes'[m] \in written'[m]
          /\ \A q \in Engines : nodes'[q][m] # None => nodes'[q][m] \in written'[m]
          /\ written'[m] # {} => diskNodes'[m] # None \/ MayGo(m)'
    BY <2>c
  <2>7. \A f \in FactIds :
          /\ diskNodes'[f] = diskNodes[f] /\ \A q \in Engines : nodes'[q][f] = nodes[q][f]
    BY <1>0, <2>2, <2>4
  <2>8. \A q \in Engines : op'[q].victims \subseteq op[q].victims
    BY <2>1
  <2> QED BY <2>5, <2>6, <2>7, <2>8 DEF LastingInv
<1>2. ASSUME NEW p \in Engines, Consolidate(p) PROVE LastingInv'
  <2>1. PICK project \in Projects \cup {None}, type \in Types \cup {None}, f \in FactIds :
           /\ StoresNode(p, f, FactOf(project)) /\ f \in NodeIds /\ Unused(f)
           /\ written' = written
           /\ op'[p].victims = Matching(nodes[p], project, type)
           /\ \A q \in Engines \ {p} : op'[q] = op[q]
    BY <1>2, ConsolidateType
  <2>2. /\ \A m \in NodeIds : diskNodes'[m] = IF m = f THEN FactOf(project) ELSE diskNodes[m]
        /\ \A q \in Engines, m \in NodeIds :
             nodes'[q][m] = IF q = p /\ m = f THEN FactOf(project) ELSE nodes[q][m]
        /\ now' = now
    BY <2>1, PutNodeType, FactIsNode DEF StoresNode
  <2>3. diskNodes[f] = None /\ diskNodes'[f] = FactOf(project) /\ IsFact(FactOf(project))
    BY <2>1, <2>2 DEF Unused, IsFact, FactOf
  <2>4. \A m \in UserIds : MayGo(m) => MayGo(m)'
    BY <1>0, <2>1, <2>2, <2>3, MayGoStays
  <2>5. \A n \in op'[p].victims : n \in UserIds /\ MayGo(n)'
    BY <2>1, <2>3, MatchingMayGo
  <2>6. \A q \in Engines : \A n \in op'[q].victims : n \in UserIds /\ MayGo(n)'
    BY <2>1, <2>4, <2>5 DEF LastingInv
  <2>7. \A m \in UserIds :
          m # f /\ diskNodes'[m] = diskNodes[m] /\ \A q \in Engines : nodes'[q][m] = nodes[q][m]
    BY <1>0, <2>2
  <2> QED BY <1>0, <2>1, <2>2, <2>3, <2>4, <2>6, <2>7 DEF LastingInv
<1>3. ASSUME NEW p \in Engines, PruneExpired(p) PROVE LastingInv'
  <2>1. UNCHANGED <<diskNodes, nodes, written, now>>
    BY <1>3, PruneType DEF Quiet, disk, maps
  <2>2. \A m \in UserIds : MayGo(m) => MayGo(m)'
    BY <2>1 DEF MayGo, Covered, PassedDeadline
  <2>3. \A q \in Engines : \A n \in op'[q].victims : n \in UserIds /\ MayGo(n)'
    BY <1>3, <2>2, PruneType, ExpiredMayGo DEF LastingInv
  <2> QED BY <2>1, <2>2, <2>3 DEF LastingInv
<1>4. ASSUME NEW p \in Engines, DropNode(p) PROVE LastingInv'
  <2>1. PICK n \in op[p].victims :
          /\ StoresNode(p, n, None) /\ n \in NodeIds /\ written' = written
          /\ \A q \in Engines : op'[q].victims \subseteq op[q].victims
    BY <1>4, DropNodeType
  <2>2. /\ \A m \in NodeIds : diskNodes'[m] = IF m = n THEN None ELSE diskNodes[m]
        /\ \A q \in Engines, m \in NodeIds :
             nodes'[q][m] = IF q = p /\ m = n THEN None ELSE nodes[q][m]
        /\ now' = now
    BY <2>1, PutNodeType DEF StoresNode
  <2>3. n \in UserIds /\ MayGo(n) /\ \A f \in FactIds : f # n
    BY <2>1 DEF LastingInv
  <2>4. \A m \in UserIds : MayGo(m) => MayGo(m)'
    BY <1>0, <2>1, <2>2, <2>3, MayGoStays
  <2>5. \A q \in Engines : \A m \in op'[q].victims : m \in UserIds /\ MayGo(m)'
    BY <2>1, <2>4 DEF LastingInv
  <2> QED BY <1>0, <2>1, <2>2, <2>3, <2>4, <2>5 DEF LastingInv
<1>5. ASSUME NEW p \in Engines, OtherStep(p) PROVE LastingInv'
  <2>1. /\ diskNodes' = diskNodes /\ written' = written /\ now' = now
        /\ \A q \in Engines, m \in NodeIds : nodes'[q][m] \in {nodes[q][m], diskNodes[m], None}
    <3>1. CASE LoadNodes(p) BY <1>5, <3>1 DEF OtherStep, LoadNodes, TypeOK, disk
    <3>2. CASE LoadEdges(p) BY <1>5, <3>2 DEF OtherStep, LoadEdges, TypeOK, disk
    <3>3. CASE Stop(p) BY <1>5, <3>3 DEF OtherStep, Stop, TypeOK, NoNodes, disk
    <3>4. CASE StoresEdge(p) BY <1>5, <3>4 DEF OtherStep, StoresEdge, PutEdge
    <3>5. CASE Quiet BY <3>5 DEF Quiet, disk, maps
    <3> QED BY <1>5, <3>1, <3>2, <3>3, <3>4, <3>5 DEF OtherStep
  <2>2. \A m \in UserIds : MayGo(m) => MayGo(m)'
    BY <2>1 DEF MayGo, Covered, PassedDeadline
  <2>3. \A q \in Engines : \A m \in op'[q].victims : m \in UserIds /\ MayGo(m)'
    BY <1>5, <2>2 DEF OtherStep, LastingInv
  <2> QED BY <1>0, <2>1, <2>2, <2>3 DEF LastingInv
<1>6. CASE Tick
  <2>0. UNCHANGED <<diskNodes, nodes, written, op>> /\ now' = now + 1
    BY <1>6 DEF Tick, disk, maps, history
  <2>1. UNCHANGED <<diskNodes, nodes, written, op>> /\ now <= now'
    BY <1>0, <2>0
  <2>2. \A m \in UserIds : MayGo(m) => MayGo(m)'
    BY <2>1, MayGoStays
  <2> QED BY <2>1, <2>2 DEF LastingInv
<1>7. CASE UNCHANGED vars
  <2>1. UNCHANGED <<diskNodes, nodes, written, op, now>>
    BY <1>7 DEF vars, disk, maps, history, bounds
  <2>2. \A m \in UserIds : MayGo(m) => MayGo(m)'
    BY <2>1 DEF MayGo, Covered, PassedDeadline
  <2> QED BY <2>1, <2>2 DEF LastingInv
<1> QED BY <1>1, <1>2, <1>3, <1>4, <1>5, <1>6, <1>7, StepCases DEF Next

\* What the engines are about to delete may go, and what is missing has gone.
LEMMA LastingIsKept == Spec => []LastingInv
<1>1. Init => LastingInv
  <2> SUFFICES ASSUME Init PROVE LastingInv
    OBVIOUS
  <2>1. /\ \A n \in NodeIds : diskNodes[n] = None
        /\ \A p \in Engines, n \in NodeIds : nodes[p][n] = None
        /\ \A p \in Engines : op[p].victims = {}
        /\ \A n \in UserIds : written[n] = {}
    BY DEF Init, NoNodes, Idle
  <2> QED BY <2>1 DEF LastingInv, NodeIds
<1> QED BY <1>1, LastingStep, TypeCorrect, PTL DEF Spec

\* A memory that never had a deadline that has passed stays, or a fact stands
\* for it, however stale the copies that the engines remove from.
THEOREM LastingMemoriesStay == Spec => []LastingMemoriesAreKept
<1>1. TypeOK /\ LastingInv => LastingMemoriesAreKept
  <2> SUFFICES ASSUME TypeOK, LastingInv, NEW n \in UserIds, Lasting(n)
               PROVE  diskNodes[n] # None \/ Covered(n)
    BY DEF LastingMemoriesAreKept, Covered
  <2>1. ~PassedDeadline(n)
    <3> SUFFICES ASSUME NEW v \in written[n], v.validTo # None, v.validTo < now PROVE FALSE
      BY DEF PassedDeadline
    <3>1. v.validTo \in Nat /\ now \in Nat
      BY DEF TypeOK, Node
    <3> QED BY <3>1 DEF Lasting
  <2> QED BY <2>1 DEF LastingInv, MayGo, Lasting
<1> QED BY <1>1, LastingIsKept, TypeCorrect, PTL

-----------------------------------------------------------------------------
(* What removals are based on.                                             *)

\* What RemovalIsJustified asks of a node that is removed.
Justified(n) ==
  \/ n \in Expired(diskNodes, now)
  \/ \E f \in FactIds :
       diskNodes[f] # None /\ diskNodes[f].project \in {None, diskNodes[n].project}

\* Only an open engine deletes, and what it is about to delete should go,
\* unless others have written it since the engine loaded its copy.
DeletesRightly(p) == \A n \in op[p].victims :
  status[p] = "open" /\ (diskNodes[n] = None \/ n \in foreign[p] \/ Justified(n))
RemovalInv == \A p \in Engines : DeletesRightly(p)

\* A step that gives engine p nothing to delete leaves its removal right, if it
\* changes the node of a victim only as another engine does.
LEMMA StillRight ==
  ASSUME TypeOK, TypeOK', LastingInv, now <= now',
         \A f \in FactIds : diskNodes[f] # None => diskNodes'[f] = diskNodes[f],
         NEW p \in Engines, DeletesRightly(p), op'[p].victims \subseteq op[p].victims,
         op'[p].victims # {} => status'[p] = "open",
         \A n \in op'[p].victims :
           /\ n \in foreign[p] => n \in foreign'[p]
           /\ diskNodes'[n] \in {None, diskNodes[n]} \/ n \in foreign'[p]
  PROVE  DeletesRightly(p)'
<1> SUFFICES ASSUME NEW n \in op'[p].victims, diskNodes'[n] # None, n \notin foreign'[p]
             PROVE  Justified(n)'
  BY DEF DeletesRightly
<1>1. n \in UserIds /\ n \in NodeIds
  BY DEF LastingInv, NodeIds
<1>2. diskNodes'[n] = diskNodes[n] /\ Justified(n)
  BY DEF DeletesRightly
<1>3. CASE n \in Expired(diskNodes, now)
  <2>1. diskNodes[n].validTo \in Nat /\ now \in Nat /\ now' \in Nat
    BY <1>1, <1>3 DEF TypeOK, NodeTable, Node, Expired, Stored
  <2>2. n \in Expired(diskNodes, now)'
    BY <1>1, <1>2, <1>3, <2>1 DEF TypeOK, NodeTable, Expired, Stored
  <2> QED BY <2>2 DEF Justified
<1>4. CASE \E f \in FactIds :
             diskNodes[f] # None /\ diskNodes[f].project \in {None, diskNodes[n].project}
  BY <1>2, <1>4 DEF Justified
<1> QED BY <1>2, <1>3, <1>4 DEF Justified

LEMMA RemovalStep ==
  TypeOK /\ TypeOK' /\ LastingInv /\ DriftIsForeign /\ RemovalInv /\ [Next]_vars
    => RemovalInv'
<1> SUFFICES ASSUME TypeOK, TypeOK', LastingInv, DriftIsForeign, RemovalInv, [Next]_vars
             PROVE  RemovalInv'
  OBVIOUS
<1>0. /\ now \in Nat /\ UserIds \cap FactIds = {}
      /\ \A p \in Engines : DeletesRightly(p) /\ op[p].victims \subseteq UserIds
      /\ \A p \in Engines : op[p].victims # {} => status[p] = "open"
  BY DEF TypeOK, RemovalInv, DeletesRightly, LastingInv
\* What the copy of an open engine holds is stored, unless others wrote it.
<1>a. ASSUME NEW p \in Engines, status[p] = "open", NEW n \in NodeIds
      PROVE  nodes[p][n] = diskNodes[n] \/ n \in foreign[p]
  BY <1>a DEF DriftIsForeign
\* A statement on a node leaves all other engines' removals right.
<1>b. ASSUME NEW p \in Engines, NEW n \in NodeIds, NEW v \in Node \cup {None},
             StoresNode(p, n, v), n \in FactIds => diskNodes[n] = None,
             NEW q \in Engines, q # p \/ v = None, op'[q].victims \subseteq op[q].victims
      PROVE  DeletesRightly(q)'
  <2>1. \A m \in NodeIds : diskNodes'[m] = IF m = n THEN v ELSE diskNodes[m]
    BY <1>b, PutNodeType DEF StoresNode
  <2>2. /\ foreign[q] \subseteq foreign'[q]
        /\ q # p /\ status[q] # "down" => n \in foreign'[q]
    BY <1>b, ForeignType DEF StoresNode, PutNode
  <2>3. status' = status /\ now' = now
    BY <1>b DEF StoresNode
  <2>4. \A f \in FactIds : diskNodes[f] # None => diskNodes'[f] = diskNodes[f]
    BY <1>b, <2>1 DEF NodeIds
  <2>5. \A m \in op'[q].victims : diskNodes'[m] \in {None, diskNodes[m]} \/ m \in foreign'[q]
    BY <1>0, <1>b, <2>1, <2>2 DEF NodeIds
  <2>6. now <= now' /\ (op'[q].victims # {} => status'[q] = "open")
    BY <1>0, <1>b, <2>3
  <2> QED BY <1>0, <1>b, <2>2, <2>4, <2>5, <2>6, StillRight
<1>1. ASSUME NEW p \in Engines, Remember(p) PROVE RemovalInv'
  <2>1. PICK n \in UserIds, v \in Contents :
          /\ StoresNode(p, n, v) /\ v \in Node /\ n \in NodeIds
          /\ op'[p].victims = {} /\ \A q \in Engines \ {p} : op'[q] = op[q]
    BY <1>1, RememberType
  <2>2. n \notin FactIds
    BY <1>0
  <2>3. \A q \in Engines \ {p} : DeletesRightly(q)'
    BY <1>b, <2>1, <2>2
  <2> QED BY <2>1, <2>3 DEF RemovalInv, DeletesRightly
<1>2. ASSUME NEW p \in Engines, Consolidate(p) PROVE RemovalInv'
  <2>1. PICK project \in Projects \cup {None}, type \in Types \cup {None}, f \in FactIds :
           /\ StoresNode(p, f, FactOf(project)) /\ f \in NodeIds /\ Unused(f)
           /\ op'[p].victims = Matching(nodes[p], project, type)
           /\ \A q \in Engines \ {p} : op'[q] = op[q]
    BY <1>2, ConsolidateType
  <2>2. status[p] = "open" /\ status' = status
    BY <1>2, <2>1 DEF Consolidate, CanLock, StoresNode
  <2>3. /\ \A m \in NodeIds : diskNodes'[m] = IF m = f THEN FactOf(project) ELSE diskNodes[m]
        /\ foreign[p] \subseteq foreign'[p]
    <3>1. PutNode(p, f, FactOf(project)) /\ FactOf(project) \in Node
      BY <2>1, FactIsNode DEF StoresNode
    <3>2. foreign' = Foreign(p, f)
      BY <3>1 DEF PutNode
    <3> QED BY <2>1, <3>1, <3>2, PutNodeType, ForeignType
  <2>4. FactOf(project) # None /\ FactOf(project).project = project
    BY FactIsNode DEF FactOf
  <2>5. ASSUME NEW n \in Matching(nodes[p], project, type)
        PROVE  diskNodes'[n] = None \/ n \in foreign'[p] \/ Justified(n)'
    <3>1. n \in NodeIds /\ n # f /\ project \in {None, nodes[p][n].project}
      BY <2>1 DEF Matching, Stored, Unused, TypeOK, NodeTable
    <3>2. nodes[p][n] = diskNodes[n] \/ n \in foreign[p]
      BY <1>a, <2>2, <3>1
    <3>3. CASE nodes[p][n] = diskNodes[n]
      <4>1. diskNodes'[f] # None /\ diskNodes'[f].project \in {None, diskNodes'[n].project}
        BY <2>1, <2>3, <2>4, <3>1, <3>3
      <4> QED BY <4>1 DEF Justified
    <3> QED BY <2>3, <3>2, <3>3
  <2>6. DeletesRightly(p)'
    BY <2>1, <2>2, <2>5 DEF DeletesRightly
  <2>7. \A q \in Engines \ {p} : DeletesRightly(q)'
    BY <1>b, <2>1, FactIsNode DEF Unused
  <2> QED BY <2>6, <2>7 DEF RemovalInv
<1>3. ASSUME NEW p \in Engines, PruneExpired(p) PROVE RemovalInv'
  <2>1. UNCHANGED <<diskNodes, status, foreign, now>> /\ status[p] = "open"
    BY <1>3, PruneType DEF Quiet, disk, PruneExpired, CanLock
  <2>2. op'[p].victims = Expired(nodes[p], now) /\ \A q \in Engines \ {p} : op'[q] = op[q]
    BY <1>3, PruneType
  <2>3. ASSUME NEW n \in Expired(nodes[p], now)
        PROVE  n \in foreign[p] \/ n \in Expired(diskNodes, now)
    <3>1. n \in NodeIds
      BY DEF Expired, Stored, TypeOK, NodeTable
    <3>2. nodes[p][n] = diskNodes[n] \/ n \in foreign[p]
      BY <1>a, <2>1, <3>1
    <3> QED BY <3>1, <3>2 DEF Expired, Stored, TypeOK, NodeTable
  <2>4. DeletesRightly(p)'
    BY <2>1, <2>2, <2>3 DEF DeletesRightly, Justified
  <2>5. \A q \in Engines \ {p} : DeletesRightly(q)'
    BY <1>0, <2>1, <2>2 DEF DeletesRightly, Justified
  <2> QED BY <2>4, <2>5 DEF RemovalInv
<1>4. ASSUME NEW p \in Engines, DropNode(p) PROVE RemovalInv'
  <2>1. PICK n \in op[p].victims :
          /\ StoresNode(p, n, None) /\ n \in NodeIds
          /\ \A q \in Engines : op'[q].victims \subseteq op[q].victims
    BY <1>4, DropNodeType
  <2>2. n \notin FactIds
    BY <1>0
  <2> QED BY <1>b, <2>1, <2>2 DEF RemovalInv
<1>5. ASSUME NEW p \in Engines, OtherStep(p), NEW q \in Engines PROVE DeletesRightly(q)'
  <2>0. now <= now' /\ op'[q].victims \subseteq op[q].victims
    BY <1>0, <1>5 DEF OtherStep
  <2>1. /\ diskNodes' = diskNodes
        /\ op'[q].victims # {} => status'[q] = "open"
        /\ op'[q].victims # {} => foreign[q] \cap NodeIds \subseteq foreign'[q]
    <3>1. CASE LoadNodes(p)
      BY <1>0, <2>0, <3>1 DEF LoadNodes, TypeOK, disk, history
    <3>2. CASE LoadEdges(p)
      BY <1>0, <2>0, <3>2 DEF LoadEdges, TypeOK, disk
    <3>3. CASE Stop(p)
      BY <1>0, <2>0, <3>3 DEF Stop, TypeOK, disk, Idle
    <3>4. CASE StoresEdge(p)
      <4>1. PICK e \in EdgeIds, x \in Edge \cup {None} : PutEdge(p, e, x) /\ status' = status
        BY <3>4 DEF StoresEdge
      <4>2. foreign[q] \subseteq foreign'[q] /\ diskNodes' = diskNodes
        BY <4>1, ForeignType DEF PutEdge
      <4> QED BY <1>0, <2>0, <4>1, <4>2
    <3>5. CASE Quiet BY <1>0, <2>0, <3>5 DEF Quiet, disk
    <3> QED BY <1>5, <3>1, <3>2, <3>3, <3>4, <3>5 DEF OtherStep
  <2>2. \A n \in op'[q].victims : n \in foreign[q] => n \in foreign'[q]
    BY <1>0, <2>0, <2>1 DEF NodeIds
  <2> QED BY <1>0, <2>0, <2>1, <2>2, StillRight
<1>6. CASE Tick
  <2>1. UNCHANGED <<diskNodes, status, foreign, op>> /\ now <= now'
    BY <1>0, <1>6 DEF Tick, disk, history
  <2>2. \A q \in Engines : DeletesRightly(q)'
    BY <1>0, <2>1, StillRight
  <2> QED BY <2>2 DEF RemovalInv
<1>7. CASE UNCHANGED vars
  BY <1>7 DEF vars, disk, bounds, history, RemovalInv, DeletesRightly, Justified
<1> QED BY <1>1, <1>2, <1>3, <1>4, <1>5, <1>6, <1>7, StepCases DEF Next, RemovalInv

\* A removal that RemovalIsJustified does not allow is based on a stale copy, of
\* a node that another engine has written since this one loaded it.
THEOREM UnjustifiedMeansForeign ==
  Spec => [][\A n \in Stored(diskNodes) \ Stored(diskNodes') :
               Justified(n) \/ \E p \in Engines : n \in op[p].victims \cap foreign[p]]_vars
<1>1. Init => RemovalInv
  BY DEF Init, Idle, RemovalInv, DeletesRightly
<1>2. ASSUME TypeOK, TypeOK', RemovalInv, [Next]_vars,
             NEW n \in Stored(diskNodes), n \notin Stored(diskNodes)'
      PROVE  Justified(n) \/ \E p \in Engines : n \in op[p].victims \cap foreign[p]
  <2>0. n \in NodeIds /\ diskNodes[n] # None /\ diskNodes'[n] = None
    BY <1>2 DEF TypeOK, NodeTable, Stored
  <2>1. PICK p \in Engines : DropNode(p)
    <3>1. ASSUME NEW p \in Engines, NEW m \in NodeIds, NEW v \in Node, StoresNode(p, m, v)
          PROVE  diskNodes'[n] # None
      <4>1. \A k \in NodeIds : diskNodes'[k] = IF k = m THEN v ELSE diskNodes[k]
        BY <1>2, <3>1, PutNodeType DEF StoresNode
      <4> QED BY <2>0, <4>1
    <3>2. \A p \in Engines : ~Remember(p) /\ ~Consolidate(p)
      BY <1>2, <2>0, <3>1, RememberType, ConsolidateType, FactIsNode
    <3>3. \A p \in Engines : OtherStep(p) \/ PruneExpired(p) => diskNodes' = diskNodes
      BY <1>2, PruneType DEF OtherStep, LoadNodes, LoadEdges, Stop, StoresEdge, PutEdge, Quiet,
                             disk
    <3>4. Tick \/ UNCHANGED vars => diskNodes' = diskNodes
      BY DEF Tick, vars, disk
    <3>5. ~(\E p \in Engines : OtherStep(p) \/ PruneExpired(p)) /\ ~Tick /\ ~UNCHANGED vars
      BY <2>0, <3>3, <3>4
    <3> QED BY <1>2, <3>2, <3>5, StepCases DEF Next
  <2>2. n \in op[p].victims
    <3>1. PICK m \in op[p].victims : StoresNode(p, m, None) /\ m \in NodeIds
      BY <1>2, <2>1, DropNodeType
    <3>2. \A k \in NodeIds : diskNodes'[k] = IF k = m THEN None ELSE diskNodes[k]
      BY <1>2, <3>1, PutNodeType DEF StoresNode
    <3> QED BY <2>0, <3>1, <3>2
  <2> QED BY <1>2, <2>0, <2>2 DEF RemovalInv, DeletesRightly
<1>3. TypeOK /\ TypeOK' /\ RemovalInv /\ [Next]_vars
        => [\A n \in Stored(diskNodes) \ Stored(diskNodes') :
              Justified(n) \/ \E p \in Engines : n \in op[p].victims \cap foreign[p]]_vars
  BY <1>2
<1> QED
  BY <1>1, <1>3, RemovalStep, TypeCorrect, LastingIsKept, DriftHasACause, PTL DEF Spec

\* With the database to itself an engine removes only what RemovalIsJustified
\* allows: expired nodes, and nodes of which a fact is stored.
THEOREM AloneRemovalsAreJustified ==
  ASSUME \A p, q \in Engines : p = q PROVE Spec => RemovalIsJustified
<1> DEFINE Alone == \A p \in Engines : foreign[p] = {}
<1>1. Init => Alone
  BY DEF Init
<1>2. TypeOK /\ Alone /\ [Next]_vars => Alone'
  <2> SUFFICES ASSUME TypeOK, Alone, [Next]_vars PROVE Alone'
    OBVIOUS
  <2>1. ASSUME NEW p \in Engines, NEW key, foreign' = Foreign(p, key) PROVE Alone'
    BY <2>1 DEF Foreign
  <2>2. ASSUME NEW p \in Engines, OtherStep(p) PROVE Alone'
    <3>1. CASE LoadNodes(p) BY <3>1 DEF LoadNodes, history
    <3>2. CASE LoadEdges(p) BY <3>2 DEF LoadEdges, TypeOK
    <3>3. CASE Stop(p) BY <3>3 DEF Stop, TypeOK
    <3>4. CASE StoresEdge(p) BY <2>1, <3>4 DEF StoresEdge, PutEdge
    <3>5. CASE Quiet BY <3>5 DEF Quiet
    <3> QED BY <2>2, <3>1, <3>2, <3>3, <3>4, <3>5 DEF OtherStep
  <2>3. ASSUME NEW p \in Engines, Step(p) PROVE Alone'
    <3>1. CASE OtherStep(p) BY <2>2, <3>1
    <3>2. CASE Remember(p) \/ Consolidate(p) \/ DropNode(p)
      BY <2>1, <3>2 DEF Remember, Consolidate, DropNode, PutNode
    <3>3. CASE PruneExpired(p) BY <3>3 DEF PruneExpired, history
    <3> QED BY <2>3, <3>1, <3>2, <3>3, StepCases
  <2>4. CASE Tick BY <2>4 DEF Tick, history
  <2>5. CASE UNCHANGED vars BY <2>5 DEF vars, history
  <2> QED BY <2>3, <2>4, <2>5 DEF Next
<1>3. Alone /\ [\A n \in Stored(diskNodes) \ Stored(diskNodes') :
                  Justified(n) \/ \E p \in Engines : n \in op[p].victims \cap foreign[p]]_vars
        => [\A n \in Stored(diskNodes) \ Stored(diskNodes') :
              \/ n \in Expired(diskNodes, now)
              \/ \E f \in FactIds :
                   diskNodes[f] # None /\ diskNodes[f].project \in {None, diskNodes[n].project}]_vars
  BY DEF Justified
<1> QED
  BY <1>1, <1>2, <1>3, UnjustifiedMeansForeign, TypeCorrect, PTL DEF Spec, RemovalIsJustified
=============================================================================
