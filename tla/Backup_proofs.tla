---------------------------- MODULE Backup_proofs ----------------------------
(***************************************************************************)
(* Theorems about Backup: for graphs of any size and every way in which    *)
(* exports and imports are cut short, what an import has gone through is   *)
(* in the database or could not be saved.                                  *)
(***************************************************************************)
EXTENDS Backup, FiniteSetTheorems, TLAPS

USE BackupAssumption

-----------------------------------------------------------------------------
(* Documents.                                                              *)

LEMMA ListedType ==
  ASSUME NEW graph \in Graph
  PROVE  /\ Listed(graph) \in SUBSET NodeIds /\ IsFiniteSet(Listed(graph))
         /\ \A n \in Listed(graph) : graph.nodes[n] \in Versions
         /\ graph.edges \in SUBSET EdgeIds
<1>1. Listed(graph) \in SUBSET NodeIds
  BY DEF Listed
<1>2. IsFiniteSet(Listed(graph))
  BY <1>1, FS_Subset
<1> QED BY <1>1, <1>2 DEF Graph, Listed

\* What Recall lists is among the nodes, and not more than it may list.
LEMMA RecalledType ==
  ASSUME NEW graph \in Graph, NEW list \in Recalled(graph)
  PROVE  list \in SUBSET Listed(graph) /\ Cardinality(list) <= ExportLimit
BY DEF Recalled

LEMMA DocumentOfType ==
  ASSUME NEW graph \in Graph, NEW list \in Recalled(graph)
  PROVE  /\ DocumentOf(graph, list) \in Document
         /\ Listed(DocumentOf(graph, list)) = list \cap Encodable(graph)
<1> DEFINE d == DocumentOf(graph, list)
<1>1. list \in SUBSET Listed(graph) /\ Cardinality(list) <= ExportLimit /\ list \in SUBSET NodeIds
  BY RecalledType, ListedType
<1>2. \A n \in list : graph.nodes[n] \in Versions
  BY <1>1, ListedType
<1>3. d.nodes \in [NodeIds -> Versions \cup {None}]
  BY <1>2 DEF DocumentOf
<1>4. d.edges \in SUBSET EdgeIds
  BY ListedType DEF DocumentOf, Touching
<1>5. d \in Graph
  BY <1>3, <1>4 DEF DocumentOf, Graph
<1>6. Listed(d) = list \cap Encodable(graph)
  BY <1>1, <1>2 DEF Listed, DocumentOf
<1>7. Cardinality(Listed(d)) <= ExportLimit
  <2>1. IsFiniteSet(list)
    BY <1>1, FS_Subset
  <2>2. /\ IsFiniteSet(Listed(d)) /\ Cardinality(Listed(d)) <= Cardinality(list)
    BY <2>1, <1>6, FS_Subset
  <2>3. Cardinality(list) \in Nat /\ Cardinality(Listed(d)) \in Nat /\ ExportLimit \in Nat
    BY <2>1, <2>2, FS_CardinalityType
  <2> QED BY <1>1, <2>2, <2>3
<1> QED BY <1>5, <1>6, <1>7 DEF Document

LEMMA DocumentType == Document \subseteq Graph
BY DEF Document

LEMMA StoreNode ==
  ASSUME NEW graph \in Graph, NEW n \in NodeIds, NEW v \in Versions \cup {None}
  PROVE  /\ [graph EXCEPT !.nodes[n] = v] \in Graph
         /\ \A m \in NodeIds :
              [graph EXCEPT !.nodes[n] = v].nodes[m] = IF m = n THEN v ELSE graph.nodes[m]
         /\ [graph EXCEPT !.nodes[n] = v].edges = graph.edges
BY DEF Graph

LEMMA StoreEdge ==
  ASSUME NEW graph \in Graph, NEW e \in EdgeIds
  PROVE  /\ [graph EXCEPT !.edges = @ \cup {e}] \in Graph
         /\ [graph EXCEPT !.edges = @ \cup {e}].edges = graph.edges \cup {e}
         /\ [graph EXCEPT !.edges = @ \cup {e}].nodes = graph.nodes
BY DEF Graph

-----------------------------------------------------------------------------
\* The databases hold graphs, the files and the commands documents.
THEOREM TypeCorrect == Spec => []TypeOK
<1>1. Init => TypeOK
  BY DEF Init, TypeOK
<1>2. TypeOK /\ [Next]_vars => TypeOK'
  <2> SUFFICES ASSUME TypeOK, [Next]_vars PROVE TypeOK'
    OBVIOUS
  <2> USE DEF TypeOK, import
  <2>1. CASE Export
    BY <2>1, DocumentOfType DEF Export
  <2>2. CASE ExportReturns BY <2>2 DEF ExportReturns
  <2>3. CASE ExportStops BY <2>3 DEF ExportStops
  <2>4. CASE Import
    <3>1. file \in Document
      BY <2>4 DEF Import
    <3>2. Listed(file) \in SUBSET NodeIds /\ file.edges \in SUBSET EdgeIds
      BY <3>1, DocumentType, ListedType
    <3> QED BY <2>4, <3>1, <3>2 DEF Import
  <2>5. CASE ImportEnds BY <2>5 DEF ImportEnds
  <2>6. ASSUME NEW n \in NodeIds, ImportNode(n) PROVE TypeOK'
    <3>1. doc.nodes[n] \in Versions
      BY <2>6, DocumentType, ListedType DEF ImportNode
    <3>2. away' \in Graph
      BY <2>6, <3>1, StoreNode DEF ImportNode
    <3> QED BY <2>6, <3>2 DEF ImportNode
  <2>7. ASSUME NEW n \in NodeIds, ImportNodeFails(n) PROVE TypeOK'
    BY <2>7 DEF ImportNodeFails
  <2>8. ASSUME NEW n \in NodeIds, Remember(n) PROVE TypeOK'
    <3>1. away' \in Graph
      BY <2>8, StoreNode DEF Remember
    <3> QED BY <2>8, <3>1 DEF Remember
  <2>9. ASSUME NEW n \in NodeIds, Remove(n) PROVE TypeOK'
    <3>1. away' \in Graph
      BY <2>9 DEF Remove, Graph
    <3> QED BY <2>9, <3>1 DEF Remove
  <2>10. ASSUME NEW e \in EdgeIds, ImportEdge(e) PROVE TypeOK'
    <3>1. away' \in Graph
      BY <2>10, StoreEdge DEF ImportEdge
    <3> QED BY <2>10, <3>1 DEF ImportEdge
  <2>11. ASSUME NEW e \in EdgeIds, ImportEdgeFails(e) PROVE TypeOK'
    BY <2>11 DEF ImportEdgeFails
  <2>12. CASE UNCHANGED vars BY <2>12 DEF vars
  <2> QED BY <2>1, <2>2, <2>3, <2>4, <2>5, <2>6, <2>7, <2>8, <2>9, <2>10, <2>11, <2>12 DEF Next
<1> QED BY <1>1, <1>2, PTL DEF Spec

-----------------------------------------------------------------------------
(* What an import leaves behind it.                                        *)

\* Of the entries that the import has gone through, those it could save are in
\* the database; it comes to the edges when no node is left.
BehindIt ==
  doc # None =>
    /\ \A n \in (Listed(doc) \ nodesLeft) \ failed : away.nodes[n] = doc.nodes[n]
    /\ (doc.edges \ edgesLeft) \ failed \subseteq away.edges
    /\ nodesLeft = {} \/ edgesLeft = doc.edges

LEMMA BehindStep == TypeOK /\ BehindIt /\ [Next]_vars => BehindIt'
<1> SUFFICES ASSUME TypeOK, BehindIt, [Next]_vars PROVE BehindIt'
  OBVIOUS
<1> USE DEF BehindIt, import
<1>0. /\ away \in Graph
      /\ doc # None => doc \in Graph /\ nodesLeft \subseteq NodeIds /\ edgesLeft \subseteq EdgeIds
                       /\ Listed(doc) \in SUBSET NodeIds
  BY DocumentType, ListedType DEF TypeOK
<1>1. CASE Export BY <1>1 DEF Export
<1>2. CASE ExportReturns BY <1>2 DEF ExportReturns
<1>3. CASE ExportStops BY <1>3 DEF ExportStops
<1>4. CASE Import BY <1>4 DEF Import
<1>5. CASE ImportEnds BY <1>5 DEF ImportEnds
<1>6. ASSUME NEW n \in NodeIds, ImportNode(n) PROVE BehindIt'
  <2>1. doc' = doc /\ failed' = failed /\ edgesLeft' = edgesLeft /\ nodesLeft' = nodesLeft \ {n}
    BY <1>6 DEF ImportNode
  <2>2. doc.nodes[n] \in Versions /\ doc # None /\ nodesLeft # {}
    BY <1>6, DocumentType, ListedType DEF ImportNode, TypeOK
  <2>3. /\ \A m \in NodeIds : away'.nodes[m] = IF m = n THEN doc.nodes[n] ELSE away.nodes[m]
        /\ away'.edges = away.edges
    BY <1>0, <1>6, <2>2, StoreNode DEF ImportNode
  <2> QED BY <1>0, <2>1, <2>2, <2>3
<1>7. ASSUME NEW n \in NodeIds, ImportNodeFails(n) PROVE BehindIt'
  BY <1>7 DEF ImportNodeFails
<1>8. ASSUME NEW n \in NodeIds, Remember(n) PROVE BehindIt'
  BY <1>8 DEF Remember
<1>9. ASSUME NEW n \in NodeIds, Remove(n) PROVE BehindIt'
  BY <1>9 DEF Remove
<1>10. ASSUME NEW e \in EdgeIds, ImportEdge(e) PROVE BehindIt'
  <2>1. away'.nodes = away.nodes /\ away'.edges = away.edges \cup {e}
    BY <1>0, <1>10, StoreEdge DEF ImportEdge
  <2> QED BY <1>10, <2>1 DEF ImportEdge
<1>11. ASSUME NEW e \in EdgeIds, ImportEdgeFails(e) PROVE BehindIt'
  BY <1>11 DEF ImportEdgeFails
<1>12. CASE UNCHANGED vars BY <1>12 DEF vars
<1> QED BY <1>1, <1>2, <1>3, <1>4, <1>5, <1>6, <1>7, <1>8, <1>9, <1>10, <1>11, <1>12 DEF Next

LEMMA BehindInvariant == Spec => []BehindIt
<1>1. Init => BehindIt
  BY DEF Init, BehindIt
<1> QED BY <1>1, BehindStep, TypeCorrect, PTL DEF Spec

\* After an import every entry of its file is in the database, or failed.
THEOREM NothingIsMissing == Spec => []MissingMeansFailed
<1>1. BehindIt => MissingMeansFailed
  BY DEF BehindIt, MissingMeansFailed, Imported
<1> QED BY <1>1, BehindInvariant, PTL

\* An import that has come to the edges has gone through the nodes.
THEOREM NodesAreFirst == Spec => []NodesComeFirst
<1>1. TypeOK /\ BehindIt => NodesComeFirst
  <2> SUFFICES ASSUME TypeOK, BehindIt, doc # None,
                      NEW e \in doc.edges \ (edgesLeft \cup failed),
                      NEW n \in (EndsOf[e] \cap Listed(doc)) \ failed
               PROVE  away.nodes[n] # None
    BY DEF NodesComeFirst
  <2>1. nodesLeft = {}
    BY DEF BehindIt
  <2>2. away.nodes[n] = doc.nodes[n]
    BY <2>1 DEF BehindIt
  <2> QED BY <2>2 DEF Listed
<1> QED BY <1>1, BehindInvariant, TypeCorrect, PTL

-----------------------------------------------------------------------------
(* What a backup is a backup of: nobody changes the database exported.     *)

IsBackup(d) == \E list \in Recalled(home) : d = DocumentOf(home, list)

BackupInv ==
  /\ exporting # None => IsBackup(exporting)
  /\ file \notin {None, Unreadable} => IsBackup(file)
  /\ doc # None => IsBackup(doc)

LEMMA BackupInvariant == Spec => []BackupInv
<1>1. Init => BackupInv
  BY DEF Init, BackupInv
<1>2. BackupInv /\ [Next]_vars => BackupInv'
  <2> SUFFICES ASSUME BackupInv, [Next]_vars PROVE BackupInv'
    OBVIOUS
  <2>1. home' = home
    BY DEF Next, vars, Export, ExportReturns, ExportStops, Import, ImportEnds, ImportNode,
           ImportNodeFails, Remember, Remove, ImportEdge, ImportEdgeFails
  <2>2. \A d : IsBackup(d) => IsBackup(d)'
    BY <2>1 DEF IsBackup
  <2>3. exporting' # None => IsBackup(exporting') \/ exporting' = exporting
    BY DEF Next, vars, Export, ExportReturns, ExportStops, Import, ImportEnds, ImportNode,
           ImportNodeFails, Remember, Remove, ImportEdge, ImportEdgeFails, IsBackup
  <2>4. file' \in {file, Unreadable} \/ (file' = exporting /\ exporting # None)
    BY DEF Next, vars, Export, ExportReturns, ExportStops, Import, ImportEnds, ImportNode,
           ImportNodeFails, Remember, Remove, ImportEdge, ImportEdgeFails
  <2>5. doc' \in {doc, None} \/ (doc' = file /\ file \notin {None, Unreadable})
    BY DEF Next, vars, Export, ExportReturns, ExportStops, Import, ImportEnds, ImportNode,
           ImportNodeFails, Remember, Remove, ImportEdge, ImportEdgeFails, import
  <2> QED BY <2>1, <2>2, <2>3, <2>4, <2>5 DEF BackupInv, IsBackup
<1> QED BY <1>1, <1>2, PTL DEF Spec

\* Of a graph within the limit, all comes back that has a JSON form.
THEOREM BackupRestores == Spec => []HomeIsRestored
<1>1. TypeOK /\ BehindIt /\ BackupInv => HomeIsRestored
  <2> SUFFICES ASSUME TypeOK, BehindIt, BackupInv, Imported, failed = {},
                      Cardinality(Listed(home)) <= ExportLimit
               PROVE  /\ \A n \in Encodable(home) : away.nodes[n] = home.nodes[n]
                      /\ \A e \in home.edges \ Unencodable :
                           EndsOf[e] \cap Listed(home) # {} => e \in away.edges
    BY DEF HomeIsRestored
  <2>1. PICK list \in Recalled(home) : doc = DocumentOf(home, list)
    BY DEF BackupInv, IsBackup, Imported
  <2>2. list = Listed(home)
    BY <2>1 DEF Recalled
  <2>3. Listed(doc) = Encodable(home)
    BY <2>1, <2>2, DocumentOfType DEF TypeOK, Encodable
  <2>4. \A n \in Encodable(home) : doc.nodes[n] = home.nodes[n]
    BY <2>1, <2>2 DEF DocumentOf, Encodable, Listed
  <2>5. doc.edges = {e \in home.edges : EndsOf[e] \cap Listed(home) # {}} \ Unencodable
    BY <2>1, <2>2 DEF DocumentOf, Touching
  <2> QED BY <2>2, <2>3, <2>4, <2>5 DEF BehindIt, Imported
<1> QED BY <1>1, BehindInvariant, BackupInvariant, TypeCorrect, PTL
=============================================================================
