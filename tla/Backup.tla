------------------------------- MODULE Backup -------------------------------
(***************************************************************************)
(* The export and import commands (cmd/criteriadb/main.go): `export'       *)
(* writes what one Recall of everything gives, at most ExportLimit nodes   *)
(* with the edges that touch them, to a file, without a word about those   *)
(* that have no JSON form; `import' remembers the nodes                    *)
(* of a file and then its edges, one by one, in a database that may have   *)
(* other entries, or older and newer ones of the same IDs.                 *)
(*                                                                         *)
(* A command has its database to itself (bbolt's file lock), and can be    *)
(* cut short anywhere.  `home' is the database exported, `away' the one    *)
(* imported into.                                                          *)
(***************************************************************************)
EXTENDS Naturals, FiniteSets

CONSTANTS
  NodeIds, EdgeIds,
  EndsOf,       \* the ends of each edge
  Versions,     \* what a node can be
  Unencodable,  \* of the versions and the edges, those without a JSON form
  HomeGraphs, AwayGraphs,   \* the databases considered
  ExportLimit,  \* 10000
  None,         \* no node, no file, no command
  Unreadable    \* a file that is not all written

Graph == [nodes : [NodeIds -> Versions \cup {None}], edges : SUBSET EdgeIds]
Listed(graph) == {n \in NodeIds : graph.nodes[n] # None}

ASSUME BackupAssumption ==
  /\ IsFiniteSet(NodeIds)
  /\ EndsOf \in [EdgeIds -> SUBSET NodeIds]
  /\ HomeGraphs \subseteq Graph /\ AwayGraphs \subseteq Graph
  /\ ExportLimit \in Nat
  /\ {None, Unreadable} \cap Graph = {} /\ None \notin Versions

VARIABLES
  home, away,
  exporting,    \* the document that `export' is about to write
  file,         \* the backup file
  doc,          \* the document that `import' has read
  nodesLeft, edgesLeft,     \* of it, what is not yet imported
  failed        \* the entries it could not save

\* The variables of an import.
import == <<doc, nodesLeft, edgesLeft, failed>>
vars == <<home, away, exporting, file, import>>

\* The nodes of a database that an export can write.
Encodable(graph) == {n \in Listed(graph) : graph.nodes[n] \notin Unencodable}

\* A document has no more nodes than a Recall gives.
Document == {g \in Graph : Cardinality(Listed(g)) <= ExportLimit}

\* Files and commands hold documents, an import works on a part of its own.
TypeOK ==
  /\ home \in Graph /\ away \in Graph
  /\ exporting \in Document \cup {None}
  /\ file \in Document \cup {None, Unreadable}
  /\ doc \in Document \cup {None}
  /\ nodesLeft \subseteq NodeIds /\ edgesLeft \subseteq EdgeIds
  /\ doc # None => nodesLeft \subseteq Listed(doc) /\ edgesLeft \subseteq doc.edges
  /\ failed \subseteq NodeIds \cup EdgeIds

Init ==
  /\ home \in HomeGraphs /\ away \in AwayGraphs
  /\ exporting = None /\ file = None
  /\ doc = None /\ nodesLeft = {} /\ edgesLeft = {} /\ failed = {}

-----------------------------------------------------------------------------
(* runExport.                                                              *)

\* Which nodes a Recall of everything leaves out, if it must, is chance: their
\* scores are equal.
Recalled_uncut(graph) == {Listed(graph)}
Recalled(graph) ==
  {list \in SUBSET Listed(graph) :
     IF Cardinality(Listed(graph)) <= ExportLimit
     THEN list = Listed(graph) ELSE Cardinality(list) = ExportLimit}

Touching(graph, list) == {e \in graph.edges : EndsOf[e] \cap list # {}}

DocumentOf_either(graph, list) ==
  LET written == list \cap Encodable(graph)
  IN [nodes |-> [n \in NodeIds |-> IF n \in written THEN graph.nodes[n] ELSE None],
      edges |-> Touching(graph, written) \ Unencodable]

\* A node or an edge that protojson cannot marshal (a number that is not
\* finite, a time out of range) is passed over; the edges of such a node are
\* not.
DocumentOf(graph, list) ==
  [nodes |-> [n \in NodeIds |->
                IF n \in list \cap Encodable(graph) THEN graph.nodes[n] ELSE None],
   edges |-> Touching(graph, list) \ Unencodable]

\* os.WriteFile empties the file of an earlier export first.
Export ==
  /\ exporting = None
  /\ \E list \in Recalled(home) : exporting' = DocumentOf(home, list)
  /\ file' = Unreadable
  /\ UNCHANGED <<home, away, import>>

ExportReturns ==
  /\ exporting # None
  /\ file' = exporting
  /\ exporting' = None
  /\ UNCHANGED <<home, away, import>>

\* The process ends, or the write fails.
ExportStops ==
  /\ exporting # None
  /\ exporting' = None
  /\ UNCHANGED <<home, away, file, import>>

-----------------------------------------------------------------------------
(* runImport.                                                              *)

\* An unreadable file is refused.
Import ==
  /\ doc = None
  /\ file \notin {None, Unreadable}
  /\ doc' = file
  /\ nodesLeft' = Listed(file) /\ edgesLeft' = file.edges
  /\ failed' = {}
  /\ UNCHANGED <<home, away, exporting, file>>

ImportNode_ifAbsent(n) ==
  /\ doc # None /\ n \in nodesLeft
  /\ away' = IF away.nodes[n] = None THEN [away EXCEPT !.nodes[n] = doc.nodes[n]] ELSE away
  /\ nodesLeft' = nodesLeft \ {n}
  /\ UNCHANGED <<home, exporting, file, doc, edgesLeft, failed>>

\* Remember without edges: the node replaces one of the same ID.
ImportNode(n) ==
  /\ doc # None /\ n \in nodesLeft
  /\ away' = [away EXCEPT !.nodes[n] = doc.nodes[n]]
  /\ nodesLeft' = nodesLeft \ {n}
  /\ UNCHANGED <<home, exporting, file, doc, edgesLeft, failed>>

ImportEdge_early(e) ==
  /\ doc # None /\ e \in edgesLeft
  /\ away' = [away EXCEPT !.edges = @ \cup {e}]
  /\ edgesLeft' = edgesLeft \ {e}
  /\ UNCHANGED <<home, exporting, file, doc, nodesLeft, failed>>

\* RememberEdge, when the loop over the nodes is over.
ImportEdge(e) ==
  /\ doc # None /\ nodesLeft = {} /\ e \in edgesLeft
  /\ away' = [away EXCEPT !.edges = @ \cup {e}]
  /\ edgesLeft' = edgesLeft \ {e}
  /\ UNCHANGED <<home, exporting, file, doc, nodesLeft, failed>>

\* The store refuses the entry; the command counts it as imported and goes on.
ImportNodeFails(n) ==
  /\ doc # None /\ n \in nodesLeft
  /\ nodesLeft' = nodesLeft \ {n}
  /\ failed' = failed \cup {n}
  /\ UNCHANGED <<home, away, exporting, file, doc, edgesLeft>>

ImportEdgeFails(e) ==
  /\ doc # None /\ nodesLeft = {} /\ e \in edgesLeft
  /\ edgesLeft' = edgesLeft \ {e}
  /\ failed' = failed \cup {e}
  /\ UNCHANGED <<home, away, exporting, file, doc, nodesLeft>>

\* The command is through, or its process ends before.
ImportEnds ==
  /\ doc # None
  /\ doc' = None /\ nodesLeft' = {} /\ edgesLeft' = {} /\ failed' = {}
  /\ UNCHANGED <<home, away, exporting, file>>

-----------------------------------------------------------------------------
(* What others do with the database between two imports.                   *)

Remember(n) == \E v \in Versions :
  /\ doc = None
  /\ away' = [away EXCEPT !.nodes[n] = v]
  /\ UNCHANGED <<home, exporting, file, import>>

\* PruneExpired or Consolidate: a node, and the edges that touch it.
Remove(n) ==
  /\ doc = None
  /\ away' = [nodes |-> [away.nodes EXCEPT ![n] = None],
              edges |-> away.edges \ Touching(away, {n})]
  /\ UNCHANGED <<home, exporting, file, import>>

Next ==
  \/ Export \/ ExportReturns \/ ExportStops
  \/ Import \/ ImportEnds
  \/ \E n \in NodeIds :
       ImportNode(n) \/ ImportNodeFails(n) \/ Remember(n) \/ Remove(n)
  \/ \E e \in EdgeIds : ImportEdge(e) \/ ImportEdgeFails(e)

Spec == Init /\ [][Next]_vars

-----------------------------------------------------------------------------
(* What a backup is good for.                                              *)

Imported == doc # None /\ nodesLeft = {} /\ edgesLeft = {}

\* Once an import is through, however many were cut short before it, and
\* whatever became of the database in between, an entry of the file is missing
\* or differs only if saving it failed just now.
MissingMeansFailed ==
  Imported =>
    /\ \A n \in Listed(doc) \ failed : away.nodes[n] = doc.nodes[n]
    /\ doc.edges \ failed \subseteq away.edges

\* If moreover nothing failed and the database exported had no more nodes than
\* one export takes, all of it that has a JSON form is there, but for edges
\* without any end: an edge that does is there even if a node it leads to had
\* none.  What has no JSON form is lost, and neither command says so.
HomeIsRestored ==
  Imported /\ failed = {} /\ Cardinality(Listed(home)) <= ExportLimit =>
    /\ \A n \in Encodable(home) : away.nodes[n] = home.nodes[n]
    /\ \A e \in home.edges \ Unencodable :
         EndsOf[e] \cap Listed(home) # {} => e \in away.edges

\* An import that is cut short leaves no imported edge without a node which
\* the file has for it, unless that node could not be saved.
NodesComeFirst ==
  doc # None =>
    \A e \in doc.edges \ (edgesLeft \cup failed) :
      \A n \in (EndsOf[e] \cap Listed(doc)) \ failed : away.nodes[n] # None
=============================================================================
