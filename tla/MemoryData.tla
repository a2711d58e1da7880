----------------------------- MODULE MemoryData -----------------------------
(***************************************************************************)
(* The data of pkg/memory: what the properties tell apart of a             *)
(* pb.MemoryNode and of a pb.MemoryEdge, and the sets of nodes and edges   *)
(* that the engine's operations pick.  The engine (MemoryEngine) and the   *)
(* graph it promises its clients (MemoryGraph) are built from these.       *)
(*                                                                         *)
(* A definition X_y, here and in the other modules, is the X of a plausible *)
(* mistake y in the code.  No specification uses it: substituted for X it  *)
(* shows that the properties would notice the mistake.                     *)
(***************************************************************************)
EXTENDS Naturals, Sequences, FiniteSets

CONSTANTS
  UserIds,      \* node IDs that callers choose
  FactIds,      \* node IDs minted by Consolidate ("fact-cons-<UnixNano>")
  EdgeIds,      \* edge IDs
  Projects,     \* non-empty project names
  Types,        \* node types other than "consolidated_fact"
  Contents,     \* the nodes (after embedding) that callers remember
  Ends,         \* the [source, target] pairs that callers connect
  Batches,      \* the edge lists that callers attach to a node
  None          \* absent: no entry, no deadline, the empty string, unlocked

NodeIds == UserIds \cup FactIds
ConsolidatedFact == "consolidated_fact"

Node == [project : Projects \cup {None},
         type    : Types \cup {ConsolidatedFact},
         validTo : Nat \cup {None}]
Edge == [source : NodeIds, target : NodeIds]

\* An edge as a caller sends it; None is a blank field.
EdgeRequest == [id     : EdgeIds \cup {None},
                source : NodeIds \cup {None},
                target : NodeIds \cup {None}]

ASSUME IdAssumption ==
  /\ UserIds \cap FactIds = {}
  /\ None \notin NodeIds \cup EdgeIds \cup Projects \cup Types
  /\ None \notin Node \cup Edge \cup Nat
  /\ ConsolidatedFact \notin Types
ASSUME InputAssumption ==
  /\ Contents \subseteq Node
  /\ Ends \subseteq Edge
  /\ Batches \subseteq Seq(EdgeRequest)

\* The two tables, in memory or in the store: None where there is no entry.
NodeTable == [NodeIds -> Node \cup {None}]
EdgeTable == [EdgeIds -> Edge \cup {None}]
NoNodes == [n \in NodeIds |-> None]
NoEdges == [e \in EdgeIds |-> None]

Stored(table) == {k \in DOMAIN table : table[k] # None}

\* An edge without an ID is left out, one with a blank end is an error.
Blank_unchecked(request) == FALSE
Blank(request) == request.source = None \/ request.target = None
EdgeOf(request) == [source |-> request.source, target |-> request.target]

\* The nodes PruneExpired removes at time t.
Expired(nodes, t) ==
  {n \in Stored(nodes) : nodes[n].validTo # None /\ nodes[n].validTo < t}

\* The nodes Consolidate merges.  None as project or as type is the empty
\* string, which matches everything.
Matching_anyProject(nodes, project, type) ==
  {n \in Stored(nodes) :
     type \in {None, nodes[n].type} /\ nodes[n].type # ConsolidatedFact}
Matching_facts(nodes, project, type) ==
  {n \in Stored(nodes) :
     project \in {None, nodes[n].project} /\ type \in {None, nodes[n].type}}
Matching(nodes, project, type) ==
  {n \in Stored(nodes) :
     /\ project \in {None, nodes[n].project}
     /\ type \in {None, nodes[n].type}
     /\ nodes[n].type # ConsolidatedFact}

\* The node it puts in their place.
FactOf(project) ==
  [project |-> project, type |-> ConsolidatedFact, validTo |-> None]

\* The edges removeConnectedEdgesLocked removes with the nodes `ids'.
Touching(edges, ids) ==
  {e \in Stored(edges) : edges[e].source \in ids \/ edges[e].target \in ids}
=============================================================================
