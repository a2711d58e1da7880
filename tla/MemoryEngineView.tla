-------------------------- MODULE MemoryEngineView --------------------------
(***************************************************************************)
(* What the clients of a MemoryEngine can tell of it: the two maps, which  *)
(* nobody can read while an operation holds the write lock, and after the  *)
(* end of the process what the next NewMemoryEngine will load.  `view' is  *)
(* a history variable; it constrains nothing.                              *)
(***************************************************************************)
EXTENDS MemoryEngine

VARIABLE view

See ==
  view' = IF status' = "down"
          THEN [nodes |-> diskNodes', edges |-> diskEdges']
          ELSE IF mu' = None
               THEN [nodes |-> nodes', edges |-> edges']
               ELSE view

ViewInit == Init /\ view = [nodes |-> nodes, edges |-> edges]
ViewSpec == ViewInit /\ [][Next /\ See]_<<vars, view>>

Graph == INSTANCE MemoryGraph WITH nodes <- view.nodes, edges <- view.edges

\* Every operation of the engine is a single step of the graph its clients
\* share, however its steps interleave with those of other callers, and
\* closing and reopening the engine is invisible.
RefinesGraph == Graph!Spec

\* The same if the process can also stop at any point: all that can be seen
\* of it is a removal that was cut short.
RefinesGraphUpToCrash == Graph!CrashSpec

\* A node is never taken out of the graph without its edges: an edge that had
\* both its ends does not lose one, and the same edge stay.
Attached(e, graph) ==
  /\ graph.edges[e] # None
  /\ graph.nodes[graph.edges[e].source] # None
  /\ graph.nodes[graph.edges[e].target] # None

NoEdgeIsOrphaned ==
  [][\A e \in EdgeIds :
       Attached(e, view) /\ view'.edges[e] = view.edges[e] => Attached(e, view')]_view
=============================================================================
