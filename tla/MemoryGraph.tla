---------------------------- MODULE MemoryGraph -----------------------------
(***************************************************************************)
(* What pkg/memory's Engine promises its clients: one property graph, on   *)
(* which every operation takes effect in a single step.  Closing and       *)
(* reopening the engine is no step at all.                                 *)
(*                                                                         *)
(* An operation that returns an error may have been carried out in part:   *)
(* Remember keeps the node and the edges before the one at fault.  What    *)
(* the end of the process may leave of a removal is in Interrupted.        *)
(***************************************************************************)
EXTENDS MemoryData

VARIABLES nodes, edges, now
gvars == <<nodes, edges, now>>

Init ==
  /\ nodes = NoNodes
  /\ edges = NoEdges
  /\ now = 0

\* The edges once the requests of a batch are attached: of two requests with
\* one ID the later one counts.
Attached(batch) ==
  [e \in EdgeIds |->
     LET requests == {i \in DOMAIN batch : batch[i].id = e}
     IN  IF requests = {} THEN edges[e]
         ELSE EdgeOf(batch[CHOOSE i \in requests : \A j \in requests : j <= i])]

Attachable(batch) ==
  \A i \in DOMAIN batch : batch[i].id = None \/ ~Blank(batch[i])

Remember(n, v, batch) ==
  /\ Attachable(batch)
  /\ nodes' = [nodes EXCEPT ![n] = v]
  /\ edges' = Attached(batch)
  /\ UNCHANGED now

RememberPartly(n, v, batch) ==
  \E k \in 0 .. Len(batch) : Remember(n, v, SubSeq(batch, 1, k))

RememberEdge(e, x) ==
  /\ edges' = [edges EXCEPT ![e] = x]
  /\ UNCHANGED <<nodes, now>>

\* Nodes never go without the edges that touch them.
Without(table, keys) == [k \in DOMAIN table |-> IF k \in keys THEN None ELSE table[k]]

Prune(t) ==
  /\ nodes' = Without(nodes, Expired(nodes, t))
  /\ edges' = Without(edges, Touching(edges, Expired(nodes, t)))
  /\ UNCHANGED now

Consolidate(project, type, f) ==
  LET merged == Matching(nodes, project, type)
  IN  /\ Cardinality(merged) >= 2
      /\ nodes[f] = None
      /\ nodes' = [Without(nodes, merged) EXCEPT ![f] = FactOf(project)]
      /\ edges' = Without(edges, Touching(edges, merged))
      /\ UNCHANGED now

Tick ==
  /\ now' = now + 1
  /\ UNCHANGED <<nodes, edges>>

Next ==
  \/ \E n \in UserIds, v \in Contents, batch \in Batches :
       RememberPartly(n, v, batch)
  \/ \E e \in EdgeIds, x \in Ends : RememberEdge(e, x)
  \/ \E t \in 0 .. now : Prune(t)
  \/ \E project \in Projects \cup {None}, type \in Types \cup {None},
        f \in FactIds : Consolidate(project, type, f)
  \/ Tick

Spec == Init /\ [][Next]_gvars

-----------------------------------------------------------------------------
(* What a removal cut short leaves: some of its nodes gone and every edge  *)
(* still there, or all its nodes gone and some of their edges.             *)

PartOf(doomed, fact) ==
  /\ \/ \E gone \in SUBSET doomed :
          nodes' = Without(fact, gone) /\ UNCHANGED edges
     \/ /\ nodes' = Without(fact, doomed)
        /\ \E lost \in SUBSET Touching(edges, doomed) :
             edges' = Without(edges, lost)
  /\ UNCHANGED now

PruneCut(t) == PartOf(Expired(nodes, t), nodes)

ConsolidateCut(project, type, f) ==
  LET merged == Matching(nodes, project, type)
  IN  /\ Cardinality(merged) >= 2
      /\ nodes[f] = None
      /\ PartOf(merged, [nodes EXCEPT ![f] = FactOf(project)])

Interrupted ==
  \/ \E t \in 0 .. now : PruneCut(t)
  \/ \E project \in Projects \cup {None}, type \in Types \cup {None},
        f \in FactIds : ConsolidateCut(project, type, f)

CrashSpec == Init /\ [][Next \/ Interrupted]_gvars
=============================================================================
