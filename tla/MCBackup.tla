------------------------------ MODULE MCBackup -------------------------------
(* Backup with three nodes, of which an export takes two, and three edges: *)
(* between two nodes, at one node, and to a node that need not exist.  A   *)
(* node may be of a version that has no JSON form, and one edge has none.  *)
EXTENDS Backup

CONSTANTS a, b, c, x, y, z, old, odd, new

MCNodeIds == {a, b, c}
MCEdgeIds == {x, y, z}
MCEndsOf == [e \in MCEdgeIds |-> CASE e = x -> {a, b} [] e = y -> {b} [] e = z -> {b, c}]
MCVersions == {old, odd, new}
MCUnencodable == {odd, z}

\* Every graph of old and odd nodes; an empty database, and one with other entries.
MCHomeGraphs == [nodes : [MCNodeIds -> {old, odd, None}], edges : SUBSET MCEdgeIds]
MCAwayGraphs ==
  {[nodes |-> [n \in MCNodeIds |-> None], edges |-> {}],
   [nodes |-> [n \in MCNodeIds |-> IF n = a THEN new ELSE None], edges |-> {x}]}
=============================================================================
