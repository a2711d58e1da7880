------------------------------ MODULE MCServer ------------------------------
(* Server with three nodes, of which an earlier command may have stored    *)
(* one and the dashboard lists two, two calls, and an edge that can come   *)
(* before the node it leads to.  Of the Recalls, one asks for one node     *)
(* only; the other leaves the limit to the server and has a filter that    *)
(* blue nodes may meet, or not.  No Remember is of a blank node: it fails  *)
(* like one that the engine could not save at all.                         *)
EXTENDS Server

CONSTANTS a, b, c, x, red, blue

MCNodeIds == {a, b, c}
MCEdgeIds == {x}
MCEarlierNodes == {{}, {c}}
MCEndsOf == [e \in MCEdgeIds |-> {a, b}]

MCContents == {red, blue}
MCEarlierContent == [n \in MCNodeIds |-> red]

Remembering(node, color, edges_) ==
  [method |-> "Remember", node |-> node, content |-> color, edges |-> edges_,
   meets |-> {}, mayMeet |-> {}, limit |-> 0]
Recalling(colors, unsure, limit) ==
  [method |-> "Recall", node |-> None, content |-> red, edges |-> {},
   meets |-> colors, mayMeet |-> unsure, limit |-> limit]
MCRequests ==
  {Remembering(a, red, {x}), Remembering(b, blue, {}),
   Recalling({red}, {blue}, 0), Recalling({red, blue}, {}, 1)}
=============================================================================
