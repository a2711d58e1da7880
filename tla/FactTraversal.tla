---------------------------- MODULE FactTraversal ---------------------------
(***************************************************************************)
(* matchesFactFilter (pkg/memory/query.go): does a node satisfy the fact   *)
(* filter of a query?  A breadth-first walk from the node over the edges   *)
(* of the allowed relations, in either direction, that stops at the first  *)
(* node that counts and goes no further than max_hops.                     *)
(*                                                                         *)
(* One step handles one item of the queue.  The order in which the         *)
(* neighbours of a node join the queue is that of a Go map: any.           *)
(* A definition X_y is the X of a plausible mistake y, as in MemoryData.   *)
(***************************************************************************)
EXTENDS Integers, Sequences, FiniteSets

CONSTANTS
  Ids,        \* IDs, of existing nodes and of the dangling ends of edges
  Relations,  \* relation names, trimmed and in upper case
  HopCap,     \* the most hops a filter can ask for (10)
  MaxHops,    \* the values of max_hops in the filters
  None        \* a blank relation; no verdict yet

Link == [source : Ids, target : Ids, relation : Relations \cup {None}]

\* wanted: is there a target label?  relations: relation_types, as sent.
Filter == [wanted    : BOOLEAN,
           relations : SUBSET (Relations \cup {None}),
           maxHops   : MaxHops]

\* labelled: the IDs whose node exists and has the target in its label.
Call == [links : SUBSET Link, labelled : SUBSET Ids, start : Ids, filter : Filter]

Item == [id : Ids, hop : Nat]

ASSUME TraversalAssumption ==
  /\ IsFiniteSet(Ids)
  /\ HopCap \in Nat \ {0}
  /\ MaxHops \subseteq Int
  /\ None \notin Relations \cup BOOLEAN

VARIABLES
  call,       \* the arguments
  queue, visited,
  verdict     \* the value returned, None while the walk is going on

vars == <<call, queue, visited, verdict>>
filter == call.filter

\* Blank relation types are dropped; with none left every relation will do.
Allowed(link) ==
  LET named == filter.relations \ {None}
  IN  named = {} \/ link.relation \in named

Hops_uncapped == IF filter.maxHops <= 0 THEN 1 ELSE filter.maxHops
Hops ==
  CASE filter.maxHops <= 0     -> 1
    [] filter.maxHops > HopCap -> HopCap
    [] OTHER                   -> filter.maxHops

Linked(m, n) ==
  \E link \in call.links : Allowed(link) /\ {link.source, link.target} = {m, n}

\* A reached node counts: it bears the target label, or none is wanted.
Counts(n) == filter.wanted => n \in call.labelled

Trivial(f) == ~f.wanted /\ f.relations = {}

\* Every item is of the graph, and no ID is in the queue twice.
TypeOK ==
  /\ call \in Call
  /\ queue \in Seq(Item)
  /\ \A i, j \in DOMAIN queue : queue[i].id = queue[j].id => i = j
  /\ visited \subseteq Ids
  /\ verdict \in BOOLEAN \cup {None}

curr == Head(queue)
Walking == verdict = None /\ queue # <<>>
Found == curr.hop > 0 /\ Counts(curr.id)

Match ==
  /\ Walking /\ Found
  /\ verdict' = TRUE
  /\ queue' = Tail(queue)
  /\ UNCHANGED <<call, visited>>

\* continue: the item is as far as the filter goes.
AtLimit == curr.hop >= Hops

TooFar_noPop == Walking /\ ~Found /\ AtLimit /\ UNCHANGED vars
TooFar ==
  /\ Walking /\ ~Found
  /\ AtLimit
  /\ queue' = Tail(queue)
  /\ UNCHANGED <<call, visited, verdict>>

\* The orders in which the members of S can be listed.
Orders(S) ==
  {s \in [1 .. Cardinality(S) -> S] : \A i, j \in DOMAIN s : s[i] = s[j] => i = j}

Fresh == {n \in Ids : Linked(curr.id, n)} \ visited

\* They join the queue one hop further, at its end, and are visited at once.
Items(order) == [i \in DOMAIN order |-> [id |-> order[i], hop |-> curr.hop + 1]]
Joined_stack(rest, items) == items \o rest
Joined(rest, items) == rest \o items
Marked_late == visited \cup {curr.id}
Marked == visited \cup Fresh

Expand ==
  /\ Walking /\ ~Found
  /\ ~AtLimit
  /\ \E order \in Orders(Fresh) : queue' = Joined(Tail(queue), Items(order))
  /\ visited' = Marked
  /\ UNCHANGED <<call, verdict>>

Exhausted ==
  /\ verdict = None /\ queue = <<>>
  /\ verdict' = FALSE
  /\ UNCHANGED <<call, queue, visited>>

Next == Match \/ TooFar \/ Expand \/ Exhausted

-----------------------------------------------------------------------------
(* What the filter means, without a walk.                                  *)

\* There is a walk of k allowed links from the start to n.
Path(k, n) ==
  \E p \in [0 .. k -> Ids] :
    /\ p[0] = call.start /\ p[k] = n
    /\ \A i \in 0 .. k - 1 : Linked(p[i], p[i + 1])

Satisfied ==
  \/ ~filter.wanted /\ filter.relations = {}
  \/ \E n \in Ids \ {call.start}, k \in 1 .. HopCap :
       /\ k = 1 \/ k <= filter.maxHops
       /\ ~filter.wanted \/ n \in call.labelled
       /\ Path(k, n)

\* The verdict is TRUE if some other node that counts is at most max_hops
\* links away (at most HopCap, at least 1), and FALSE if none is.
VerdictIsReachability == verdict # None => (verdict <=> Satisfied)

\* An item carries the length of a shortest way to it, so that no node is cut
\* off at max_hops for having been met along a longer one.
HopIsDistance ==
  \A i \in DOMAIN queue :
    /\ Path(queue[i].hop, queue[i].id)
    /\ \A k \in 0 .. queue[i].hop - 1 : ~Path(k, queue[i].id)
=============================================================================
