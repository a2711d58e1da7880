--------------------------- MODULE MCMemoryEngine ---------------------------
(* MemoryEngine on a small instance.                                       *)
EXTENDS MemoryEngine, TLC

CONSTANTS a, b, d, f1, f2, x, y, p, event, c1, c2, b1

MCUserIds == {a, b}
MCFactIds == {f1}

\* One more node, so that a removal can be cut short between two others,
\* and a second fact for the second consolidation.
MCUserIds3 == {a, b, d}
MCFactIds2 == {f1, f2}
MCEdgeIds == {x, y}
MCProjects == {p}
MCTypes == {event}

\* An event with or without a deadline (MaxTime = 1: 0 comes to pass, 1 does
\* not), and one that is in no project.
Event(validTo) == [project |-> p, type |-> event, validTo |-> validTo]
MCContents3 ==
  {Event(None), Event(0),
   [project |-> None, type |-> event, validTo |-> 1]}

MCEnds == {[source |-> a, target |-> b]}

Request(id, source, target) == [id |-> id, source |-> source, target |-> target]
MCBatches == {<< >>,
              <<Request(None, a, b), Request(x, b, a)>>,
              <<Request(x, a, a), Request(y, a, None)>>}

\* With failures of the store: one node content (without a deadline), one
\* edge with two values, and a batch that can end on every path.
MCContents1 == {Event(None)}
MCEdgeIds1 == {x}
MCBatches1 ==
  {<< >>, <<Request(None, a, b), Request(x, b, a), Request(x, a, None)>>}

Symmetric == Permutations({c1, c2})
=============================================================================
