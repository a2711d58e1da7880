---------------------------- MODULE MCSharedStore ----------------------------
(* SharedStore with two engines, two memories, two facts and one edge ID.  *)
EXTENDS SharedStore, TLC

CONSTANTS a, b, f1, f2, x, p, event, e1, e2

MCUserIds == {a, b}
MCFactIds == {f1, f2}
MCEdgeIds == {x}
MCProjects == {p}
MCTypes == {event}

\* MaxTime = 1: the deadline 0 comes to pass.
Event(project_, validTo) == [project |-> project_, type |-> event, validTo |-> validTo]
MCContents == {Event(p, None), Event(None, 0)}

MCEnds == {[source |-> b, target |-> a]}
Request(id, source, target) == [id |-> id, source |-> source, target |-> target]
MCBatches == {<<Request(None, a, b), Request(x, b, a)>>, <<Request(x, a, None)>>}

Symmetric == Permutations({e1, e2}) \cup Permutations({f1, f2})
=============================================================================
