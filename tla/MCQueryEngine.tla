---------------------------- MODULE MCQueryEngine ----------------------------
(* QueryEngine on small instances.  For the walks, the parts of one graph:  *)
(* a ring of five IDs, so that there is a short and a long way round and,   *)
(* where the ring is broken, a node out of the reach of HopCap = 3; a       *)
(* self-loop, a link of another relation and one of none.  One memory for   *)
(* each of the other filters, three for the ranking.                        *)
EXTENDS QueryEngine, TLC

CONSTANTS a, b, c, d, e, calls, uses

MCIds == {a, b, c, d, e}
MCRelations == {calls, uses}

LinkOf(source, target, relation) ==
  [source |-> source, target |-> target, relation |-> relation]
MCLinks ==
  {LinkOf(a, b, calls), LinkOf(c, b, calls), LinkOf(c, d, calls),
   LinkOf(d, e, calls), LinkOf(e, a, calls),
   LinkOf(a, a, calls), LinkOf(a, c, uses), LinkOf(b, c, None)}

CONSTANTS u, w, x, y, north, east, past, future

\* East is the direction of the queries, v a vector of another dimension.
CONSTANT v
MCVectors == {north, east, v}
MCCosine ==
  [pair \in {north, east} \X {north, east} |->
     IF pair[1] = pair[2] THEN Unit ELSE -2]

Plain == [scope |-> None, temporal |-> None, digital |-> None, physical |-> None,
          words |-> {}, vector |-> None]
Ask == [text |-> None, embedding |-> None, disableVectors |-> FALSE, scope |-> None,
        temporal |-> None, location |-> None, facts |-> None, limit |-> 0]

\* The engine has the memories `mems' at some IDs.
Engine(mems, links, labelled, embedder, request_) ==
  [nodes    |-> [n \in Ids |-> IF n \in DOMAIN mems THEN mems[n] ELSE None],
   links    |-> links, labelled |-> labelled, embedder |-> embedder, request |-> request_]
Single(mem, request_) == Engine([n \in {a} |-> mem], {}, {}, None, request_)

\* Fact filters: labelled nodes exist, others but a do not.
FactQueries ==
  {Engine([n \in {a} \cup labelled |-> Plain], links, labelled, None,
          [Ask EXCEPT !.facts = f]) :
     links \in SUBSET MCLinks, labelled \in {{}, {c}, {d}, {e}},
     f \in [wanted    : BOOLEAN,
            relations : {{}, {None}, {calls}, {calls, None}},
            maxHops   : MaxHops]}

Scoped ==
  {[Plain EXCEPT !.scope = s] :
     s \in [creator : {None, x, y}, visibility : {"private", "workflow", "global"}] \cup {None}}
ScopeRequests ==
  {[Ask EXCEPT !.scope = f] :
     f \in [caller : {None, x}, targets : SUBSET {"*", "self", y, None},
            workflowShared : BOOLEAN] \cup {None}}

Timed ==
  {[Plain EXCEPT !.temporal = t] :
     t \in [tense : {past, future}, at : {None, 0, 4}, from : {None, 1}, to : {None, 3}]
           \cup {None}}
TimeRequests ==
  {[Ask EXCEPT !.temporal = q] :
     q \in [tense : {None, past}, validAt : {None, 0, 1, 3, 4}, start : {None, 1, 4},
            end : {None, 0, 3}] \cup {None}}

Placed ==
  {[Plain EXCEPT !.digital = dl, !.physical = pl] :
     dl \in [project : {None, x}, folder : {<<>>, <<x, y>>}, machine : {x, y}] \cup {None},
     pl \in {None, [venue |-> <<x, y>>]}}
PlaceRequests ==
  {[Ask EXCEPT !.location = q] :
     q \in [project : {None, x}, folder : {None, <<x>>, <<y>>}, machine : {None, x},
            venue : {None, <<y>>, <<y, x>>}] \cup {None}}

\* For the ranking: words, vectors and distances in time.
Near(t) == [tense |-> past, at |-> t, from |-> None, to |-> None]
Ranked ==
  <<[Plain EXCEPT !.words = {u}, !.vector = east, !.temporal = Near(0)],
    [Plain EXCEPT !.words = {u, w}, !.temporal = Near(1)],
    [Plain EXCEPT !.vector = north, !.temporal = Near(1)],
    [Plain EXCEPT !.words = {w}, !.vector = v, !.temporal = Near(9)],
    [Plain EXCEPT !.words = {u}, !.vector = Ragged]>>
RankRequests ==
  {[Ask EXCEPT !.text = t, !.embedding = em, !.disableVectors = off, !.limit = k,
               !.temporal = time] :
     t \in {None, Blank, {}, {u}}, em \in {None, east, Ragged}, off \in BOOLEAN,
     k \in {-1, 0, 1},
     time \in {None, [tense |-> None, validAt |-> 0, start |-> None, end |-> None]}}
RankQueries ==
  {Engine((a :> Ranked[i]) @@ (b :> Ranked[j]) @@ (c :> Ranked[k]), {}, {}, embedder, r) :
     i \in 1 .. 5, j \in {1, 2, 3}, k \in {1, 4, 5}, embedder \in {None, east}, r \in RankRequests}

\* Requests that say nothing of scopes, as fact_lookup's.
MCUnscopedQueries == [scope |-> {Single(mem, Ask) : mem \in Scoped}]

MCQueries ==
  [facts |-> FactQueries, ranking |-> RankQueries,
   scope |-> {Single(mem, r) : mem \in Scoped, r \in ScopeRequests},
   time  |-> {Single(mem, r) : mem \in Timed, r \in TimeRequests},
   place |-> {Single(mem, r) : mem \in Placed, r \in PlaceRequests}]
=============================================================================
