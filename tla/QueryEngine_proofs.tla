-------------------------- MODULE QueryEngine_proofs --------------------------
(***************************************************************************)
(* Theorems about QueryEngine, for any memories, requests and limits: the  *)
(* walks find what can be reached, by the shortest way; the reply is the   *)
(* best of what matches; and no private memory is given away.              *)
(***************************************************************************)
EXTENDS QueryEngine, FiniteSetTheorems, FunctionTheorems, WellFoundedInduction, TLAPS

USE TraversalAssumption, QueryAssumption

-----------------------------------------------------------------------------
(* Types.                                                                  *)

\* What waits in the queue has been visited; a query is one of Queries.
WalkInv ==
  /\ TypeOK
  /\ \A i \in DOMAIN queue : queue[i].id \in visited
  /\ query.links \subseteq Link /\ query.labelled \subseteq Ids
  /\ request.facts \in Filter \cup {None} /\ request.limit \in Int

LEMMA NoCallType == NoCall \in Call
<1>1. (CHOOSE n \in Ids : TRUE) \in Ids /\ (CHOOSE k \in MaxHops : TRUE) \in MaxHops
  OBVIOUS
<1> QED BY <1>1 DEF NoCall, Call, Filter

LEMMA EmptyQueue ==
  <<>> \in Seq(Item) /\ DOMAIN <<>> = {}
OBVIOUS

LEMMA WalkInit == RecallInit => WalkInv
<1> SUFFICES ASSUME RecallInit PROVE WalkInv
  OBVIOUS
<1>1. PICK kind \in DOMAIN Queries : query \in Queries[kind]
  BY DEF RecallInit
<1>2. /\ query.links \subseteq Link /\ query.labelled \subseteq Ids
      /\ request.facts \in Filter \cup {None} /\ request.limit \in Int
  BY <1>1 DEF request
<1>3. TypeOK /\ queue = <<>>
  BY NoCallType, EmptyQueue DEF RecallInit, NoWalk, TypeOK
<1> QED BY <1>2, <1>3 DEF WalkInv

\* The rest of a queue is as good as the queue.
LEMMA TailOfQueue ==
  ASSUME WalkInv, queue # <<>>
  PROVE  /\ Tail(queue) \in Seq(Item)
         /\ DOMAIN Tail(queue) = 1 .. Len(queue) - 1
         /\ \A i \in DOMAIN Tail(queue) : i + 1 \in DOMAIN queue /\ Tail(queue)[i] = queue[i + 1]
BY DEF WalkInv, TypeOK

\* An order lists every member, once.
LEMMA OrderIsComplete ==
  ASSUME NEW S, IsFiniteSet(S), NEW s \in Orders(S)
  PROVE  /\ Cardinality(S) \in Nat
         /\ s \in [1 .. Cardinality(S) -> S]
         /\ \A i, j \in 1 .. Cardinality(S) : s[i] = s[j] => i = j
         /\ \A x \in S : \E i \in 1 .. Cardinality(S) : s[i] = x
<1> DEFINE k == Cardinality(S)
<1>1. k \in Nat /\ k = Cardinality(S)
  BY FS_CardinalityType
<1>2. s \in [1 .. k -> S] /\ \A i, j \in 1 .. k : s[i] = s[j] => i = j
  BY DEF Orders
<1> HIDE DEF k
<1>3. s \in Injection(1 .. k, S)
  BY <1>2, Fun_IsInj
<1>4. IsFiniteSet(1 .. k) /\ Cardinality(1 .. k) = k
  BY <1>1, FS_Interval
<1>5. s \in Surjection(1 .. k, S)
  <2>1. Cardinality(1 .. k) = Cardinality(S) <=> s \in Surjection(1 .. k, S)
    BY <1>3, FS_Injection
  <2> QED BY <1>1, <1>4, <2>1, Zenon
<1>6. \A x \in S : \E i \in 1 .. k : s[i] = x
  BY <1>5 DEF Surjection
<1> QED BY <1>1, <1>2, <1>6

LEMMA Concatenation ==
  ASSUME NEW T, NEW a \in Seq(T), NEW b \in Seq(T)
  PROVE  /\ a \o b \in Seq(T) /\ Len(a \o b) = Len(a) + Len(b)
         /\ \A i \in 1 .. Len(a) : (a \o b)[i] = a[i]
         /\ \A i \in Len(a) + 1 .. Len(a) + Len(b) : (a \o b)[i] = b[i - Len(a)]
OBVIOUS

\* Expand replaces the head of the queue by its new neighbours, at the end.
LEMMA ExpandShape ==
  ASSUME TypeOK, Expand
  PROVE  /\ queue' \in Seq(Item)
         /\ \A i \in 1 .. Len(queue) - 1 :
              i \in DOMAIN queue' /\ i + 1 \in DOMAIN queue /\ queue'[i] = queue[i + 1]
         /\ \A i \in DOMAIN queue' : i >= Len(queue) =>
              queue'[i].id \in Fresh /\ queue'[i].hop = curr.hop + 1
         /\ \A i, j \in DOMAIN queue' :
              i >= Len(queue) /\ j >= Len(queue) /\ queue'[i].id = queue'[j].id => i = j
         /\ \A n \in Fresh : \E i \in DOMAIN queue' : queue'[i].id = n
<1>1. PICK order \in Orders(Fresh) : queue' = Tail(queue) \o Items(order)
  BY DEF Expand, Joined
<1>2. queue # <<>> /\ queue \in Seq(Item)
  BY DEF Expand, Walking, TypeOK
<1>3. curr \in Item
  BY <1>2 DEF curr
<1>4. IsFiniteSet(Fresh)
  BY FS_Subset DEF Fresh
<1> DEFINE k == Cardinality(Fresh)
           rest == Tail(queue)
           items == Items(order)
<1>5. /\ k \in Nat /\ order \in [1 .. k -> Fresh]
      /\ \A i, j \in 1 .. k : order[i] = order[j] => i = j
      /\ \A n \in Fresh : \E i \in 1 .. k : order[i] = n
  BY <1>1, <1>4, OrderIsComplete
<1>6. /\ items \in Seq(Item) /\ Len(items) = k
      /\ \A i \in 1 .. k : items[i].id = order[i] /\ items[i].hop = curr.hop + 1
  <2>1. items = [i \in 1 .. k |-> [id |-> order[i], hop |-> curr.hop + 1]]
    BY <1>5 DEF Items
  <2>2. \A i \in 1 .. k : [id |-> order[i], hop |-> curr.hop + 1] \in Item
    BY <1>3, <1>5 DEF Item, Fresh
  <2> QED BY <1>5, <2>1, <2>2
<1>7. /\ rest \in Seq(Item) /\ Len(rest) = Len(queue) - 1 /\ Len(queue) \in Nat \ {0}
      /\ \A i \in 1 .. Len(rest) : i + 1 \in DOMAIN queue /\ rest[i] = queue[i + 1]
  BY <1>2
<1> HIDE DEF k, rest, items
<1>8. queue' = rest \o items
  BY <1>1 DEF rest, items
<1>9. /\ rest \o items \in Seq(Item) /\ Len(rest \o items) = Len(rest) + Len(items)
      /\ \A i \in 1 .. Len(rest) : (rest \o items)[i] = rest[i]
      /\ \A i \in Len(rest) + 1 .. Len(rest) + Len(items) :
           (rest \o items)[i] = items[i - Len(rest)]
  <2>1. rest \in Seq(Item) /\ items \in Seq(Item)
    BY <1>6, <1>7
  <2> QED BY <2>1, Concatenation
<1>10. queue' \in Seq(Item) /\ Len(queue') = Len(rest) + k /\ DOMAIN queue' = 1 .. Len(rest) + k
  BY <1>6, <1>8, <1>9
<1>11. ASSUME NEW i \in 1 .. Len(queue) - 1
       PROVE  i \in DOMAIN queue' /\ i + 1 \in DOMAIN queue /\ queue'[i] = queue[i + 1]
  <2>1. i \in 1 .. Len(rest) /\ i \in DOMAIN queue'
    BY <1>5, <1>7, <1>10
  <2>2. queue'[i] = rest[i]
    BY <1>8, <1>9, <2>1
  <2> QED BY <1>7, <2>1, <2>2
<1>12. \A i \in DOMAIN queue' : i >= Len(queue) =>
         i - Len(rest) \in 1 .. k /\ queue'[i] = items[i - Len(rest)]
  BY <1>5, <1>6, <1>7, <1>8, <1>9, <1>10
<1>13. ASSUME NEW i \in DOMAIN queue', i >= Len(queue)
       PROVE  queue'[i].id \in Fresh /\ queue'[i].hop = curr.hop + 1
  BY <1>5, <1>6, <1>12, <1>13
<1>14. ASSUME NEW i \in DOMAIN queue', NEW j \in DOMAIN queue',
              i >= Len(queue), j >= Len(queue), queue'[i].id = queue'[j].id
       PROVE  i = j
  <2>1. i - Len(rest) = j - Len(rest)
    BY <1>5, <1>6, <1>12, <1>14
  <2> QED BY <1>7, <1>10, <2>1
<1>15. ASSUME NEW n \in Fresh PROVE \E i \in DOMAIN queue' : queue'[i].id = n
  <2>1. PICK i \in 1 .. k : order[i] = n
    BY <1>5
  <2>2. Len(rest) + i \in DOMAIN queue' /\ (Len(rest) + i) - Len(rest) = i /\ Len(rest) + i >= Len(queue)
    BY <1>5, <1>7, <1>10
  <2> QED BY <1>6, <1>12, <2>1, <2>2
<1> QED BY <1>10, <1>11, <1>13, <1>14, <1>15

LEMMA ExpandType ==
  ASSUME WalkInv, Expand
  PROVE  /\ queue' \in Seq(Item)
         /\ \A i, j \in DOMAIN queue' : queue'[i].id = queue'[j].id => i = j
         /\ \A i \in DOMAIN queue' : queue'[i].id \in visited'
<1>1. /\ queue' \in Seq(Item) /\ queue \in Seq(Item)
      /\ \A i \in 1 .. Len(queue) - 1 :
           i \in DOMAIN queue' /\ i + 1 \in DOMAIN queue /\ queue'[i] = queue[i + 1]
      /\ \A i \in DOMAIN queue' : i >= Len(queue) => queue'[i].id \in Fresh
      /\ \A i, j \in DOMAIN queue' :
           i >= Len(queue) /\ j >= Len(queue) /\ queue'[i].id = queue'[j].id => i = j
  BY ExpandShape DEF WalkInv, TypeOK
<1>2. visited' = visited \cup Fresh /\ Fresh \cap visited = {}
  BY DEF Expand, Marked, Fresh
<1>3. \A i \in DOMAIN queue' : i \in 1 .. Len(queue) - 1 \/ i >= Len(queue)
  BY <1>1
<1>4. \A i \in 1 .. Len(queue) - 1 : queue'[i].id \in visited
  BY <1>1 DEF WalkInv
<1>5. ASSUME NEW i \in DOMAIN queue', NEW j \in DOMAIN queue', queue'[i].id = queue'[j].id
      PROVE  i = j
  <2>1. CASE i \in 1 .. Len(queue) - 1 /\ j \in 1 .. Len(queue) - 1
    <3>1. /\ i + 1 \in DOMAIN queue /\ queue'[i] = queue[i + 1]
          /\ j + 1 \in DOMAIN queue /\ queue'[j] = queue[j + 1]
      BY <1>1, <2>1
    <3>2. i + 1 = j + 1
      BY <1>5, <3>1 DEF WalkInv, TypeOK
    <3> QED BY <2>1, <3>2
  <2>2. CASE i >= Len(queue) /\ j >= Len(queue)
    BY <1>1, <1>5, <2>2
  <2> QED BY <1>1, <1>2, <1>3, <1>4, <1>5, <2>1, <2>2
<1> QED BY <1>1, <1>2, <1>3, <1>4, <1>5

LEMMA WalkStep == WalkInv /\ [RecallNext]_recallVars => WalkInv'
<1> SUFFICES ASSUME WalkInv, [RecallNext]_recallVars PROVE WalkInv'
  OBVIOUS
<1>0. UNCHANGED <<query, walk>> => WalkInv'
  BY DEF WalkInv, TypeOK, walk, request
<1>1. ASSUME NEW n \in Ids, Skip(n) \/ Take(n) PROVE WalkInv'
  BY <1>0, <1>1 DEF Skip, Take
<1>2. ASSUME NEW n \in Ids, BeginWalk(n) PROVE WalkInv'
  <2>1. CallOf(n) \in Call
    BY <1>2 DEF BeginWalk, CallOf, Call, WalkInv
  <2>2. <<[id |-> n, hop |-> 0]>> \in Seq(Item)
    BY DEF Item
  <2> QED BY <1>2, <2>1, <2>2 DEF BeginWalk, WalkInv, TypeOK, request
<1>3. CASE Walk
  <2>0. UNCHANGED query
    BY <1>3 DEF Walk
  <2>1. ASSUME queue' = Tail(queue), queue # <<>>, verdict' \in BOOLEAN \cup {None},
               UNCHANGED <<call, visited>>
        PROVE  WalkInv'
    <3>1. /\ queue' \in Seq(Item)
          /\ \A i, j \in DOMAIN queue' : queue'[i].id = queue'[j].id => i = j
          /\ \A i \in DOMAIN queue' : queue'[i].id \in visited'
      BY <2>1, TailOfQueue DEF WalkInv, TypeOK
    <3> QED BY <2>0, <2>1, <3>1 DEF WalkInv, TypeOK, request
  <2>2. CASE Match \/ TooFar
    BY <2>1, <2>2 DEF Match, TooFar, Walking, WalkInv, TypeOK
  <2>3. CASE Expand
    <3>1. visited' \subseteq Ids
      BY <2>3 DEF Expand, Marked, Fresh, WalkInv, TypeOK
    <3> QED BY <2>0, <2>3, <3>1, ExpandType DEF Expand, WalkInv, TypeOK, request
  <2>4. CASE Exhausted
    BY <2>0, <2>4 DEF Exhausted, WalkInv, TypeOK, request
  <2> QED BY <1>3, <2>2, <2>3, <2>4 DEF Walk, Next
<1>4. CASE EndWalk
  BY <1>4, NoCallType, EmptyQueue DEF EndWalk, WalkInv, TypeOK, request
<1>5. CASE Rank BY <1>0, <1>5 DEF Rank
<1>6. CASE UNCHANGED recallVars BY <1>0, <1>6 DEF recallVars
<1> QED BY <1>1, <1>2, <1>3, <1>4, <1>5, <1>6 DEF RecallNext

\* The walks stay inside the graph, and no ID waits twice in their queue.
THEOREM TypeCorrect == RecallSpec => []TypeOK
<1>1. WalkInv => TypeOK
  BY DEF WalkInv
<1> QED BY <1>1, WalkInit, WalkStep, PTL DEF RecallSpec

-----------------------------------------------------------------------------
(* Private memories.                                                       *)

InScope(n) == MatchesScope(node(n).scope, request.scope)

\* Whatever is found, walked from or replied is in the scope of the request.
ScopeInv ==
  /\ \A result \in results : InScope(result.id)
  /\ walker # None => InScope(walker)
  /\ reply # None => \A i \in DOMAIN reply : InScope(reply[i].id)

LEMMA RankReplies ==
  ASSUME WalkInv, IsFiniteSet(results), Rank
  PROVE  \A i \in DOMAIN reply' : reply'[i] \in results
<1>1. PICK s \in Orders(results) : reply' = Cut(s)
  BY DEF Rank
<1>2. Cardinality(results) \in Nat
  BY FS_CardinalityType
<1>3. s \in Seq(results)
  BY <1>1, <1>2 DEF Orders
<1>4. Limit \in Nat
  BY DEF Limit, WalkInv
<1>5. CASE reply' = s
  BY <1>3, <1>5
<1>6. CASE Len(s) > Limit /\ reply' = SubSeq(s, 1, Limit)
  BY <1>3, <1>4, <1>6
<1> QED BY <1>1, <1>5, <1>6 DEF Cut

LEMMA ScopeStep ==
  ASSUME WalkInv, IsFiniteSet(results), ScopeInv, [RecallNext]_recallVars
  PROVE  IsFiniteSet(results') /\ ScopeInv'
<1>0. UNCHANGED query => \A n : InScope(n)' = InScope(n)
  BY DEF InScope, node, request
<1>1. ASSUME NEW n, UNCHANGED query, results' = results \cup {Result(n)}, InScope(n),
             walker' \in {walker, None}, UNCHANGED reply
      PROVE  IsFiniteSet(results') /\ ScopeInv'
  <2>1. Result(n).id = n
    BY DEF Result
  <2>2. IsFiniteSet(results')
    BY <1>1, FS_AddElement
  <2> QED BY <1>0, <1>1, <2>1, <2>2 DEF ScopeInv
<1>2. ASSUME UNCHANGED <<query, results, reply>>,
             walker' \in {walker, None} \/ InScope(walker')
      PROVE  IsFiniteSet(results') /\ ScopeInv'
  BY <1>0, <1>2 DEF ScopeInv
<1>3. ASSUME NEW n \in Ids, Skip(n) PROVE IsFiniteSet(results') /\ ScopeInv'
  BY <1>2, <1>3 DEF Skip
<1>4. ASSUME NEW n \in Ids, ~Skipped(n) PROVE InScope(n)
  BY <1>4 DEF Skipped, InScope
<1>5. ASSUME NEW n \in Ids, Take(n) PROVE IsFiniteSet(results') /\ ScopeInv'
  BY <1>1, <1>4, <1>5 DEF Take
<1>6. ASSUME NEW n \in Ids, BeginWalk(n) PROVE IsFiniteSet(results') /\ ScopeInv'
  BY <1>2, <1>4, <1>6 DEF BeginWalk
<1>7. CASE Walk BY <1>2, <1>7 DEF Walk
<1>8. CASE EndWalk
  <2>1. CASE verdict
    BY <1>1, <1>8, <2>1 DEF EndWalk, ScopeInv
  <2>2. CASE ~verdict
    BY <1>2, <1>8, <2>2 DEF EndWalk
  <2> QED BY <2>1, <2>2
<1>9. CASE Rank
  BY <1>0, <1>9, RankReplies DEF Rank, ScopeInv
<1>10. CASE UNCHANGED recallVars BY <1>2, <1>10 DEF recallVars
<1> QED BY <1>3, <1>5, <1>6, <1>7, <1>8, <1>9, <1>10 DEF RecallNext

LEMMA InScopeIsAskedFor ==
  ASSUME ScopeInv
  PROVE  PrivateIsAskedFor
<1> SUFFICES ASSUME reply # None, NEW i \in DOMAIN reply, Private(reply[i].id),
                    request.scope # None, "*" \notin request.scope.targets
             PROVE  node(reply[i].id).scope.creator
                      \in request.scope.targets \cup Creators(request.scope)
  BY DEF PrivateIsAskedFor
<1>1. MatchesScope(node(reply[i].id).scope, request.scope)
  BY DEF ScopeInv, InScope
<1> QED BY <1>1 DEF MatchesScope, InReach, Own, Private, Creators

\* In every reply, of any engine to any request, a private memory was asked for
\* as PrivateIsAskedFor says; to whom the reply goes the engine does not know.
THEOREM PrivateWhenAskedFor == RecallSpec => []PrivateIsAskedFor
<1>1. RecallInit => IsFiniteSet(results) /\ ScopeInv
  BY FS_EmptySet DEF RecallInit, ScopeInv
<1>2. WalkInv /\ IsFiniteSet(results) /\ ScopeInv /\ [RecallNext]_recallVars
        => IsFiniteSet(results)' /\ ScopeInv'
  BY ScopeStep
<1>3. ScopeInv => PrivateIsAskedFor
  BY InScopeIsAskedFor
<1> QED BY <1>1, <1>2, <1>3, WalkInit, WalkStep, PTL DEF RecallSpec

-----------------------------------------------------------------------------
(* The walk finds what can be reached, by the shortest way.                *)

\* n is k links away from the start, and no fewer.
Distance_is(k, n) == Path(k, n) /\ \A j \in 0 .. k - 1 : ~Path(j, n)

\* All that m leads to has been visited.
Closed(m) == \A n \in Ids : Linked(m, n) => n \in visited

\* m was visited and left behind: it did not count, and all its neighbours are
\* known unless it is at the limit.
Done(m) ==
  /\ m = call.start \/ ~Counts(m)
  /\ Closed(m) \/ \A k \in 0 .. Hops - 1 : ~Path(k, m)

\* The queue holds the frontier of the walk, nearest first, and no two of its
\* items are more than one hop apart.
FrontierInv ==
  /\ \A i \in DOMAIN queue : Distance_is(queue[i].hop, queue[i].id) /\ queue[i].hop <= Hops
  /\ verdict = None =>
       /\ call.start \in visited /\ ~Trivial(filter)
       /\ \A i, j \in DOMAIN queue :
            i < j => queue[i].hop <= queue[j].hop /\ queue[j].hop <= queue[i].hop + 1
       /\ \A m \in visited : Done(m) \/ \E i \in DOMAIN queue : queue[i].id = m

WalkIsRight == FrontierInv /\ VerdictIsReachability

LEMMA HopsType ==
  ASSUME TypeOK
  PROVE  /\ Hops \in 1 .. HopCap
         /\ \A k \in 1 .. HopCap : k <= Hops <=> (k = 1 \/ k <= filter.maxHops)
<1>1. filter.maxHops \in Int /\ HopCap \in Nat \ {0}
  BY DEF TypeOK, Call, Filter, filter
<1> QED BY <1>1 DEF Hops

LEMMA PathStart ==
  ASSUME TypeOK, NEW n
  PROVE  Path(0, n) <=> n = call.start
<1>1. call.start \in Ids
  BY DEF TypeOK, Call
<1>2. ASSUME n = call.start PROVE Path(0, n)
  <2> DEFINE p == [i \in 0 .. 0 |-> call.start]
  <2>1. p \in [0 .. 0 -> Ids] /\ p[0] = call.start /\ p[0] = n
    BY <1>1, <1>2
  <2>2. \A i \in 0 .. 0 - 1 : Linked(p[i], p[i + 1])
    OBVIOUS
  <2> QED BY <2>1, <2>2 DEF Path
<1>3. ASSUME Path(0, n) PROVE n = call.start
  BY <1>3 DEF Path
<1> QED BY <1>2, <1>3

\* A way can be stopped short, and a link added to it.
LEMMA PathPrefix ==
  ASSUME NEW k \in Nat, NEW p \in [0 .. k -> Ids], p[0] = call.start,
         \A i \in 0 .. k - 1 : Linked(p[i], p[i + 1]),
         NEW j \in 0 .. k
  PROVE  Path(j, p[j])
<1> DEFINE q == [i \in 0 .. j |-> p[i]]
<1>1. q \in [0 .. j -> Ids] /\ q[0] = call.start /\ q[j] = p[j]
  OBVIOUS
<1>2. \A i \in 0 .. j - 1 : Linked(q[i], q[i + 1])
  OBVIOUS
<1> QED BY <1>1, <1>2 DEF Path

LEMMA PathExtension ==
  ASSUME NEW k \in Nat, NEW m, NEW n \in Ids, Path(k, m), Linked(m, n)
  PROVE  Path(k + 1, n)
<1>1. PICK p \in [0 .. k -> Ids] :
        /\ p[0] = call.start /\ p[k] = m
        /\ \A i \in 0 .. k - 1 : Linked(p[i], p[i + 1])
  BY DEF Path
<1> DEFINE q == [i \in 0 .. k + 1 |-> IF i <= k THEN p[i] ELSE n]
<1>2. q \in [0 .. k + 1 -> Ids] /\ q[0] = call.start /\ q[k + 1] = n
  BY <1>1
<1>3. ASSUME NEW i \in 0 .. (k + 1) - 1 PROVE Linked(q[i], q[i + 1])
  <2>1. CASE i = k
    BY <1>1, <2>1
  <2>2. CASE i # k
    <3>1. i \in 0 .. k - 1 /\ q[i] = p[i] /\ q[i + 1] = p[i + 1]
      BY <2>2
    <3> QED BY <1>1, <3>1
  <2> QED BY <2>1, <2>2
<1> QED BY <1>2, <1>3 DEF Path

LEMMA LeastNumber ==
  ASSUME NEW S \in SUBSET Nat, S # {}
  PROVE  \E i \in S : \A j \in S : i <= j
<1>1. PICK i \in S : \A j \in S : <<j, i>> \notin OpToRel(<, Nat)
  BY WFMin, NatLessThanWellFounded
<1>2. ASSUME NEW j \in S PROVE i <= j
  <2>1. i \in Nat /\ j \in Nat
    OBVIOUS
  <2>2. ~(j < i)
    BY <1>1, <2>1 DEF OpToRel
  <2> QED BY <2>1, <2>2
<1> QED BY <1>2

\* While no item of the queue is nearer than d, whatever is no further than d
\* has been visited.
LEMMA Frontier ==
  ASSUME WalkInv, FrontierInv, verdict = None,
         NEW d \in 0 .. Hops, \A i \in DOMAIN queue : queue[i].hop >= d,
         NEW k \in 0 .. d, NEW n, Path(k, n)
  PROVE  n \in visited
<1> SUFFICES ASSUME n \notin visited PROVE FALSE
  OBVIOUS
<1>1. PICK p \in [0 .. k -> Ids] :
        /\ p[0] = call.start /\ p[k] = n
        /\ \A i \in 0 .. k - 1 : Linked(p[i], p[i + 1])
  BY DEF Path
<1> DEFINE S == {i \in 0 .. k : p[i] \notin visited}
<1>2. S \in SUBSET Nat /\ S # {}
  BY <1>1
<1>3. PICK i \in S : \A j \in S : i <= j
  BY <1>2, LeastNumber
<1>4. i \in 0 .. k /\ p[i] \notin visited /\ i # 0
  BY <1>1 DEF FrontierInv
<1>5. i - 1 \in 0 .. k - 1 /\ i - 1 \notin S
  BY <1>3, <1>4
<1> DEFINE m == p[i - 1]
<1>6. m \in visited /\ p[i] \in Ids /\ Linked(m, p[i])
  <2>1. Linked(p[i - 1], p[(i - 1) + 1])
    BY <1>1, <1>5
  <2> QED BY <1>4, <1>5, <2>1
<1>7. Path(i - 1, m)
  BY <1>1, <1>4, PathPrefix
<1>8. Hops \in Nat
  BY HopsType DEF WalkInv
<1> HIDE DEF m, S
<1>9. CASE Done(m)
  BY <1>4, <1>5, <1>6, <1>7, <1>8, <1>9 DEF Done, Closed
<1>10. CASE \E j \in DOMAIN queue : queue[j].id = m
  <2>1. PICK j \in DOMAIN queue : queue[j].id = m
    BY <1>10
  <2>2. queue[j].hop \in Nat /\ queue[j].hop >= d
    <3>1. queue[j] \in Item
      BY DEF WalkInv, TypeOK
    <3> QED BY <3>1 DEF Item
  <2>3. i - 1 \in 0 .. queue[j].hop - 1
    BY <1>4, <1>5, <1>8, <2>2
  <2> QED BY <1>7, <2>1, <2>3 DEF FrontierInv, Distance_is
<1> QED BY <1>6, <1>9, <1>10 DEF FrontierInv

LEMMA SameGraph ==
  ASSUME UNCHANGED call
  PROVE  /\ call.start' = call.start /\ filter' = filter /\ Hops' = Hops
         /\ \A m, n : Linked(m, n)' <=> Linked(m, n)
         /\ \A n : Counts(n)' <=> Counts(n)
         /\ \A k, n : Path(k, n)' <=> Path(k, n)
         /\ \A k, n : Distance_is(k, n)' <=> Distance_is(k, n)
         /\ Satisfied' <=> Satisfied
         /\ Trivial(filter)' <=> Trivial(filter)
<1>1. call.start' = call.start /\ filter' = filter /\ Hops' = Hops
  BY DEF filter, Hops
<1>2. /\ \A m, n : Linked(m, n)' <=> Linked(m, n)
      /\ \A n : Counts(n)' <=> Counts(n)
      /\ Trivial(filter)' <=> Trivial(filter)
  BY DEF Linked, Allowed, Counts, filter, Trivial
<1>3. \A k, n : Path(k, n)' <=> Path(k, n)
  BY <1>2 DEF Path
<1>4. \A k, n : Distance_is(k, n)' <=> Distance_is(k, n)
  BY <1>3 DEF Distance_is
<1>5. Satisfied' <=> Satisfied
  BY <1>3 DEF Satisfied, filter
<1> QED BY <1>1, <1>2, <1>3, <1>4, <1>5

\* The item at the head is the nearest.
LEMMA HeadOfQueue ==
  ASSUME WalkInv, FrontierInv, Walking
  PROVE  /\ curr = queue[1] /\ 1 \in DOMAIN queue /\ curr \in Item /\ curr.id \in visited
         /\ Distance_is(curr.hop, curr.id) /\ curr.hop <= Hops
         /\ \A i \in DOMAIN queue : curr.hop <= queue[i].hop /\ queue[i].hop <= curr.hop + 1
<1>1. queue \in Seq(Item) /\ queue # <<>>
  BY DEF WalkInv, TypeOK, Walking
<1>2. curr = queue[1] /\ 1 \in DOMAIN queue /\ curr \in Item
  BY <1>1 DEF curr
<1>3. ASSUME NEW i \in DOMAIN queue PROVE queue[i].hop \in Nat
  <2>1. queue[i] \in Item
    BY <1>1
  <2> QED BY <2>1 DEF Item
<1>4. ASSUME NEW i \in DOMAIN queue
      PROVE  curr.hop <= queue[i].hop /\ queue[i].hop <= curr.hop + 1
  <2>1. CASE i = 1
    BY <1>2, <1>3, <2>1
  <2>2. CASE i # 1
    <3>1. 1 < i
      BY <1>1, <2>2
    <3> QED BY <1>2, <3>1 DEF FrontierInv, Walking
  <2> QED BY <2>1, <2>2
<1> QED BY <1>2, <1>4 DEF FrontierInv, WalkInv

\* An item that leaves the queue without having counted is done with, as soon
\* as its neighbours are known or it is at the limit.
LEMMA CurrIsDone ==
  ASSUME WalkInv, FrontierInv, Walking, ~Found
  PROVE  /\ curr.id = call.start \/ ~Counts(curr.id)
         /\ AtLimit => \A k \in 0 .. Hops - 1 : ~Path(k, curr.id)
<1>1. curr \in Item /\ Distance_is(curr.hop, curr.id)
  BY HeadOfQueue
<1>2. curr.hop \in Nat
  BY <1>1 DEF Item
<1>3. ASSUME curr.hop = 0 PROVE curr.id = call.start
  BY <1>1, <1>3, PathStart DEF Distance_is, WalkInv
<1>4. ASSUME curr.hop > 0 PROVE ~Counts(curr.id)
  BY <1>4 DEF Found
<1>5. Hops \in Nat
  BY HopsType DEF WalkInv
<1>6. ASSUME AtLimit PROVE \A k \in 0 .. Hops - 1 : ~Path(k, curr.id)
  BY <1>1, <1>2, <1>5, <1>6 DEF AtLimit, Distance_is
<1> QED BY <1>2, <1>3, <1>4, <1>6

LEMMA MatchIsRight ==
  ASSUME WalkInv, WalkIsRight, Match
  PROVE  WalkIsRight'
<1>1. /\ curr \in Item /\ Distance_is(curr.hop, curr.id) /\ curr.hop <= Hops
      /\ curr.hop > 0 /\ Counts(curr.id)
  BY HeadOfQueue DEF Match, WalkIsRight, Found
<1>2. curr.hop \in Nat /\ curr.id \in Ids
  BY <1>1 DEF Item
<1>3. ~Path(0, curr.id)
  BY <1>1, <1>2 DEF Distance_is
<1>4. curr.id # call.start
  BY <1>3, PathStart DEF WalkInv
<1>5. Hops \in 1 .. HopCap /\ (\A k \in 1 .. HopCap : k <= Hops <=> (k = 1 \/ k <= filter.maxHops))
  BY HopsType DEF WalkInv
<1>6. curr.hop \in 1 .. HopCap /\ (curr.hop = 1 \/ curr.hop <= filter.maxHops)
  BY <1>1, <1>2, <1>5
<1>7. Satisfied
  BY <1>1, <1>2, <1>4, <1>6 DEF Satisfied, Counts, Distance_is
<1>8. UNCHANGED call /\ verdict' = TRUE /\ queue' = Tail(queue) /\ queue # <<>>
  BY DEF Match, Walking
<1>9. \A i \in DOMAIN queue' : i + 1 \in DOMAIN queue /\ queue'[i] = queue[i + 1]
  BY <1>8, TailOfQueue
<1>10. \A i \in DOMAIN queue' : Distance_is(queue'[i].hop, queue'[i].id) /\ queue'[i].hop <= Hops
  BY <1>9 DEF WalkIsRight, FrontierInv
<1>11. VerdictIsReachability'
  BY <1>7, <1>8, SameGraph DEF VerdictIsReachability
<1>12. verdict' # None
  BY <1>8
<1>13. FrontierInv'
  BY <1>8, <1>10, <1>12, SameGraph DEF FrontierInv
<1> QED BY <1>11, <1>13 DEF WalkIsRight

\* A visited node is as done as before once the walk has gone on.
LEMMA DoneStays ==
  ASSUME UNCHANGED call, visited \subseteq visited', NEW m, Done(m)
  PROVE  Done(m)'
<1>1. Closed(m) => Closed(m)'
  BY SameGraph DEF Closed
<1> QED BY <1>1, SameGraph DEF Done

LEMMA TooFarIsRight ==
  ASSUME WalkInv, WalkIsRight, TooFar
  PROVE  WalkIsRight'
<1>1. /\ UNCHANGED <<call, visited, verdict>> /\ verdict = None
      /\ queue' = Tail(queue) /\ queue # <<>> /\ queue \in Seq(Item)
  BY DEF TooFar, Walking, WalkInv, TypeOK
<1>2. \A i \in DOMAIN queue' : i + 1 \in DOMAIN queue /\ queue'[i] = queue[i + 1]
  BY <1>1, TailOfQueue
<1>3. \A i \in DOMAIN queue' : Distance_is(queue'[i].hop, queue'[i].id) /\ queue'[i].hop <= Hops
  BY <1>2 DEF WalkIsRight, FrontierInv
<1>4. ASSUME NEW i \in DOMAIN queue', NEW j \in DOMAIN queue', i < j
      PROVE  queue'[i].hop <= queue'[j].hop /\ queue'[j].hop <= queue'[i].hop + 1
  <2>1. i + 1 < j + 1
    BY <1>1, <1>4
  <2> QED BY <1>1, <1>2, <2>1 DEF WalkIsRight, FrontierInv
<1>5. Done(curr.id)
  BY <1>1, CurrIsDone DEF TooFar, WalkIsRight, Done
<1>6. ASSUME NEW m \in visited PROVE Done(m) \/ \E i \in DOMAIN queue' : queue'[i].id = m
  <2>1. CASE Done(m)
    BY <2>1
  <2>2. ASSUME NEW i \in DOMAIN queue, queue[i].id = m
        PROVE  Done(m) \/ \E j \in DOMAIN queue' : queue'[j].id = m
    <3>1. CASE i = 1
      BY <1>5, <2>2, <3>1, HeadOfQueue DEF WalkIsRight, TooFar
    <3>2. CASE i # 1
      <4>1. i - 1 \in DOMAIN queue' /\ (i - 1) + 1 = i
        BY <1>1, <3>2
      <4> QED BY <1>2, <2>2, <4>1
    <3> QED BY <3>1, <3>2
  <2> QED BY <1>1, <2>1, <2>2 DEF WalkIsRight, FrontierInv
<1>7. \A m \in visited' : Done(m)' \/ \E i \in DOMAIN queue' : queue'[i].id = m
  BY <1>1, <1>6, DoneStays
<1>8. FrontierInv'
  BY <1>1, <1>3, <1>4, <1>7, SameGraph DEF WalkIsRight, FrontierInv
<1>9. VerdictIsReachability'
  BY <1>1 DEF VerdictIsReachability
<1> QED BY <1>8, <1>9 DEF WalkIsRight

LEMMA ExhaustedIsRight ==
  ASSUME WalkInv, WalkIsRight, Exhausted
  PROVE  WalkIsRight'
<1>1. UNCHANGED <<call, queue, visited>> /\ verdict = None /\ queue = <<>> /\ verdict' = FALSE
  BY DEF Exhausted
<1>2. Hops \in 1 .. HopCap /\ (\A k \in 1 .. HopCap : k <= Hops <=> (k = 1 \/ k <= filter.maxHops))
  BY HopsType DEF WalkInv
<1>3. ASSUME NEW n \in Ids \ {call.start}, NEW k \in 1 .. HopCap, k <= Hops, Path(k, n)
      PROVE  ~Counts(n)
  <2>1. k \in 0 .. Hops /\ Hops \in 0 .. Hops
    BY <1>2, <1>3
  <2>2. n \in visited
    BY <1>1, <1>3, <2>1, Frontier DEF WalkIsRight
  <2>3. Done(n)
    BY <1>1, <2>2 DEF WalkIsRight, FrontierInv
  <2> QED BY <2>3 DEF Done
<1>4. ~Satisfied
  <2>1. ~(~filter.wanted /\ filter.relations = {})
    BY <1>1 DEF WalkIsRight, FrontierInv, Trivial
  <2> QED BY <1>2, <1>3, <2>1 DEF Satisfied, Counts
<1>5. VerdictIsReachability'
  BY <1>1, <1>4, SameGraph DEF VerdictIsReachability
<1>6. verdict' # None
  BY <1>1
<1>7. \A i \in DOMAIN queue : Distance_is(queue[i].hop, queue[i].id) /\ queue[i].hop <= Hops
  BY DEF WalkIsRight, FrontierInv
<1>8. FrontierInv'
  BY <1>1, <1>6, <1>7, SameGraph DEF FrontierInv
<1> QED BY <1>5, <1>8 DEF WalkIsRight

\* The neighbours of the item at the head that are new are one hop further than
\* it, and no other way to them is shorter.
LEMMA FreshIsNext ==
  ASSUME WalkInv, FrontierInv, Walking, ~AtLimit, NEW n \in Fresh
  PROVE  Distance_is(curr.hop + 1, n) /\ curr.hop + 1 <= Hops
<1>1. /\ curr \in Item /\ Path(curr.hop, curr.id)
      /\ \A i \in DOMAIN queue : curr.hop <= queue[i].hop
  BY HeadOfQueue DEF Distance_is
<1>2. curr.hop \in Nat /\ curr.id \in Ids
  BY <1>1 DEF Item
<1>3. Hops \in Nat /\ curr.hop + 1 <= Hops
  BY <1>2, HopsType DEF WalkInv, AtLimit
<1>4. n \in Ids /\ Linked(curr.id, n) /\ n \notin visited
  BY DEF Fresh
<1>5. Path(curr.hop + 1, n)
  BY <1>1, <1>2, <1>4, PathExtension
<1>6. \A i \in DOMAIN queue : queue[i].hop >= curr.hop
  <2>1. \A i \in DOMAIN queue : queue[i] \in Item
    BY DEF WalkInv, TypeOK
  <2>2. \A i \in DOMAIN queue : queue[i].hop \in Nat
    BY <2>1 DEF Item
  <2> QED BY <1>1, <1>2, <2>2
<1>7. ASSUME NEW j \in 0 .. (curr.hop + 1) - 1, Path(j, n) PROVE FALSE
  <2>1. j \in 0 .. curr.hop /\ curr.hop \in 0 .. Hops
    BY <1>2, <1>3
  <2>2. verdict = None
    BY DEF Walking
  <2> QED BY <1>4, <1>6, <1>7, <2>1, <2>2, Frontier
<1> QED BY <1>3, <1>5, <1>7 DEF Distance_is

LEMMA ExpandIsRight ==
  ASSUME WalkInv, WalkIsRight, Expand
  PROVE  WalkIsRight'
<1> USE DEF WalkIsRight
<1>1. /\ UNCHANGED <<call, verdict>> /\ verdict = None /\ visited' = visited \cup Fresh
      /\ TypeOK /\ queue \in Seq(Item) /\ queue # <<>>
      /\ Walking /\ ~Found /\ ~AtLimit
  BY DEF Expand, Walking, WalkInv, TypeOK, Marked
<1>2. curr \in Item /\ curr = queue[1] /\ 1 \in DOMAIN queue
  BY <1>1, HeadOfQueue
<1>3. curr.hop \in Nat /\ curr.id \in Ids
  BY <1>2 DEF Item
<1>4. /\ queue' \in Seq(Item)
      /\ \A i \in 1 .. Len(queue) - 1 :
           i \in DOMAIN queue' /\ i + 1 \in DOMAIN queue /\ queue'[i] = queue[i + 1]
      /\ \A i \in DOMAIN queue' : i >= Len(queue) =>
           queue'[i].id \in Fresh /\ queue'[i].hop = curr.hop + 1
      /\ \A n \in Fresh : \E i \in DOMAIN queue' : queue'[i].id = n
  BY <1>1, ExpandShape
<1>5. \A i \in DOMAIN queue' : i \in 1 .. Len(queue) - 1 \/ i >= Len(queue)
  BY <1>1, <1>4
<1>6. ASSUME NEW i \in DOMAIN queue'
      PROVE  /\ Distance_is(queue'[i].hop, queue'[i].id) /\ queue'[i].hop <= Hops
             /\ curr.hop <= queue'[i].hop /\ queue'[i].hop <= curr.hop + 1
  <2>1. CASE i \in 1 .. Len(queue) - 1
    BY <1>1, <1>4, <2>1, HeadOfQueue DEF FrontierInv
  <2>2. CASE i >= Len(queue)
    BY <1>1, <1>3, <1>4, <2>2, FreshIsNext
  <2> QED BY <1>5, <2>1, <2>2
<1>7. ASSUME NEW i \in DOMAIN queue', NEW j \in DOMAIN queue', i < j
      PROVE  queue'[i].hop <= queue'[j].hop /\ queue'[j].hop <= queue'[i].hop + 1
  <2>1. queue'[i] \in Item /\ queue'[j] \in Item
    BY <1>4
  <2>2. queue'[i].hop \in Nat /\ queue'[j].hop \in Nat
    BY <2>1 DEF Item
  <2>3. queue'[j].hop <= queue'[i].hop + 1
    BY <1>3, <1>6, <2>2
  <2>4. CASE j \in 1 .. Len(queue) - 1
    <3>1. i \in 1 .. Len(queue) - 1 /\ i + 1 < j + 1
      BY <1>4, <1>7, <2>4
    <3>2. /\ i + 1 \in DOMAIN queue /\ queue'[i] = queue[i + 1]
          /\ j + 1 \in DOMAIN queue /\ queue'[j] = queue[j + 1]
      BY <1>4, <2>4, <3>1
    <3> QED BY <1>1, <2>3, <3>1, <3>2 DEF FrontierInv
  <2>5. CASE j >= Len(queue)
    BY <1>3, <1>4, <1>6, <2>2, <2>3, <2>5
  <2> QED BY <1>5, <2>4, <2>5
<1>8. ASSUME NEW m, m = curr.id PROVE Done(m)'
  <2>1. m = call.start \/ ~Counts(m)
    BY <1>1, <1>8, CurrIsDone
  <2>2. \A n \in Ids : Linked(m, n) => n \in visited'
    BY <1>1, <1>8 DEF Fresh
  <2> QED BY <1>1, <2>1, <2>2, SameGraph DEF Done, Closed
<1>9. ASSUME NEW m \in visited' PROVE Done(m)' \/ \E i \in DOMAIN queue' : queue'[i].id = m
  <2>1. CASE m \in Fresh
    BY <1>4, <2>1
  <2>2. CASE m \in visited /\ Done(m)
    BY <1>1, <2>2, DoneStays
  <2>3. ASSUME NEW i \in DOMAIN queue, queue[i].id = m
        PROVE  Done(m)' \/ \E j \in DOMAIN queue' : queue'[j].id = m
    <3>1. CASE i = 1
      BY <1>2, <1>8, <2>3, <3>1
    <3>2. CASE i # 1
      <4>1. i - 1 \in 1 .. Len(queue) - 1 /\ (i - 1) + 1 = i
        BY <1>1, <3>2
      <4>2. i - 1 \in DOMAIN queue' /\ queue'[i - 1] = queue[(i - 1) + 1]
        BY <1>4, <4>1
      <4> QED BY <2>3, <4>1, <4>2
    <3> QED BY <3>1, <3>2
  <2> QED BY <1>1, <2>1, <2>2, <2>3 DEF FrontierInv
<1>10. FrontierInv'
  BY <1>1, <1>6, <1>7, <1>9, SameGraph DEF FrontierInv
<1>11. VerdictIsReachability'
  BY <1>1 DEF VerdictIsReachability
<1> QED BY <1>10, <1>11

\* Between two walks nothing is asked, and the verdict is no.
LEMMA NoWalkIsRight == NoWalk => WalkIsRight
<1> SUFFICES ASSUME NoWalk PROVE WalkIsRight
  OBVIOUS
<1>1. call.filter.wanted /\ call.labelled = {}
  BY DEF NoWalk, NoCall
<1>2. ~Satisfied /\ verdict = FALSE /\ verdict # None
  BY <1>1 DEF Satisfied, filter, NoWalk
<1>3. DOMAIN queue = {}
  BY EmptyQueue DEF NoWalk
<1> QED BY <1>2, <1>3 DEF WalkIsRight, FrontierInv, VerdictIsReachability

\* A walk begins at its start, unless the filter asks for nothing.
AtStart ==
  /\ queue = <<[id |-> call.start, hop |-> 0]>> /\ visited = {call.start}
  /\ verdict = IF Trivial(filter) THEN TRUE ELSE None

LEMMA BeginIsRight == TypeOK /\ AtStart => WalkIsRight
<1> SUFFICES ASSUME TypeOK, AtStart PROVE WalkIsRight
  OBVIOUS
<1> USE DEF AtStart
<1>1. \A i \in DOMAIN queue : i = 1 /\ queue[i].id = call.start /\ queue[i].hop = 0
  OBVIOUS
<1>2. Distance_is(0, call.start) /\ 0 <= Hops
  BY PathStart, HopsType DEF Distance_is
<1>3. \A m \in visited : \E i \in DOMAIN queue : queue[i].id = m
  OBVIOUS
<1>4. \A i, j \in DOMAIN queue : ~(i < j)
  BY <1>1
<1>5. verdict # None => Satisfied /\ verdict = TRUE
  BY DEF Trivial, Satisfied
<1>6. verdict = None => ~Trivial(filter)
  OBVIOUS
<1>7. FrontierInv
  BY <1>1, <1>2, <1>3, <1>4, <1>6 DEF FrontierInv
<1>8. VerdictIsReachability
  BY <1>5 DEF VerdictIsReachability
<1> QED BY <1>7, <1>8 DEF WalkIsRight

LEMMA RightStep ==
  ASSUME WalkInv, WalkIsRight, [RecallNext]_recallVars
  PROVE  WalkIsRight'
<1>1. ASSUME UNCHANGED walk PROVE WalkIsRight'
  <2>1. UNCHANGED <<call, queue, visited, verdict>>
    BY <1>1 DEF walk
  <2>2. FrontierInv'
    BY <2>1, SameGraph DEF FrontierInv, WalkIsRight, Done, Closed
  <2> QED BY <2>1, <2>2, SameGraph DEF WalkIsRight, VerdictIsReachability
<1>2. ASSUME NEW n \in Ids, Skip(n) \/ Take(n) PROVE WalkIsRight'
  BY <1>1, <1>2 DEF Skip, Take
<1>3. ASSUME NEW n \in Ids, BeginWalk(n) PROVE WalkIsRight'
  <2>1. TypeOK'
    BY WalkStep DEF WalkInv
  <2>2. AtStart'
    BY <1>3 DEF BeginWalk, CallOf, Trivial, filter, AtStart
  <2> QED BY <2>1, <2>2, BeginIsRight, PTL
<1>4. CASE Walk
  BY <1>4, MatchIsRight, TooFarIsRight, ExpandIsRight, ExhaustedIsRight DEF Walk, Next
<1>5. CASE EndWalk
  <2>1. NoWalk'
    BY <1>5 DEF EndWalk, NoWalk, NoCall
  <2> QED BY <2>1, NoWalkIsRight, PTL
<1>6. CASE Rank
  BY <1>1, <1>6 DEF Rank
<1>7. CASE UNCHANGED recallVars
  BY <1>1, <1>7 DEF recallVars
<1> QED BY <1>2, <1>3, <1>4, <1>5, <1>6, <1>7 DEF RecallNext

LEMMA RightAlways == RecallSpec => []WalkIsRight
<1>1. RecallInit => WalkIsRight
  BY NoWalkIsRight DEF RecallInit
<1> QED BY <1>1, WalkInit, WalkStep, RightStep, PTL DEF RecallSpec

\* A walk answers yes just when another node that counts can be reached within
\* the hops of its filter.
THEOREM WalkDecidesReachability == RecallSpec => []VerdictIsReachability
<1>1. WalkIsRight => VerdictIsReachability
  BY DEF WalkIsRight
<1> QED BY <1>1, RightAlways, PTL

\* And it meets every node along a shortest way.
THEOREM WalkIsBreadthFirst == RecallSpec => []HopIsDistance
<1>1. WalkIsRight => HopIsDistance
  BY DEF WalkIsRight, FrontierInv, Distance_is, HopIsDistance
<1> QED BY <1>1, RightAlways, PTL

-----------------------------------------------------------------------------
(* The zeros of the code are the filters that a memory does not pass.      *)

LEMMA Quotient ==
  ASSUME NEW a \in Nat, NEW b \in Nat \ {0}
  PROVE  a \div b \in Nat /\ (b <= a => a \div b > 0) /\ (a = 0 => a \div b = 0)
OBVIOUS

\* What the assumptions say of the query at hand.
QueryInv ==
  \A n \in Existing :
    /\ hasTextQuery => /\ IsFiniteSet(node(n).words \cup request.text)
                       /\ Cardinality(node(n).words \cup request.text) <= Unit
    /\ request.temporal # None /\ node(n).temporal # None =>
         {request.temporal.validAt, node(n).temporal.at} \subseteq Int \cup {None}

LEMMA TemporalIsTimely ==
  ASSUME QueryInv, NEW n \in Existing
  PROVE  LET score == EvaluateTemporal(node(n).temporal, request.temporal)
         IN  score \in Nat /\ (score = 0 <=> ~Timely(n))
<1> DEFINE t == node(n).temporal
           q == request.temporal
           score == EvaluateTemporal(t, q)
<1>1. Unit \in Nat /\ Unit # 0 /\ Horizon \in Nat
  OBVIOUS
<1>2. CASE q = None
  BY <1>1, <1>2 DEF EvaluateTemporal, Timely
<1>3. CASE q # None /\ t = None
  BY <1>1, <1>3 DEF EvaluateTemporal, Timely
<1>4. CASE q # None /\ t # None /\ (~Fits(t, q) \/ q.validAt = None \/ t.at = None)
  BY <1>1, <1>4 DEF EvaluateTemporal, Timely
<1>5. CASE q # None /\ t # None /\ Fits(t, q) /\ q.validAt # None /\ t.at # None
  <2>1. q.validAt \in Int /\ t.at \in Int
    BY <1>5 DEF QueryInv
  <2>2. Distance(q.validAt, t.at) \in Nat
    BY <2>1 DEF Distance
  <2>3. score = Decay(Distance(q.validAt, t.at))
    BY <1>5 DEF EvaluateTemporal
  <2>4. Timely(n) <=> Distance(q.validAt, t.at) <= Horizon
    BY <1>5 DEF Timely
  <2>5. ASSUME NEW d \in Nat
        PROVE  Decay(d) \in Nat /\ (Decay(d) = 0 <=> ~(d <= Horizon))
    <3>1. CASE d > Horizon
      BY <1>1, <3>1 DEF Decay
    <3>2. CASE d <= Horizon
      <4>1. PICK p : p = 2 ^ d
        OBVIOUS
      <4>2. p \in 1 .. Unit /\ Decay(d) = Unit \div p
        BY <1>1, <3>2, <4>1, ResolutionAssumption DEF Decay
      <4> QED BY <1>1, <3>2, <4>2, Quotient
    <3> QED BY <1>1, <3>1, <3>2
  <2> QED BY <2>2, <2>3, <2>4, <2>5
<1> QED BY <1>2, <1>3, <1>4, <1>5

LEMMA LocationIsLocated ==
  ASSUME NEW n
  PROVE  LET score == EvaluateLocation(node(n).digital, node(n).physical, request.location)
         IN  score \in Nat /\ (score = 0 <=> ~Located(n))
<1>1. Unit \in Nat /\ Unit # 0
  OBVIOUS
<1> QED BY <1>1 DEF EvaluateLocation, Located

LEMMA LexicalIsShared ==
  ASSUME QueryInv, NEW n \in Existing, hasTextQuery
  PROVE  LET score == EvaluateLexical(node(n).words, request.text)
         IN  /\ score \in Nat
             /\ score = 0 <=> ~(request.text = {} \/ node(n).words \cap request.text # {})
<1> DEFINE both == node(n).words \cap request.text
           all == node(n).words \cup request.text
<1>1. Unit \in Nat /\ Unit # 0
  OBVIOUS
<1>2. CASE request.text = {}
  BY <1>1, <1>2 DEF EvaluateLexical
<1>3. CASE request.text # {}
  <2>1. EvaluateLexical(node(n).words, request.text) = (Unit * Cardinality(both)) \div Cardinality(all)
    BY <1>3 DEF EvaluateLexical, hasTextQuery
  <2>2. IsFiniteSet(all) /\ Cardinality(all) <= Unit
    BY DEF QueryInv
  <2>3. IsFiniteSet(both) /\ both \subseteq all /\ all # {}
    BY <1>3, <2>2, FS_Subset
  <2> HIDE DEF both, all
  <2>4. Cardinality(both) \in Nat /\ Cardinality(all) \in Nat
    BY <2>2, <2>3, FS_CardinalityType
  <2>5. Cardinality(all) # 0 /\ (Cardinality(both) = 0 <=> both = {})
    BY <2>2, <2>3, FS_EmptySet
  <2>6. ASSUME NEW c \in Nat, NEW u \in Nat \ {0}, u <= Unit
        PROVE  (Unit * c) \div u \in Nat /\ ((Unit * c) \div u = 0 <=> c = 0)
    <3>1. CASE c = 0
      BY <1>1, <2>6, <3>1, Quotient
    <3>2. CASE c # 0
      <4>1. Unit * c \in Nat /\ Unit <= Unit * c
        BY <1>1, <3>2
      <4>2. PICK x \in Nat : x = Unit * c
        BY <4>1
      <4> QED BY <1>1, <2>6, <3>2, <4>1, <4>2, Quotient
    <3> QED BY <3>1, <3>2
  <2> QED BY <1>3, <2>1, <2>2, <2>4, <2>5, <2>6 DEF both
<1> QED BY <1>2, <1>3

LEMMA CosineType ==
  ASSUME NEW v, NEW w
  PROVE  CosineSimilarity(v, w) \in Nat
<1>1. Unit \in Nat
  OBVIOUS
<1>2. CASE <<v, w>> \in DOMAIN Cosine /\ Cosine[<<v, w>>] >= 0
  <2>1. Cosine[<<v, w>>] \in Int
    BY <1>2, ResolutionAssumption
  <2> QED BY <1>1, <1>2, <2>1 DEF CosineSimilarity
<1>3. CASE <<v, w>> \notin DOMAIN Cosine \/ ~(Cosine[<<v, w>>] >= 0)
  <2>1. <<v, w>> \in DOMAIN Cosine => Cosine[<<v, w>>] \in Int
    BY ResolutionAssumption
  <2>2. <<v, w>> \notin DOMAIN Cosine \/ Cosine[<<v, w>>] < 0
    BY <1>3, <2>1
  <2> QED BY <2>2 DEF CosineSimilarity
<1> QED BY <1>2, <1>3

\* The scores are numbers, and the filters are those of Matches.
LEMMA ScoresOf ==
  ASSUME QueryInv, NEW n \in Existing
  PROVE  /\ Result(n).score \in Int
         /\ Skipped(n) <=> ~(/\ MatchesScope(node(n).scope, request.scope)
                             /\ Timely(n) /\ Located(n) /\ Similar(n))
<1>1. PICK L, V, T, P :
        /\ L = EvaluateLexical(node(n).words, request.text)
        /\ V = IF HasVectors(n) THEN CosineSimilarity(queryVec, UnpackFloats(node(n).vector)) ELSE 0
        /\ T = EvaluateTemporal(node(n).temporal, request.temporal)
        /\ P = EvaluateLocation(node(n).digital, node(n).physical, request.location)
  OBVIOUS
<1>2. Scores(n) = [lexical |-> L, vector |-> V, temporal |-> T, location |-> P]
  BY <1>1 DEF Scores, Scored
<1>3. T \in Nat /\ (T = 0 <=> ~Timely(n))
  BY <1>1, TemporalIsTimely
<1>4. P \in Nat /\ (P = 0 <=> ~Located(n))
  BY <1>1, LocationIsLocated
<1>5. V \in Nat
  BY <1>1, CosineType
<1>6. hasTextQuery =>
        /\ L \in Nat
        /\ L = 0 <=> ~(request.text = {} \/ node(n).words \cap request.text # {})
  BY <1>1, LexicalIsShared
<1>7. ~hasTextQuery => L \in Nat
  <2>1. ~hasTextQuery => L = Unit
    BY <1>1 DEF hasTextQuery, EvaluateLexical
  <2> QED BY <2>1
<1>8. HasVectors(n) => (V > 0 <=> CosineSimilarity(queryVec, UnpackFloats(node(n).vector)) > 0)
  BY <1>1
<1>9. PICK byText \in BOOLEAN, byVector \in BOOLEAN :
        byText = hasTextQuery /\ byVector = HasVectors(n)
  BY DEF hasTextQuery, HasVectors
<1>10. TextScore(Scores(n), hasTextQuery, HasVectors(n)) =
         IF byVector /\ byText THEN 7 * V + 3 * L ELSE IF byVector THEN 10 * V ELSE 10 * L
  BY <1>2, <1>9 DEF TextScore
<1>11. Result(n).score =
         IF byText \/ byVector
         THEN 5 * TextScore(Scores(n), hasTextQuery, HasVectors(n)) + 30 * T + 20 * P
         ELSE 60 * T + 40 * P
  BY <1>2, <1>9 DEF Result, FinalScore
<1>12. Result(n).score \in Int
  BY <1>3, <1>4, <1>5, <1>6, <1>7, <1>10, <1>11
<1>13. (byText \/ byVector) /\ TextScore(Scores(n), hasTextQuery, HasVectors(n)) <= 0
         <=> ~Similar(n)
  <2>1. Similar(n) <=> \/ byText /\ L # 0
                       \/ byVector /\ V > 0
                       \/ ~byText /\ ~byVector
    BY <1>6, <1>8, <1>9 DEF Similar
  <2> QED BY <1>5, <1>6, <1>7, <1>9, <1>10, <2>1
<1>14. Scores(n).temporal = T /\ Scores(n).location = P
  BY <1>2
<1>15. Skipped(n) <=> \/ ~MatchesScope(node(n).scope, request.scope)
                      \/ ~Timely(n) \/ ~Located(n) \/ ~Similar(n)
  BY <1>3, <1>4, <1>9, <1>13, <1>14 DEF Skipped
<1> QED BY <1>12, <1>15

-----------------------------------------------------------------------------
(* The reply is the best of what matches.                                  *)

\* What Satisfied says of a call, as a constant: see FactTraversal.
AllowedBy(c, link) ==
  c.filter.relations \ {None} = {} \/ link.relation \in c.filter.relations \ {None}
LinkedBy(c, m, n) ==
  \E link \in c.links : AllowedBy(c, link) /\ {link.source, link.target} = {m, n}
PathBy(c, k, n) ==
  \E p \in [0 .. k -> Ids] :
    /\ p[0] = c.start /\ p[k] = n
    /\ \A i \in 0 .. k - 1 : LinkedBy(c, p[i], p[i + 1])
SatisfiedBy(c) ==
  \/ ~c.filter.wanted /\ c.filter.relations = {}
  \/ \E n \in Ids \ {c.start}, k \in 1 .. HopCap :
       /\ k = 1 \/ k <= c.filter.maxHops
       /\ ~c.filter.wanted \/ n \in c.labelled
       /\ PathBy(c, k, n)

LEMMA SatisfiedIsBy == Satisfied <=> SatisfiedBy(call)
<1>1. \A m, n : Linked(m, n) <=> LinkedBy(call, m, n)
  BY DEF Linked, Allowed, filter, LinkedBy, AllowedBy
<1>2. \A k, n : Path(k, n) <=> PathBy(call, k, n)
  BY <1>1 DEF Path, PathBy
<1> QED BY <1>2 DEF Satisfied, SatisfiedBy, filter

LEMMA FactsAreBy ==
  ASSUME NEW n
  PROVE  Facts(CallOf(n))!Satisfied <=> SatisfiedBy(CallOf(n))
<1>1. PICK c : c = CallOf(n)
  OBVIOUS
<1>2. \A a, b : Facts(CallOf(n))!Linked(a, b) <=> LinkedBy(c, a, b)
  BY <1>1 DEF Facts!Linked, Facts!Allowed, Facts!filter, LinkedBy, AllowedBy
<1>3. \A k, m : Facts(CallOf(n))!Path(k, m) <=> PathBy(c, k, m)
  BY <1>1, <1>2 DEF Facts!Path, PathBy
<1> QED BY <1>1, <1>3 DEF Facts!Satisfied, SatisfiedBy, Facts!filter

\* The memories that pass the filters, before and after the walks.
Passes(n) == n \in Existing /\ ~Skipped(n)
Chosen(n) == Passes(n) /\ (request.facts # None => SatisfiedBy(CallOf(n)))

LEMMA MatchesAreChosen ==
  ASSUME QueryInv
  PROVE  Matches = {n \in Ids : Chosen(n)}
<1> SUFFICES ASSUME NEW n PROVE n \in Matches <=> n \in Ids /\ Chosen(n)
  OBVIOUS
<1>1. n \in Existing => n \in Ids
  BY DEF Existing
<1>2. n \in Matches <=> n \in Existing /\ ~Skipped(n)
                        /\ (request.facts # None => SatisfiedBy(CallOf(n)))
  BY ScoresOf, FactsAreBy DEF Matches
<1> QED BY <1>1, <1>2 DEF Chosen, Passes

\* The results are the memories that match among those already looked at.
ResultsInv ==
  /\ todo \subseteq Existing
  /\ walker # None => /\ walker \notin todo /\ Passes(walker)
                      /\ request.facts # None /\ call = CallOf(walker)
  /\ \A r : r \in results <=>
       \E n \in Ids : Chosen(n) /\ n \notin todo /\ n # walker /\ r = Result(n)
  /\ reply # None => todo = {} /\ walker = None

LEMMA SameQuery ==
  ASSUME UNCHANGED <<query, queryVec>>
  PROVE  /\ Existing' = Existing /\ Limit' = Limit /\ request' = request
         /\ \A n : Skipped(n)' <=> Skipped(n)
         /\ \A n : Passes(n)' <=> Passes(n)
         /\ \A n : Chosen(n)' <=> Chosen(n)
         /\ \A n : CallOf(n)' = CallOf(n)
         /\ \A n : Result(n)' = Result(n)
         /\ QueryInv' <=> QueryInv
<1>1. /\ Existing' = Existing /\ Limit' = Limit /\ request' = request
      /\ \A n : node(n)' = node(n)
      /\ hasTextQuery' <=> hasTextQuery
      /\ \A n : HasVectors(n)' <=> HasVectors(n)
  BY DEF Existing, Limit, request, node, hasTextQuery, HasVectors
<1>2. ASSUME NEW n PROVE Scores(n)' = Scores(n)
  BY DEF Scores, HasVectors, node, request
<1>3. ASSUME NEW n PROVE Skipped(n)' <=> Skipped(n)
  BY DEF Skipped, Scores, hasTextQuery, HasVectors, node, request
<1>4. ASSUME NEW n PROVE Result(n)' = Result(n)
  BY DEF Result, Scores, hasTextQuery, HasVectors, node, request
<1>5. \A n : CallOf(n)' = CallOf(n)
  BY DEF CallOf, request
<1>6. \A n : Passes(n)' <=> Passes(n)
  BY <1>1, <1>3 DEF Passes
<1>7. \A n : Chosen(n)' <=> Chosen(n)
  BY <1>1, <1>5, <1>6 DEF Chosen
<1>8. QueryInv' <=> QueryInv
  BY DEF QueryInv, Existing, node, request, hasTextQuery
<1> QED BY <1>1, <1>3, <1>4, <1>5, <1>6, <1>7, <1>8

LEMMA ResultsStep ==
  ASSUME WalkInv, WalkIsRight, ResultsInv, [RecallNext]_recallVars
  PROVE  ResultsInv'
<1>0. UNCHANGED <<query, queryVec>>
  BY DEF RecallNext, Skip, Take, BeginWalk, Walk, EndWalk, Rank, recallVars
<1>a. /\ Existing' = Existing /\ request' = request
      /\ \A n : Passes(n)' <=> Passes(n)
      /\ \A n : Chosen(n)' <=> Chosen(n)
      /\ \A n : CallOf(n)' = CallOf(n)
      /\ \A n : Result(n)' = Result(n)
  BY <1>0, SameQuery
<1> USE <1>a DEF ResultsInv
<1>1. ASSUME NEW m \in Ids, Skip(m) PROVE ResultsInv'
  <2>1. /\ m \in todo /\ walker = None /\ ~Chosen(m) /\ todo' = todo \ {m}
        /\ UNCHANGED <<walker, results, reply>>
    BY <1>1 DEF Skip, Due, Chosen, Passes
  <2> QED BY <2>1
<1>2. ASSUME NEW m \in Ids, Take(m) PROVE ResultsInv'
  <2>1. /\ m \in todo /\ walker = None /\ Chosen(m) /\ todo' = todo \ {m}
        /\ results' = results \cup {Result(m)} /\ UNCHANGED <<walker, reply>>
    BY <1>2 DEF Take, Due, Chosen, Passes
  <2> QED BY <2>1
<1>3. ASSUME NEW m \in Ids, BeginWalk(m) PROVE ResultsInv'
  <2>1. /\ m \in todo /\ walker = None /\ Passes(m) /\ todo' = todo \ {m}
        /\ request.facts # None /\ call' = CallOf(m)
        /\ walker' = m /\ UNCHANGED <<results, reply>>
    BY <1>3 DEF BeginWalk, Due, Passes
  <2>2. m # None
    OBVIOUS
  <2> QED BY <2>1, <2>2
<1>4. CASE Walk
  <2>1. UNCHANGED <<todo, walker, results, reply, call>>
    BY <1>4 DEF Walk, Next, Match, TooFar, Expand, Exhausted
  <2> QED BY <2>1
<1>5. CASE EndWalk
  <2>1. /\ walker # None /\ verdict # None /\ walker' = None
        /\ results' = results \cup (IF verdict THEN {Result(walker)} ELSE {})
        /\ UNCHANGED <<todo, reply>>
    BY <1>5 DEF EndWalk
  <2>2. verdict <=> SatisfiedBy(CallOf(walker))
    BY <2>1, SatisfiedIsBy DEF WalkIsRight, VerdictIsReachability
  <2>3. verdict <=> Chosen(walker)
    BY <2>1, <2>2 DEF Chosen
  <2>4. walker \in Ids /\ walker \notin todo
    BY <2>1 DEF Passes, Existing
  <2>5. \A r : r \in results' <=> r \in results \/ (Chosen(walker) /\ r = Result(walker))
    BY <2>1, <2>3
  <2> QED BY <2>1, <2>4, <2>5
<1>6. CASE Rank
  <2>1. todo = {} /\ walker = None /\ UNCHANGED <<todo, walker, results, call>>
    BY <1>6 DEF Rank, walk
  <2> QED BY <2>1
<1>7. CASE UNCHANGED recallVars
  <2>1. UNCHANGED <<todo, walker, results, reply, call>>
    BY <1>7 DEF recallVars, walk
  <2> QED BY <2>1
<1> QED BY <1>1, <1>2, <1>3, <1>4, <1>5, <1>6, <1>7 DEF RecallNext

ChosenIds == {n \in Ids : Chosen(n)}

\* A reply that is the best of the chosen: see ReplyIsTheBest.
BestOfChosen(t) ==
  /\ \A i \in DOMAIN t : \E n \in ChosenIds : t[i] = Result(n)
  /\ \A i, j \in DOMAIN t : t[i].id = t[j].id => i = j
  /\ Len(t) = IF Cardinality(ChosenIds) > Limit THEN Limit ELSE Cardinality(ChosenIds)
  /\ \A i \in DOMAIN t, n \in ChosenIds :
       (\A j \in 1 .. i : t[j].id # n) => Result(n).score <= t[i].score

\* There are as many results as chosen memories.
LEMMA ResultsOfChosen ==
  ASSUME \A r : r \in results <=> \E n \in ChosenIds : r = Result(n)
  PROVE  /\ IsFiniteSet(results) /\ IsFiniteSet(ChosenIds)
         /\ Cardinality(results) = Cardinality(ChosenIds)
<1> DEFINE f == [n \in ChosenIds |-> Result(n)]
<1>1. IsFiniteSet(ChosenIds)
  BY FS_Subset DEF ChosenIds
<1>2. \A n : Result(n).id = n
  BY DEF Result
<1>3. f \in [ChosenIds -> results]
  OBVIOUS
<1>4. \A m, n \in ChosenIds : f[m] = f[n] => m = n
  BY <1>2
<1>5. \A r \in results : \E n \in ChosenIds : f[n] = r
  OBVIOUS
<1> HIDE DEF f
<1>6. f \in Bijection(ChosenIds, results)
  BY <1>3, <1>4, <1>5, Fun_IsBij
<1>7. ExistsBijection(ChosenIds, results)
  BY <1>6 DEF ExistsBijection
<1> QED BY <1>1, <1>7, FS_Bijection

LEMMA RankIsBest ==
  ASSUME WalkInv, QueryInv, NEW s \in Orders(results), Descending(s),
         \A r : r \in results <=> \E n \in ChosenIds : r = Result(n)
  PROVE  BestOfChosen(Cut(s))
<1> DEFINE k == Cardinality(ChosenIds)
           t == Cut(s)
<1>1. /\ k \in Nat /\ Cardinality(results) = k
      /\ s \in [1 .. k -> results]
      /\ \A i, j \in 1 .. k : s[i] = s[j] => i = j
      /\ \A r \in results : \E i \in 1 .. k : s[i] = r
  <2>1. IsFiniteSet(results) /\ Cardinality(results) = k
    BY ResultsOfChosen
  <2> HIDE DEF k
  <2>2. /\ Cardinality(results) \in Nat
        /\ s \in [1 .. Cardinality(results) -> results]
        /\ \A i, j \in 1 .. Cardinality(results) : s[i] = s[j] => i = j
        /\ \A r \in results : \E i \in 1 .. Cardinality(results) : s[i] = r
    BY <2>1, OrderIsComplete
  <2> QED BY <2>1, <2>2
<1>2. Limit \in Nat
  BY DEF Limit, WalkInv
<1> HIDE DEF k
<1>3. s \in Seq(results) /\ Len(s) = k
  BY <1>1
<1>4. /\ t \in Seq(results) /\ Len(t) = IF k > Limit THEN Limit ELSE k
      /\ Len(t) <= k /\ \A i \in 1 .. Len(t) : t[i] = s[i]
  <2>1. CASE k > Limit
    <3>1. t = SubSeq(s, 1, Limit)
      BY <1>3, <2>1 DEF Cut
    <3> QED BY <1>1, <1>2, <1>3, <2>1, <3>1
  <2>2. CASE ~(k > Limit)
    <3>1. t = s
      BY <1>3, <2>2 DEF Cut
    <3> QED BY <1>1, <1>2, <1>3, <2>2, <3>1
  <2> QED BY <2>1, <2>2
<1> HIDE DEF t
<1>5. DOMAIN t = 1 .. Len(t) /\ Len(t) \in Nat /\ \A i \in 1 .. Len(t) : i \in 1 .. k
  BY <1>1, <1>4
<1>6. \A n : Result(n).id = n
  BY DEF Result
<1>7. \A i \in DOMAIN t : \E n \in ChosenIds : t[i] = Result(n)
  BY <1>4, <1>5
<1>8. ASSUME NEW i \in DOMAIN t, NEW j \in DOMAIN t, t[i].id = t[j].id PROVE i = j
  <2>1. PICK m \in ChosenIds, n \in ChosenIds : t[i] = Result(m) /\ t[j] = Result(n)
    BY <1>7
  <2>2. t[i] = t[j]
    BY <1>6, <1>8, <2>1
  <2> QED BY <1>1, <1>4, <1>5, <2>2
<1>9. ASSUME NEW i \in DOMAIN t, NEW n \in ChosenIds, \A j \in 1 .. i : t[j].id # n
      PROVE  Result(n).score <= t[i].score
  <2>1. PICK p \in 1 .. k : s[p] = Result(n)
    BY <1>1
  <2>2. i < p
    <3>1. CASE p \in 1 .. i
      BY <1>4, <1>5, <1>6, <1>9, <2>1, <3>1
    <3>2. CASE p \notin 1 .. i
      BY <1>1, <1>5, <3>2
    <3> QED BY <3>1, <3>2
  <2>3. s[i].score >= s[p].score
    BY <1>1, <1>5, <2>2 DEF Descending
  <2>4. \A m \in ChosenIds : Result(m).score \in Int
    BY ScoresOf DEF ChosenIds, Chosen, Passes
  <2>5. s[i].score \in Int /\ s[p].score \in Int
    BY <1>1, <1>5, <2>4
  <2> QED BY <1>4, <1>5, <2>1, <2>3, <2>5
<1>10. BestOfChosen(t)
  BY <1>4, <1>7, <1>8, <1>9 DEF BestOfChosen, k
<1> QED BY <1>10 DEF t

BestInv == reply # None => BestOfChosen(reply)

LEMMA BestStep ==
  ASSUME WalkInv, QueryInv, ResultsInv, BestInv, [RecallNext]_recallVars
  PROVE  BestInv'
<1>0. UNCHANGED <<query, queryVec>>
  BY DEF RecallNext, Skip, Take, BeginWalk, Walk, EndWalk, Rank, recallVars
<1>1. ChosenIds' = ChosenIds /\ Limit' = Limit /\ \A n : Result(n)' = Result(n)
  BY <1>0, SameQuery DEF ChosenIds
<1>2. \A t : BestOfChosen(t)' <=> BestOfChosen(t)
  BY <1>1 DEF BestOfChosen
<1>3. CASE UNCHANGED reply
  BY <1>2, <1>3 DEF BestInv, BestOfChosen
<1>4. CASE Rank
  <2>1. PICK s \in Orders(results) : Descending(s) /\ reply' = Cut(s)
    BY <1>4 DEF Rank
  <2>2. \A r : r \in results <=> \E n \in ChosenIds : r = Result(n)
    BY <1>4 DEF Rank, ResultsInv, ChosenIds
  <2>3. PICK t : t = Cut(s) /\ BestOfChosen(t)
    BY <2>1, <2>2, RankIsBest
  <2>4. reply' = t
    BY <2>1, <2>3
  <2> QED BY <1>1, <2>3, <2>4 DEF BestInv, BestOfChosen
<1> QED BY <1>3, <1>4 DEF RecallNext, Skip, Take, BeginWalk, Walk, EndWalk, recallVars

LEMMA BestIsReplied ==
  ASSUME QueryInv, BestInv
  PROVE  ReplyIsTheBest
<1> SUFFICES ASSUME reply # None
             PROVE  /\ \A i \in DOMAIN reply : reply[i] \in {Result(n) : n \in Matches}
                    /\ \A i, j \in DOMAIN reply : reply[i].id = reply[j].id => i = j
                    /\ Len(reply) = IF Cardinality(Matches) > Limit
                                    THEN Limit ELSE Cardinality(Matches)
                    /\ \A i \in DOMAIN reply :
                         \A n \in Matches \ {reply[j].id : j \in 1 .. i} :
                           Result(n).score <= reply[i].score
  BY DEF ReplyIsTheBest
<1>1. Matches = ChosenIds
  BY MatchesAreChosen DEF ChosenIds
<1> QED BY <1>1 DEF BestInv, BestOfChosen

\* The reply has the best of the memories that match, as many as the limit
\* admits: no filter, walk, score or cut loses one that belongs there.
THEOREM RecallRepliesTheBest == RecallSpec => []ReplyIsTheBest
<1> DEFINE Inv == QueryInv /\ ResultsInv /\ BestInv
<1>1. RecallInit => Inv
  <2> SUFFICES ASSUME RecallInit PROVE Inv
    OBVIOUS
  <2>1. PICK kind \in DOMAIN Queries : query \in Queries[kind]
    BY DEF RecallInit
  <2>2. QueryInv
    BY <2>1, ResolutionAssumption DEF QueryInv, Existing, node, request, hasTextQuery
  <2>3. /\ todo = Existing /\ walker = None /\ results = {} /\ reply = None
    BY DEF RecallInit
  <2>4. ResultsInv
    BY <2>3 DEF ResultsInv, Chosen, Passes
  <2>5. BestInv
    BY <2>3 DEF BestInv
  <2> QED BY <2>2, <2>4, <2>5
<1>2. Inv /\ WalkInv /\ WalkIsRight /\ [RecallNext]_recallVars => Inv'
  <2> SUFFICES ASSUME Inv, WalkInv, WalkIsRight, [RecallNext]_recallVars PROVE Inv'
    OBVIOUS
  <2>1. QueryInv'
    BY SameQuery DEF RecallNext, Skip, Take, BeginWalk, Walk, EndWalk, Rank, recallVars
  <2>2. ResultsInv'
    BY ResultsStep
  <2>3. BestInv'
    BY BestStep
  <2> QED BY <2>1, <2>2, <2>3
<1>3. Inv => ReplyIsTheBest
  BY BestIsReplied
<1>4. RecallSpec => []WalkInv
  BY WalkInit, WalkStep, PTL DEF RecallSpec
<1> HIDE DEF Inv
<1> QED BY <1>1, <1>2, <1>3, <1>4, RightAlways, PTL DEF RecallSpec
=============================================================================
