----------------------------- MODULE QueryEngine -----------------------------
(***************************************************************************)
(* Recall and ExecuteQuery (pkg/memory/engine.go, query.go): each memory   *)
(* passes the filters or is skipped, the walk of FactTraversal is the last *)
(* of them, and what is left is sorted by score and cut to the limit.      *)
(* Memories are looked at in the order of a Go map: any.                   *)
(*                                                                         *)
(* While no walk is going on, the variables of FactTraversal are at NoWalk. *)
(***************************************************************************)
EXTENDS FactTraversal

CONSTANTS
  Unit, Horizon, Cosine, Ragged, Blank,   \* see QueryScores
  DefaultLimit, \* the limit of a request that has none (20)
  Vectors,      \* what the embedding endpoint may give for a text
  Queries       \* for each kind of filter, states of the engine and requests

INSTANCE QueryScores

\* nodes: what is known of a node (scope, temporal, digital, physical, vector,
\* and the words of its texts), None where there is no node: the end of a link
\* need not exist.  labelled: see Call.  embedder: None if the engine has none.
\* request: text, embedding, disableVectors, scope, temporal, location, facts,
\* limit.  For the fields of these see QueryScores and Filter.
ASSUME QueryAssumption ==
  /\ Unit \in Nat \ {0} /\ Horizon \in Nat /\ DefaultLimit \in Nat \ {0}
  /\ None \notin Ids \cup Vectors
  /\ Ids # {} /\ MaxHops # {}
  /\ \A kind \in DOMAIN Queries : \A q \in Queries[kind] :
       /\ DOMAIN q.nodes = Ids
       /\ q.links \subseteq Link /\ q.labelled \subseteq Ids
       /\ q.embedder \in Vectors \cup {None}
       /\ q.request.facts \in Filter \cup {None}
       /\ q.request.limit \in Int

\* Unit is fine enough for the scores: none that is above 0.0 in the code is
\* rounded to zero.
ASSUME ResolutionAssumption ==
  /\ \A distance \in 0 .. Horizon : 2 ^ distance \in 1 .. Unit
  /\ \A pair \in DOMAIN Cosine : Cosine[pair] \in Int
  /\ \A kind \in DOMAIN Queries : \A q \in Queries[kind], n \in Ids :
       q.nodes[n] # None =>
         /\ q.request.text \notin {None, Blank} =>
              LET words == q.nodes[n].words \cup q.request.text
              IN  IsFiniteSet(words) /\ Cardinality(words) <= Unit
         /\ q.request.temporal # None /\ q.nodes[n].temporal # None =>
              {q.request.temporal.validAt, q.nodes[n].temporal.at} \subseteq Int \cup {None}

VARIABLES
  query,
  queryVec,     \* the vector of the request
  todo,         \* the nodes not yet looked at
  walker,       \* the node whose fact filter is being evaluated
  results,      \* the nodes that passed, with their scores
  reply         \* what Recall returns

walk == <<call, queue, visited, verdict>>
recallVars == <<query, queryVec, todo, walker, results, reply, walk>>

request == query.request
node(n) == query.nodes[n]
Existing == {n \in Ids : node(n) # None}

-----------------------------------------------------------------------------
(* Recall finds a vector for the text before it takes the lock.            *)

\* GenerateEmbedding, whose errors are discarded.
GenerateEmbedding(embedder) == {None, embedder}

QueryVectors(q) ==
  IF q.request.embedding # None THEN {UnpackFloats(q.request.embedding)}
  ELSE IF q.request.text # None /\ ~q.request.disableVectors
       THEN GenerateEmbedding(q.embedder)
       ELSE {None}

NoCall ==
  [links |-> {}, labelled |-> {}, start |-> CHOOSE n \in Ids : TRUE,
   filter |-> [wanted |-> TRUE, relations |-> {}, maxHops |-> CHOOSE k \in MaxHops : TRUE]]
NoWalk == call = NoCall /\ queue = <<>> /\ visited = {} /\ verdict = FALSE

RecallInit ==
  /\ \E kind \in DOMAIN Queries : query \in Queries[kind]
  /\ queryVec \in QueryVectors(query)
  /\ todo = Existing
  /\ walker = None
  /\ NoWalk
  /\ results = {}
  /\ reply = None

-----------------------------------------------------------------------------
(* ExecuteQuery.                                                           *)

Limit == IF request.limit <= 0 THEN DefaultLimit ELSE request.limit

hasTextQuery == request.text \notin {None, Blank}
HasVectors(n) == queryVec # None /\ ~request.disableVectors /\ node(n).vector # None

Scores(n) ==
  Scored(EvaluateLexical(node(n).words, request.text),
         IF HasVectors(n) THEN CosineSimilarity(queryVec, UnpackFloats(node(n).vector)) ELSE 0,
         EvaluateTemporal(node(n).temporal, request.temporal),
         EvaluateLocation(node(n).digital, node(n).physical, request.location))

\* The scores that are 0.0 are filters that failed.
Skipped(n) ==
  \/ ~MatchesScope(node(n).scope, request.scope)
  \/ Scores(n).temporal = 0 \/ Scores(n).location = 0
  \/ /\ hasTextQuery \/ HasVectors(n)
     /\ TextScore(Scores(n), hasTextQuery, HasVectors(n)) <= 0

Result(n) == [id |-> n, score |-> FinalScore(Scores(n), hasTextQuery, HasVectors(n))]

\* Whether a memory comes next, and no walk is in the way.
Due(n) == n \in todo /\ walker = None

Skip(n) ==
  /\ Due(n) /\ Skipped(n)
  /\ todo' = todo \ {n}
  /\ UNCHANGED <<query, queryVec, walker, results, reply, walk>>

Take(n) ==
  /\ Due(n) /\ ~Skipped(n)
  /\ request.facts = None
  /\ todo' = todo \ {n}
  /\ results' = results \cup {Result(n)}
  /\ UNCHANGED <<query, queryVec, walker, reply, walk>>

CallOf(n) ==
  [links |-> query.links, labelled |-> query.labelled, start |-> n, filter |-> request.facts]

BeginWalk(n) ==
  /\ Due(n) /\ ~Skipped(n)
  /\ request.facts # None
  /\ todo' = todo \ {n}
  /\ walker' = n
  /\ call' = CallOf(n)
  /\ queue' = <<[id |-> n, hop |-> 0]>>
  /\ visited' = {n}
  /\ verdict' = IF Trivial(request.facts) THEN TRUE ELSE None
  /\ UNCHANGED <<query, queryVec, results, reply>>

Walk ==
  /\ walker # None
  /\ Next
  /\ UNCHANGED <<query, queryVec, todo, walker, results, reply>>

EndWalk ==
  /\ walker # None /\ verdict # None
  /\ results' = results \cup (IF verdict THEN {Result(walker)} ELSE {})
  /\ walker' = None
  /\ call' = NoCall /\ queue' = <<>> /\ visited' = {} /\ verdict' = FALSE
  /\ UNCHANGED <<query, queryVec, todo, reply>>

Descending(s) == \A i, j \in DOMAIN s : i < j => s[i].score >= s[j].score

Cut(s) == IF Len(s) > Limit THEN SubSeq(s, 1, Limit) ELSE s

\* sort.Slice leaves those of equal score in any order.
Rank ==
  /\ todo = {} /\ walker = None /\ reply = None
  /\ \E s \in Orders(results) : Descending(s) /\ reply' = Cut(s)
  /\ UNCHANGED <<query, queryVec, todo, walker, results, walk>>

RecallNext ==
  \/ \E n \in Ids : Skip(n) \/ Take(n) \/ BeginWalk(n)
  \/ Walk \/ EndWalk \/ Rank

RecallSpec == RecallInit /\ [][RecallNext]_recallVars

\* One goroutine, which holds the read lock and waits for nothing.
RecallFairSpec == RecallSpec /\ WF_recallVars(RecallNext)

-----------------------------------------------------------------------------
(* What a query asks for, without the zeros of the code.                   *)

Facts(c) == INSTANCE FactTraversal WITH call <- c

\* A node that is valid at valid_at, but further from it than the horizon of
\* the decay (61 years), does not count.
Timely(n) == LET t == node(n).temporal  q == request.temporal IN
  \/ q = None
  \/ t = None /\ ~HasFilter(q)
  \/ /\ t # None /\ Fits(t, q)
     /\ None \in {q.validAt, t.at} \/ Distance(q.validAt, t.at) <= Horizon

Located(n) ==
  request.location # None =>
    \A field \in Asked(request.location) :
      Met(node(n).digital, node(n).physical, request.location, field)

\* A shared word is enough, whatever becomes of the vectors; so is a vector
\* that points the same way.  What has neither text nor vector is not asked.
Similar(n) ==
  \/ hasTextQuery /\ (request.text = {} \/ node(n).words \cap request.text # {})
  \/ HasVectors(n) /\ CosineSimilarity(queryVec, UnpackFloats(node(n).vector)) > 0
  \/ ~hasTextQuery /\ ~HasVectors(n)

Matches ==
  {n \in Existing : /\ MatchesScope(node(n).scope, request.scope)
                    /\ Timely(n) /\ Located(n) /\ Similar(n)
                    /\ request.facts # None => Facts(CallOf(n))!Satisfied}

\* The reply has as many of the matching memories as the limit admits, the best
\* first, and none that was cut off is better than one that was not.
ReplyIsTheBest ==
  reply # None =>
    /\ \A i \in DOMAIN reply : reply[i] \in {Result(n) : n \in Matches}
    /\ \A i, j \in DOMAIN reply : reply[i].id = reply[j].id => i = j
    /\ Len(reply) = IF Cardinality(Matches) > Limit THEN Limit ELSE Cardinality(Matches)
    /\ \A i \in DOMAIN reply :
         \A n \in Matches \ {reply[j].id : j \in 1 .. i} : Result(n).score <= reply[i].score

\* A private memory is in a reply only if the request says nothing of scopes,
\* asks for everything or for its creator by name, or gives its creator as the
\* caller.  Nothing checks who sends a request, or what it gives as the caller.
Private(n) == node(n).scope # None /\ node(n).scope.visibility = "private"

Creators(scope) == IF scope.caller = None THEN {} ELSE {scope.caller}

PrivateIsAskedFor ==
  reply # None =>
    \A i \in DOMAIN reply : Private(reply[i].id) =>
      \/ request.scope = None \/ "*" \in request.scope.targets
      \/ node(reply[i].id).scope.creator
           \in request.scope.targets \cup Creators(request.scope)

\* What criteriadb.proto says of VISIBILITY_PRIVATE, which is less: "Visible
\* only to creator adapter".
PrivateIsForItsCreator ==
  reply # None =>
    \A i \in DOMAIN reply : Private(reply[i].id) =>
      request.scope # None /\ request.scope.caller = node(reply[i].id).scope.creator

\* Recall returns.
RecallReturns == <>(reply # None)
=============================================================================
