----------------------------- MODULE QueryScores -----------------------------
(***************************************************************************)
(* The scores of pkg/memory (scope.go, temporal.go, location.go,           *)
(* lexical.go, vector.go) and how ExecuteQuery weighs them.  A score is an *)
(* integer, Unit for 1.0; zero stands for a filter that failed, as it does *)
(* in the code.  Times are whole numbers of half-lives of the decay, texts *)
(* the sets of words Tokenize makes of them, names are compared after case *)
(* folding, vectors are known by their cosines.                            *)
(***************************************************************************)
EXTENDS Integers, Sequences, FiniteSets

CONSTANTS
  Unit,         \* 1.0
  Horizon,      \* the half-lives after which the decay is 0.0 as a float64
  Cosine,       \* of two vectors, if they have the same dimension and finite,
                \* non-zero norms
  Ragged,       \* bytes that UnpackFloats makes no vector of
  Blank,        \* a text of spaces only
  None          \* absent: a nil message, an empty string, no vector

-----------------------------------------------------------------------------
(* MatchesScope.                                                           *)

Own(scope, filter) == filter.caller # None /\ filter.caller = scope.creator

\* Without targets: what is the caller's own, or is not private.
InReach(scope, filter) ==
  IF filter.targets = {}
  THEN Own(scope, filter) \/ scope.visibility # "private"
  ELSE \/ "self" \in filter.targets /\ Own(scope, filter)
       \/ scope.creator \in filter.targets

MatchesScope_unowned(scope, filter) ==
  \/ filter = None \/ scope = None
  \/ "*" \in filter.targets
  \/ "self" \in filter.targets \/ scope.creator \in filter.targets
MatchesScope(scope, filter) ==
  \/ filter = None \/ scope = None
  \/ "*" \in filter.targets
  \/ filter.workflowShared /\ scope.visibility = "workflow"
  \/ scope.visibility = "global"
  \/ InReach(scope, filter)

-----------------------------------------------------------------------------
(* EvaluateTemporal.  A node has a tense and the times `at', `from', `to'. *)

\* 1.0, a half, a quarter ... and then, suddenly, nothing.
Decay(distance) == IF distance > Horizon THEN 0 ELSE Unit \div (2 ^ distance)
Distance(s, t) == IF s < t THEN t - s ELSE s - t

HasFilter(query) ==
  \E field \in {"tense", "validAt", "start", "end"} : query[field] # None

ValidAt(temporal, t) ==
  /\ temporal.from = None \/ temporal.from <= t
  /\ temporal.to = None \/ t <= temporal.to

InRange(temporal, query) ==
  query.start # None \/ query.end # None =>
    /\ temporal.at # None
    /\ query.start = None \/ query.start <= temporal.at
    /\ query.end = None \/ temporal.at <= query.end

\* With a valid_at, start_time and end_time are not looked at.
Fits(temporal, query) ==
  /\ query.tense \in {None, temporal.tense}
  /\ IF query.validAt # None
     THEN ValidAt(temporal, query.validAt)
     ELSE InRange(temporal, query)

EvaluateTemporal(temporal, query) ==
  IF query = None THEN Unit
  ELSE IF temporal = None THEN IF HasFilter(query) THEN 0 ELSE Unit
  ELSE IF ~Fits(temporal, query) THEN 0
  ELSE IF query.validAt = None \/ temporal.at = None THEN Unit
  ELSE Decay(Distance(query.validAt, temporal.at))

-----------------------------------------------------------------------------
(* EvaluateLocation: every criterion that is asked for has to be met.      *)

IsPrefix(s, t) == Len(s) <= Len(t) /\ SubSeq(t, 1, Len(s)) = s
Contains(t, s) == \E i \in 0 .. Len(t) : IsPrefix(s, SubSeq(t, i + 1, Len(t)))

Asked(query) == {field \in DOMAIN query : query[field] # None}

Met(digital, physical, query, field) ==
  CASE field = "venue"  -> physical # None /\ Contains(physical.venue, query.venue)
    [] field = "folder" -> digital # None /\ IsPrefix(query.folder, digital.folder)
    [] OTHER            -> digital # None /\ digital[field] = query[field]

EvaluateLocation(digital, physical, query) ==
  IF query = None THEN Unit
  ELSE IF \A field \in Asked(query) : Met(digital, physical, query, field)
       THEN Unit ELSE 0

-----------------------------------------------------------------------------
(* EvaluateLexical, UnpackFloats and CosineSimilarity.                     *)

\* The Jaccard similarity; a text without words matches everything.
EvaluateLexical(words, text) ==
  IF text \in {None, Blank, {}} THEN Unit
  ELSE (Unit * Cardinality(words \cap text)) \div Cardinality(words \cup text)

UnpackFloats(bytes) == IF bytes = Ragged THEN None ELSE bytes

CosineSimilarity(v, w) ==
  IF <<v, w>> \notin DOMAIN Cosine \/ Cosine[<<v, w>>] < 0 THEN 0
  ELSE IF Cosine[<<v, w>>] > Unit THEN Unit ELSE Cosine[<<v, w>>]

-----------------------------------------------------------------------------
(* The score of a node, in hundredths of Unit.                             *)

Scored(lexical, vector, temporal, location) ==
  [lexical |-> lexical, vector |-> vector, temporal |-> temporal, location |-> location]

\* textScore in tenths; a node or a query without a vector has its words only.
\* `byVector': both have one; `byText': the query has a text.
TextScore_vectorOnly(s, byText, byVector) ==
  IF byVector THEN 10 * s.vector ELSE 10 * s.lexical
TextScore(s, byText, byVector) ==
  IF byVector /\ byText THEN 7 * s.vector + 3 * s.lexical
  ELSE IF byVector THEN 10 * s.vector
  ELSE 10 * s.lexical

FinalScore(s, byText, byVector) ==
  IF byText \/ byVector
  THEN 5 * TextScore(s, byText, byVector) + 30 * s.temporal + 20 * s.location
  ELSE 60 * s.temporal + 40 * s.location
=============================================================================
