----------------------------- MODULE MCIngester -----------------------------
(* Ingester on small files.                                                *)
EXTENDS Ingester, TLC

CONSTANTS w1, w2, a, b, c, d, k1, k2, k3

Line(workflow, id) == [workflow |-> workflow, id |-> id]

\* For the command: every file of up to four events of one workflow, another
\* or none, with IDs that may come again.
MCLogs ==
  UNION {[1..n -> [workflow : {w1, w2, None}, id : {a, b, c}]] : n \in 1..4}

\* For several workers: IDs are used once.
MCLogsOnce ==
  UNION {{<<Line(v, i), Line(v, j), Line(v, m), Line(v, d)>>,
          <<Line(v, i), Line(w, j), Line(None, m), Line(v, d)>>} :
         i \in {a, b, c}, j \in {a, b, c}, m \in {a, b, c}, v \in {w1, w2}, w \in {w1, w2}}
MCUses ==
  [crew : {{k1}}, log : MCLogs] \cup
  [crew : {{k1, k2, k3}},
   log : {l \in MCLogsOnce : Cardinality({l[i].id : i \in 1..4}) = 4}]

ASSUME UsesAssumption == DistinctIds

Symmetric == Permutations({a, b, c}) \cup Permutations({w1, w2})
=============================================================================
