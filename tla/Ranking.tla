--------------------------------- MODULE Ranking ---------------------------------
(***************************************************************************)
(* What the prediction of router_predict computes from a gate matrix and a  *)
(* hidden state: scores, rankings, and the experts worth reading early.     *)
(* Scores, weights and tensor elements are integers; a sum of integers does *)
(* not depend on its order, so the four accumulators of the code are one.   *)
(* A tensor is its type and its rows, a score vector a function on experts. *)
(***************************************************************************)
EXTENDS Integers, Sequences, FiniteSets, Functions

Magnitude(v) == IF v < 0 THEN -v ELSE v
Least(a, b) == IF a < b THEN a ELSE b
-----------------------------------------------------------------------------
(* Rankings.                                                               *)

\* rank_top_k: higher scores first, ties to the lower index.
Beats(s, a, b) == s[a] > s[b] \/ (s[a] = s[b] /\ a < b)
Better(s, S, e) == {f \in S : Beats(s, f, e)}
Rank(s, S, e) == Cardinality(Better(s, S, e))

\* The k best of S; all of S when it has no more.
Top(s, S, k) == {e \in S : Rank(s, S, e) < k}
RankTopK(s, k) ==
  [i \in 1..Least(k, Cardinality(DOMAIN s)) |->
     CHOOSE e \in DOMAIN s : Rank(s, DOMAIN s, e) = i - 1]

\* score_prediction: the routing's slots found among the first k predicted.
Hits(pred, actual, k) ==
  {i \in 1..k : \E p \in 1..Least(k, Len(pred)) : pred[p] = actual[i]}
Exact(pred, actual, k) == Cardinality(Hits(pred, actual, k)) = k
-----------------------------------------------------------------------------
(* Scores.                                                                 *)

\* row_to_float: the types the prediction reads; any other declines.
Readable(type) == type \in {"F32", "F16"}
NoRow == << >>
RowToFloat(t, j) == IF Readable(t.type) THEN t.rows[j] ELSE NoRow

\* gate_scores: one score per expert, declined on another width or type.
Dot(p, h) == SumFunction([d \in DOMAIN h |-> p[d] * h[d]])
Fits(w, h) == DOMAIN w.rows # {} /\ \A e \in DOMAIN w.rows : Len(w.rows[e]) = Len(h)
NoScores == << >>
GateScores(w, h) ==
  IF Fits(w, h) /\ Readable(w.type) THEN [e \in DOMAIN w.rows |-> Dot(w.rows[e], h)]
  ELSE NoScores

\* quantize_gate: a row in 127ths of its largest magnitude, to the nearest.
Clamped(q) == IF q < -127 THEN -127 ELSE IF q > 127 THEN 127 ELSE q
Nearest(v, most) ==
  LET q == (254 * Magnitude(v) + most) \div (2 * most) IN IF v < 0 THEN -q ELSE q
Quantized(v, most) == IF most = 0 THEN 0 ELSE Clamped(Nearest(v, most))
Largest(p) == CHOOSE m \in {0} \cup {Magnitude(p[d]) : d \in DOMAIN p} :
                \A d \in DOMAIN p : Magnitude(p[d]) <= m
QuantizedRow(p) == [d \in DOMAIN p |-> Quantized(p[d], Largest(p))]
QuantizeGate(w) == [e \in DOMAIN w.rows |-> QuantizedRow(w.rows[e])]

\* gate_scores_q: from the int8 mirror of the matrix, in units of 1/127^2.  A
\* row of zeros says nothing and declines.
GateScoresQ(w, h) ==
  IF Fits(w, h) /\ Readable(w.type) /\ Largest(h) > 0
    THEN [e \in DOMAIN w.rows |->
            Dot(QuantizeGate(w)[e], QuantizedRow(h)) * Largest(w.rows[e]) * Largest(h)]
    ELSE NoScores

\* The worker's scores: a job that commits takes the mirror's on aarch64, and
\* the exact ones where the mirror declines.
JobScores(w, h, commit, aarch64) ==
  IF commit /\ aarch64 /\ GateScoresQ(w, h) # NoScores THEN GateScoresQ(w, h)
  ELSE GateScores(w, h)
-----------------------------------------------------------------------------
(* What is worth reading early.  weight is the exponential of the scores,   *)
(* percent the drop fraction of the policy in hundredths.                   *)

\* The drop policy would leave e cold: its share of the routing's weight is
\* below percent/nu.  The best expert is always read.
Worth(s, weight, S, percent, nu) ==
  LET top == Top(s, S, nu)
      sum == SumFunctionOnSet(weight, top)
  IN  {e \in top : \/ Rank(s, S, e) = 0 \/ percent = 0
                   \/ sum > 0 /\ 100 * nu * weight[e] >= percent * sum}

\* The list a committed ranking is issued by.
IssueList(s, weight, percent, nu) ==
  Worth(s, weight, DOMAIN s, percent, Least(nu, Cardinality(DOMAIN s)))

\* build_spec_lists: residents are kept, the best max of the others read.
SpecLists(s, weight, percent, nu, resident, max) ==
  LET worth == IF Cardinality(DOMAIN s) < nu THEN {}
               ELSE Worth(s, weight, DOMAIN s, percent, nu)
  IN  [keep |-> worth \cap resident,
       spec |-> Top(s, worth \ resident, max)]

\* route_ahead_issue_for: residents of the list are retained, the rest read.
IssueSplit(cand, resident) == [keep |-> cand \cap resident, spec |-> cand \ resident]
=============================================================================
