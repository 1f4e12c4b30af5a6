---------------------------- MODULE EvalMetrics ----------------------------
(***************************************************************************)
(* The scores of evals/metrics.py.  The score of one replay is a multiple  *)
(* of 1/One, and exact; what compute reports of all replays is rounded, as *)
(* there, to thousandths.  A run is a record with its trajectory, whose    *)
(* tool calls bear the tool's name, its diagnosis and its tokens.          *)
(***************************************************************************)
EXTENDS Trajectory, Loops, SequencesExt

CONSTANT
  One   \* 1.0 in the scores of a replay: all their divisors divide it

ASSUME EvalMetricsAssumption ==
  /\ IsFiniteSet(Tools)
  /\ One \in Nat \ {0}
  /\ \A d \in 1..(2 * Cardinality(Tools)) : \E m \in 1..One : One = m * d

Share(n, d) == (One * n) \div d

\* round(x / d, 3), in thousandths: the nearest.  Halfway between two, which takes a
\* multiple of 16 replays, pairs or tools, Python may take the lower one.
Rounded(x, d) == (2000 * x + d) \div (2 * d)

\* The mean over the replays, as reported.
Reported(scores) == Rounded(Total(scores), One * Len(scores))

Map(Op(_), s) == [i \in DOMAIN s |-> Op(s[i])]
Count(s, Test(_)) == Total([i \in DOMAIN s |-> IF Test(s[i]) THEN 1 ELSE 0])

-----------------------------------------------------------------------------

\* _extract_tools
ToolsOf(trajectory) ==
  Map(LAMBDA e : e.detail,
      Matching(trajectory, {e \in ToSet(trajectory) : e.action = "tool_call"}))

\* Mutant: F1 as the arithmetic mean.
ToolCallAccuracyArithmetic(actual, gold) ==
  LET a == ToSet(actual)
      g == ToSet(gold)
      hits == Cardinality(a \cap g)
      precision == IF a = {} THEN 0 ELSE Share(hits, Cardinality(a))
      recall    == IF g = {} THEN 0 ELSE Share(hits, Cardinality(g))
  IN  [precision |-> precision, recall |-> recall,
       f1 |-> (precision + recall) \div 2]

\* tool_call_accuracy compares sets: how often and in which order is no matter.
ToolCallAccuracy(actual, gold) ==
  LET a == ToSet(actual)
      g == ToSet(gold)
      hits == Cardinality(a \cap g)
      precision == IF a = {} THEN 0 ELSE Share(hits, Cardinality(a))
      recall    == IF g = {} THEN 0 ELSE Share(hits, Cardinality(g))
  IN  IF a = {} /\ g = {}
      THEN [precision |-> One, recall |-> One, f1 |-> One]
      ELSE [precision |-> precision, recall |-> recall,
            f1 |-> IF precision + recall = 0 THEN 0
                   ELSE (2 * precision * recall) \div (precision + recall)]

\* The overlap of two replays: the Jaccard index of their tools.
Overlap(s, t) ==
  LET union == ToSet(s) \cup ToSet(t)
  IN  IF union = {} THEN One
      ELSE Share(Cardinality(ToSet(s) \cap ToSet(t)), Cardinality(union))

\* Mutant: each replay is compared with the next one only.
TrajectoryConsistencyAdjacent(sequences) ==
  IF Len(sequences) <= 1 THEN 1000
  ELSE Reported([i \in 1..(Len(sequences) - 1) |-> Overlap(sequences[i], sequences[i + 1])])

\* The two loops over pairs of replays, each pair once.
OverPairs(n, score) ==
  Total([i \in 1..n |-> Total([j \in 1..n |-> IF i < j THEN score[<<i, j>>] ELSE 0])])

\* trajectory_consistency: the mean overlap over all pairs of replays, as reported.
\* It compares sets of tools; docs/evals.md speaks of an edit distance between routing
\* paths, which the code has nowhere.
TrajectoryConsistency(sequences) ==
  LET n == Len(sequences)
      Pair == (1..n) \X (1..n)
      overlaps == [p \in Pair |-> Overlap(sequences[p[1]], sequences[p[2]])]
  IN  IF n <= 1 THEN 1000
      ELSE Rounded(OverPairs(n, overlaps), One * OverPairs(n, [p \in Pair |-> 1]))

\* reasoning_correctness: "right" stands for a diagnosis with two keywords of the
\* scenario's root causes at least.
ReasoningCorrect(diagnosis) == diagnosis = "right"

\* Mutant: half of the replays is no majority.
MajorityStrict(correct, n) == 2 * correct > n

\* correct_count / n >= _MAJORITY_THRESHOLD
Majority(correct, n) == 2 * correct >= n

\* loop_waste and guardrail_engagement: both count the breaker's trips.
RedundantCalls(trajectory, gold) ==
  Count(ToolsOf(trajectory), LAMBDA t : t \notin ToSet(gold))
Trips(trajectory) == Count(trajectory, IsTrip)
ValidationErrors(trajectory) ==
  Count(trajectory, LAMBDA e : e.action = "validation_error")

\* compute, for at least one run.
Compute(runs, gold) ==
  LET n == Len(runs)
      tools == Map(LAMBDA r : ToolsOf(r.trajectory), runs)
      scores == Map(LAMBDA s : ToolCallAccuracy(s, gold), tools)
      total(Of(_)) == Total(Map(LAMBDA r : Of(r.trajectory), runs))
  IN [tool_precision    |-> Reported(Map(LAMBDA s : s.precision, scores)),
      tool_recall       |-> Reported(Map(LAMBDA s : s.recall, scores)),
      tool_f1           |-> Reported(Map(LAMBDA s : s.f1, scores)),
      consistency       |-> TrajectoryConsistency(tools),
      reasoning_correct |-> Majority(Count(runs, LAMBDA r : ReasoningCorrect(r.diagnosis)), n),
      redundant_calls   |-> total(LAMBDA t : RedundantCalls(t, gold)),
      loop_count        |-> total(Trips),
      validation_errors |-> total(ValidationErrors),
      breaker_trips     |-> total(Trips),
      avg_tokens        |-> Total(Map(LAMBDA r : r.tokens, runs)) \div n]
=============================================================================
