------------------------------- MODULE Analysis -------------------------------
(***************************************************************************)
(* src/analysis.rs: the tallies the reporting tools keep over evaluation   *)
(* reports, and the statistics they print.  The pairs of policyai_* and    *)
(* baseline_* members are one function of the side.  A quotient of two     *)
(* counts, an f64 in the code, is the pair of them.                        *)
(***************************************************************************)
EXTENDS Integers, Sequences, FiniteSets, SequencesExt, FiniteSetsExt

Sides == {"policyai", "baseline"}
Outcomes == {"matched", "wrong", "missing", "extra"}
TokenKinds == {"input", "output", "cache_creation", "cache_read"}

\* A quotient; the code tests for a zero divisor and returns 0.0.
Ratio(n, d) == IF d = 0 THEN <<0, 1>> ELSE <<n, d>>
SameRatio(r, s) == r[1] * s[2] = s[1] * r[2]
-----------------------------------------------------------------------------
NewMatrix == [true_positive |-> 0, false_positive |-> 0, true_negative |-> 0, false_negative |-> 0]

\* Mutant: the two kinds of error change places.
add_prediction_swapped(m, actual, predicted) ==
  CASE actual /\ predicted -> [m EXCEPT !.true_positive = @ + 1]
    [] ~actual /\ predicted -> [m EXCEPT !.false_negative = @ + 1]
    [] actual /\ ~predicted -> [m EXCEPT !.false_positive = @ + 1]
    [] ~actual /\ ~predicted -> [m EXCEPT !.true_negative = @ + 1]

add_prediction(m, actual, predicted) ==
  CASE actual /\ predicted -> [m EXCEPT !.true_positive = @ + 1]
    [] actual /\ ~predicted -> [m EXCEPT !.false_negative = @ + 1]
    [] ~actual /\ predicted -> [m EXCEPT !.false_positive = @ + 1]
    [] ~actual /\ ~predicted -> [m EXCEPT !.true_negative = @ + 1]

precision(m) == Ratio(m.true_positive, m.true_positive + m.false_positive)
recall(m) == Ratio(m.true_positive, m.true_positive + m.false_negative)

\* 2 * p * r / (p + r)
f1_score(m) ==
  LET p == precision(m)
      r == recall(m)
  IN Ratio(2 * p[1] * r[1], p[1] * r[2] + r[1] * p[2])

accuracy(m) ==
  Ratio(m.true_positive + m.true_negative,
        m.true_positive + m.false_positive + m.true_negative + m.false_negative)

\* FieldMatchAccuracyMatrix::add_report: the baseline is the actual class, PolicyAI the prediction.
FieldMatch_add_report(m, metrics, expected_field_count) ==
  add_prediction(m, metrics.fields["baseline"].matched = expected_field_count,
                    metrics.fields["policyai"].matched = expected_field_count)
-----------------------------------------------------------------------------
NewAnalysis ==
  [total_reports |-> 0, total |-> [s \in Sides |-> [o \in Outcomes |-> 0]],
   errors |-> [s \in Sides |-> 0], duration_ms |-> [s \in Sides |-> 0]]

\* RegressionAnalysis::add_report.
Regression_add_report(a, metrics) ==
  [total_reports |-> a.total_reports + 1,
   total |-> [s \in Sides |-> [o \in Outcomes |-> a.total[s][o] + metrics.fields[s][o]]],
   errors |-> [s \in Sides |-> a.errors[s] + (IF metrics.error[s] THEN 1 ELSE 0)],
   duration_ms |-> [s \in Sides |-> a.duration_ms[s] + metrics.apply_duration_ms[s]]]

avg_duration_ms(a, side) == Ratio(a.duration_ms[side], a.total_reports)
error_rate(a, side) == Ratio(a.errors[side], a.total_reports)
avg_fields_matched(a, side) == Ratio(a.total[side].matched, a.total_reports)
-----------------------------------------------------------------------------
NewTokens ==
  [total_reports |-> 0, tokens |-> [s \in Sides |-> [t \in TokenKinds |-> <<>>]],
   wall_clock_ms |-> [s \in Sides |-> <<>>], iterations |-> [s \in Sides |-> <<>>]]

\* TokenUsageAnalysis::add_report.  A usage without claudius_usage, that of a call whose first send
\* failed, adds to the iterations and the times but not to the tokens.
TokenUsage_add_report(a, metrics) ==
  [total_reports |-> a.total_reports + 1,
   tokens |-> [s \in Sides |-> [t \in TokenKinds |->
     LET u == metrics.usage[s].claudius_usage
     IN IF u = <<>> THEN a.tokens[s][t] ELSE Append(a.tokens[s][t], u[1][t])]],
   wall_clock_ms |-> [s \in Sides |-> Append(a.wall_clock_ms[s], metrics.usage[s].wall_clock_time)],
   iterations |-> [s \in Sides |-> Append(a.iterations[s], metrics.usage[s].iterations)]]

total(values) == FoldLeft(LAMBDA x, y : x + y, 0, values)
avg(values) == Ratio(total(values), Len(values))
Elements(values) == {values[j] : j \in DOMAIN values}
min(values) == IF values = <<>> THEN 0 ELSE Min(Elements(values))
max(values) == IF values = <<>> THEN 0 ELSE Max(Elements(values))

\* ((p / 100) * (len - 1)).round(): round takes halves away from zero.
percentile_index(n, p) == (2 * p * (n - 1) + 100) \div 200

\* Mutant: the values are not sorted.
percentile_unsorted(values, p) ==
  IF values = <<>> THEN 0 ELSE values[percentile_index(Len(values), p) + 1]

\* The values in order: the k-th is the least with k of them, or more, up to it.
UpTo(values, x) == {j \in DOMAIN values : values[j] <= x}
sort_unstable(values) ==
  [k \in DOMAIN values |-> Min({x \in Elements(values) : Cardinality(UpTo(values, x)) >= k})]

percentile(values, p) ==
  IF values = <<>> THEN 0 ELSE sort_unstable(values)[percentile_index(Len(values), p) + 1]
p50(values) == percentile(values, 50)
p99(values) == percentile(values, 99)

\* The figures the getters of TokenUsageAnalysis return for each of its vectors.
Summary(values) ==
  [total |-> total(values), avg |-> avg(values), min |-> min(values), max |-> max(values),
   p50 |-> p50(values), p99 |-> p99(values)]
=============================================================================
