------------------------------ MODULE Evaluation ------------------------------
(***************************************************************************)
(* The evaluation pipeline: policyai-evaluate-policies runs the baseline   *)
(* and PolicyAI on every data point and prints one EvaluationReport per    *)
(* point; policyai-regression-report, policyai-token-usage-report and      *)
(* policyai-extract-regressions read those reports back.                   *)
(*                                                                         *)
(* What the LLM, and so the baseline and PolicyAI, answer is arbitrary, up *)
(* to what Manager and Report guarantee: PolicyAI's output has the fields  *)
(* of the policies' type only, and all of those that have a default.       *)
(***************************************************************************)
EXTENDS Comparison, Analysis

CONSTANTS
  Points,       \* the data points a file may hold
  Baselines,    \* the documents the baseline may answer with
  Outputs,      \* the documents PolicyAI may answer with
  ClaudiusUsages, \* the tokens a call may cost
  Times,        \* the milliseconds a call may take
  ArgSets,      \* the flags of policyai-extract-regressions
  Samples, MaxSamples,   \* the token counts of further reports, and their number
  NLines        \* how many lines the files of data points have

ASSUME EvaluationBounds ==
  /\ NLines \in Nat /\ Times \subseteq Nat /\ Samples \subseteq Nat /\ MaxSamples \in Nat
  /\ \A u \in ClaudiusUsages : u \in [TokenKinds -> Nat]

None == <<>>
Some(x) == <<x>>
RuleNumbers == "__rule_numbers__"

\* The types of a point's policies.
TypesOf(p) == {p.policies[j] : j \in DOMAIN p.policies}

\* What serde makes of a data point, and what Report::value returns: an object whose arrays hold
\* strings, since the only arrays are those of StringArray fields.
ASSUME InputDocuments ==
  /\ \A d \in Baselines : Document(d)
  /\ \A d \in Outputs :
       /\ Document(d) /\ d.object
       /\ \A k \in DOMAIN d.map : d.map[k][1] = "array" => d.map[k][2] \in Seq({"string"} \X DOMAIN Normal)
  /\ \A p \in Points :
       /\ p.policies \in Seq(TypesOf(p))
       /\ \A t \in TypesOf(p) : Entries(t.defaults)
       /\ p.expected # None => p.expected = Some(p.expected[1]) /\ Document(p.expected[1])

VARIABLES
  pc,          \* policyai-evaluate-policies: "read", "baseline", "policyai", "done", "panicked"
  lines,       \* lines still to be read
  point, metrics, baseline,    \* its locals
  reports,     \* the EvaluationReports on its stdout
  tool,        \* the tool that reads them: its name, how far it is and how it ended
  args,        \* the flags of the tool
  analysis, matrix, usages,    \* the tallies of the tool
  extracted    \* the lines policyai-extract-regressions printed

evaluatorVars == <<pc, lines, point, metrics, baseline, reports>>
toolVars == <<tool, args, analysis, matrix, usages, extracted>>
vars == <<evaluatorVars, toolVars>>

NewUsage == [claudius_usage |-> None, wall_clock_time |-> 0, iterations |-> 0]
NoFields == [o \in Outcomes |-> 0]
NewMetrics ==
  [fields |-> [s \in Sides |-> NoFields], error |-> [s \in Sides |-> FALSE],
   apply_duration_ms |-> [s \in Sides |-> 0], usage |-> [s \in Sides |-> NewUsage]]

NoArgs == [include_baseline_failures |-> FALSE, ignore_whitespace |-> FALSE, ignore_array_order |-> FALSE]
NoPoint == [policies |-> <<>>, expected |-> None]

Init ==
  /\ pc = "read" /\ lines = NLines /\ point = NoPoint /\ metrics = NewMetrics
  /\ baseline = None /\ reports = <<>>
  /\ tool = [name |-> "none", at |-> 0, status |-> "none"] /\ args = NoArgs
  /\ analysis = NewAnalysis /\ matrix = NewMatrix /\ usages = NewTokens /\ extracted = {}
-----------------------------------------------------------------------------
(* policyai-evaluate-policies                                              *)

clean_baseline(doc) ==
  IF doc.object THEN Object([k \in DOMAIN doc.map \ {RuleNumbers} |-> doc.map[k]]) ELSE doc

\* The entries of f, and those of g under other keys.
OrElse(f, g) == [k \in DOMAIN f \cup DOMAIN g |-> IF k \in DOMAIN f THEN f[k] ELSE g[k]]

\* The defaults of the policies' types, overridden by the expected values.
build_expected_with_defaults(policies, expected) ==
  LET defaults == FoldLeft(LAMBDA m, t : OrElse(m, t.defaults), <<>>, policies)
  IN IF expected # None /\ expected[1].object THEN OrElse(expected[1].map, defaults) ELSE defaults

\* Mutant: a wrong value is counted as missing as well.
calculate_field_metrics_twice(expected, actual) ==
  LET present == DOMAIN expected \cap DOMAIN actual.map
      matched == {k \in present : evaluate_values_match(expected[k], actual.map[k])}
  IN [matched |-> Cardinality(matched), wrong |-> Cardinality(present \ matched),
      missing |-> Cardinality(DOMAIN expected \ matched),
      extra |-> Cardinality(DOMAIN actual.map \ (DOMAIN expected \cup {RuleNumbers}))]

calculate_field_metrics(expected, actual) ==
  LET present == DOMAIN expected \cap DOMAIN actual.map
      matched == {k \in present : evaluate_values_match(expected[k], actual.map[k])}
  IN [matched |-> Cardinality(matched), wrong |-> Cardinality(present \ matched),
      missing |-> Cardinality(DOMAIN expected \ present),
      extra |-> Cardinality(DOMAIN actual.map \ (DOMAIN expected \cup {RuleNumbers}))]

Expected(p) == build_expected_with_defaults(p.policies, p.expected)

\* Manager::add asserts that the policies of a point have one type.
TypesDiffer(p) == \E j \in 1..(Len(p.policies) - 1) : p.policies[j] # p.policies[j + 1]

ReadPoint(p) ==
  /\ pc = "read" /\ lines > 0 /\ lines' = lines - 1
  /\ pc' = IF TypesDiffer(p) THEN "panicked" ELSE "baseline"
  /\ point' = p /\ metrics' = NewMetrics /\ baseline' = None
  /\ UNCHANGED <<reports, toolVars>>

\* A line that does not parse is reported on stderr and skipped.
SkipLine ==
  /\ pc = "read" /\ lines > 0 /\ lines' = lines - 1
  /\ UNCHANGED <<pc, point, metrics, baseline, reports, toolVars>>

EndOfInput ==
  /\ pc = "read" /\ lines = 0 /\ pc' = "done"
  /\ UNCHANGED <<lines, point, metrics, baseline, reports, toolVars>>

UsageAfter(cu, ms) == [claudius_usage |-> Some(cu), wall_clock_time |-> ms, iterations |-> 1]

\* The rest of the loop's body once naive_apply returned v (None: an error) with usage u.
Baseline(v, u, ms) ==
  /\ pc = "baseline" /\ pc' = "policyai"
  /\ baseline' = v
  /\ metrics' = [metrics EXCEPT
       !.error["baseline"] = v = None,
       !.apply_duration_ms["baseline"] = ms,
       !.usage["baseline"] = u,
       !.fields["baseline"] = IF v = None THEN @
                              ELSE calculate_field_metrics(Expected(point), clean_baseline(v[1]))]
  /\ UNCHANGED <<lines, point, reports, toolVars>>

\* naive_apply: the client fails before the caller's usage is touched, ...
BaselineFails == \E ms \in Times : Baseline(None, NewUsage, ms)

\* ... the response is one tool call, ...
BaselineAnswers ==
  \E doc \in Baselines, cu \in ClaudiusUsages, ms \in Times :
    Baseline(Some(doc), UsageAfter(cu, ms), ms)

\* ... or it is anything else, which is a todo!().
BaselinePanics ==
  /\ pc = "baseline" /\ pc' = "panicked"
  /\ UNCHANGED <<lines, point, metrics, baseline, reports, toolVars>>

\* The rest of the body once Manager::apply returned: the metrics against the report's value, and
\* the line on stdout.
PolicyAI(output, failed, u, ms) ==
  LET done == [metrics EXCEPT
        !.error["policyai"] = failed,
        !.apply_duration_ms["policyai"] = ms,
        !.usage["policyai"] = u,
        !.fields["policyai"] = calculate_field_metrics(Expected(point), output)]
  IN /\ pc = "policyai" /\ pc' = "read"
     /\ metrics' = done
     /\ reports' = Append(reports, [input |-> point, metrics |-> done, output |-> output,
                                    baseline |-> baseline])
     /\ UNCHANGED <<lines, point, baseline, toolVars>>

Possible(doc) ==
  /\ \A t \in TypesOf(point) : DOMAIN t.defaults \subseteq DOMAIN doc.map
  /\ \A k \in DOMAIN doc.map : \E t \in TypesOf(point) : k \in t.fields

PolicyAIAnswers ==
  \E doc \in Outputs, cu \in ClaudiusUsages, ms \in Times :
    Possible(doc) /\ PolicyAI(doc, FALSE, UsageAfter(cu, ms), ms)

\* An error of apply leaves Report::default(), whose value is an empty object; the usage may hold
\* the responses before the error.
Empty == Object(<<>>)
UsagesSoFar == {NewUsage} \cup {UsageAfter(cu, t) : cu \in ClaudiusUsages, t \in Times}
PolicyAIFails == \E ms \in Times, u \in UsagesSoFar : PolicyAI(Empty, TRUE, u, ms)
-----------------------------------------------------------------------------
(* The tools that read the reports.                                        *)

\* The tool is run on what was printed, after the end or after a panic.  Lines that do not parse
\* may be among its input: they are skipped in files, but fail all of stdin.
StartTool(name, stdin, bad) ==
  /\ pc \in {"done", "panicked"} /\ tool.name = "none"
  /\ tool' = [name |-> name, at |-> 0,
              status |-> IF name # "extract-regressions" /\ stdin /\ bad THEN "Err" ELSE "running"]
  /\ args' \in IF name = "extract-regressions" THEN ArgSets ELSE {NoArgs}
  /\ UNCHANGED <<evaluatorVars, analysis, matrix, usages, extracted>>

Running(name) == tool.name = name /\ tool.status = "running" /\ tool.at < Len(reports)
NextReport == reports[tool.at + 1]

ExpectedFieldCount(p) ==
  IF p.expected # None THEN Cardinality(DOMAIN p.expected[1].map) ELSE 0

AddToRegressionReport ==
  /\ Running("regression-report") /\ tool' = [tool EXCEPT !.at = @ + 1]
  /\ analysis' = Regression_add_report(analysis, NextReport.metrics)
  /\ matrix' = FieldMatch_add_report(matrix, NextReport.metrics, ExpectedFieldCount(NextReport.input))
  /\ UNCHANGED <<evaluatorVars, args, usages, extracted>>

AddToTokenUsageReport ==
  /\ Running("token-usage-report") /\ tool' = [tool EXCEPT !.at = @ + 1]
  /\ usages' = TokenUsage_add_report(usages, NextReport.metrics)
  /\ UNCHANGED <<evaluatorVars, args, analysis, matrix, extracted>>

is_regression(r) ==
  /\ r.input.expected # None /\ r.baseline # None
  /\ LET expected == r.input.expected[1]
         policyai_passes == values_match_recursive(r.output, expected, args)
         baseline_passes == values_match_recursive(r.baseline[1], expected, args)
     IN ~policyai_passes /\ (baseline_passes \/ args.include_baseline_failures)

ProcessLine ==
  /\ Running("extract-regressions") /\ tool' = [tool EXCEPT !.at = @ + 1]
  /\ extracted' = IF is_regression(NextReport) THEN extracted \cup {tool.at + 1} ELSE extracted
  /\ UNCHANGED <<evaluatorVars, args, analysis, matrix, usages>>

FinishTool ==
  /\ tool.status = "running" /\ tool.at = Len(reports)
  /\ tool' = [tool EXCEPT !.status = "done"]
  /\ UNCHANGED <<evaluatorVars, args, analysis, matrix, usages, extracted>>

Tools == {"regression-report", "token-usage-report", "extract-regressions"}

Evaluate ==
  \/ \E p \in Points : ReadPoint(p)
  \/ SkipLine \/ EndOfInput
  \/ BaselineFails \/ BaselineAnswers \/ BaselinePanics
  \/ PolicyAIAnswers \/ PolicyAIFails

Next ==
  \/ Evaluate
  \/ \E name \in Tools, stdin, bad \in BOOLEAN : StartTool(name, stdin, bad)
  \/ AddToRegressionReport \/ AddToTokenUsageReport \/ ProcessLine \/ FinishTool

Spec == Init /\ [][Next]_vars
-----------------------------------------------------------------------------
Read == 1..tool.at

\* The tallies account for every report and every field once.  Each expected field is matched,
\* wrong or missing: an apply that failed counts all of them as missing, a baseline that failed
\* counts none.  Every report has its iterations, and its tokens if it had a response.
ReportsAccounted ==
  LET counted(s) == analysis.total[s].matched + analysis.total[s].wrong + analysis.total[s].missing
      fields(j) == Cardinality(DOMAIN Expected(reports[j].input))
      failed(s) == {j \in Read : reports[j].metrics.error[s]}
  IN /\ tool.name = "regression-report" =>
          /\ counted("policyai") = MapThenSumSet(fields, Read)
          /\ counted("baseline") = MapThenSumSet(fields, Read \ failed("baseline"))
          /\ analysis.total["policyai"].missing >= MapThenSumSet(fields, failed("policyai"))
          /\ \A s \in Sides : error_rate(analysis, s)[1] <= error_rate(analysis, s)[2]
     /\ tool.name = "token-usage-report" =>
          \A s \in Sides, t \in TokenKinds :
            /\ Len(usages.iterations[s]) = tool.at /\ Len(usages.wall_clock_ms[s]) = tool.at
            /\ Len(usages.tokens[s][t]) = Cardinality({j \in Read : usages.iterations[s][j] > 0})

\* The expected output of a point spells out every default, as that of generated test data does.
SpellsOutDefaults(p) ==
  p.expected # None /\ p.expected[1].object /\ DOMAIN Expected(p) = DOMAIN p.expected[1].map

Perfect(r, side) ==
  LET f == r.metrics.fields[side] IN f.wrong = 0 /\ f.missing = 0 /\ ~r.metrics.error[side]

\* When the expected outputs spell out the defaults, and say something, the accuracy matrix counts
\* a side as correct exactly on the reports in which it got every expected field right, and the
\* scores computed from the matrix are those of their definitions.
MatrixIsRight ==
  tool.name = "regression-report" =>
    LET right(side) == Cardinality({j \in Read : Perfect(reports[j], side)})
    IN /\ (\A j \in Read : /\ SpellsOutDefaults(reports[j].input)
                           /\ DOMAIN reports[j].input.expected[1].map # {}) =>
            /\ matrix.true_positive + matrix.false_positive = right("policyai")
            /\ matrix.true_positive + matrix.false_negative = right("baseline")
            /\ matrix.true_positive = Cardinality({j \in Read : \A s \in Sides : Perfect(reports[j], s)})
       /\ SameRatio(f1_score(matrix), Ratio(2 * matrix.true_positive,
            2 * matrix.true_positive + matrix.false_positive + matrix.false_negative))
       /\ accuracy(matrix)[1] <= accuracy(matrix)[2] /\ accuracy(matrix)[2] \in {1, tool.at}

\* A report is extracted as a regression only if the evaluation's own metrics find fault with
\* PolicyAI's output: the extraction is never stricter than the evaluation, whatever its flags, on
\* points whose expected output spells out the defaults.
RegressionsHaveFaults ==
  \A j \in extracted :
    SpellsOutDefaults(reports[j].input) =>
      ~Perfect(reports[j], "policyai") \/ reports[j].metrics.fields["policyai"].extra > 0

IsPermutation(q, n) == \A j, k \in 1..n : q[j] = q[k] => j = k

\* On arrays of strings, what StringArray fields hold, ignore_array_order accepts exactly the arrays
\* that are a rearrangement of one another: taking the first match never takes the wrong one.
UnorderedIsRearranged ==
  \A r \in {reports[j] : j \in DOMAIN reports} :
    \A k \in DOMAIN r.output.map \cap DOMAIN Expected(r.input) :
      LET a == r.output.map[k]
          b == Expected(r.input)[k]
          n == Len(a[2])
      IN a[1] = "array" /\ b[1] = "array" =>
           (arrays_match_unordered(a[2], b[2], args)
              <=> n = Len(b[2]) /\ \E q \in [1..n -> 1..n] :
                    IsPermutation(q, n) /\ \A j \in 1..n : ScalarsMatch(a[2][j], b[2][q[j]], args))

\* What the token usage report prints of the counts it collected, and of those and any further ones,
\* is in order and within them, and p50 splits them in halves: the index of a percentile stays
\* inside the sorted vector and near its rank.
PercentilesAreRanks ==
  tool.name = "token-usage-report" /\ tool.status = "done" =>
    \A more \in BoundedSeq(Samples, MaxSamples), t \in TokenKinds :
      LET v == usages.tokens["policyai"][t] \o more
          n == Len(v)
          s == Summary(v)
      IN n > 0 =>
           /\ s.min <= s.p50 /\ s.p50 <= s.p99 /\ s.p99 <= s.max
           /\ s.min * n <= s.total /\ s.total <= s.max * n
           /\ 2 * Cardinality({j \in 1..n : v[j] <= s.p50}) >= n
           /\ 2 * Cardinality({j \in 1..n : v[j] >= s.p50}) >= n

\* The module documentation of policyai-extract-regressions: "This identifies true regressions
\* where the baseline performs better than PolicyAI".
TrueRegressions ==
  \A j \in extracted :
    LET f == reports[j].metrics.fields
    IN ~args.include_baseline_failures =>
         \/ f["baseline"].matched > f["policyai"].matched
         \/ f["policyai"].wrong + f["policyai"].extra > f["baseline"].wrong + f["baseline"].extra
=============================================================================
