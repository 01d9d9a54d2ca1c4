# A TLA+ model of policyai

policyai turns free text into structured JSON. A *policy* is a type (a list of fields), a prompt
and an *action* (the JSON to output when the prompt matches). A `Manager` shows all policies to an
LLM, with every field name replaced by a random *mask*, and checks that the rules the LLM says it
applied are the rules whose masks it set. The masks then turn the answer into a `Report`, in which
values of different policies for one field are reconciled by the field's *conflict strategy*.

The models here follow the code of that path, from the comparison of two JSON numbers up to the
retry loop around the LLM, and the tools around it: the generators that write test data, the
evaluator that runs them and the programs that sum up its reports. Paths below are relative to the
repository.

## Inventory

| Part | State | Operations | Talks to |
|---|---|---|---|
| Numbers (`src/lib.rs`) | none | `number_is_equal`, `number_less_than` | called by masks and reports |
| Report (`src/report.rs`) | values, defaults, errors, conflicts, rules matched | `report_*`, `value`, `has_errors` | written by masks only |
| Masks (`src/masks.rs`) | none | five `apply_to` | read the answer, call the report |
| Policy types (`src/policy_type.rs`, `src/field.rs`) | none | `default_value`, `with_semantic_injection`, `Display` | read by the builder |
| ReportBuilder (`src/report_builder.rs`) | masks, table of masks per rule, defaults, schema, messages | `add_policy`, `consume_ir` | makes the request and the report |
| Manager (`src/manager.rs`) | policies; per call: conversation, attempt, last error | `add`, `request_for`, `apply` | LLM client, builder, caller's usage |
| Usage (`src/usage.rs`) | tokens, iterations, time | reset, add, increment, set | owned by the caller of `apply` |
| Sampling (`src/data.rs`) | two counters | `policy_applies`, `policy_does_not_apply` | LLM client |
| Parser (`src/parser.rs`) | position in the input | `tokenize`, `parse_policy_type` | makes policy types |
| Analysis (`src/analysis.rs`) | counters and samples | `add_*`, averages, percentiles | fed by the tools |
| Evaluation tools (`src/bin/policyai-evaluate-policies.rs`, `-regression-report.rs`, `-token-usage-report.rs`, `-extract-regressions.rs`) | per line: a data point and its metrics; the tallies; lines printed | evaluate a point, add a report, extract a regression | baseline and `Manager::apply`, then one another through files |
| Generators (`examples/generate-*.rs`) | prompts, actions, one test case | confirm, draw an action, add a policy, shuffle | LLM client, then the evaluation tools through files |
| Other tools (`src/bin`) | none | read lines, print lines | call the above |

What is hard here is not concurrency between threads, of which there is none, but:

* **order**: several masks report one field, and the outcome may depend on which comes first;
* **an adversary for an input**: an answer of the LLM may put anything under any mask, leave masks
  out, and claim any rule numbers;
* **partial failure**: a policy is rejected half way through, a request fails after earlier ones
  succeeded, a caller drops the call while it waits;
* **retries**: five attempts that share a conversation, a counter, a usage record and a last error;
* **numbers**: JSON integers beyond 2^53 are compared with floats through a lossy conversion; two
  tools compare floats with different tolerances;
* **programs that have to agree without sharing code**: the generator says what a test case should
  give, far from the builder that gives it; the evaluator adds defaults to what is expected, two of
  the tools that read its reports do not;
* **loops that draw until something fits**, which may have nothing to find.

`PROJECT.json` lists each hazard at its line, with the properties that would catch it.

## Modules

| Module | Models | How |
|---|---|---|
| `JsonNumbers` | the two comparisons | A number is `pos`, `neg` or `float`. `F64` is any monotone, sign preserving rounding of integers, so "two integers, one float" happens in a domain of a few numbers. |
| `ReportOps` | `report.rs` and `masks.rs` as operators | One operator per function. JSON values are tagged tuples; a string is a name with a length. The four `report_*` functions for scalars share one shape, `Resolve`, and differ in `Same`, `Beats` and `LoserConflicts`. |
| `Report` | a report while masks are applied | One action per mask, with any answer, in any order; the loop of `StringArrayMask` is one step per string. `seen`, `first`, `mismatched` and `listed` are history and never read. |
| `BuilderOps` | `report_builder.rs` as operators | `add_policy` is `BeginAddPolicy` (what happens before validation) and `CommitPolicy`. |
| `ReportBuilder` | a builder in use | Policies that fit and policies that do not, of two types, in any order, then any answer to all masks. |
| `Resolution` | how `report.rs` resolves values | An abstract specification without masks, answers or defaults: values are reported, one is chosen, some fields are disputed. `Report` implements it. It says what the code does, not what the documentation of a strategy says: for `Default` the two differ (`MCReportDefaultWins`). |
| `Manager` | `manager.rs` and `usage.rs` | A step runs from one `client.send(..).await` to the next or to the return. |
| `Sampling` | `policy_applies`, `policy_does_not_apply` | One step per question. |
| `Parser` | the parser of `parser.rs` and the `Display` of a type | One action per place where a token is inspected. The first input is chosen as it is read; what it yields is displayed and parsed again. |
| `Comparison` | the two functions called `values_match` | Pure operators on documents, one per function; a number is an integer in a small unit, so that a relative tolerance is an inequality of integers. |
| `Analysis` | `analysis.rs` | One operator per function; the pairs of `policyai_*` and `baseline_*` members are one function of the side, a quotient is a pair. |
| `Evaluation` | the evaluator and the three tools that read its reports | A step of the evaluator is one await (the baseline, then PolicyAI); a step of a tool is one report. |
| `TestData` | the four generators, and `add_policy`'s replacement of names in a prompt | A step is one action drawn, one policy added. A prompt is the tokens a replacement can tell apart. The finished case is played back through `BuilderOps` with an LLM that does as it is told. |
| `SequenceProofs` | lemmas about sequences, folds and sums | No model of its own; the other proof modules extend it. |
| `ReportProofs`, `BuilderOpsProofs`, `ReportBuilderProofs`, `ManagerProofs`, `SamplingProofs`, `EvaluationProofs`, `ParserProofs` | theorems | see below |
| `MCReport`, `MCReportBuilder`, `MCManager`, `MCParser`, `MCEvaluation`, `MCTestData` | instances for TLC | `Sampling` needs none. |

What extends what: `JsonNumbers` <- `ReportOps` <- `Report` and `BuilderOps`; `BuilderOps` <-
`ReportBuilder`, `Manager` and `TestData`; `Comparison`, `Analysis` <- `Evaluation`. `Report`
instantiates `Resolution`. `Evaluation` knows of PolicyAI only what the models above it
establish: its output has fields of the type only and every field with a default, or it failed and
its usage may hold the responses before the failure.

`Report` is deliberately more general than `consume_ir`: masks come in any order and a mask is not
applied only once. `consume_ir` itself, with the code's fixed order of kinds, is the operator
`BuilderOps!consume_ir`, which `ReportBuilder` and `Manager` use. `Report` is for policies of one
type, which is what `Manager::add` asserts (the guard of `Manager!Add`); `ReportBuilder` mixes two types.

Operators whose name extends that of another one (`Resolve_swapped`, `Apply_keeps_usage`, ...) are
mutants: plausible mistakes that stand before the definition they would replace. They are used
nowhere; each property is shown to fail when its mutant takes the place of the original.

Abstractions: a number's value is its rank; strings have only identity and length; an array in an
answer is the sequence of its leaves with its height, because `extract_strings` depends on nothing
else; the wording of messages and errors is left out (feedback is the set of inconsistencies it
lists); wall clock time is "set or not"; a `Uuid` is a fresh number. External code is modelled from
its use: `push_or_merge_message`, `Uuid::new_v4`, the accessors of `serde_json::Number` and
`saturating_sub`.

In the tools, times and tokens are numbers from small sets; a document that is no JSON object is one value,
`NotAnObject`, whatever it is: the metrics treat all of them alike, but the extraction compares two of them, which always match
here (an expected output and a baseline answer that are both no objects; PolicyAI's output is always one); a line of a file is a record or does not
parse; `normalize_whitespace` is any idempotent function on the strings that occur
(`NormalIsIdempotent`). In the generators, the verdict of the LLM on a prompt is arbitrary
(`Sampling` models how it is reached), only the number of prompts of either kind matters, and a
random choice is a choice of anything.

### The refinement

`Report` maps to `Resolution` like this: the slots are the fields that hold one value, `reported` is
the history `seen`, `chosen` is the value in the report, and `disputed` is the set of slots named
by an entry of `conflicts`. `Wins` and `Agree` are the comparisons of the report (`Beats` and
`Same`). A step of a mask on an array, on nothing, or with a type error is a stutter; a step that
hands over a value is `ReportValue`; an answer that contradicts its policy is `ContradictPolicy`.
`ImplementsResolution` is checked by `MCReport` and proved in `ReportProofs`. What it adds to the properties of
single strategies is that it speaks of steps: each step resolves one value of one field there and then, and no mask
without a value, no default and no array step changes what is chosen or disputed, or settles a dispute.

## Runs

Passing runs, with the bounds and why they suffice:

* `MCReport`: six fields that cover every kind and every strategy, three masks. Every property
  relates at most a stored value, a first value and one more, so three masks on one field reach
  every combination; the integers include two that round to one float and one above `i64::MAX`,
  the strings an empty one and the arrays one that is too deep, one with a `null` leaf, an empty
  one and one with a duplicate. It shows that a field holds a reported value, the first or the
  largest one, that conflicts are on record exactly when they should be, that an array holds the
  strings the answers listed, once and in the order of first listing (nothing of an answer that has a
  leaf that is no string or is nested too deep), and that nothing recorded is taken back. What was
  listed (`Lists`) is read off the answer itself, not off `extract_strings`. Not every pair of a kind and a
  strategy has a field in the instance; the theorems below hold for all of them.
* `MCReportBuilder`: two calls of `add_policy` with nine policies, among them ones that are
  rejected late, ones without fields and ones with `null`; then every answer. Rule numbers, masks,
  schema and table stay in step, matches are attributed to the right rule, and an answer that
  honours the schema gives no error. A number, string or enum in the report is what a matched policy
  names (`ValuesComeFromPolicies`). The code does not compare a bool or an array with the policy's
  action: of those the property says that they are the LLM's answer to a mask of a matched rule, or, of
  an array, that each of its strings is in such an answer. The same goes for a policy that names null.
* `MCManager`: up to two policies, three attempts, templates that end with either role and one that
  already holds a tool call and its result, rule
  numbers that are right, wrong, zero or past the end. The conversation is one the API accepts and
  only grows, the feedback names the rules it is about, and what `apply` returns is accounted for.
* `MCManagerUsage`: two calls and the code's five attempts. The usage counts exactly the responses
  of the current call, `apply` gives up exactly at the limit, and it returns.
* `MCSampling`: all `k` and `n` in small ranges, `0` and `k > n` included.
* `MCParser`: every input of up to 18 tokens over two identifiers, three strings (one plain, one of a quote
  and a backslash, one with a tab), a finite number and both infinite ones; the escapes themselves are
  checked on every string of up to three characters of the eight classes (`LiteralsReadBack`). That is room for the longest kind of field and
  for two fields with clauses, so every optional clause meets every token that may follow it, and
  duplicate names happen. Anything that is accepted is what `Display` writes, but for the last comma
  and the synonym of `last wins`. Parsing the displayed text gives the same type exactly when no
  string holds a line break, tab, carriage return, NUL or unprintable character and no number is infinite:
  `Display` writes those characters as escapes (`EscapeOf`), of which the lexer knows only those of quote
  and backslash though it takes any of them raw, and such a number as `inf`, an identifier, or `-inf`,
  which is no token.
* `MCEvaluation`: two lines, seven kinds of data point (an expected output that spells out the
  defaults, leaves them out, is absent, is no object; no policies; two policies of one type and of two),
  and numbers on either side of both tolerances. Two reports are the least with which a tally can go
  wrong by forgetting or repeating one; three elements of an array, two of them equal, are the least
  with which taking the first match could go wrong. It shows that the tallies account for each
  report and each expected field once, failures included; that the accuracy matrix says what it
  means where expected outputs spell out the defaults; that a regression is never extracted where the
  metrics find no fault; that unordered matching is matching up to a rearrangement; and that the
  statistics printed are in order and within the samples (of up to five values).
* `MCTestData`: up to five actions, ten sets of options, among them ones that trip each assertion,
  leave a field without enough values, and have no field that requires agreement. Three policies
  are the least with which two can conflict and one not match. It shows that a normal test case expects exactly
  what a builder makes of it with an LLM that does as it is told, unless a value reads like the name
  of its field, which `add_policy` replaces too; that a conflict case has conflicts on exactly the
  fields it has two policies for; and that the generator ends when there are enough values.

`CHECK_DEADLOCK FALSE` is set where the bounded number of masks or calls runs out, or a parse ends.

Fairness: `Manager` and `Sampling` assume weak fairness of the step that receives a reply. The
code awaits `client.send`, whose client has a timeout and returns an error in the end; nothing else
is assumed, and in particular not that the LLM ever answers consistently. `TestData` assumes weak
fairness of its next-state relation: the programs keep running, and a loop that draws uniformly at
random from a finite file comes to a fitting draw with probability one, if the file has one. Where it
has none the model has no step, which is how `GenerationEnds` can tell.

Runs that TLC refutes, each for a sentence of the repository the code does not keep (`findings`
in `PROJECT.json` quotes them): enum values compare by length (`MCReportEnumOrder`);
`OnConflict::Default` keeps the first value and not the default (`MCReportDefaultWins`); a stale
`last_error` (`MCManagerLastError`); a report in which PolicyAI is right and the baseline wrong is
extracted as a regression when the expected output leaves a default out
(`MCEvaluationTrueRegressions`; this is the case that `RegressionsHaveFaults` excepts).

Other differences met while modelling, visible in the definitions but without a run of their own:

* `apply` makes five attempts, where its doc comment (`src/src/manager.rs:83`) says it retries up to
  three times;
* a reported rule that exists but whose action sets no field is answered with feedback that lists
  nothing (`Inconsistencies`; `FeedbackNamesRules` excepts that case);
* `BoolMask` counts `false` as a match of its rule, so an answer shaped like the third example of
  `prompts/manager.md`, with `false` under a mask of a rule it does not report, is rejected;
* `policy_does_not_apply` stops at `k` yeses and still holds after them when `n >= 2k`
  (`NegativesAreNegative` states the case `n < 2k`);
* `DuplicateFieldName` carries the position after the field, where `src/src/parser.rs:70` calls it the
  position of the duplicate field name;
* under `Agreement` two numbers may both be equal to a third and not to each other, since
  `number_is_equal` (`src/src/lib.rs:121`) goes through `f64`; `AgreementRecorded` compares with the
  first value, as the code does;
* a rejected policy has already replaced the builder's defaults (`src/src/report_builder.rs:84`),
  where a comment further down (`src/src/report_builder.rs:222`) says "Commit all changes atomically"; masks,
  rule numbers and schema do stay as they were (`MasksFollowRules`, `RequestMatchesMasks`);
* a conflict test case lists a field before its policies are added
  (`src/examples/generate-test-data.rs:263`), so a field may be listed that has fewer than two;
  `ConflictsAreProduced` states which fields are in conflict;
* such a case expects the default of a conflicting field, while the report keeps the first value;
* `generate-test-data` does not end on a bool field that requires agreement when it wants three
  values of it, and panics when fewer than two policies are to match a conflict case, when it has no
  prompt to fill a slot with, or no actions (`SelectField`, `Fill`, `NoActions`, and the condition
  `RichActions` in `GenerationEnds`);
* the accuracy matrix of `policyai-regression-report` compares a count of matched fields that
  includes defaults with the number of expected fields that does not, so a perfect output of a point
  that leaves a default out is not counted as correct (`MatrixIsRight` states the other case).

## Proofs

`ReportProofs` shows first, for any rounding that is monotone and keeps the sign (assumptions
`F64Monotone`, `F64Sign`), that `number_less_than` is irreflexive and transitive across the three
representations and that of two numbers exactly one is less or they are equal. Transitivity is not
obvious: equality is *not* transitive. The case split is on which pairs are compared as integers.

It then proves, for every set of fields, kinds, strategies, defaults, answers and number of
masks: type correctness, `ValueWasReported`, `FirstWriterStays`, `LargestKept`,
`AgreementRecorded` and `SilentResolution`. The argument has three parts.

1. *Effects.* Whatever mask is applied to whatever answer, a step does one of six things: nothing
   to the fields (`Quiet`), touch an array (`ArrayStep`), log a contradiction (`Contra`), or hand
   over a value that is stored, dropped or logged as a conflict (`Stores`, `Keeps`, `Clashes`).
   There is one lemma per action.
2. *Invariant.* `ReportInv` says of each field that it is unset exactly while nothing was
   reported, that its value and the first are among the reported ones, and the four properties.
   These are not inductive one by one: that a conflict is on record exactly when a value differs from
   the first needs that the stored value *is* the first, and that needs the correspondence with the
   history. `HandedKeeps` is the heart; under `LargestValue` it rests on the transitivity of `Beats`
   and so on that of the comparison.

   That `Report` implements `Resolution` needs the same invariant: the abstract `MayChoose` speaks of
   all reported values, the code compares with the stored one only. The theorem
   `ReportImplementsResolution` shows that the initial state maps to an initial state and that each of
   the six effects maps to a step or a stutter.

3. *Logs and arrays.* `NoInternalErrors`, `ArrayIsUnion` and the action property `NothingTakenBack`
   rest on a second invariant, `ReportLogInv`. That no default clashes with an earlier one needs that
   whatever default is on record for a field is the one of its type (`GoodLogs`); that an array holds the
   strings listed, in order and once, needs to say where they are *between* the steps of `StringArrayMask`'s loop:
   what was listed is a part that the field holds without repetitions (`Kept`, `WithoutRepeats`) followed by
   the strings still to come (`Queued`), which are all of one field (`OneField`). That is `ArrayInv`. `Grows` is what every step does to the
   report, in a form that is transitive, so that a mask's several calls compose.

`BuilderOpsProofs` and `ReportBuilderProofs` prove the six properties of the builder, for every set
of policies and answers of the JSON types (`InputTypes`) and any number of calls of `add_policy`.

* `Built(b, added)` ties a builder to the policies it accepted: each mask was made from a field of
  the type of the rule it names (`MasksBuilt`), each rule's entry of `masks_by_index` lists its masks
  (`RulesBuilt`), and messages and schema speak of those rules and masks (`RequestBuilt`). It is kept
  by the rejected policies (`BeginBuilt`) and by the accepted ones (`CommitBuilt`). `TypeOK` alone is
  not inductive: that a new mask is not in the schema yet needs that all identifiers
  there were drawn before, and that the table's new entry is the next rule needs that it has one entry per rule.
* What `consume_ir` computes is shown mask by mask (`Applied`, one lemma per kind, `MaskApplied`), then
  for any sequence of masks (`ApplyAllEffect`) and for the five sequences in the code's order
  (`ConsumeEffect`). `MatchesAttributed` and `ValuesComeFromPolicies` follow: a mask changes only its own
  field, and only to what it accounts for (`Justifies`) or with strings of its answer (`Gives`), also after
  the conflict strategies have replaced values and answers have contradicted their policies.
* That an answer that honours the schema gives no error (`BuilderSchemaSuffices`) is proved for
  policies of one type in which a name stands for one field and no default is a number that JSON cannot hold
  (`PlainType`; the parser refuses the former, and the latter is the case `NoInternalErrors` excepts).
  `Ready` is what a report must satisfy for a mask to set its default without an error; `Behaves` that a mask
  leaves the report ready for the others.

`ManagerProofs` proves all safety properties of `Manager`, for every limit, policy, answer, template and
number of calls (assumptions `ManagerBounds`, `InputTypes`, and `TemplateTypes`: the caller's messages are a
conversation in which each tool call is answered, though it may end with either role).

* `UsageCountsResponses` is not inductive: that giving up comes after exactly `max_attempts`
  responses needs that the attempt counter is one ahead of the responses while `apply` waits, and
  that the usage is right needs that a call that waits has returned nothing yet. `UsageInv` adds both
  (`InCall`), and that no tokens are spent before a response. `CountResponse` is the heart: whichever
  way a reply goes, `Track` and the history advance together.
* `ConversationWellFormed`, `ConversationOnlyGrows`, `FeedbackNamesRules` and `OkIsAccountedFor` need
  what is true while `apply` waits (`Waiting`): the builder is one `Built` from exactly the manager's
  policies, and the messages end with the user. The first comes from a fold over the policies in
  `request_for` (`BuildFold`), the second from `push_or_merge_message`, case by case (`PushOther`,
  `PushSame`, `PushFeedback`) and over the builder's messages (`PushFold`). That the rules in the
  report exist is `MatchesAttributed` of the builder's proof, used again.
* `OkHasNoInternalError` needs besides that the policies are of one type, which `add` asserts, and that
  the builder's defaults are those of that type (`CleanInv`). It is proved for `PlainType` types.

`SamplingProofs` proves the safety properties of the sampling loop for all `k` and `n`.

`EvaluationProofs` proves the five properties of `Evaluation`, for any number of lines, reports,
fields and policies. `InputDocuments` says what serde and `Report::value` guarantee of the documents:
finitely many entries, scalars or arrays of scalars, and in an output arrays of strings only.

* `EvaluatorInv` and `ToolInv`: a report holds the metrics of its own point and of the two answers it
  carries, and a tool has read the reports up to `tool.at` and nothing else. Between the two awaits of a
  point the metrics are half filled in, which is what `EvaluatorInv` says of each `pc`.
* `RegressionsHaveFaults`: a scalar that the evaluator counts as matched is accepted by the extraction
  under any flags (`ExtractionIsLenient`, for every pair of integers, so the two tolerances and the
  special case of zero never cross), so are arrays (`FieldsLenient`), and counts of zero mean that no field is
  wrong, missing or extra (`FieldsCounted`). The theorem has a hypothesis the proof asked for: no field of a
  policy type is called `__rule_numbers__`. The metrics never count that key as extra
  (`src/src/bin/policyai-evaluate-policies.rs:234`), so an output that has it would be
  extracted and not faulted.
* `UnorderedIsRearranged`: that the greedy loop finds a rearrangement if there is one is an exchange
  argument. On strings, two elements that match a common one match the same elements
  (`StringsAlike`), so a rearrangement can be changed to agree with the choices made so far
  (`RearrangementIsFound`). It would be false for numbers, where matching within a tolerance is
  not transitive; outputs have no arrays of numbers.
* `ReportsAccounted` and `MatrixIsRight`: `TallyInv` says that the tallies are those of the reports read
  so far, `Tallied` with sums over sets of reports, `Scored` with cardinalities, `Collected` with
  lengths. The matrix counts as right the reports whose matched fields are as many as expected
  (`Right`); that this is to be without fault (`RightIsPerfect`) needs a point that spells out the
  defaults and expects something, the condition of the property. `F1IsRight` is the identity between
  the code's `2pr / (p + r)` and `2tp / (2tp + fp + fn)`, with the tests for zero divisors.
* `PercentilesAreRanks`: the index of a percentile stays in the vector and never falls as the percentage rises, for
  every length and any two percentages (`PercentileIndexInRange`, `PercentileIndexMonotone`). The k-th value of the sorted vector has at
  least k values up to it (`SortedRanked`) and fewer than k below (`RankedBelow`); that both halves of the vector
  are at least half comes down to where the index of p50 is, `n \div 2`. `TotalBounds` is the sum.

`ParserProofs` proves the three properties of `Parser`, for inputs of every length and every set of identifiers,
strings and numbers (assumptions `ParserBounds`, `StringsAreText`, and `InfIsIdent`: if a number literal can be
too large for an `f64`, the word its `Display` writes is an identifier).

* `ParserTypeOK`: `Typed` says which parts of the field have been read at each place of the parser (`FieldAt`).
  Every action either takes the token it looks at, or only looks, or fails (`Takes`, `Looks`, `Fails`, one lemma
  per action); all three theorems rest on these.
* `ParserNothingIgnored`: at every token, what was consumed is what `Display` would write of the part of the type
  that has been read (`Exact`). For a field this is a text per place (`FieldText`), and each action adds its token to
  that text (the `Spell` lemmas). One comma breaks this: a closing brace right after a field pushes
  it as if its comma had been there, so between that and the end the text is a comma short (`CommaLeft`,
  `CommaNeverRead`).
* `ParserRoundTrip` needs the opposite view: what is *left* to read. The second parse follows the displayed type
  (`Follows`): its name is a prefix of the type's, its fields are the first of the type's, the field it is in agrees
  with the next one as far as it goes (`Agreed`), and the rest of the text is what `Display` writes of what is still missing
  (`FieldLeft`, `Comma`, `NamesLeft`). The token that comes next is then known; a `Read` lemma per place says which,
  a `Follow` lemma per action that the parser takes it to the next such place. It leaves this path in two ways only,
  a literal the lexer rejects, `-inf` among them (before anything is parsed), and the default `inf`, which lexes as an
  identifier; both need a field that is not `Legible`. That the lexer inverts `{:?}` on exactly the strings without a
  character that `{:?}` writes as an escape of its own (`Garbled`) is `LiteralRoundTrip`, an induction over the characters.
  That fields never repeat a name (`FieldsFit`) is needed too: else the second parse could fail where the first did not.

How induction is done: the library's induction rules take a predicate as a parameter, which the provers
cannot instantiate, so `SequenceProofs` has a rule for *sets* of naturals instead (`NatSetInduction`, from
the well-foundedness of `<`), to be used with the set of the numbers for which the claim holds. A fold is
reasoned about position by position: `FoldExists` and `FoldAlong` give a function `h` with `h[0]` the base and
`h[i]` the value after `i` elements, each concrete fold has one lemma that connects it to such a function
(`KeepFold`, `ApplyFold`, `PushFold`, `TakeFold`, ...), and what it computes is an induction along `h`. Sums
over sets are handled alike (`SumExists`, `SumUnique`), cardinalities of growing prefixes by `CountUp`.

Only model-checked:

* the liveness properties `ApplyReturns`, `Terminates` and `GenerationEnds`, which rest on fairness;
* `ExpectedIsProduced` and `ConflictsAreProduced` of the generators. They compare a generated case with the
  whole of `consume_ir`, in both directions and for every order of its policies: what the proofs of the builder
  say of a report is which values it *may* hold, not which one it holds.

## Not modelled

* The lexer on arbitrary text (it is modelled on literals that `Display` wrote) and the positions in
  parse errors.
* `with_semantic_injection`: one request, and the text between the first `{` and the last `}` of the
  response (the schema it builds is not part of the request). Its result is an action that may be any JSON value, and such actions are among the
  policies of `MCReportBuilder`.
* The wording and layout of messages, errors, tables and CSV; averages as `f64` values (the pairs they
  are computed from are modelled).
* The remaining command line tools, which read lines and print them in another form without state.

## Plan

Done: all modules above, and the proofs listed. What is left, in this order:

1. Proofs: `ExpectedIsProduced` of the generators, for which `Built` and `ConsumeEffect` already say
   which values a builder may make of a case.
2. The lexer, as a transducer over classes of characters, composed with `Parser`.
