------------------------------ MODULE ReportOps ------------------------------
(***************************************************************************)
(* The operations of src/report.rs as operators on a report record, and    *)
(* the masks of src/masks.rs that call them.                               *)
(*                                                                         *)
(* A JSON value is a tagged tuple.  A string is a member of Strings and    *)
(* StrLen gives its length in bytes.  The array an LLM answers with is     *)
(* <<"array", leaves, height>>: the leaves of the (possibly nested) array  *)
(* in document order and the nesting level of its deepest node.  The array *)
(* a report builds is flat: <<"array", strings>>.                          *)
(***************************************************************************)
EXTENDS JsonNumbers, SequencesExt

CONSTANTS
  Fields,    \* the field names of the policies' types
  Strings,   \* the strings that occur
  StrLen,    \* str::len of each
  MaxDepth   \* how deep StringArrayMask looks into nested arrays (128 in the code)

ASSUME StrLenType == StrLen \in [Strings -> Nat]
ASSUME MaxDepthType == MaxDepth \in Nat \ {0, 1}

Strategies == {"Default", "Agreement", "LargestValue"}
Kinds == {"bool", "number", "string", "enum", "array"}

Unset == <<"unset">>       \* a key that is absent from a JSON object
None == <<"none">>         \* Option::None
Null == <<"null">>
NonFinite == <<"nonfinite">>   \* a t64 that no JSON number can hold

Bools == {<<"bool", b>> : b \in BOOLEAN}
NumberValues == {<<"number", n>> : n \in Numbers}
StringValues == {<<"string", s>> : s \in Strings}

\* The JSON values a field of each kind may be set to; an enum is a string in the output.
ValuesOf(kind) ==
  CASE kind = "bool" -> Bools
    [] kind = "number" -> NumberValues
    [] OTHER -> StringValues

NewReport(default) ==
  [value |-> [f \in Fields |-> Unset], default |-> default,
   errors |-> <<>>, conflicts |-> <<>>, rules_matched |-> <<>>]

\* Report::value: the defaults, overridden by what the policies set.
value(r) == [f \in Fields |-> IF r.value[f] # Unset THEN r.value[f] ELSE r.default[f]]

has_errors(r) == r.errors # <<>> \/ r.conflicts # <<>>

report_policy_index(r, i) == [r EXCEPT !.rules_matched = Append(@, i)]

report_invariant_violation(r, f) == [r EXCEPT !.errors = Append(@, <<"InvariantViolation", f>>)]

report_type_check_failure(r, f) == [r EXCEPT !.errors = Append(@, <<"TypeCheckFailure", f>>)]

\* report_bool_conflict, report_number_conflict, report_string_conflict and
\* report_string_enum_conflict differ only in the type of the two values.
report_conflict(r, f, val1, val2) == [r EXCEPT !.conflicts = Append(@, <<f, val1, val2>>)]

\* Mutant: a second policy with the same default is a conflict.
report_default_repeated(r, f, d) ==
  IF r.default[f] = Unset THEN [r EXCEPT !.default[f] = d]
  ELSE [r EXCEPT !.errors = Append(@, <<"DefaultConflict", f>>)]

\* The three report_*_default functions differ only in the type of the value.
report_default(r, f, d) ==
  IF r.default[f] = Unset THEN [r EXCEPT !.default[f] = d]
  ELSE IF r.default[f] # d THEN [r EXCEPT !.errors = Append(@, <<"DefaultConflict", f>>)]
  ELSE r
report_bool_default(r, f, d) == report_default(r, f, d)
report_number_default(r, f, d) == report_default(r, f, d)
report_string_default(r, f, d) == report_default(r, f, d)
-----------------------------------------------------------------------------
(* Setting a scalar field: the four report_* functions share one shape and  *)
(* differ in how they compare values and in what happens to a losing value. *)

Tag(kind) == IF kind = "enum" THEN "string" ELSE kind

Same(kind, a, b) == IF kind = "number" THEN number_is_equal(a[2], b[2]) ELSE a = b

\* LargestValue: does `new` replace `old`?  Strings and enums compare by length.
Beats(kind, new, old) ==
  CASE kind = "bool" -> new[2] /\ ~old[2]
    [] kind = "number" -> number_less_than(old[2], new[2])
    [] OTHER -> StrLen[new[2]] > StrLen[old[2]]

\* Under LargestValue a losing number or enum is a conflict; a losing bool or string is dropped.
LoserConflicts(kind) == kind \in {"number", "enum"}

\* Mutants of Resolve.  Under Default the last value is kept, not the first.
Resolve_last(kind, r, f, v, on_conflict) == [r EXCEPT !.value[f] = v]

\* Under Default a different value is a conflict.
Resolve_loud(kind, r, f, v, on_conflict) ==
  LET old == r.value[f]
  IN IF old = Unset THEN [r EXCEPT !.value[f] = v]
     ELSE IF Same(kind, old, v) THEN r
     ELSE report_conflict(r, f, old, v)

\* Under Agreement only a larger value is a conflict.
Resolve_one_sided(kind, r, f, v, on_conflict) ==
  LET old == r.value[f]
  IN IF old = Unset THEN [r EXCEPT !.value[f] = v]
     ELSE IF Beats(kind, v, old) THEN report_conflict(r, f, old, v)
     ELSE r

\* LargestValue with the comparison the wrong way round.
Resolve_swapped(kind, r, f, v, on_conflict) ==
  LET old == r.value[f]
  IN IF old = Unset \/ Beats(kind, old, v) THEN [r EXCEPT !.value[f] = v] ELSE r

\* LargestValue that lets an equal value through.
Resolve_equal(kind, r, f, v, on_conflict) ==
  LET old == r.value[f]
  IN IF old = Unset \/ Same(kind, old, v) \/ Beats(kind, v, old) THEN [r EXCEPT !.value[f] = v] ELSE r

\* A value that wins settles the conflicts its field had.
Resolve_settles(kind, r, f, v, on_conflict) ==
  LET old == r.value[f]
  IN IF old = Unset THEN [r EXCEPT !.value[f] = v]
     ELSE IF on_conflict # "LargestValue" \/ Same(kind, old, v) THEN r
     ELSE IF Beats(kind, v, old)
     THEN [r EXCEPT !.value[f] = v, !.conflicts = SelectSeq(@, LAMBDA c : c[1] # f)]
     ELSE report_conflict(r, f, old, v)

Resolve(kind, r, f, v, on_conflict) ==
  LET old == r.value[f]
      set == [r EXCEPT !.value[f] = v]
      clash == report_conflict(r, f, old, v)
  IN IF old \in {Unset, Null} THEN set
     ELSE IF old[1] # Tag(kind) THEN report_invariant_violation(r, f)
     ELSE IF Same(kind, old, v) \/ on_conflict = "Default" THEN r
     ELSE IF on_conflict = "Agreement" THEN clash
     ELSE IF Beats(kind, v, old) THEN set
     ELSE IF LoserConflicts(kind) THEN clash
     ELSE r

report_bool(r, i, f, v, oc) == Resolve("bool", report_policy_index(r, i), f, v, oc)

report_number(r, i, f, v, oc) == Resolve("number", report_policy_index(r, i), f, v, oc)

report_string(r, i, f, v, oc) == Resolve("string", report_policy_index(r, i), f, v, oc)

report_string_enum(r, i, f, v, oc) == Resolve("enum", report_policy_index(r, i), f, v, oc)

\* An existing value that is not an array is overwritten.
report_string_array(r, i, f, s) ==
  LET old == r.value[f]
      new == IF old[1] # "array" THEN <<"array", <<s>>>>
             ELSE IF Contains(old[2], s) THEN old
             ELSE <<"array", Append(old[2], s)>>
  IN [report_policy_index(r, i) EXCEPT !.value[f] = new]

init_empty_string_array(r, i, f) ==
  [report_policy_index(r, i) EXCEPT !.value[f] = IF @ = Unset THEN <<"array", <<>>>> ELSE @]
-----------------------------------------------------------------------------
(* The masks.  `v` is ir.get(mask): what the LLM put under the mask's key,  *)
(* Unset when the key is absent.                                            *)

\* Mutant: false is taken for an absent answer.
BoolMask_only_true(m, v, r) ==
  IF v \in {Unset, <<"bool", FALSE>>} THEN r
  ELSE IF v[1] = "bool" THEN report_bool(r, m.policy_index, m.name, v, m.on_conflict)
  ELSE report_type_check_failure(r, m.name)

BoolMask_apply_to(m, v, r) ==
  IF v = Unset THEN IF m.default = None THEN r ELSE report_bool_default(r, m.name, m.default)
  ELSE IF v[1] = "bool" THEN report_bool(r, m.policy_index, m.name, v, m.on_conflict)
  ELSE report_type_check_failure(r, m.name)

\* Mutants: the policy's value is stored all the same; the answer is.
Mismatch_sets(m, v, r) ==
  [report_conflict(report_policy_index(r, m.policy_index), m.name, v, m.value)
     EXCEPT !.value[m.name] = m.value]
Mismatch_trusts(m, v, r) == [report_policy_index(r, m.policy_index) EXCEPT !.value[m.name] = v]

\* The answer differs from the value the policy's action names.
Mismatch(m, v, r) == report_conflict(report_policy_index(r, m.policy_index), m.name, v, m.value)

NumberMask_apply_to(m, v, r) ==
  IF v = Unset THEN
    IF m.default = None THEN r
    ELSE IF m.default = NonFinite THEN report_invariant_violation(r, m.name)
    ELSE report_number_default(r, m.name, m.default)
  ELSE IF v[1] # "number" THEN report_type_check_failure(r, m.name)
  ELSE IF m.value = None \/ number_is_equal(v[2], m.value[2])
    THEN report_number(r, m.policy_index, m.name, v, m.on_conflict)
  ELSE Mismatch(m, v, r)

StringMask_apply_to(m, v, r) ==
  IF v = Unset THEN IF m.default = None THEN r ELSE report_string_default(r, m.name, m.default)
  ELSE IF v[1] # "string" THEN report_type_check_failure(r, m.name)
  ELSE IF m.value = None \/ v = m.value
    THEN report_string(r, m.policy_index, m.name, v, m.on_conflict)
  ELSE Mismatch(m, v, r)

\* Mutant: a leaf that is no string is skipped.
extract_strings_skipping(v) ==
  IF v[1] = "string" THEN <<"some", <<v[2]>>>>
  ELSE IF v[1] = "array" /\ v[3] < MaxDepth
    THEN LET strings == SelectSeq(v[2], LAMBDA x : x[1] = "string")
         IN <<"some", [j \in DOMAIN strings |-> strings[j][2]]>>
  ELSE None

\* extract_strings: the strings of an answer, None if some leaf is no string or lies too deep.
extract_strings(v) ==
  IF v[1] = "string" THEN <<"some", <<v[2]>>>>
  ELSE IF v[1] = "array" /\ v[3] < MaxDepth /\ \A j \in DOMAIN v[2] : v[2][j][1] = "string"
    THEN <<"some", [j \in DOMAIN v[2] |-> v[2][j][2]]>>
  ELSE None

StringArrayMask_apply_to(m, v, r) ==
  LET found == extract_strings(v)
      report_one(acc, s) == report_string_array(acc, m.policy_index, m.name, s)
  IN IF v = Unset THEN r
     ELSE IF found = None THEN report_type_check_failure(r, m.name)
     ELSE IF found[2] = <<>> THEN init_empty_string_array(r, m.policy_index, m.name)
     ELSE FoldLeft(report_one, r, found[2])

\* Mutant: the answer, and not the policy's enum value, is reported.
StringEnumMask_reports_answer(m, v, r) ==
  IF v \in {Unset, <<"bool", FALSE>>} THEN r
  ELSE IF v[1] # "bool" THEN report_type_check_failure(r, m.name)
  ELSE report_string_enum(r, m.policy_index, m.name, v, m.on_conflict)

\* A StringEnumMask is answered with a bool: does the policy's enum value apply?
StringEnumMask_apply_to(m, v, r) ==
  IF v \in {Unset, <<"bool", FALSE>>}
    THEN IF m.default = None THEN r ELSE report_string_default(r, m.name, m.default)
  ELSE IF v[1] # "bool" THEN report_type_check_failure(r, m.name)
  ELSE IF m.value = None
    THEN report_conflict(report_policy_index(r, m.policy_index), m.name, v, Null)
  ELSE report_string_enum(r, m.policy_index, m.name, m.value, m.on_conflict)
=============================================================================
