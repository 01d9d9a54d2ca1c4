-------------------------------- MODULE Report --------------------------------
(***************************************************************************)
(* A Report while the masks of ReportBuilder::consume_ir are applied to an *)
(* LLM's answer, for policies of one type: each field has one kind, one    *)
(* conflict strategy and one default.  Every step applies one mask, in any *)
(* order and with any answer; a StringArrayMask reports its strings one by *)
(* one, as the loop in the code does.                                      *)
(*                                                                         *)
(* The rest is history, which no step reads: `seen` and `first`, the values *)
(* handed to the report_* functions of a scalar field and the earliest of  *)
(* them; `listed`, the strings that the answers for an array field listed, *)
(* in order; `mismatched`, the fields on which an answer contradicted the  *)
(* policy's own value.                                                     *)
(***************************************************************************)
EXTENDS ReportOps

CONSTANTS
  Kind,          \* the kind of each field
  OnConflict,    \* its conflict strategy
  DefaultOf,     \* its default: a value, None or (for a number) NonFinite
  Policies,      \* the policy indices
  Arrays,        \* arrays an LLM may answer with
  NMasks         \* how many masks consume_ir has to apply

ASSUME TypeOfFields ==
  /\ Kind \in [Fields -> Kinds] /\ OnConflict \in [Fields -> Strategies]
  /\ \A f \in Fields :
       \/ DefaultOf[f] = None
       \/ (Kind[f] # "array" /\ DefaultOf[f] \in ValuesOf(Kind[f]))
       \/ (Kind[f] = "number" /\ DefaultOf[f] = NonFinite)
ASSUME PoliciesType == Policies \subseteq Nat
ASSUME ArraysType == \A a \in Arrays : a[1] = "array" /\ a[2] \in Seq(StringValues \cup {Null})
ASSUME NMasksType == NMasks \in Nat

VARIABLES
  report,       \* the Report
  left,         \* how many masks are still to be applied
  pending,      \* the strings the loop of StringArrayMask::apply_to has still to report
  seen, first, listed, mismatched

vars == <<report, left, pending, seen, first, listed, mismatched>>

\* PolicyType::default_value omits empty strings, empty arrays and what JSON cannot hold.
default_value ==
  [f \in Fields |->
     IF DefaultOf[f] \in {None, NonFinite} THEN Unset
     ELSE IF DefaultOf[f] \in StringValues /\ StrLen[DefaultOf[f][2]] = 0 THEN Unset
     ELSE DefaultOf[f]]

Answers == {Unset, Null} \cup Bools \cup NumberValues \cup StringValues \cup Arrays

Mask(i, f, v) == [policy_index |-> i, name |-> f, default |-> DefaultOf[f], value |-> v,
                  on_conflict |-> OnConflict[f]]

Init ==
  /\ report = NewReport(default_value)
  /\ left = NMasks
  /\ pending = <<>>
  /\ seen = [f \in Fields |-> {}]
  /\ first = [f \in Fields |-> Unset]
  /\ listed = [f \in Fields |-> <<>>]
  /\ mismatched = {}

\* A step that hands v to a report_* function of f; v = Unset hands over nothing.
Hands(f, v) ==
  /\ seen' = IF v = Unset THEN seen ELSE [seen EXCEPT ![f] = @ \cup {v}]
  /\ first' = IF v # Unset /\ first[f] = Unset THEN [first EXCEPT ![f] = v] ELSE first

Contradicts(f, b) == mismatched' = IF b THEN mismatched \cup {f} ELSE mismatched

NextMask == pending = <<>> /\ left > 0 /\ left' = left - 1

ApplyBoolMask(i, f, v) ==
  /\ NextMask /\ Kind[f] = "bool"
  /\ report' = BoolMask_apply_to(Mask(i, f, None), v, report)
  /\ Hands(f, IF v \in Bools THEN v ELSE Unset)
  /\ UNCHANGED <<pending, listed, mismatched>>

ApplyNumberMask(i, f, expected, v) ==
  LET agrees == v \in NumberValues /\ (expected = None \/ number_is_equal(v[2], expected[2]))
  IN /\ NextMask /\ Kind[f] = "number"
     /\ report' = NumberMask_apply_to(Mask(i, f, expected), v, report)
     /\ Hands(f, IF agrees THEN v ELSE Unset)
     /\ Contradicts(f, v \in NumberValues /\ ~agrees)
     /\ UNCHANGED <<pending, listed>>

ApplyStringMask(i, f, expected, v) ==
  LET agrees == v \in StringValues /\ expected \in {None, v}
  IN /\ NextMask /\ Kind[f] = "string"
     /\ report' = StringMask_apply_to(Mask(i, f, expected), v, report)
     /\ Hands(f, IF agrees THEN v ELSE Unset)
     /\ Contradicts(f, v \in StringValues /\ ~agrees)
     /\ UNCHANGED <<pending, listed>>

ApplyStringEnumMask(i, f, expected, v) ==
  LET yes == v = <<"bool", TRUE>>
  IN /\ NextMask /\ Kind[f] = "enum"
     /\ report' = StringEnumMask_apply_to(Mask(i, f, expected), v, report)
     /\ Hands(f, IF yes /\ expected # None THEN expected ELSE Unset)
     /\ Contradicts(f, yes /\ expected = None)
     /\ UNCHANGED <<pending, listed>>

\* The strings that v, an answer to a StringArrayMask, lists: all of its leaves, or none at all if one
\* of them is no string or v is nested too deep.
Lists(v) ==
  LET leaves == IF v[1] = "array" THEN v[2] ELSE <<v>>
      valid == /\ \A j \in DOMAIN leaves : leaves[j] \in StringValues
               /\ v[1] = "array" => v[3] < MaxDepth
  IN IF valid THEN [j \in DOMAIN leaves |-> leaves[j][2]] ELSE <<>>

\* All of StringArrayMask::apply_to but its loop.
ApplyStringArrayMask(i, f, v) ==
  LET found == extract_strings(v)
      loop == v # Unset /\ found # None /\ found[2] # <<>>
  IN /\ NextMask /\ Kind[f] = "array"
     /\ report' = IF loop THEN report ELSE StringArrayMask_apply_to(Mask(i, f, None), v, report)
     /\ pending' = IF loop THEN [j \in DOMAIN found[2] |-> <<i, f, found[2][j]>>] ELSE <<>>
     /\ listed' = [listed EXCEPT ![f] = @ \o Lists(v)]
     /\ UNCHANGED <<seen, first, mismatched>>

\* One iteration of that loop.
ReportNextString ==
  /\ pending # <<>>
  /\ LET p == Head(pending) IN report' = report_string_array(report, p[1], p[2], p[3])
  /\ pending' = Tail(pending)
  /\ UNCHANGED <<left, seen, first, listed, mismatched>>

Expected(f) == ValuesOf(Kind[f]) \cup {None}

\* The for loops of consume_ir, while there are masks left.
ApplyMask ==
  /\ left > 0
  /\ \E i \in Policies, f \in Fields, v \in Answers :
       \/ ApplyBoolMask(i, f, v)
       \/ ApplyStringArrayMask(i, f, v)
       \/ \E expected \in Expected(f) :
            \/ ApplyNumberMask(i, f, expected, v)
            \/ ApplyStringMask(i, f, expected, v)
            \/ ApplyStringEnumMask(i, f, expected, v)

Next == ApplyMask \/ ReportNextString

Spec == Init /\ [][Next]_vars
-----------------------------------------------------------------------------
Scalar(f) == Kind[f] # "array"

HasConflict(f) == \E j \in DOMAIN report.conflicts : report.conflicts[j][1] = f

JsonOut == {Unset, Null} \cup Bools \cup NumberValues \cup StringValues
             \cup ({"array"} \X Seq(Strings))
ReportType ==
  [value : [Fields -> JsonOut], default : [Fields -> JsonOut],
   errors : Seq({"InvariantViolation", "TypeCheckFailure", "DefaultConflict"} \X Fields),
   conflicts : Seq(Fields \X JsonOut \X JsonOut), rules_matched : Seq(Policies)]

\* Every variable has its type; what a field holds is Unset or a value of the field's kind.
TypeOK ==
  /\ report \in ReportType
  /\ left \in 0..NMasks
  /\ pending \in Seq(Policies \X {f \in Fields : ~Scalar(f)} \X Strings)
  /\ seen \in [Fields -> SUBSET JsonOut] /\ first \in [Fields -> JsonOut]
  /\ listed \in [Fields -> Seq(Strings)] /\ mismatched \subseteq Fields
  /\ \A f \in Fields : Scalar(f) => /\ report.value[f] \in ValuesOf(Kind[f]) \cup {Unset}
                                   /\ seen[f] \subseteq ValuesOf(Kind[f])

\* A scalar field is set exactly when some policy reported a value for it, and to one of the
\* reported values (Report::value falls back to the default otherwise).
ValueWasReported ==
  \A f \in Fields : Scalar(f) =>
    IF seen[f] = {} THEN report.value[f] = Unset ELSE report.value[f] \in seen[f]

\* Under Default and Agreement the first value reported for a field is the one that stays,
\* whatever later policies report.
FirstWriterStays ==
  \A f \in Fields : Scalar(f) /\ OnConflict[f] # "LargestValue" => report.value[f] = first[f]

\* Under LargestValue no value reported for the field, in any order, beats the one kept:
\* a policy cannot lower what another one set.
LargestKept ==
  \A f \in Fields : Scalar(f) /\ OnConflict[f] = "LargestValue" =>
    \A v \in seen[f] : ~Beats(Kind[f], v, report.value[f])

\* Under Agreement a conflict is on record exactly when some reported value differs from the
\* first, or some answer contradicted the policy that produced it.
AgreementRecorded ==
  \A f \in Fields : Scalar(f) /\ OnConflict[f] = "Agreement" =>
    (HasConflict(f) <=> \/ f \in mismatched
                       \/ \E v \in seen[f] : ~Same(Kind[f], first[f], v))

\* Under Default, and for a bool or a string under LargestValue, disagreement between policies
\* is silent: only an answer that contradicts its own policy is a conflict.
SilentResolution ==
  \A f \in Fields :
    (OnConflict[f] = "Default" \/ (OnConflict[f] = "LargestValue" /\ ~LoserConflicts(Kind[f])))
      => (HasConflict(f) => f \in mismatched)

\* For policies of one type the internal consistency errors cannot occur: no field ever holds a
\* value of another kind, no two defaults differ, and only a non-finite default fails to convert.
NoInternalErrors ==
  \A j \in DOMAIN report.errors :
    LET e == report.errors[j]
    IN e[1] = "TypeCheckFailure" \/ (e[1] = "InvariantViolation" /\ DefaultOf[e[2]] = NonFinite)

\* q is s without repetitions, in the order in which its elements first occur in s.
WithoutRepeats(q, s) ==
  /\ ToSet(q) = ToSet(s)
  /\ \A j, k \in DOMAIN q : q[j] = q[k] => j = k
  /\ \A j, k \in DOMAIN q : j < k => \E m \in DOMAIN s : s[m] = q[j] /\ \A l \in 1..m : s[l] # q[k]

\* Once the loops have run, an array field holds the strings that the answers listed, each once, in
\* the order in which they were first listed.  An answer with a leaf that is no string, or nested too
\* deep, adds nothing: not even the strings in front of the leaf.
ArrayIsUnion ==
  pending = <<>> =>
    \A f \in Fields : ~Scalar(f) =>
      WithoutRepeats(IF report.value[f] = Unset THEN <<>> ELSE report.value[f][2], listed[f])

\* Nothing is taken back: the logs only grow, a set field is never unset, and a scalar that
\* changes does so only to a larger value under LargestValue.
NothingTakenBack ==
  [][/\ IsPrefix(report.rules_matched, report'.rules_matched)
     /\ IsPrefix(report.conflicts, report'.conflicts)
     /\ IsPrefix(report.errors, report'.errors)
     /\ \A f \in Fields :
          Scalar(f) /\ report.value[f] # Unset /\ report'.value[f] # report.value[f]
            => /\ OnConflict[f] = "LargestValue"
               /\ Beats(Kind[f], report'.value[f], report.value[f])]_vars
-----------------------------------------------------------------------------
(* The refinement of Resolution: the scalar fields, without the masks.     *)

ScalarFields == {f \in Fields : Scalar(f)}
FieldCandidates(f) == ValuesOf(Kind[f])
FieldWins(f, v, w) == Beats(Kind[f], v, w)
FieldAgree(f, v, w) == Same(Kind[f], v, w)

Abstract == INSTANCE Resolution WITH
  Slots <- ScalarFields, Candidates <- FieldCandidates, Unchosen <- Unset,
  Strategy <- OnConflict, Wins <- FieldWins, Agree <- FieldAgree,
  reported <- [f \in ScalarFields |-> seen[f]],
  chosen <- [f \in ScalarFields |-> report.value[f]],
  disputed <- {f \in ScalarFields : HasConflict(f)}

\* Applying masks implements Resolution: whatever the masks, answers and errors of the report_*
\* functions are, each step reports one value for one field and resolves it there and then, or
\* contradicts one policy, or changes no scalar field; no step touches the value of a second field or
\* settles a dispute.
ImplementsResolution == Abstract!AbstractSpec
=============================================================================
