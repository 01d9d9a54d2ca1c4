---------------------------- MODULE ReportProofs ----------------------------
(***************************************************************************)
(* The invariants of Report, for every policy type, every set of answers   *)
(* and every number of masks.                                              *)
(***************************************************************************)
EXTENDS Report, SequenceProofs
-----------------------------------------------------------------------------
(* number_less_than is a strict partial order on all numbers, whatever the  *)
(* rounding of integers to f64, and with number_is_equal it decides every   *)
(* pair.  (number_is_equal itself is not transitive: see the run            *)
(* report_agree_numbers.)                                                   *)

\* The three shapes of a serde_json::Number that the helpers of src/lib.rs tell apart.
LEMMA NumberShape ==
  ASSUME NEW a \in Numbers
  PROVE  \/ a[1] = "pos" /\ a[2] \in Ints /\ a[2] >= 0
         \/ a[1] = "neg" /\ a[2] \in Ints /\ a[2] < 0
         \/ a[1] = "float" /\ a[2] \in Floats
  BY DEF Numbers

\* Every number converts to an integer rank; the sign of an integer survives the conversion.
LEMMA RankType ==
  ASSUME NEW a \in Numbers
  PROVE  as_f64(a) \in Int /\ a[2] \in Int
  BY NumberShape, NumberSets, F64Type DEF as_f64, is_f64

\* The integer order refines the order of the conversions.
LEMMA RankMonotone ==
  ASSUME NEW a \in Numbers, NEW b \in Numbers, ~is_f64(a), ~is_f64(b)
  PROVE  /\ as_f64(a) < as_f64(b) => a[2] < b[2]
         /\ a[2] < b[2] => as_f64(a) <= as_f64(b)
         /\ ~ComparedAsInts(a, b) => ((as_f64(a) < as_f64(b)) <=> (a[2] < b[2]))
         /\ ~ComparedAsInts(a, b) => as_f64(a) # as_f64(b)
<1>1. a[2] \in Ints /\ b[2] \in Ints
  BY NumberShape DEF is_f64
<1>2. F64[a[2]] \in Int /\ F64[b[2]] \in Int /\ a[2] \in Int /\ b[2] \in Int
  BY <1>1, NumberSets, F64Type
<1>3. /\ F64[a[2]] < F64[b[2]] => a[2] < b[2]
      /\ a[2] < b[2] => F64[a[2]] <= F64[b[2]]
  BY <1>1, <1>2, F64Monotone
<1>4. ~ComparedAsInts(a, b) => (a[2] < 0 /\ b[2] >= 0) \/ (a[2] >= 0 /\ b[2] < 0)
  BY <1>2, NumberShape DEF ComparedAsInts, is_u64, is_i64, is_f64
<1>5. (a[2] < 0 <=> F64[a[2]] < 0) /\ (b[2] < 0 <=> F64[b[2]] < 0)
  BY <1>1, F64Sign
<1> QED
  BY <1>2, <1>3, <1>4, <1>5 DEF as_f64

\* number_less_than (src/lib.rs): no number is less than itself.
THEOREM LessThanIrreflexive ==
  ASSUME NEW a \in Numbers
  PROVE  ~number_less_than(a, a)
  BY RankType DEF number_less_than

\* number_less_than is transitive across u64, i64 and f64 values, although the comparison of
\* different types goes through a conversion that rounds.
THEOREM LessThanTransitive ==
  ASSUME NEW a \in Numbers, NEW b \in Numbers, NEW c \in Numbers,
         number_less_than(a, b), number_less_than(b, c)
  PROVE  number_less_than(a, c)
<1> DEFINE R(x) == as_f64(x)
<1>1. /\ R(a) \in Int /\ R(b) \in Int /\ R(c) \in Int
      /\ a[2] \in Int /\ b[2] \in Int /\ c[2] \in Int
  BY RankType
<1>2. R(a) <= R(b) /\ R(b) <= R(c)
  <2>1. ASSUME NEW x \in Numbers, NEW y \in Numbers, number_less_than(x, y)
        PROVE  R(x) <= R(y)
    <3>1. CASE ComparedAsInts(x, y)
      BY <2>1, <3>1, RankMonotone, RankType DEF number_less_than, ComparedAsInts, is_u64, is_i64, is_f64
    <3>2. CASE ~ComparedAsInts(x, y)
      BY <2>1, <3>2, RankType DEF number_less_than
    <3> QED BY <3>1, <3>2
  <2> QED BY <2>1
<1>3. CASE is_f64(a) \/ is_f64(c)
  <2>1. ~ComparedAsInts(a, c)
    BY <1>3 DEF ComparedAsInts, is_u64, is_i64, is_f64
  <2>2. R(a) < R(b) \/ R(b) < R(c)
    <3>1. ~ComparedAsInts(a, b) \/ ~ComparedAsInts(b, c)
      BY <1>3 DEF ComparedAsInts, is_u64, is_i64, is_f64
    <3> QED BY <3>1 DEF number_less_than
  <2> QED BY <1>1, <1>2, <2>1, <2>2 DEF number_less_than
<1>4. CASE ~is_f64(a) /\ ~is_f64(c)
  <2>1. a[2] < c[2]
    <3>1. CASE is_f64(b)
      <4>1. R(a) < R(b) /\ R(b) < R(c)
        BY <3>1 DEF number_less_than, ComparedAsInts, is_u64, is_i64, is_f64
      <4> QED BY <4>1, <1>1, <1>4, RankMonotone
    <3>2. CASE ~is_f64(b)
      <4>1. a[2] < b[2]
        BY <1>4, <3>2, RankMonotone DEF number_less_than
      <4>2. b[2] < c[2]
        BY <1>4, <3>2, RankMonotone DEF number_less_than
      <4> QED BY <4>1, <4>2, <1>1
    <3> QED BY <3>1, <3>2
  <2> QED BY <2>1, <1>4, RankMonotone DEF number_less_than
<1> QED BY <1>3, <1>4

\* Of two numbers either number_is_equal holds or one is number_less_than the other, never both.
THEOREM NumbersTrichotomy ==
  ASSUME NEW a \in Numbers, NEW b \in Numbers
  PROVE  /\ number_is_equal(a, b) \/ number_less_than(a, b) \/ number_less_than(b, a)
         /\ ~(number_less_than(a, b) /\ number_less_than(b, a))
         /\ ~(number_is_equal(a, b) /\ number_less_than(a, b))
  BY RankType DEF number_is_equal, number_less_than, ComparedAsInts
-----------------------------------------------------------------------------
(* The order of the values of one field.                                    *)

Values == {Null} \cup Bools \cup NumberValues \cup StringValues

\* A value of a scalar field is never Unset and carries the tag of its kind.
LEMMA ValueShape ==
  ASSUME NEW f \in Fields, NEW v \in ValuesOf(Kind[f]), Scalar(f)
  PROVE  /\ v # Unset /\ v \in Values /\ v \in JsonOut /\ v[1] = Tag(Kind[f])
         /\ Kind[f] = "bool" => v[2] \in BOOLEAN
         /\ Kind[f] = "number" => v[2] \in Numbers
         /\ Kind[f] \in {"string", "enum"} => v[2] \in Strings
  BY TypeOfFields DEF ValuesOf, Bools, NumberValues, StringValues, Unset, Values, JsonOut, Tag, Kinds, Scalar

\* Beats, the comparison of LargestValue in the report_* functions, is a strict order on the values
\* of one field, and a value that is the Same never beats.
LEMMA BeatsOrder ==
  ASSUME NEW f \in Fields, Scalar(f),
         NEW u \in ValuesOf(Kind[f]), NEW v \in ValuesOf(Kind[f]), NEW w \in ValuesOf(Kind[f])
  PROVE  /\ ~Beats(Kind[f], u, u)
         /\ Beats(Kind[f], u, v) /\ Beats(Kind[f], v, w) => Beats(Kind[f], u, w)
         /\ Same(Kind[f], v, u) => ~Beats(Kind[f], u, v)
         /\ Same(Kind[f], u, u)
<1>1. CASE Kind[f] = "number"
  <2>1. u[2] \in Numbers /\ v[2] \in Numbers /\ w[2] \in Numbers
    BY <1>1, ValueShape
  <2> QED
    BY <1>1, <2>1, LessThanIrreflexive, LessThanTransitive, NumbersTrichotomy DEF Beats, Same
<1>2. CASE Kind[f] = "bool"
  BY <1>2, ValueShape DEF Beats, Same
<1>3. CASE Kind[f] \in {"string", "enum"}
  <2>1. StrLen[u[2]] \in Nat /\ StrLen[v[2]] \in Nat /\ StrLen[w[2]] \in Nat
    BY <1>3, ValueShape, StrLenType
  <2>2. u = v => StrLen[u[2]] = StrLen[v[2]]
    OBVIOUS
  <2> QED BY <1>3, <2>1, <2>2 DEF Beats, Same
<1> QED
  BY <1>1, <1>2, <1>3, TypeOfFields DEF Scalar, Kinds
-----------------------------------------------------------------------------
(* Every step does one of six things to the fields, whatever mask it applies. *)

\* No field and no conflict changes.
Quiet ==
  /\ report'.value = report.value /\ report'.conflicts = report.conflicts
  /\ UNCHANGED <<seen, first, mismatched>>

\* The answer contradicted the policy of a mask of f.
Contra(f) ==
  /\ report'.value = report.value
  /\ \E a, b \in JsonOut : report'.conflicts = Append(report.conflicts, <<f, a, b>>)
  /\ mismatched' = mismatched \cup {f}
  /\ UNCHANGED <<seen, first>>

\* A value was handed to a report_* function of f, ...
Handed(f, v) ==
  /\ Scalar(f) /\ v \in ValuesOf(Kind[f])
  /\ seen' = [seen EXCEPT ![f] = @ \cup {v}]
  /\ first' = IF first[f] = Unset THEN [first EXCEPT ![f] = v] ELSE first
  /\ mismatched' = mismatched

\* ... which stored it,
Stores(f, v) ==
  /\ Handed(f, v)
  /\ \/ report.value[f] = Unset
     \/ OnConflict[f] = "LargestValue" /\ Beats(Kind[f], v, report.value[f])
  /\ report'.value = [report.value EXCEPT ![f] = v]
  /\ report'.conflicts = report.conflicts

\* ... kept what was there,
Keeps(f, v) ==
  /\ Handed(f, v) /\ report.value[f] # Unset
  /\ \/ Same(Kind[f], report.value[f], v)
     \/ OnConflict[f] = "Default"
     \/ OnConflict[f] = "LargestValue" /\ ~Beats(Kind[f], v, report.value[f])
                                        /\ ~LoserConflicts(Kind[f])
  /\ report'.value = report.value
  /\ report'.conflicts = report.conflicts

\* ... or kept it and recorded a conflict.
Clashes(f, v) ==
  /\ Handed(f, v) /\ report.value[f] # Unset
  /\ ~Same(Kind[f], report.value[f], v)
  /\ \/ OnConflict[f] = "Agreement"
     \/ OnConflict[f] = "LargestValue" /\ ~Beats(Kind[f], v, report.value[f])
                                        /\ LoserConflicts(Kind[f])
  /\ report'.value = report.value
  /\ report'.conflicts = Append(report.conflicts, <<f, report.value[f], v>>)

\* An array field changed; no scalar field and no conflict did.
ArrayStep ==
  /\ report'.conflicts = report.conflicts
  /\ \A f \in Fields : Scalar(f) => report'.value[f] = report.value[f]
  /\ UNCHANGED <<seen, first, mismatched>>

\* The effects of the masks of scalar fields, and of all masks.
ScalarEffect ==
  \/ Quiet
  \/ \E f \in Fields : Contra(f)
  \/ \E f \in Fields, v \in Values : Stores(f, v) \/ Keeps(f, v) \/ Clashes(f, v)

Effect == ScalarEffect \/ ArrayStep

\* The operations that only append to a log of the report keep its type and its other parts.
LEMMA PolicyIndexLogs ==
  ASSUME NEW r \in ReportType, NEW i \in Policies
  PROVE  LET q == report_policy_index(r, i)
         IN /\ q \in ReportType /\ q.value = r.value /\ q.default = r.default
            /\ q.conflicts = r.conflicts /\ q.errors = r.errors
<1>1. Append(r.rules_matched, i) \in Seq(Policies)
  BY DEF ReportType
<1> QED BY <1>1 DEF ReportType, report_policy_index

\* report_conflict appends the field and its two values to the conflicts and keeps the rest.
LEMMA ConflictLogs ==
  ASSUME NEW r \in ReportType, NEW f \in Fields, NEW a \in JsonOut, NEW b \in JsonOut
  PROVE  LET q == report_conflict(r, f, a, b)
         IN /\ q \in ReportType /\ q.value = r.value /\ q.default = r.default
            /\ q.conflicts = Append(r.conflicts, <<f, a, b>>) /\ q.errors = r.errors
<1>1. Append(r.conflicts, <<f, a, b>>) \in Seq(Fields \X JsonOut \X JsonOut)
  BY DEF ReportType
<1> QED BY <1>1 DEF ReportType, report_conflict

\* So does the Mismatch branch of the masks, which logs the policy index as well.
LEMMA MismatchLogs ==
  ASSUME NEW r \in ReportType, NEW i \in Policies, NEW f \in Fields,
         NEW a \in JsonOut, NEW b \in JsonOut
  PROVE  LET q == report_conflict(report_policy_index(r, i), f, a, b)
         IN /\ q \in ReportType /\ q.value = r.value
            /\ q.conflicts = Append(r.conflicts, <<f, a, b>>)
<1> DEFINE p == report_policy_index(r, i)
<1>1. p \in ReportType /\ p.value = r.value /\ p.conflicts = r.conflicts
  BY PolicyIndexLogs
<1> HIDE DEF p
<1>2. LET q == report_conflict(p, f, a, b)
      IN q \in ReportType /\ q.value = r.value /\ q.conflicts = Append(r.conflicts, <<f, a, b>>)
  BY <1>1, ConflictLogs
<1> QED BY <1>2 DEF p

\* report_invariant_violation, report_type_check_failure and a differing default only append an error.
LEMMA ErrorLogs ==
  ASSUME NEW r \in ReportType, NEW f \in Fields,
         NEW k \in {"InvariantViolation", "TypeCheckFailure", "DefaultConflict"}
  PROVE  LET q == [r EXCEPT !.errors = Append(@, <<k, f>>)]
         IN /\ q \in ReportType /\ q.value = r.value /\ q.default = r.default
            /\ q.conflicts = r.conflicts
<1>1. Append(r.errors, <<k, f>>)
        \in Seq({"InvariantViolation", "TypeCheckFailure", "DefaultConflict"} \X Fields)
  BY DEF ReportType
<1> QED BY <1>1 DEF ReportType

\* The instance of it for an answer of the wrong type.
LEMMA TypeCheckLogs ==
  ASSUME NEW r \in ReportType, NEW f \in Fields
  PROVE  /\ report_type_check_failure(r, f) \in ReportType
         /\ report_type_check_failure(r, f).value = r.value
         /\ report_type_check_failure(r, f).conflicts = r.conflicts
  BY ErrorLogs DEF report_type_check_failure

\* Resolve, the common shape of report_bool, report_number, report_string and report_string_enum,
\* stores, keeps or clashes; a field of the right kind never trips its internal check.
LEMMA ResolveEffect ==
  ASSUME TypeOK, NEW i \in Policies, NEW f \in Fields, NEW v \in ValuesOf(Kind[f]), Scalar(f),
         report' = Resolve(Kind[f], report_policy_index(report, i), f, v, OnConflict[f]),
         Handed(f, v)
  PROVE  Stores(f, v) \/ Keeps(f, v) \/ Clashes(f, v)
<1> DEFINE r == report_policy_index(report, i)
<1>1. /\ r \in ReportType /\ r.value = report.value /\ r.conflicts = report.conflicts
      /\ r.errors = report.errors /\ r.default = report.default
  BY PolicyIndexLogs DEF TypeOK
<1> HIDE DEF r
<1>2. report' = Resolve(Kind[f], r, f, v, OnConflict[f])
  BY DEF r
<1>3. OnConflict[f] \in Strategies
  BY TypeOfFields
<1>4. report.value[f] # Unset => report.value[f][1] = Tag(Kind[f]) /\ report.value[f] # Null
  <2>1. Tag(Kind[f]) # "null" /\ Null[1] = "null"
    BY TypeOfFields DEF Tag, Kinds, Null
  <2> QED BY <2>1, ValueShape DEF TypeOK
<1>5. CASE report.value[f] = Unset
  <2>1. report' = [r EXCEPT !.value[f] = v]
    BY <1>1, <1>2, <1>5 DEF Resolve
  <2> QED BY <1>1, <1>5, <2>1 DEF Stores, ReportType
<1>6. CASE report.value[f] # Unset /\ (Same(Kind[f], report.value[f], v) \/ OnConflict[f] = "Default")
  BY <1>1, <1>2, <1>4, <1>6 DEF Resolve, Keeps
<1>7. CASE report.value[f] # Unset /\ ~Same(Kind[f], report.value[f], v) /\ OnConflict[f] = "Agreement"
  <2>1. report' = report_conflict(r, f, report.value[f], v)
    BY <1>1, <1>2, <1>4, <1>7 DEF Resolve
  <2> QED BY <1>1, <1>7, <2>1 DEF Clashes, ReportType, report_conflict
<1>8. CASE report.value[f] # Unset /\ ~Same(Kind[f], report.value[f], v) /\ OnConflict[f] = "LargestValue"
  <2>1. CASE Beats(Kind[f], v, report.value[f])
    <3>1. report' = [r EXCEPT !.value[f] = v]
      BY <1>1, <1>2, <1>4, <1>8, <2>1 DEF Resolve
    <3> QED BY <1>1, <1>8, <2>1, <3>1 DEF Stores, ReportType
  <2>2. CASE ~Beats(Kind[f], v, report.value[f]) /\ LoserConflicts(Kind[f])
    <3>1. report' = report_conflict(r, f, report.value[f], v)
      BY <1>1, <1>2, <1>4, <1>8, <2>2 DEF Resolve
    <3> QED BY <1>1, <1>8, <2>2, <3>1 DEF Clashes, ReportType, report_conflict
  <2>3. CASE ~Beats(Kind[f], v, report.value[f]) /\ ~LoserConflicts(Kind[f])
    BY <1>1, <1>2, <1>4, <1>8, <2>3 DEF Resolve, Keeps
  <2> QED BY <2>1, <2>2, <2>3
<1> QED BY <1>3, <1>5, <1>6, <1>7, <1>8 DEF Strategies

\* Storing a value in one field keeps the type of the report.
LEMMA StoreType ==
  ASSUME NEW r \in ReportType, NEW f \in Fields, NEW v \in JsonOut
  PROVE  LET q == [r EXCEPT !.value[f] = v]
         IN /\ q \in ReportType /\ q.value = [r.value EXCEPT ![f] = v] /\ q.default = r.default
            /\ q.conflicts = r.conflicts /\ q.errors = r.errors
  BY DEF ReportType

\* Whatever branch Resolve takes, the report keeps its type.
LEMMA ResolveType ==
  ASSUME NEW k \in Kinds, NEW r \in ReportType, NEW f \in Fields, NEW v \in JsonOut, NEW oc
  PROVE  Resolve(k, r, f, v, oc) \in ReportType
<1>1. r.value[f] \in JsonOut
  BY DEF ReportType
<1> QED
  BY <1>1, StoreType, ConflictLogs, ErrorLogs DEF Resolve, report_invariant_violation

\* report_bool_default and its siblings touch neither the values nor the conflicts.
LEMMA DefaultQuiet ==
  ASSUME NEW r \in ReportType, NEW f \in Fields, NEW d \in JsonOut
  PROVE  LET q == report_default(r, f, d)
         IN q \in ReportType /\ q.value = r.value /\ q.conflicts = r.conflicts
<1>1. [r EXCEPT !.default[f] = d] \in ReportType
  BY DEF ReportType
<1>2. /\ [r EXCEPT !.default[f] = d].value = r.value
      /\ [r EXCEPT !.default[f] = d].conflicts = r.conflicts
  BY DEF ReportType
<1> QED BY <1>1, <1>2, ErrorLogs DEF report_default

\* The default of a field is a JSON value unless it is None or NonFinite.
LEMMA DefaultJson ==
  ASSUME NEW f \in Fields, DefaultOf[f] # None, Kind[f] # "number" \/ DefaultOf[f] # NonFinite
  PROVE  DefaultOf[f] \in JsonOut
<1>1. DefaultOf[f] \in ValuesOf(Kind[f])
  BY TypeOfFields
<1> QED BY <1>1 DEF ValuesOf, JsonOut

\* What the tag of an answer says about it.
LEMMA AnswerShape ==
  ASSUME NEW v \in Answers
  PROVE  /\ v \in Bools <=> v[1] = "bool"
         /\ v \in NumberValues <=> v[1] = "number"
         /\ v \in StringValues <=> v[1] = "string"
         /\ v[1] = "array" => v \in Arrays
         /\ v = Unset <=> v[1] = "unset"
         /\ v \in Bools => v \in {<<"bool", TRUE>>, <<"bool", FALSE>>}
<1>1. /\ \A x \in Bools : x[1] = "bool" /\ x \in {<<"bool", TRUE>>, <<"bool", FALSE>>}
      /\ \A x \in NumberValues : x[1] = "number"
      /\ \A x \in StringValues : x[1] = "string"
  <2>1. \A x \in Bools : x[1] = "bool" /\ x \in {<<"bool", TRUE>>, <<"bool", FALSE>>}
    <3>1. \A x \in Bools : x[1] = "bool"
      BY DEF Bools
    <3>2. ASSUME NEW x \in Bools PROVE x \in {<<"bool", TRUE>>, <<"bool", FALSE>>}
      <4>1. PICK b \in BOOLEAN : x = <<"bool", b>>
        BY Zenon DEF Bools
      <4>2. CASE b = TRUE
        BY Zenon, <4>1, <4>2
      <4>3. CASE b = FALSE
        BY Zenon, <4>1, <4>3
      <4> QED BY Zenon, <4>2, <4>3
    <3> QED BY <3>1, <3>2
  <2>2. \A x \in NumberValues : x[1] = "number"
    BY DEF NumberValues
  <2>3. \A x \in StringValues : x[1] = "string"
    BY DEF StringValues
  <2> QED BY <2>1, <2>2, <2>3
<1>2. Unset[1] = "unset" /\ Null[1] = "null"
  BY DEF Unset, Null
<1>3. \A x \in Arrays : x[1] = "array"
  BY ArraysType
<1>4. v \in Bools \/ v \in NumberValues \/ v \in StringValues \/ v \in Arrays \/ v = Unset \/ v = Null
  BY DEF Answers
<1> QED BY <1>1, <1>2, <1>3, <1>4

\* One step of each mask has one of the six effects and keeps the type of the report.
LEMMA BoolEffect ==
  ASSUME TypeOK, NEW i \in Policies, NEW f \in Fields, NEW v \in Answers, ApplyBoolMask(i, f, v)
  PROVE  ScalarEffect /\ report' \in ReportType
<1> DEFINE m == Mask(i, f, None)
<1>0. /\ Kind[f] = "bool" /\ Scalar(f) /\ report \in ReportType
      /\ report' = BoolMask_apply_to(m, v, report)
      /\ m.name = f /\ m.policy_index = i /\ m.default = DefaultOf[f] /\ m.on_conflict = OnConflict[f]
  BY DEF ApplyBoolMask, Scalar, TypeOK, Mask
<1> HIDE DEF m
<1>1. CASE v \in Bools
  <2>1. v \in ValuesOf(Kind[f]) /\ v # Unset /\ v[1] = "bool" /\ v \in Values /\ v \in JsonOut
    BY <1>0, <1>1 DEF ValuesOf, Bools, Unset, Values, JsonOut
  <2>2. report' = Resolve(Kind[f], report_policy_index(report, i), f, v, OnConflict[f])
    BY <1>0, <2>1 DEF BoolMask_apply_to, report_bool
  <2>3. Handed(f, v)
    BY <1>0, <1>1, <2>1 DEF ApplyBoolMask, Hands, Handed
  <2>4. report' \in ReportType
    BY <1>0, <2>1, <2>2, ResolveType, PolicyIndexLogs, TypeOfFields
  <2> QED BY <1>0, <2>1, <2>2, <2>3, <2>4, ResolveEffect DEF ScalarEffect
<1>2. CASE v \notin Bools
  <2>1. seen' = seen /\ first' = first /\ mismatched' = mismatched
    BY <1>2 DEF ApplyBoolMask, Hands
  <2>2. v[1] # "bool"
    BY <1>2, AnswerShape
  <2>3. /\ report' \in ReportType /\ report'.value = report.value
        /\ report'.conflicts = report.conflicts
    <3>1. CASE v = Unset /\ DefaultOf[f] # None
      <4>1. DefaultOf[f] \in JsonOut
        BY <1>0, <3>1, DefaultJson
      <4> QED BY <1>0, <3>1, <4>1, DefaultQuiet DEF BoolMask_apply_to, report_bool_default
    <3>2. CASE v = Unset /\ DefaultOf[f] = None
      BY <1>0, <3>2 DEF BoolMask_apply_to
    <3>3. CASE v # Unset
      BY <1>0, <2>2, <3>3, ErrorLogs DEF BoolMask_apply_to, report_type_check_failure
    <3> QED BY <3>1, <3>2, <3>3
  <2> QED BY <2>1, <2>3 DEF ScalarEffect, Quiet
<1> QED BY <1>1, <1>2

\* The same of NumberMask::apply_to: an answer other than the expected number is a contradiction.
LEMMA NumberEffect ==
  ASSUME TypeOK, NEW i \in Policies, NEW f \in Fields, NEW x \in Expected(f), NEW v \in Answers,
         ApplyNumberMask(i, f, x, v)
  PROVE  ScalarEffect /\ report' \in ReportType
<1> DEFINE m == Mask(i, f, x)
           agrees == v \in NumberValues /\ (x = None \/ number_is_equal(v[2], x[2]))
<1>0. /\ Kind[f] = "number" /\ Scalar(f) /\ report \in ReportType
      /\ report' = NumberMask_apply_to(m, v, report)
      /\ m.name = f /\ m.policy_index = i /\ m.default = DefaultOf[f] /\ m.on_conflict = OnConflict[f]
      /\ m.value = x
  BY DEF ApplyNumberMask, Scalar, TypeOK, Mask
<1>00. /\ Hands(f, IF agrees THEN v ELSE Unset)
       /\ Contradicts(f, v \in NumberValues /\ ~agrees)
  BY DEF ApplyNumberMask
<1> HIDE DEF m
<1>1. CASE agrees
  <2>1. v \in ValuesOf(Kind[f]) /\ v # Unset /\ v[1] = "number" /\ v \in Values /\ v \in JsonOut
    BY <1>0, <1>1 DEF ValuesOf, NumberValues, Unset, Values, JsonOut
  <2>2. report' = Resolve(Kind[f], report_policy_index(report, i), f, v, OnConflict[f])
    BY <1>0, <1>1, <2>1 DEF NumberMask_apply_to, report_number
  <2>3. Handed(f, v)
    BY <1>0, <1>00, <1>1, <2>1 DEF Hands, Contradicts, Handed
  <2>4. report' \in ReportType
    BY <1>0, <2>1, <2>2, ResolveType, PolicyIndexLogs, TypeOfFields
  <2> QED BY <1>0, <2>1, <2>2, <2>3, <2>4, ResolveEffect DEF ScalarEffect
<1>2. CASE v \in NumberValues /\ ~agrees
  <2>1. v # Unset /\ v[1] = "number" /\ v \in JsonOut /\ x # None /\ x \in JsonOut
    BY <1>0, <1>2, AnswerShape DEF Expected, ValuesOf, NumberValues, Unset, JsonOut
  <2>2. report' = report_conflict(report_policy_index(report, i), f, v, x)
    BY <1>0, <1>2, <2>1 DEF NumberMask_apply_to, Mismatch
  <2>3. /\ report' \in ReportType /\ report'.value = report.value
        /\ report'.conflicts = Append(report.conflicts, <<f, v, x>>)
    BY <1>0, <2>1, <2>2, MismatchLogs
  <2>4. seen' = seen /\ first' = first /\ mismatched' = mismatched \cup {f}
    BY <1>00, <1>2 DEF Hands, Contradicts
  <2> QED BY <2>1, <2>3, <2>4 DEF ScalarEffect, Contra
<1>3. CASE v \notin NumberValues
  <2>1. seen' = seen /\ first' = first /\ mismatched' = mismatched
    BY <1>00, <1>3 DEF Hands, Contradicts
  <2>2. v[1] # "number"
    BY <1>3, AnswerShape
  <2>3. /\ report' \in ReportType /\ report'.value = report.value
        /\ report'.conflicts = report.conflicts
    <3>1. CASE v = Unset /\ DefaultOf[f] \notin {None, NonFinite}
      <4>1. DefaultOf[f] \in JsonOut
        BY <3>1, DefaultJson
      <4> QED BY <1>0, <3>1, <4>1, DefaultQuiet DEF NumberMask_apply_to, report_number_default
    <3>2. CASE v = Unset /\ DefaultOf[f] \in {None, NonFinite}
      BY <1>0, <3>2, ErrorLogs DEF NumberMask_apply_to, report_invariant_violation, None, NonFinite
    <3>3. CASE v # Unset
      BY <1>0, <2>2, <3>3, ErrorLogs DEF NumberMask_apply_to, report_type_check_failure
    <3> QED BY <3>1, <3>2, <3>3
  <2> QED BY <2>1, <2>3 DEF ScalarEffect, Quiet
<1> QED BY <1>1, <1>2, <1>3

\* The same of StringMask::apply_to.
LEMMA StringEffect ==
  ASSUME TypeOK, NEW i \in Policies, NEW f \in Fields, NEW x \in Expected(f), NEW v \in Answers,
         ApplyStringMask(i, f, x, v)
  PROVE  ScalarEffect /\ report' \in ReportType
<1> DEFINE m == Mask(i, f, x)
           agrees == v \in StringValues /\ (x \in {None, v})
<1>0. /\ Kind[f] = "string" /\ Scalar(f) /\ report \in ReportType
      /\ report' = StringMask_apply_to(m, v, report)
      /\ m.name = f /\ m.policy_index = i /\ m.default = DefaultOf[f] /\ m.on_conflict = OnConflict[f]
      /\ m.value = x
  BY DEF ApplyStringMask, Scalar, TypeOK, Mask
<1>00. /\ Hands(f, IF agrees THEN v ELSE Unset)
       /\ Contradicts(f, v \in StringValues /\ ~agrees)
  BY DEF ApplyStringMask
<1> HIDE DEF m
<1>1. CASE agrees
  <2>1. v \in ValuesOf(Kind[f]) /\ v # Unset /\ v[1] = "string" /\ v \in Values /\ v \in JsonOut
    BY <1>0, <1>1 DEF ValuesOf, StringValues, Unset, Values, JsonOut
  <2>2. report' = Resolve(Kind[f], report_policy_index(report, i), f, v, OnConflict[f])
    BY <1>0, <1>1, <2>1 DEF StringMask_apply_to, report_string
  <2>3. Handed(f, v)
    BY <1>0, <1>00, <1>1, <2>1 DEF Hands, Contradicts, Handed
  <2>4. report' \in ReportType
    BY <1>0, <2>1, <2>2, ResolveType, PolicyIndexLogs, TypeOfFields
  <2> QED BY <1>0, <2>1, <2>2, <2>3, <2>4, ResolveEffect DEF ScalarEffect
<1>2. CASE v \in StringValues /\ ~agrees
  <2>1. v # Unset /\ v[1] = "string" /\ v \in JsonOut /\ x # None /\ x \in JsonOut
    BY <1>0, <1>2, AnswerShape DEF Expected, ValuesOf, StringValues, Unset, JsonOut
  <2>2. report' = report_conflict(report_policy_index(report, i), f, v, x)
    BY <1>0, <1>2, <2>1 DEF StringMask_apply_to, Mismatch
  <2>3. /\ report' \in ReportType /\ report'.value = report.value
        /\ report'.conflicts = Append(report.conflicts, <<f, v, x>>)
    BY <1>0, <2>1, <2>2, MismatchLogs
  <2>4. seen' = seen /\ first' = first /\ mismatched' = mismatched \cup {f}
    BY <1>00, <1>2 DEF Hands, Contradicts
  <2> QED BY <2>1, <2>3, <2>4 DEF ScalarEffect, Contra
<1>3. CASE v \notin StringValues
  <2>1. seen' = seen /\ first' = first /\ mismatched' = mismatched
    BY <1>00, <1>3 DEF Hands, Contradicts
  <2>2. v[1] # "string"
    BY <1>3, AnswerShape
  <2>3. /\ report' \in ReportType /\ report'.value = report.value
        /\ report'.conflicts = report.conflicts
    <3>1. CASE v = Unset /\ DefaultOf[f] \notin {None, NonFinite}
      <4>1. DefaultOf[f] \in JsonOut
        BY <3>1, DefaultJson
      <4> QED BY <1>0, <3>1, <4>1, DefaultQuiet DEF StringMask_apply_to, report_string_default
    <3>2. CASE v = Unset /\ DefaultOf[f] \in {None, NonFinite}
      <4>1. \A y \in StringValues : y # NonFinite
        BY DEF StringValues, NonFinite
      <4>2. DefaultOf[f] \in StringValues \cup {None}
        BY <1>0, TypeOfFields DEF ValuesOf
      <4> QED BY <1>0, <3>2, <4>1, <4>2 DEF StringMask_apply_to
    <3>3. CASE v # Unset
      BY <1>0, <2>2, <3>3, ErrorLogs DEF StringMask_apply_to, report_type_check_failure
    <3> QED BY <3>1, <3>2, <3>3
  <2> QED BY <2>1, <2>3 DEF ScalarEffect, Quiet
<1> QED BY <1>1, <1>2, <1>3

\* The same of StringEnumMask::apply_to, where a yes hands over the value of the policy.
LEMMA EnumEffect ==
  ASSUME TypeOK, NEW i \in Policies, NEW f \in Fields, NEW x \in Expected(f), NEW v \in Answers,
         ApplyStringEnumMask(i, f, x, v)
  PROVE  ScalarEffect /\ report' \in ReportType
<1> DEFINE m == Mask(i, f, x)
           yes == v = <<"bool", TRUE>>
<1>0. /\ Kind[f] = "enum" /\ Scalar(f) /\ report \in ReportType
      /\ report' = StringEnumMask_apply_to(m, v, report)
      /\ m.name = f /\ m.policy_index = i /\ m.default = DefaultOf[f] /\ m.on_conflict = OnConflict[f]
      /\ m.value = x
  BY DEF ApplyStringEnumMask, Scalar, TypeOK, Mask
<1>00. /\ Hands(f, IF yes /\ x # None THEN x ELSE Unset)
       /\ Contradicts(f, yes /\ x = None)
  BY DEF ApplyStringEnumMask
<1>000. yes => v \notin {Unset, <<"bool", FALSE>>} /\ v[1] = "bool" /\ v \in JsonOut
  <2>1. yes => v # Unset /\ v[1] = "bool"
    BY DEF Unset
  <2>2. yes => v \in JsonOut
    BY Zenon DEF JsonOut, Bools
  <2>3. <<"bool", TRUE>> # <<"bool", FALSE>>
    OBVIOUS
  <2> QED BY <2>1, <2>2, <2>3
<1> HIDE DEF m
<1>1. CASE yes /\ x # None
  <2>1. x \in ValuesOf(Kind[f]) /\ x # Unset /\ x \in Values /\ x \in JsonOut
    BY <1>0, <1>1 DEF Expected, ValuesOf, StringValues, Unset, Values, JsonOut
  <2>2. report' = Resolve(Kind[f], report_policy_index(report, i), f, x, OnConflict[f])
    BY <1>0, <1>1, <1>000 DEF StringEnumMask_apply_to, report_string_enum
  <2>3. Handed(f, x)
    BY <1>0, <1>00, <1>1, <2>1 DEF Hands, Contradicts, Handed
  <2>4. report' \in ReportType
    BY <1>0, <2>1, <2>2, ResolveType, PolicyIndexLogs, TypeOfFields
  <2> QED BY <1>0, <2>1, <2>2, <2>3, <2>4, ResolveEffect DEF ScalarEffect
<1>2. CASE yes /\ x = None
  <2>1. Null \in JsonOut /\ v \in JsonOut
    BY <1>2, <1>000 DEF JsonOut
  <2>2. report' = report_conflict(report_policy_index(report, i), f, v, Null)
    BY <1>0, <1>2, <1>000 DEF StringEnumMask_apply_to
  <2>3. /\ report' \in ReportType /\ report'.value = report.value
        /\ report'.conflicts = Append(report.conflicts, <<f, v, Null>>)
    BY <1>0, <2>1, <2>2, MismatchLogs
  <2>4. seen' = seen /\ first' = first /\ mismatched' = mismatched \cup {f}
    BY <1>00, <1>2 DEF Hands, Contradicts
  <2> QED BY <2>1, <2>3, <2>4 DEF ScalarEffect, Contra
<1>3. CASE ~yes
  <2>1. seen' = seen /\ first' = first /\ mismatched' = mismatched
    BY <1>00, <1>3 DEF Hands, Contradicts
  <2>2. v \notin {Unset, <<"bool", FALSE>>} => v[1] # "bool"
    BY <1>3, AnswerShape
  <2>3. /\ report' \in ReportType /\ report'.value = report.value
        /\ report'.conflicts = report.conflicts
    <3>1. CASE v \in {Unset, <<"bool", FALSE>>} /\ DefaultOf[f] # None
      <4>1. DefaultOf[f] \in JsonOut
        BY <1>0, <3>1, DefaultJson
      <4> QED BY <1>0, <3>1, <4>1, DefaultQuiet DEF StringEnumMask_apply_to, report_string_default
    <3>2. CASE v \in {Unset, <<"bool", FALSE>>} /\ DefaultOf[f] = None
      BY <1>0, <3>2 DEF StringEnumMask_apply_to
    <3>3. CASE v \notin {Unset, <<"bool", FALSE>>}
      BY <1>0, <2>2, <3>3, ErrorLogs DEF StringEnumMask_apply_to, report_type_check_failure
    <3> QED BY <3>1, <3>2, <3>3
  <2> QED BY <2>1, <2>3 DEF ScalarEffect, Quiet
<1> QED BY <1>1, <1>2, <1>3

\* extract_strings yields a sequence of strings or None.
LEMMA ExtractType ==
  ASSUME NEW v \in Answers, extract_strings(v) # None
  PROVE  extract_strings(v)[2] \in Seq(Strings)
<1>1. CASE v[1] = "string"
  <2>1. v \in StringValues
    BY <1>1, AnswerShape
  <2>2. v[2] \in Strings
    BY <2>1 DEF StringValues
  <2>3. extract_strings(v)[2] = <<v[2]>>
    BY <1>1 DEF extract_strings
  <2> QED BY <2>2, <2>3
<1>2. CASE v[1] # "string"
  <2>1. /\ v[1] = "array" /\ \A j \in DOMAIN v[2] : v[2][j][1] = "string"
        /\ extract_strings(v)[2] = [j \in DOMAIN v[2] |-> v[2][j][2]]
    BY <1>2 DEF extract_strings
  <2>2. v[2] \in Seq(StringValues \cup {Null})
    BY <2>1, AnswerShape, ArraysType
  <2>3. DOMAIN v[2] = 1..Len(v[2]) /\ Len(v[2]) \in Nat
    BY <2>2
  <2>4. ASSUME NEW j \in DOMAIN v[2] PROVE v[2][j][2] \in Strings
    <3>1. v[2][j] \in StringValues \cup {Null}
      BY <2>2, <2>3
    <3>2. v[2][j] # Null
      BY <2>1 DEF Null
    <3> QED BY <3>1, <3>2 DEF StringValues
  <2> QED BY <2>1, <2>3, <2>4
<1> QED BY <1>1, <1>2

\* The array values a report may hold.
LEMMA ArrayJson ==
  /\ \A q \in Seq(Strings) : <<"array", q>> \in JsonOut
  /\ \A x \in JsonOut : x[1] = "array" => x[2] \in Seq(Strings) /\ x = <<"array", x[2]>>
<1>1. \A q \in Seq(Strings) : <<"array", q>> \in {"array"} \X Seq(Strings)
  OBVIOUS
<1>2. \A x \in {"array"} \X Seq(Strings) : x[2] \in Seq(Strings) /\ x = <<"array", x[2]>>
  OBVIOUS
<1>3. /\ \A x \in Bools : x[1] = "bool"
      /\ \A x \in NumberValues : x[1] = "number"
      /\ \A x \in StringValues : x[1] = "string"
      /\ Unset[1] = "unset" /\ Null[1] = "null"
  BY DEF Bools, NumberValues, StringValues, Unset, Null
<1>4. \A x \in JsonOut : x[1] = "array" => x \in {"array"} \X Seq(Strings)
  BY <1>3 DEF JsonOut
<1>5. \A x \in {"array"} \X Seq(Strings) : x \in JsonOut
  BY DEF JsonOut
<1> QED BY <1>1, <1>2, <1>4, <1>5

PendingType == Seq(Policies \X {f \in Fields : ~Scalar(f)} \X Strings)

\* What StringArrayMask::apply_to goes on to report is what the answer lists: a leaf carries the tag of
\* a string exactly if it is one.
LEMMA ExtractLists ==
  ASSUME NEW v \in Answers
  PROVE  LET found == extract_strings(v)
         IN /\ Lists(v) = IF v # Unset /\ found # None THEN found[2] ELSE <<>>
            /\ Lists(v) \in Seq(Strings)
<1> DEFINE found == extract_strings(v)
<1>0. <<>> \in Seq(Strings) /\ \A x : <<"some", x>> # None
  BY DEF None
<1>1. CASE v[1] = "string"
  <2>1. v \in StringValues /\ v # Unset /\ v[1] # "array"
    BY <1>1, AnswerShape
  <2>2. DOMAIN <<v>> = {1} /\ <<v>>[1] = v
    OBVIOUS
  <2>3. Lists(v) = [j \in DOMAIN <<v>> |-> <<v>>[j][2]]
    BY <2>1, <2>2 DEF Lists
  <2>4. Lists(v) = <<v[2]>>
    BY <2>2, <2>3
  <2>5. found # None /\ found[2] = <<v[2]>>
    BY <1>0, <1>1 DEF extract_strings
  <2> QED BY <2>1, <2>4, <2>5, ExtractType
<1>2. CASE v[1] = "array"
  <2> DEFINE q == v[2]
  <2>1. q \in Seq(StringValues \cup {Null}) /\ v # Unset
    BY <1>2, AnswerShape, ArraysType
  <2>2. DOMAIN q = 1..Len(q) /\ \A j \in DOMAIN q : q[j] \in StringValues \cup {Null}
    BY <2>1
  <2>3. \A j \in DOMAIN q : q[j] \in StringValues <=> q[j][1] = "string"
    <3>1. Null[1] = "null" /\ \A x \in StringValues : x[1] = "string"
      BY DEF Null, StringValues
    <3> QED BY <2>2, <3>1
  <2> DEFINE good == v[3] < MaxDepth /\ \A j \in DOMAIN q : q[j][1] = "string"
  <2>4. Lists(v) = IF good THEN [j \in DOMAIN q |-> q[j][2]] ELSE <<>>
    BY <1>2, <2>3 DEF Lists
  <2>5. found = IF good THEN <<"some", [j \in DOMAIN q |-> q[j][2]]>> ELSE None
    BY <1>2 DEF extract_strings
  <2> HIDE DEF q, good
  <2>6. CASE good
    <3>1. found = <<"some", Lists(v)>>
      BY <2>4, <2>5, <2>6
    <3>2. found # None /\ found[2] = Lists(v)
      BY <1>0, <3>1
    <3> QED BY <2>1, <3>2, ExtractType
  <2>7. CASE ~good
    BY <1>0, <2>4, <2>5, <2>7
  <2> QED BY <2>6, <2>7
<1>3. CASE v[1] \notin {"string", "array"}
  <2>1. found = None
    BY <1>3 DEF extract_strings
  <2>2. v \notin StringValues
    BY <1>3, AnswerShape
  <2>3. Lists(v) = <<>>
    <3>1. 1 \in DOMAIN <<v>> /\ <<v>>[1] = v
      OBVIOUS
    <3> QED BY <1>3, <2>2, <3>1 DEF Lists
  <2> QED BY <1>0, <2>1, <2>3
<1> QED BY <1>1, <1>2, <1>3

\* StringArrayMask::apply_to before its loop changes no scalar field and queues only strings.
LEMMA ArrayEffect ==
  ASSUME TypeOK, NEW i \in Policies, NEW f \in Fields, NEW v \in Answers,
         ApplyStringArrayMask(i, f, v)
  PROVE  /\ Effect /\ report' \in ReportType /\ pending' \in PendingType
         /\ listed' \in [Fields -> Seq(Strings)]
<1> DEFINE m == Mask(i, f, None)
           found == extract_strings(v)
           loop == v # Unset /\ found # None /\ found[2] # <<>>
<1>0. /\ ~Scalar(f) /\ report \in ReportType /\ m.name = f /\ m.policy_index = i
      /\ seen' = seen /\ first' = first /\ mismatched' = mismatched
      /\ report' = IF loop THEN report ELSE StringArrayMask_apply_to(m, v, report)
      /\ pending' = IF loop THEN [j \in DOMAIN found[2] |-> <<i, f, found[2][j]>>] ELSE <<>>
  BY DEF ApplyStringArrayMask, Scalar, TypeOK, Mask
<1>00. listed' \in [Fields -> Seq(Strings)]
  <2>1. listed \in [Fields -> Seq(Strings)] /\ Lists(v) \in Seq(Strings)
    BY ExtractLists DEF TypeOK
  <2>2. listed[f] \o Lists(v) \in Seq(Strings)
    BY <2>1, ConcatProperties
  <2> QED BY <2>1, <2>2 DEF ApplyStringArrayMask
<1> HIDE DEF m
<1>1. CASE loop
  <2>1. found[2] \in Seq(Strings)
    BY <1>1, ExtractType
  <2>2. pending' = [j \in DOMAIN found[2] |-> <<i, f, found[2][j]>>]
    BY <1>0, <1>1
  <2> HIDE DEF found
  <2>3. pending' \in PendingType
    BY <1>0, <2>1, <2>2 DEF PendingType
  <2> QED BY <1>0, <1>00, <1>1, <2>3 DEF Effect, ScalarEffect, Quiet
<1>2. CASE ~loop /\ v = Unset
  BY <1>0, <1>00, <1>2 DEF StringArrayMask_apply_to, Effect, ScalarEffect, Quiet, PendingType
<1>3. CASE ~loop /\ v # Unset /\ found = None
  <2>1. report' = report_type_check_failure(report, f)
    BY <1>0, <1>3 DEF StringArrayMask_apply_to
  <2> HIDE DEF found
  <2>2. report' \in ReportType /\ report'.value = report.value /\ report'.conflicts = report.conflicts
    BY <1>0, <2>1, TypeCheckLogs
  <2> QED BY <1>0, <1>00, <1>3, <2>2 DEF Effect, ScalarEffect, Quiet, PendingType
<1>4. CASE ~loop /\ v # Unset /\ found # None
  <2> DEFINE q == report_policy_index(report, i)
             w == IF q.value[f] = Unset THEN <<"array", <<>>>> ELSE q.value[f]
  <2>1. report' = [q EXCEPT !.value[f] = w]
    BY <1>0, <1>4 DEF StringArrayMask_apply_to, init_empty_string_array
  <2>2. q \in ReportType /\ q.value = report.value /\ q.conflicts = report.conflicts
    BY <1>0, PolicyIndexLogs
  <2>3. w \in JsonOut
    <3>1. <<>> \in Seq(Strings) /\ q.value[f] \in JsonOut
      BY <2>2 DEF ReportType
    <3> QED BY <3>1, ArrayJson
  <2> HIDE DEF q, w
  <2>4. /\ report' \in ReportType /\ report'.value = [report.value EXCEPT ![f] = w]
        /\ report'.conflicts = report.conflicts
    BY <2>1, <2>2, <2>3, StoreType
  <2>5. ArrayStep
    BY <1>0, <2>4 DEF ArrayStep, ReportType, TypeOK
  <2> QED BY <1>0, <1>00, <1>4, <2>4, <2>5 DEF Effect, ScalarEffect, PendingType
<1> QED BY <1>1, <1>2, <1>3, <1>4

\* An iteration of the loop of StringArrayMask::apply_to changes only its own array field.
LEMMA NextStringEffect ==
  ASSUME TypeOK, ReportNextString
  PROVE  Effect /\ report' \in ReportType /\ pending' \in PendingType
<1> DEFINE p == Head(pending)
<1>1. /\ p \in Policies \X {f \in Fields : ~Scalar(f)} \X Strings
      /\ pending' \in PendingType
  BY DEF TypeOK, ReportNextString, PendingType
<1> DEFINE i == p[1]
           f == p[2]
           q == report_policy_index(report, i)
           w == IF q.value[f][1] # "array" THEN <<"array", <<p[3]>>>>
                ELSE IF Contains(q.value[f][2], p[3]) THEN q.value[f]
                ELSE <<"array", Append(q.value[f][2], p[3])>>
<1>2. i \in Policies /\ f \in Fields /\ ~Scalar(f) /\ p[3] \in Strings
  BY <1>1
<1>3. /\ q \in ReportType /\ q.value = report.value /\ q.conflicts = report.conflicts
  BY <1>2, PolicyIndexLogs DEF TypeOK
<1>4. report' = [q EXCEPT !.value[f] = w]
  BY <1>3 DEF ReportNextString, report_string_array
<1>5. w \in JsonOut
  <2>1. q.value[f] \in JsonOut
    BY <1>2, <1>3 DEF ReportType
  <2>2. <<p[3]>> \in Seq(Strings)
    BY <1>2
  <2>3. q.value[f][1] = "array" => Append(q.value[f][2], p[3]) \in Seq(Strings)
    BY <1>2, <2>1, ArrayJson
  <2> QED BY <2>1, <2>2, <2>3, ArrayJson
<1> HIDE DEF q, w
<1>6. /\ report' \in ReportType /\ report'.value = [report.value EXCEPT ![f] = w]
      /\ report'.conflicts = report.conflicts
  BY <1>2, <1>3, <1>4, <1>5, StoreType
<1>7. ArrayStep
  BY <1>2, <1>6 DEF ArrayStep, ReportType, TypeOK, ReportNextString
<1> QED BY <1>1, <1>6, <1>7 DEF Effect

\* An effect keeps the types of the history and the kind of every scalar field.
LEMMA EffectType ==
  ASSUME TypeOK, Effect, report' \in ReportType
  PROVE  /\ seen' \in [Fields -> SUBSET JsonOut] /\ first' \in [Fields -> JsonOut]
         /\ mismatched' \subseteq Fields
         /\ \A f \in Fields : Scalar(f) => /\ report'.value[f] \in ValuesOf(Kind[f]) \cup {Unset}
                                          /\ seen'[f] \subseteq ValuesOf(Kind[f])
<1>1. CASE Quiet
  BY <1>1 DEF Quiet, TypeOK
<1>2. CASE ArrayStep
  BY <1>2 DEF ArrayStep, TypeOK
<1>3. ASSUME NEW f \in Fields, Contra(f)
      PROVE  /\ seen' = seen /\ first' = first /\ mismatched' \subseteq Fields
             /\ report'.value = report.value
  BY <1>3 DEF Contra, TypeOK
<1>4. ASSUME NEW f \in Fields, NEW v \in Values, Stores(f, v) \/ Keeps(f, v) \/ Clashes(f, v)
      PROVE  /\ seen' \in [Fields -> SUBSET JsonOut] /\ first' \in [Fields -> JsonOut]
             /\ mismatched' \subseteq Fields
             /\ \A g \in Fields : Scalar(g) => /\ report'.value[g] \in ValuesOf(Kind[g]) \cup {Unset}
                                              /\ seen'[g] \subseteq ValuesOf(Kind[g])
  <2>1. Handed(f, v)
    BY <1>4 DEF Stores, Keeps, Clashes
  <2>2. v \in JsonOut /\ v \in ValuesOf(Kind[f]) /\ Scalar(f)
    BY <2>1, ValueShape DEF Handed
  <2>3. \/ report'.value = report.value
        \/ report'.value = [report.value EXCEPT ![f] = v]
    BY <1>4 DEF Stores, Keeps, Clashes
  <2>4. report.value \in [Fields -> JsonOut]
    BY DEF TypeOK, ReportType
  <2>5. /\ seen' \in [Fields -> SUBSET JsonOut] /\ first' \in [Fields -> JsonOut]
        /\ mismatched' \subseteq Fields
    BY <2>1, <2>2 DEF Handed, TypeOK
  <2>6. ASSUME NEW g \in Fields, Scalar(g)
        PROVE  seen'[g] \subseteq ValuesOf(Kind[g])
    <3>1. seen[g] \subseteq ValuesOf(Kind[g])
      BY <2>6 DEF TypeOK
    <3>2. seen' = [seen EXCEPT ![f] = @ \cup {v}] /\ seen \in [Fields -> SUBSET JsonOut]
      BY <2>1 DEF Handed, TypeOK
    <3> QED BY <2>2, <3>1, <3>2
  <2>7. ASSUME NEW g \in Fields, Scalar(g)
        PROVE  report'.value[g] \in ValuesOf(Kind[g]) \cup {Unset}
    <3>1. report.value[g] \in ValuesOf(Kind[g]) \cup {Unset}
      BY <2>7 DEF TypeOK
    <3> QED BY <2>2, <2>3, <2>4, <3>1
  <2> QED BY <2>5, <2>6, <2>7
<1> QED BY <1>1, <1>2, <1>3, <1>4 DEF Effect, ScalarEffect, TypeOK

\* Every step of Report has one of the six effects and preserves the type invariant.
LEMMA StepEffect ==
  ASSUME TypeOK, Next
  PROVE  Effect /\ TypeOK'
<1>1. /\ Effect /\ report' \in ReportType /\ pending' \in PendingType /\ left' \in 0..NMasks
      /\ listed' \in [Fields -> Seq(Strings)]
  <2>1. ASSUME NEW i \in Policies, NEW f \in Fields, NEW v \in Answers,
               \/ ApplyBoolMask(i, f, v)
               \/ \E x \in Expected(f) : \/ ApplyNumberMask(i, f, x, v)
                                        \/ ApplyStringMask(i, f, x, v)
                                        \/ ApplyStringEnumMask(i, f, x, v)
        PROVE  Effect /\ report' \in ReportType /\ UNCHANGED <<pending, listed>> /\ NextMask
    <3>1. Effect /\ report' \in ReportType
      BY <2>1, BoolEffect, NumberEffect, StringEffect, EnumEffect DEF Effect
    <3>2. UNCHANGED <<pending, listed>> /\ NextMask
      BY <2>1 DEF ApplyBoolMask, ApplyNumberMask, ApplyStringMask, ApplyStringEnumMask
    <3> QED BY <3>1, <3>2
  <2>2. ASSUME NEW i \in Policies, NEW f \in Fields, NEW v \in Answers, ApplyStringArrayMask(i, f, v)
        PROVE  /\ Effect /\ report' \in ReportType /\ pending' \in PendingType /\ NextMask
               /\ listed' \in [Fields -> Seq(Strings)]
    BY <2>2, ArrayEffect DEF ApplyStringArrayMask
  <2>3. ASSUME ReportNextString
        PROVE  /\ Effect /\ report' \in ReportType /\ pending' \in PendingType
               /\ UNCHANGED <<left, listed>>
    BY <2>3, NextStringEffect DEF ReportNextString
  <2>4. NextMask => left' \in 0..NMasks
    BY NMasksType DEF NextMask, TypeOK
  <2>5. pending \in PendingType /\ left \in 0..NMasks /\ listed \in [Fields -> Seq(Strings)]
    BY DEF TypeOK, PendingType
  <2> QED BY <2>1, <2>2, <2>3, <2>4, <2>5 DEF Next, ApplyMask
<1>2. TypeOK'
  BY <1>1, EffectType DEF TypeOK, PendingType
<1> QED BY <1>1, <1>2

\* Report::new starts from a well-typed report: PolicyType::default_value yields JSON values only.
LEMMA InitType ==
  ASSUME Init
  PROVE  TypeOK
<1>1. default_value \in [Fields -> JsonOut]
  <2>1. Unset \in JsonOut
    BY DEF JsonOut
  <2>2. ASSUME NEW f \in Fields, DefaultOf[f] \notin {None, NonFinite} PROVE DefaultOf[f] \in JsonOut
    BY <2>2, DefaultJson
  <2> QED BY <2>1, <2>2 DEF default_value
<1>2. report \in ReportType /\ report.value = [f \in Fields |-> Unset]
  <2>1. Unset \in JsonOut
    BY DEF JsonOut
  <2> QED BY <1>1, <2>1 DEF Init, NewReport, ReportType
<1>3. Unset \in JsonOut
  BY DEF JsonOut
<1> QED BY <1>2, <1>3, NMasksType DEF Init, TypeOK

\* Whatever masks are applied, in whatever order and to whatever answers, the report is well typed:
\* no scalar field ever holds a value of another kind.
THEOREM ReportTypeCorrect == Spec => []TypeOK
<1>1. Init => TypeOK
  BY InitType
<1>2. TypeOK /\ [Next]_vars => TypeOK'
  <2>1. ASSUME TypeOK, UNCHANGED vars PROVE TypeOK'
    BY <2>1 DEF TypeOK, vars
  <2> QED BY <2>1, StepEffect
<1> QED BY <1>1, <1>2, PTL DEF Spec
-----------------------------------------------------------------------------
(* The inductive invariant.  The four properties below are not inductive    *)
(* one by one: that a conflict is on record exactly when a value differs    *)
(* from the first needs that the value in the report is the first, and that *)
(* needs that a field is unset exactly until a value is reported.           *)

HistoryMatches(f) ==
  IF report.value[f] = Unset THEN seen[f] = {} /\ first[f] = Unset
  ELSE report.value[f] \in seen[f] /\ first[f] \in seen[f] /\ first[f] # Unset

ReportInv ==
  /\ TypeOK
  /\ \A f \in Fields : Scalar(f) => HistoryMatches(f)
  /\ FirstWriterStays /\ LargestKept /\ AgreementRecorded /\ SilentResolution

\* A conflict appended for f, by report_conflict, is a conflict of f and of no other field.
LEMMA ConflictAppended ==
  ASSUME TypeOK, NEW f \in Fields, NEW a \in JsonOut, NEW b \in JsonOut,
         report'.conflicts = Append(report.conflicts, <<f, a, b>>), NEW g \in Fields
  PROVE  HasConflict(g)' <=> HasConflict(g) \/ g = f
<1> DEFINE c == report.conflicts
           d == report'.conflicts
<1>1. c \in Seq(Fields \X JsonOut \X JsonOut)
  BY DEF TypeOK, ReportType
<1>2. /\ DOMAIN c = 1..Len(c) /\ DOMAIN d = 1..(Len(c) + 1) /\ Len(c) \in Nat
      /\ \A j \in 1..Len(c) : d[j] = c[j]
      /\ d[Len(c) + 1] = <<f, a, b>>
  BY <1>1
<1> HIDE DEF c, d
<1>3. (\E j \in DOMAIN d : d[j][1] = g) <=> (\E j \in DOMAIN c : c[j][1] = g) \/ g = f
  BY <1>2
<1> QED BY <1>3 DEF HasConflict, c, d

\* A step that leaves a field and the conflicts of that field alone keeps the invariant of it.
FieldInv(f) ==
  /\ Scalar(f) => HistoryMatches(f)
  /\ Scalar(f) /\ OnConflict[f] # "LargestValue" => report.value[f] = first[f]
  /\ Scalar(f) /\ OnConflict[f] = "LargestValue" =>
       \A v \in seen[f] : ~Beats(Kind[f], v, report.value[f])
  /\ Scalar(f) /\ OnConflict[f] = "Agreement" =>
       (HasConflict(f) <=> f \in mismatched \/ \E v \in seen[f] : ~Same(Kind[f], first[f], v))
  /\ (OnConflict[f] = "Default" \/ (OnConflict[f] = "LargestValue" /\ ~LoserConflicts(Kind[f])))
       => (HasConflict(f) => f \in mismatched)

\* ReportInv speaks of one field at a time.
LEMMA InvByField == ReportInv <=> TypeOK /\ \A f \in Fields : FieldInv(f)
  BY DEF ReportInv, FieldInv, FirstWriterStays, LargestKept, AgreementRecorded, SilentResolution

\* A field keeps FieldInv if its value, its history and whether it is in conflict stay the same.
LEMMA FieldUntouched ==
  ASSUME NEW g \in Fields, FieldInv(g), HasConflict(g)' <=> HasConflict(g),
         g \in mismatched' <=> g \in mismatched,
         Scalar(g) => report'.value[g] = report.value[g] /\ seen'[g] = seen[g] /\ first'[g] = first[g]
  PROVE  FieldInv(g)'
  BY DEF FieldInv, HistoryMatches, Scalar

\* A field whose answer contradicted its policy keeps FieldInv: the conflict is accounted for.
LEMMA ContraKeeps ==
  ASSUME TypeOK, NEW f \in Fields, Contra(f), NEW g \in Fields, FieldInv(g)
  PROVE  FieldInv(g)'
<1>1. HasConflict(g)' <=> HasConflict(g) \/ g = f
  BY ConflictAppended DEF Contra
<1>2. mismatched' = mismatched \cup {f} /\ seen' = seen /\ first' = first /\ report'.value = report.value
  BY DEF Contra
<1>3. CASE g = f
  <2>1. HasConflict(g)' /\ g \in mismatched'
    BY <1>1, <1>2, <1>3
  <2> QED BY <1>2, <2>1 DEF FieldInv, HistoryMatches, Scalar
<1>4. CASE g # f
  BY <1>1, <1>2, <1>4, FieldUntouched
<1> QED BY <1>3, <1>4

\* The heart of the argument: storing, keeping or clashing keeps FieldInv of the field it is done to.
\* Storing under LargestValue needs that Beats is transitive, number_less_than included.
LEMMA HandedKeeps ==
  ASSUME TypeOK, NEW f \in Fields, NEW v \in Values, FieldInv(f),
         Stores(f, v) \/ Keeps(f, v) \/ Clashes(f, v)
  PROVE  FieldInv(f)'
<1>1. /\ Scalar(f) /\ v \in ValuesOf(Kind[f]) /\ v # Unset /\ v \in JsonOut
      /\ seen'[f] = seen[f] \cup {v} /\ mismatched' = mismatched
      /\ first'[f] = IF first[f] = Unset THEN v ELSE first[f]
  <2>1. Handed(f, v)
    BY DEF Stores, Keeps, Clashes
  <2> QED BY <2>1, ValueShape DEF Handed, TypeOK
<1>2. /\ seen[f] \subseteq ValuesOf(Kind[f]) /\ report.value[f] \in ValuesOf(Kind[f]) \cup {Unset}
      /\ HistoryMatches(f) /\ OnConflict[f] \in Strategies /\ report.value[f] \in JsonOut
  BY <1>1, TypeOfFields DEF TypeOK, FieldInv, ReportType
<1>3. Same(Kind[f], v, v)
  BY <1>1, BeatsOrder
<1>4. CASE Stores(f, v)
  <2>1. report'.value[f] = v /\ (HasConflict(f)' <=> HasConflict(f))
    BY <1>4 DEF Stores, HasConflict, TypeOK, ReportType
  <2>2. CASE report.value[f] = Unset
    <3>1. seen'[f] = {v} /\ first'[f] = v /\ seen[f] = {}
      BY <1>1, <1>2, <2>2 DEF HistoryMatches
    <3>2. ~Beats(Kind[f], v, v)
      BY <1>1, BeatsOrder
    <3> QED BY <1>1, <1>3, <2>1, <3>1, <3>2 DEF FieldInv, HistoryMatches, Scalar
  <2>3. CASE report.value[f] # Unset
    <3>1. OnConflict[f] = "LargestValue" /\ Beats(Kind[f], v, report.value[f])
      BY <1>4, <2>3 DEF Stores
    <3>2. ASSUME NEW u \in seen'[f] PROVE ~Beats(Kind[f], u, v)
      <4>1. CASE u = v
        BY <1>1, <4>1, BeatsOrder
      <4>2. CASE u \in seen[f]
        <5>1. ~Beats(Kind[f], u, report.value[f])
          BY <1>1, <3>1, <4>2 DEF FieldInv
        <5>2. u \in ValuesOf(Kind[f]) /\ report.value[f] \in ValuesOf(Kind[f])
          BY <1>2, <2>3, <4>2
        <5> QED BY <1>1, <3>1, <5>1, <5>2, BeatsOrder
      <4> QED BY <1>1, <4>1, <4>2
    <3>3. first'[f] = first[f] /\ first'[f] \in seen'[f] /\ first[f] # Unset /\ v \in seen'[f]
      BY <1>1, <1>2, <2>3 DEF HistoryMatches
    <3> QED BY <1>1, <2>1, <3>1, <3>2, <3>3 DEF FieldInv, HistoryMatches, Scalar
  <2> QED BY <2>2, <2>3
<1>5. CASE Keeps(f, v)
  <2>1. /\ report'.value[f] = report.value[f] /\ report.value[f] # Unset
        /\ HasConflict(f)' <=> HasConflict(f)
    BY <1>5 DEF Keeps, HasConflict
  <2>2. /\ first'[f] = first[f] /\ first[f] \in seen[f] /\ report.value[f] \in seen[f]
        /\ first[f] # Unset
    BY <1>1, <1>2, <2>1 DEF HistoryMatches
  <2>3. CASE OnConflict[f] = "LargestValue"
    <3>1. ~Beats(Kind[f], v, report.value[f])
      BY <1>1, <1>2, <1>5, <2>1, <2>3, BeatsOrder DEF Keeps
    <3> QED BY <1>1, <2>1, <2>2, <2>3, <3>1 DEF FieldInv, HistoryMatches, Scalar
  <2>4. CASE OnConflict[f] = "Default"
    BY <1>1, <2>1, <2>2, <2>4 DEF FieldInv, HistoryMatches, Scalar
  <2>5. CASE OnConflict[f] = "Agreement"
    <3>1. Same(Kind[f], first[f], v)
      BY <1>1, <1>5, <2>5 DEF Keeps, FieldInv
    <3> QED BY <1>1, <2>1, <2>2, <2>5, <3>1 DEF FieldInv, HistoryMatches, Scalar
  <2> QED BY <1>2, <2>3, <2>4, <2>5 DEF Strategies
<1>6. CASE Clashes(f, v)
  <2>1. report'.value[f] = report.value[f] /\ report.value[f] # Unset
    BY <1>6 DEF Clashes
  <2>2. HasConflict(f)'
    BY <1>1, <1>2, <1>6, ConflictAppended DEF Clashes
  <2>3. /\ first'[f] = first[f] /\ first[f] \in seen[f] /\ report.value[f] \in seen[f]
        /\ first[f] # Unset
    BY <1>1, <1>2, <2>1 DEF HistoryMatches
  <2>4. CASE OnConflict[f] = "Agreement"
    <3>1. ~Same(Kind[f], first'[f], v) /\ v \in seen'[f]
      BY <1>1, <1>6, <2>3, <2>4 DEF Clashes, FieldInv
    <3> QED BY <1>1, <2>1, <2>2, <2>3, <2>4, <3>1 DEF FieldInv, HistoryMatches, Scalar
  <2>5. CASE OnConflict[f] = "LargestValue"
    <3>1. ~Beats(Kind[f], v, report.value[f]) /\ LoserConflicts(Kind[f])
      BY <1>6, <2>5 DEF Clashes
    <3> QED BY <1>1, <2>1, <2>3, <2>5, <3>1 DEF FieldInv, HistoryMatches, Scalar
  <2> QED BY <1>6, <2>4, <2>5 DEF Clashes
<1> QED BY <1>4, <1>5, <1>6

\* Every step of Report preserves the invariant.
LEMMA StepInv ==
  ASSUME ReportInv, Next
  PROVE  ReportInv'
<1>1. Effect /\ TypeOK' /\ TypeOK
  BY StepEffect DEF ReportInv
<1>2. \A g \in Fields : FieldInv(g)
  BY InvByField
<1>3. ASSUME NEW g \in Fields PROVE FieldInv(g)'
  <2>1. CASE Quiet \/ ArrayStep
    BY <1>2, <2>1, FieldUntouched DEF Quiet, ArrayStep, HasConflict
  <2>2. ASSUME NEW f \in Fields, Contra(f) PROVE FieldInv(g)'
    BY <1>1, <1>2, <2>2, ContraKeeps
  <2>3. ASSUME NEW f \in Fields, NEW v \in Values, Stores(f, v) \/ Keeps(f, v) \/ Clashes(f, v)
        PROVE  FieldInv(g)'
    <3>1. CASE g = f
      BY <1>1, <1>2, <2>3, <3>1, HandedKeeps
    <3>2. CASE g # f
      <4>1. Handed(f, v) /\ v \in JsonOut /\ report.value[f] \in JsonOut
        BY <1>1, <2>3, ValueShape DEF Stores, Keeps, Clashes, Handed, TypeOK, ReportType
      <4>2. /\ seen'[g] = seen[g] /\ first'[g] = first[g] /\ mismatched' = mismatched
            /\ report'.value[g] = report.value[g]
        <5>1. /\ seen'[g] = seen[g] /\ first'[g] = first[g] /\ mismatched' = mismatched
          BY <1>1, <3>2, <4>1 DEF Handed, TypeOK
        <5>2. report'.value[g] = report.value[g]
          BY <1>1, <2>3, <3>2 DEF Stores, Keeps, Clashes, TypeOK, ReportType
        <5> QED BY <5>1, <5>2
      <4>3. HasConflict(g)' <=> HasConflict(g)
        <5>1. CASE report'.conflicts = report.conflicts
          BY <5>1 DEF HasConflict
        <5>2. CASE report'.conflicts = Append(report.conflicts, <<f, report.value[f], v>>)
          BY <1>1, <3>2, <4>1, <5>2, ConflictAppended
        <5> QED BY <2>3, <5>1, <5>2 DEF Stores, Keeps, Clashes
      <4> QED BY <1>2, <4>2, <4>3, FieldUntouched
    <3> QED BY <3>1, <3>2
  <2> QED BY <1>1, <2>1, <2>2, <2>3 DEF Effect, ScalarEffect
<1>4. (\A g \in Fields : FieldInv(g)')
  BY <1>3
<1> QED
  BY <1>1, <1>4 DEF ReportInv, FieldInv, FirstWriterStays, LargestKept, AgreementRecorded, SilentResolution

\* ReportInv holds throughout, for every policy type, set of answers and number of masks.
THEOREM ReportInvariant == Spec => []ReportInv
<1>1. Init => ReportInv
  <2> SUFFICES ASSUME Init PROVE ReportInv
    OBVIOUS
  <2>1. TypeOK
    BY InitType
  <2>2. ASSUME NEW f \in Fields
        PROVE  report.value[f] = Unset /\ seen[f] = {} /\ first[f] = Unset /\ ~HasConflict(f) /\ mismatched = {}
    BY <2>2 DEF Init, NewReport, HasConflict
  <2>3. \A f \in Fields : FieldInv(f)
    BY <2>2 DEF FieldInv, HistoryMatches
  <2> QED BY <2>1, <2>3, InvByField
<1>2. ReportInv /\ [Next]_vars => ReportInv'
  <2>1. ASSUME ReportInv, UNCHANGED vars PROVE ReportInv'
    BY <2>1 DEF ReportInv, vars, TypeOK, HistoryMatches, FirstWriterStays, LargestKept,
                AgreementRecorded, SilentResolution, HasConflict
  <2> QED BY <2>1, StepInv
<1> QED BY <1>1, <1>2, PTL DEF Spec

\* A scalar of the report is a value some policy reported, or unset if none did (Report::value).
THEOREM ReportValueWasReported == Spec => []ValueWasReported
<1>1. ReportInv => ValueWasReported
  BY DEF ReportInv, HistoryMatches, ValueWasReported
<1> QED BY <1>1, ReportInvariant, PTL

\* Under Default and Agreement the report_* functions keep the first value whatever follows.
THEOREM ReportFirstWriterStays == Spec => []FirstWriterStays
<1>1. ReportInv => FirstWriterStays
  BY DEF ReportInv
<1> QED BY <1>1, ReportInvariant, PTL

\* Under LargestValue no reported value beats the one the report_* functions kept.
THEOREM ReportLargestKept == Spec => []LargestKept
<1>1. ReportInv => LargestKept
  BY DEF ReportInv
<1> QED BY <1>1, ReportInvariant, PTL

\* Under Agreement the report_*_conflict functions record a disagreement exactly when there is one.
THEOREM ReportAgreementRecorded == Spec => []AgreementRecorded
<1>1. ReportInv => AgreementRecorded
  BY DEF ReportInv
<1> QED BY <1>1, ReportInvariant, PTL

\* Under Default, and for a bool or a string under LargestValue, the report_* functions record no
\* conflict between policies.
THEOREM ReportSilentResolution == Spec => []SilentResolution
<1>1. ReportInv => SilentResolution
  BY DEF ReportInv
<1> QED BY <1>1, ReportInvariant, PTL
-----------------------------------------------------------------------------
(* Report implements Resolution.                                           *)

\* A scalar field, as Resolution sees it, after a value was handed to it.
LEMMA HandedReportsValue ==
  ASSUME ReportInv, ReportInv', NEW f \in Fields, NEW v \in Values,
         Stores(f, v) \/ Keeps(f, v) \/ Clashes(f, v)
  PROVE  f \in ScalarFields /\ v \in FieldCandidates(f) /\ Abstract!ReportValue(f, v)
<1> DEFINE c == report'.value[f]
<1>1. Handed(f, v) /\ f \in ScalarFields /\ v \in FieldCandidates(f)
  BY DEF Stores, Keeps, Clashes, Handed, ScalarFields, FieldCandidates
<1>2. TypeOK /\ report.value \in [Fields -> JsonOut] /\ seen \in [Fields -> SUBSET JsonOut]
  BY DEF ReportInv, TypeOK, ReportType
<1>3. seen'[f] = seen[f] \cup {v} /\ \A g \in Fields : g # f => seen'[g] = seen[g]
  BY <1>1, <1>2 DEF Handed
<1>4. \A g \in Fields : g # f => report'.value[g] = report.value[g]
  BY <1>2 DEF Stores, Keeps, Clashes
<1>5. /\ c \in seen'[f]
      /\ OnConflict[f] # "LargestValue" => report.value[f] \in {Unset, c}
      /\ OnConflict[f] = "LargestValue" => \A w \in seen'[f] : ~FieldWins(f, w, c)
  <2>1. c # Unset
    BY <1>1, <1>2, ValueShape DEF Stores, Keeps, Clashes, Handed
  <2>2. c \in seen'[f]
    BY <1>1, <2>1 DEF ReportInv, HistoryMatches, ScalarFields
  <2>3. OnConflict[f] # "LargestValue" => report.value[f] \in {Unset, c}
    BY <1>2 DEF Stores, Keeps, Clashes
  <2>4. OnConflict[f] = "LargestValue" => \A w \in seen'[f] : ~FieldWins(f, w, c)
    BY <1>1 DEF ReportInv, LargestKept, ScalarFields, FieldWins
  <2> QED BY <2>2, <2>3, <2>4
<1>6. /\ \A g \in Fields : HasConflict(g) => HasConflict(g)'
      /\ \A g \in Fields : HasConflict(g)' => HasConflict(g) \/ g = f
      /\ OnConflict[f] = "Default" => \A g \in Fields : HasConflict(g)' => HasConflict(g)
      /\ OnConflict[f] = "Agreement" /\ report.value[f] # Unset =>
           FieldAgree(f, report.value[f], v) \/ HasConflict(f)'
  <2>1. CASE Clashes(f, v)
    <3>1. \A g \in Fields : HasConflict(g)' <=> HasConflict(g) \/ g = f
      <4>1. v \in JsonOut /\ report.value[f] \in JsonOut
        BY <1>1, <1>2, ValueShape DEF Handed
      <4> QED BY <1>2, <2>1, <4>1, ConflictAppended DEF Clashes
    <3>2. OnConflict[f] # "Default"
      BY <2>1 DEF Clashes
    <3> QED BY <3>1, <3>2
  <2>2. CASE Stores(f, v) \/ Keeps(f, v)
    <3>1. \A g \in Fields : HasConflict(g)' <=> HasConflict(g)
      BY <2>2 DEF Stores, Keeps, HasConflict
    <3>2. OnConflict[f] = "Agreement" /\ report.value[f] # Unset => FieldAgree(f, report.value[f], v)
      BY <2>2 DEF Stores, Keeps, FieldAgree
    <3> QED BY <3>1, <3>2
  <2> QED BY <2>1, <2>2
<1> HIDE DEF c
<1>7. [g \in ScalarFields |-> seen[g]]' = [[g \in ScalarFields |-> seen[g]] EXCEPT ![f] = @ \cup {v}]
  BY <1>1, <1>3 DEF ScalarFields, Scalar
<1>8. [g \in ScalarFields |-> report.value[g]]' = [[g \in ScalarFields |-> report.value[g]] EXCEPT ![f] = c]
  BY <1>1, <1>4 DEF ScalarFields, Scalar, c
<1>9. c \in [g \in ScalarFields |-> seen[g]][f] \cup {v} /\ Abstract!MayChoose(f, c, [g \in ScalarFields |-> seen[g]][f] \cup {v})
  BY <1>1, <1>3, <1>5 DEF Abstract!MayChoose
<1>10. Abstract!MayDispute(f, v)
  BY <1>1, <1>6 DEF Abstract!MayDispute, ScalarFields, Scalar
<1> QED BY <1>1, <1>7, <1>8, <1>9, <1>10 DEF Abstract!ReportValue

\* Every step of the masks is a step of Resolution or changes nothing that Resolution sees.
LEMMA StepRefines ==
  ASSUME ReportInv, ReportInv', Next
  PROVE  [Abstract!AbstractNext]_(Abstract!abstractVars)
<1>1. Effect /\ TypeOK
  BY StepEffect DEF ReportInv
<1>2. CASE Quiet \/ ArrayStep
  <2>1. \A g \in Fields : HasConflict(g)' <=> HasConflict(g)
    BY <1>2 DEF Quiet, ArrayStep, HasConflict
  <2>2. \A g \in Fields : Scalar(g) => report'.value[g] = report.value[g] /\ seen'[g] = seen[g]
    BY <1>2 DEF Quiet, ArrayStep
  <2> QED BY <2>1, <2>2 DEF Abstract!abstractVars, ScalarFields, Scalar
<1>3. ASSUME NEW f \in Fields, Contra(f)
      PROVE  [Abstract!AbstractNext]_(Abstract!abstractVars)
  <2>1. \A g \in Fields : HasConflict(g)' <=> HasConflict(g) \/ g = f
    BY <1>1, <1>3, ConflictAppended DEF Contra
  <2>2. report'.value = report.value /\ seen' = seen
    BY <1>3 DEF Contra
  <2>3. CASE f \in ScalarFields
    <3>1. {g \in ScalarFields : HasConflict(g)}' = {g \in ScalarFields : HasConflict(g)} \cup {f}
      BY <2>1, <2>3 DEF ScalarFields, Scalar
    <3>2. Abstract!ContradictPolicy(f)
      BY <2>2, <3>1 DEF Abstract!ContradictPolicy, ScalarFields, Scalar
    <3> QED BY <2>3, <3>2 DEF Abstract!AbstractNext
  <2>4. CASE f \notin ScalarFields
    BY <1>3, <2>1, <2>2, <2>4 DEF Abstract!abstractVars, ScalarFields, Scalar
  <2> QED BY <2>3, <2>4
<1>4. ASSUME NEW f \in Fields, NEW v \in Values, Stores(f, v) \/ Keeps(f, v) \/ Clashes(f, v)
      PROVE  Abstract!AbstractNext
  BY <1>4, HandedReportsValue DEF Abstract!AbstractNext
<1> QED BY <1>1, <1>2, <1>3, <1>4 DEF Effect, ScalarEffect

\* The report that consume_ir builds implements Resolution: every step resolves one value for one field
\* or disputes it, for every policy type, every order of masks and every answer.
THEOREM ReportImplementsResolution == Spec => ImplementsResolution
<1>1. Init => Abstract!AbstractInit
  <2> SUFFICES ASSUME Init PROVE Abstract!AbstractInit
    OBVIOUS
  <2>1. \A f \in Fields : report.value[f] = Unset /\ seen[f] = {} /\ ~HasConflict(f)
    BY DEF Init, NewReport, HasConflict
  <2> QED BY <2>1 DEF Abstract!AbstractInit, ScalarFields
<1>2. ReportInv /\ ReportInv' /\ [Next]_vars => [Abstract!AbstractNext]_(Abstract!abstractVars)
  <2>1. ASSUME UNCHANGED vars PROVE UNCHANGED Abstract!abstractVars
    BY <2>1 DEF vars, Abstract!abstractVars, ScalarFields, Scalar, HasConflict
  <2> QED BY <2>1, StepRefines
<1> QED BY <1>1, <1>2, ReportInvariant, PTL DEF Spec, ImplementsResolution, Abstract!AbstractSpec
-----------------------------------------------------------------------------
(* The logs, the defaults and the string arrays of a report: what a step of *)
(* the masks appends to them, and that nothing is ever taken back.          *)

\* The errors that policies of one type may cause.
Allowed(e) == e[1] = "TypeCheckFailure" \/ (e[1] = "InvariantViolation" /\ DefaultOf[e[2]] = NonFinite)

\* A default is the one default of the field, or not yet known.
GoodLogs(r) ==
  /\ \A j \in DOMAIN r.errors : Allowed(r.errors[j])
  /\ \A f \in Fields : r.default[f] \in {Unset, DefaultOf[f]}

\* What every operation of src/report.rs does to the parts of a report other than its values.
Grows(r, q) ==
  /\ r \in ReportType /\ q \in ReportType
  /\ IsPrefix(r.rules_matched, q.rules_matched)
  /\ IsPrefix(r.conflicts, q.conflicts)
  /\ IsPrefix(r.errors, q.errors)
  /\ GoodLogs(r) => GoodLogs(q)

\* Operations on a report compose.
LEMMA GrowsTransitive ==
  ASSUME NEW r, NEW p, NEW q, Grows(r, p), Grows(p, q)
  PROVE  Grows(r, q)
<1>1. /\ r \in ReportType /\ p \in ReportType /\ q \in ReportType
  BY DEF Grows
<1>2. /\ IsPrefix(r.rules_matched, q.rules_matched)
      /\ IsPrefix(r.conflicts, q.conflicts)
      /\ IsPrefix(r.errors, q.errors)
  BY <1>1, PrefixTransitive DEF Grows, ReportType
<1> QED BY <1>1, <1>2 DEF Grows

\* An operation that leaves the logs and the defaults alone.
LEMMA GrowsByValue ==
  ASSUME NEW r \in ReportType, NEW q \in ReportType, q.rules_matched = r.rules_matched,
         q.conflicts = r.conflicts, q.errors = r.errors, q.default = r.default
  PROVE  Grows(r, q)
<1>1. /\ IsPrefix(r.rules_matched, q.rules_matched)
      /\ IsPrefix(r.conflicts, q.conflicts)
      /\ IsPrefix(r.errors, q.errors)
  BY PrefixReflexive DEF ReportType
<1> QED BY <1>1 DEF Grows, GoodLogs

\* report_policy_index appends to rules_matched only.
LEMMA PolicyIndexGrows ==
  ASSUME NEW r \in ReportType, NEW i \in Policies
  PROVE  Grows(r, report_policy_index(r, i))
<1> DEFINE q == report_policy_index(r, i)
<1>1. /\ q \in ReportType /\ q.default = r.default /\ q.conflicts = r.conflicts /\ q.errors = r.errors
  BY PolicyIndexLogs
<1>2. q.rules_matched = Append(r.rules_matched, i) /\ r.rules_matched \in Seq(Policies)
  BY DEF report_policy_index, ReportType
<1> HIDE DEF q
<1>3. /\ IsPrefix(r.rules_matched, q.rules_matched)
      /\ IsPrefix(r.conflicts, q.conflicts)
      /\ IsPrefix(r.errors, q.errors)
  BY <1>1, <1>2, PrefixReflexive, PrefixAppend DEF ReportType
<1> QED BY <1>1, <1>3 DEF Grows, GoodLogs, q

\* report_conflict appends to conflicts only.
LEMMA ConflictGrows ==
  ASSUME NEW r \in ReportType, NEW f \in Fields, NEW a \in JsonOut, NEW b \in JsonOut
  PROVE  Grows(r, report_conflict(r, f, a, b))
<1> DEFINE q == report_conflict(r, f, a, b)
           c == <<f, a, b>>
<1>1. /\ q \in ReportType /\ q.default = r.default /\ q.conflicts = Append(r.conflicts, c) /\ q.errors = r.errors
  BY ConflictLogs
<1>2. q.rules_matched = r.rules_matched /\ c \in Fields \X JsonOut \X JsonOut
  BY DEF report_conflict, ReportType
<1> HIDE DEF q, c
<1>3. /\ IsPrefix(r.rules_matched, q.rules_matched)
      /\ IsPrefix(r.conflicts, q.conflicts)
      /\ IsPrefix(r.errors, q.errors)
  BY <1>1, <1>2, PrefixReflexive, PrefixAppend DEF ReportType
<1> QED BY <1>1, <1>3 DEF Grows, GoodLogs, q

\* An error the masks may log: a failed type check, or a default that JSON cannot hold.
LEMMA ErrorGrows ==
  ASSUME NEW r \in ReportType, NEW f \in Fields,
         NEW k \in {"InvariantViolation", "TypeCheckFailure", "DefaultConflict"}, Allowed(<<k, f>>)
  PROVE  Grows(r, [r EXCEPT !.errors = Append(@, <<k, f>>)])
<1> DEFINE q == [r EXCEPT !.errors = Append(@, <<k, f>>)]
           e == <<k, f>>
           E == {"InvariantViolation", "TypeCheckFailure", "DefaultConflict"} \X Fields
<1>1. q \in ReportType /\ q.default = r.default /\ q.conflicts = r.conflicts
  BY ErrorLogs
<1>2. /\ q.rules_matched = r.rules_matched /\ q.errors = Append(r.errors, e)
      /\ e \in E /\ r.errors \in Seq(E)
  BY DEF ReportType
<1>3. Allowed(e)
  OBVIOUS
<1> HIDE DEF q, e, E
<1>4. /\ IsPrefix(r.rules_matched, q.rules_matched)
      /\ IsPrefix(r.conflicts, q.conflicts)
  BY <1>1, <1>2, PrefixReflexive DEF ReportType
<1>5. IsPrefix(r.errors, q.errors)
  BY <1>2, PrefixAppend
<1>6. (\A j \in DOMAIN r.errors : Allowed(r.errors[j])) => \A j \in DOMAIN q.errors : Allowed(q.errors[j])
  <2>1. /\ DOMAIN r.errors = 1..Len(r.errors) /\ DOMAIN q.errors = 1..(Len(r.errors) + 1)
        /\ Len(r.errors) \in Nat /\ q.errors[Len(r.errors) + 1] = e
        /\ \A j \in 1..Len(r.errors) : q.errors[j] = r.errors[j]
    BY <1>2
  <2> QED BY <1>3, <2>1
<1> QED BY <1>1, <1>4, <1>5, <1>6 DEF Grows, GoodLogs, q

\* The first default of a field is kept, and any later one is the same one: no DefaultConflict.
LEMMA DefaultGrows ==
  ASSUME NEW r \in ReportType, NEW f \in Fields, DefaultOf[f] \in JsonOut, GoodLogs(r)
  PROVE  Grows(r, report_default(r, f, DefaultOf[f]))
<1> DEFINE q == [r EXCEPT !.default[f] = DefaultOf[f]]
<1>1. CASE r.default[f] = Unset
  <2>1. /\ q \in ReportType /\ q.rules_matched = r.rules_matched /\ q.conflicts = r.conflicts
        /\ q.errors = r.errors /\ q.default = [r.default EXCEPT ![f] = DefaultOf[f]]
        /\ r.default \in [Fields -> JsonOut]
    BY DEF ReportType
  <2> HIDE DEF q
  <2>2. \A g \in Fields : q.default[g] \in {Unset, DefaultOf[g]}
    BY <2>1 DEF GoodLogs
  <2>3. GoodLogs(q)
    BY <2>1, <2>2 DEF GoodLogs
  <2>4. /\ IsPrefix(r.rules_matched, q.rules_matched)
        /\ IsPrefix(r.conflicts, q.conflicts)
        /\ IsPrefix(r.errors, q.errors)
    BY <2>1, PrefixReflexive DEF ReportType
  <2>5. report_default(r, f, DefaultOf[f]) = q
    BY <1>1 DEF report_default, q
  <2> QED BY <2>1, <2>3, <2>4, <2>5 DEF Grows
<1>2. CASE r.default[f] # Unset
  <2>1. r.default[f] = DefaultOf[f]
    BY <1>2 DEF GoodLogs
  <2>2. report_default(r, f, DefaultOf[f]) = r
    BY <1>2, <2>1 DEF report_default
  <2> QED BY <2>2, GrowsByValue
<1> QED BY <1>1, <1>2
-----------------------------------------------------------------------------
(* Each mask, whatever the answer.                                          *)

\* Resolve logs the policy, perhaps a conflict, and never its internal error: the field holds a value
\* of its own kind.
LEMMA ResolveGrows ==
  ASSUME TypeOK, NEW i \in Policies, NEW f \in Fields, NEW v \in ValuesOf(Kind[f]), Scalar(f)
  PROVE  Grows(report, Resolve(Kind[f], report_policy_index(report, i), f, v, OnConflict[f]))
<1> DEFINE r == report_policy_index(report, i)
           q == Resolve(Kind[f], r, f, v, OnConflict[f])
           stored == [r EXCEPT !.value[f] = v]
           clash == report_conflict(r, f, r.value[f], v)
<1>1. Grows(report, r) /\ r \in ReportType /\ r.value = report.value
  BY PolicyIndexGrows, PolicyIndexLogs DEF TypeOK
<1> HIDE DEF r
<1>2. v \in JsonOut /\ r.value[f] \in JsonOut
  BY <1>1, ValueShape DEF ReportType
<1>3. r.value[f] \notin {Unset, Null} => r.value[f][1] = Tag(Kind[f])
  BY <1>1, ValueShape DEF TypeOK
<1>4. q \in {r, stored, clash}
  <2> HIDE DEF stored, clash
  <2> QED BY <1>3 DEF Resolve, stored, clash
<1>5. Grows(r, stored)
  <2>1. stored \in ReportType /\ stored.default = r.default /\ stored.conflicts = r.conflicts /\ stored.errors = r.errors
    BY <1>1, <1>2, StoreType
  <2>2. stored.rules_matched = r.rules_matched
    BY <1>1 DEF ReportType
  <2> QED BY <1>1, <2>1, <2>2, GrowsByValue
<1>6. Grows(r, clash)
  BY <1>1, <1>2, ConflictGrows
<1>7. Grows(r, r)
  BY <1>1, GrowsByValue
<1>8. Grows(r, q)
  <2> HIDE DEF q, stored, clash
  <2> QED BY <1>4, <1>5, <1>6, <1>7
<1> QED BY <1>1, <1>8, GrowsTransitive DEF r

\* A mismatch between the answer and the policy logs the policy and a conflict.
LEMMA MismatchGrows ==
  ASSUME NEW r \in ReportType, NEW i \in Policies, NEW f \in Fields,
         NEW a \in JsonOut, NEW b \in JsonOut
  PROVE  Grows(r, report_conflict(report_policy_index(r, i), f, a, b))
<1> DEFINE p == report_policy_index(r, i)
<1>1. p \in ReportType /\ Grows(r, p)
  BY PolicyIndexLogs, PolicyIndexGrows
<1> HIDE DEF p
<1>2. Grows(p, report_conflict(p, f, a, b))
  BY <1>1, ConflictGrows
<1> QED BY <1>1, <1>2, GrowsTransitive DEF p

\* An answer of the wrong type logs the one error a policy of any type may cause.
LEMMA TypeCheckGrows ==
  ASSUME NEW r \in ReportType, NEW f \in Fields
  PROVE  Grows(r, report_type_check_failure(r, f))
<1>1. Allowed(<<"TypeCheckFailure", f>>)
  BY DEF Allowed
<1> QED BY <1>1, ErrorGrows DEF report_type_check_failure

\* A default that JSON cannot hold is the one internal error that can be logged.
LEMMA NonFiniteGrows ==
  ASSUME NEW r \in ReportType, NEW f \in Fields, DefaultOf[f] = NonFinite
  PROVE  Grows(r, report_invariant_violation(r, f))
<1>1. Allowed(<<"InvariantViolation", f>>)
  BY DEF Allowed
<1> QED BY <1>1, ErrorGrows DEF report_invariant_violation

LogInv == TypeOK /\ GoodLogs(report)

\* BoolMask::apply_to.
LEMMA BoolGrows ==
  ASSUME LogInv, NEW i \in Policies, NEW f \in Fields, NEW v \in Answers, ApplyBoolMask(i, f, v)
  PROVE  Grows(report, report')
<1> DEFINE m == Mask(i, f, None)
<1>0. /\ TypeOK /\ GoodLogs(report)
      /\ Kind[f] = "bool" /\ Scalar(f) /\ report \in ReportType
      /\ report' = BoolMask_apply_to(m, v, report)
      /\ m.name = f /\ m.policy_index = i /\ m.default = DefaultOf[f] /\ m.on_conflict = OnConflict[f]
  BY DEF ApplyBoolMask, Scalar, TypeOK, LogInv, Mask
<1> HIDE DEF m
<1>1. CASE v[1] = "bool"
  <2>1. v \in ValuesOf(Kind[f]) /\ v # Unset
    BY <1>0, <1>1, AnswerShape, ValueShape DEF ValuesOf
  <2>2. report' = Resolve(Kind[f], report_policy_index(report, i), f, v, OnConflict[f])
    BY <1>0, <1>1, <2>1 DEF BoolMask_apply_to, report_bool
  <2> QED BY <1>0, <2>1, <2>2, ResolveGrows
<1>2. CASE v # Unset /\ v[1] # "bool"
  <2>1. report' = report_type_check_failure(report, f)
    BY <1>0, <1>2 DEF BoolMask_apply_to
  <2> QED BY <1>0, <2>1, TypeCheckGrows
<1>3. CASE v = Unset /\ DefaultOf[f] # None
  <2>1. report' = report_default(report, f, DefaultOf[f]) /\ DefaultOf[f] \in JsonOut
    BY <1>0, <1>3, DefaultJson DEF BoolMask_apply_to, report_bool_default
  <2> QED BY <1>0, <2>1, DefaultGrows
<1>4. CASE v = Unset /\ DefaultOf[f] = None
  <2>1. report' = report
    BY <1>0, <1>4 DEF BoolMask_apply_to
  <2> QED BY <1>0, <2>1, GrowsByValue
<1> QED BY <1>1, <1>2, <1>3, <1>4

\* NumberMask::apply_to.
LEMMA NumberGrows ==
  ASSUME LogInv, NEW i \in Policies, NEW f \in Fields, NEW x \in Expected(f), NEW v \in Answers,
         ApplyNumberMask(i, f, x, v)
  PROVE  Grows(report, report')
<1> DEFINE m == Mask(i, f, x)
           agrees == x = None \/ number_is_equal(v[2], x[2])
<1>0. /\ TypeOK /\ GoodLogs(report)
      /\ Kind[f] = "number" /\ Scalar(f) /\ report \in ReportType
      /\ report' = NumberMask_apply_to(m, v, report)
      /\ m.name = f /\ m.policy_index = i /\ m.default = DefaultOf[f] /\ m.on_conflict = OnConflict[f]
      /\ m.value = x
  BY DEF ApplyNumberMask, Scalar, TypeOK, LogInv, Mask
<1> HIDE DEF m
<1>1. CASE v[1] = "number" /\ agrees
  <2>1. v \in ValuesOf(Kind[f]) /\ v # Unset
    BY <1>0, <1>1, AnswerShape, ValueShape DEF ValuesOf
  <2>2. report' = Resolve(Kind[f], report_policy_index(report, i), f, v, OnConflict[f])
    BY <1>0, <1>1, <2>1 DEF NumberMask_apply_to, report_number
  <2> QED BY <1>0, <2>1, <2>2, ResolveGrows
<1>2. CASE v[1] = "number" /\ ~agrees
  <2>1. v # Unset /\ v \in JsonOut /\ x # None /\ x \in JsonOut
    BY <1>0, <1>2, AnswerShape DEF Expected, ValuesOf, NumberValues, Unset, JsonOut
  <2>2. report' = report_conflict(report_policy_index(report, i), f, v, x)
    BY <1>0, <1>2, <2>1 DEF NumberMask_apply_to, Mismatch
  <2> QED BY <1>0, <2>1, <2>2, MismatchGrows
<1>3. CASE v # Unset /\ v[1] # "number"
  <2>1. report' = report_type_check_failure(report, f)
    BY <1>0, <1>3 DEF NumberMask_apply_to
  <2> QED BY <1>0, <2>1, TypeCheckGrows
<1>4. CASE v = Unset /\ DefaultOf[f] \notin {None, NonFinite}
  <2>1. report' = report_default(report, f, DefaultOf[f]) /\ DefaultOf[f] \in JsonOut
    BY <1>0, <1>4, DefaultJson DEF NumberMask_apply_to, report_number_default
  <2> QED BY <1>0, <2>1, DefaultGrows
<1>5. CASE v = Unset /\ DefaultOf[f] = NonFinite
  <2>1. report' = report_invariant_violation(report, f)
    BY <1>0, <1>5 DEF NumberMask_apply_to, None, NonFinite
  <2> QED BY <1>0, <1>5, <2>1, NonFiniteGrows
<1>6. CASE v = Unset /\ DefaultOf[f] = None
  <2>1. report' = report
    BY <1>0, <1>6 DEF NumberMask_apply_to
  <2> QED BY <1>0, <2>1, GrowsByValue
<1> QED BY <1>1, <1>2, <1>3, <1>4, <1>5, <1>6

\* StringMask::apply_to.
LEMMA StringGrows ==
  ASSUME LogInv, NEW i \in Policies, NEW f \in Fields, NEW x \in Expected(f), NEW v \in Answers,
         ApplyStringMask(i, f, x, v)
  PROVE  Grows(report, report')
<1> DEFINE m == Mask(i, f, x)
<1>0. /\ TypeOK /\ GoodLogs(report)
      /\ Kind[f] = "string" /\ Scalar(f) /\ report \in ReportType
      /\ report' = StringMask_apply_to(m, v, report)
      /\ m.name = f /\ m.policy_index = i /\ m.default = DefaultOf[f] /\ m.on_conflict = OnConflict[f]
      /\ m.value = x
  BY DEF ApplyStringMask, Scalar, TypeOK, LogInv, Mask
<1> HIDE DEF m
<1>1. CASE v[1] = "string" /\ x \in {None, v}
  <2>1. v \in ValuesOf(Kind[f]) /\ v # Unset
    BY <1>0, <1>1, AnswerShape, ValueShape DEF ValuesOf
  <2>2. report' = Resolve(Kind[f], report_policy_index(report, i), f, v, OnConflict[f])
    BY <1>0, <1>1, <2>1 DEF StringMask_apply_to, report_string
  <2> QED BY <1>0, <2>1, <2>2, ResolveGrows
<1>2. CASE v[1] = "string" /\ x \notin {None, v}
  <2>1. v # Unset /\ v \in JsonOut /\ x # None /\ x \in JsonOut
    BY <1>0, <1>2, AnswerShape DEF Expected, ValuesOf, StringValues, Unset, JsonOut
  <2>2. report' = report_conflict(report_policy_index(report, i), f, v, x)
    BY <1>0, <1>2, <2>1 DEF StringMask_apply_to, Mismatch
  <2> QED BY <1>0, <2>1, <2>2, MismatchGrows
<1>3. CASE v # Unset /\ v[1] # "string"
  <2>1. report' = report_type_check_failure(report, f)
    BY <1>0, <1>3 DEF StringMask_apply_to
  <2> QED BY <1>0, <2>1, TypeCheckGrows
<1>4. CASE v = Unset /\ DefaultOf[f] # None
  <2>1. report' = report_default(report, f, DefaultOf[f]) /\ DefaultOf[f] \in JsonOut
    BY <1>0, <1>4, DefaultJson DEF StringMask_apply_to, report_string_default
  <2> QED BY <1>0, <2>1, DefaultGrows
<1>5. CASE v = Unset /\ DefaultOf[f] = None
  <2>1. report' = report
    BY <1>0, <1>5 DEF StringMask_apply_to
  <2> QED BY <1>0, <2>1, GrowsByValue
<1> QED BY <1>1, <1>2, <1>3, <1>4, <1>5

\* StringEnumMask::apply_to.
LEMMA EnumGrows ==
  ASSUME LogInv, NEW i \in Policies, NEW f \in Fields, NEW x \in Expected(f), NEW v \in Answers,
         ApplyStringEnumMask(i, f, x, v)
  PROVE  Grows(report, report')
<1> DEFINE m == Mask(i, f, x)
           No == {Unset, <<"bool", FALSE>>}
<1>0. /\ TypeOK /\ GoodLogs(report)
      /\ Kind[f] = "enum" /\ Scalar(f) /\ report \in ReportType
      /\ report' = StringEnumMask_apply_to(m, v, report)
      /\ m.name = f /\ m.policy_index = i /\ m.default = DefaultOf[f] /\ m.on_conflict = OnConflict[f]
      /\ m.value = x
  BY DEF ApplyStringEnumMask, Scalar, TypeOK, LogInv, Mask
<1> HIDE DEF m
<1>1. CASE v \notin No /\ v[1] = "bool" /\ x # None
  <2>1. x \in ValuesOf(Kind[f])
    BY <1>0, <1>1 DEF Expected
  <2>2. report' = Resolve(Kind[f], report_policy_index(report, i), f, x, OnConflict[f])
    BY <1>0, <1>1, <2>1 DEF StringEnumMask_apply_to, report_string_enum
  <2> QED BY <1>0, <2>1, <2>2, ResolveGrows
<1>2. CASE v \notin No /\ v[1] = "bool" /\ x = None
  <2>1. v \in JsonOut /\ Null \in JsonOut
    BY <1>2, AnswerShape DEF JsonOut
  <2>2. report' = report_conflict(report_policy_index(report, i), f, v, Null)
    BY <1>0, <1>2 DEF StringEnumMask_apply_to
  <2> QED BY <1>0, <2>1, <2>2, MismatchGrows
<1>3. CASE v \notin No /\ v[1] # "bool"
  <2>1. report' = report_type_check_failure(report, f)
    BY <1>0, <1>3 DEF StringEnumMask_apply_to
  <2> QED BY <1>0, <2>1, TypeCheckGrows
<1>4. CASE v \in No /\ DefaultOf[f] # None
  <2>1. report' = report_default(report, f, DefaultOf[f]) /\ DefaultOf[f] \in JsonOut
    BY <1>0, <1>4, DefaultJson DEF StringEnumMask_apply_to, report_string_default
  <2> QED BY <1>0, <2>1, DefaultGrows
<1>5. CASE v \in No /\ DefaultOf[f] = None
  <2>1. report' = report
    BY <1>0, <1>5 DEF StringEnumMask_apply_to
  <2> QED BY <1>0, <2>1, GrowsByValue
<1> QED BY <1>1, <1>2, <1>3, <1>4, <1>5
-----------------------------------------------------------------------------
(* String arrays.                                                           *)

\* The strings that the loop of StringArrayMask::apply_to has still to report for f.
Queued(q, f) == IF q # <<>> /\ q[1][2] = f THEN [j \in DOMAIN q |-> q[j][3]] ELSE <<>>

\* The loop reports for one field at a time.
OneField(q) == \A j \in DOMAIN q : q[j][2] = q[1][2]

\* What f holds.
Kept(f) == IF report.value[f] = Unset THEN <<>> ELSE report.value[f][2]

\* What StringArrayMask::apply_to and its loop keep true of a field: it is absent or an array, and holds
\* the strings listed so far but for those the loop has still to report.  ArrayIsUnion is not inductive
\* by itself: it says nothing within a loop, and the loop overwrites a value that is no array.
ArrayInv(f) ==
  /\ report.value[f] # Unset => report.value[f][1] = "array" /\ report.value[f][2] \in Seq(Strings)
  /\ \E done \in Seq(Strings) :
       listed[f] = done \o Queued(pending, f) /\ WithoutRepeats(Kept(f), done)

LEMMA NoRepeatsEmpty ==
  WithoutRepeats(<<>>, <<>>)
  BY DEF WithoutRepeats, ToSet

LEMMA ConcatEmpty ==
  ASSUME NEW S, NEW s \in Seq(S)
  PROVE  s \o <<>> = s
  OBVIOUS

\* report_string_array appends a string that is not there yet, and only then.
LEMMA NoRepeatsNext ==
  ASSUME NEW q \in Seq(Strings), NEW d \in Seq(Strings), NEW s \in Strings, WithoutRepeats(q, d)
  PROVE  LET w == IF Contains(q, s) THEN q ELSE Append(q, s)
         IN w \in Seq(Strings) /\ WithoutRepeats(w, Append(d, s))
<1> DEFINE e == Append(d, s)
<1>0. /\ DOMAIN q = 1..Len(q) /\ Len(q) \in Nat /\ DOMAIN d = 1..Len(d) /\ Len(d) \in Nat
      /\ DOMAIN e = 1..(Len(d) + 1) /\ \A j \in 1..Len(d) : e[j] = d[j]
  OBVIOUS
<1>1. ToSet(e) = ToSet(d) \cup {s}
  BY AppendSet
<1>2. /\ ToSet(q) = ToSet(d) /\ \A j, k \in DOMAIN q : q[j] = q[k] => j = k
      /\ \A j, k \in DOMAIN q : j < k => \E m \in DOMAIN d : d[m] = q[j] /\ \A l \in 1..m : d[l] # q[k]
  BY DEF WithoutRepeats
<1> HIDE DEF e
<1>3. ASSUME NEW j \in DOMAIN q, NEW k \in DOMAIN q, j < k
      PROVE  \E m \in DOMAIN e : e[m] = q[j] /\ \A l \in 1..m : e[l] # q[k]
  <2>1. PICK m \in DOMAIN d : d[m] = q[j] /\ \A l \in 1..m : d[l] # q[k]
    BY <1>2, <1>3
  <2>2. m \in DOMAIN e /\ \A l \in 1..m : l \in 1..Len(d)
    BY <1>0
  <2>3. e[m] = q[j] /\ \A l \in 1..m : e[l] # q[k]
    BY <1>0, <2>1, <2>2
  <2> QED BY <2>2, <2>3
<1>4. CASE Contains(q, s)
  <2>1. s \in ToSet(q)
    BY <1>0, <1>4 DEF Contains, ToSet
  <2>2. ToSet(q) = ToSet(e)
    BY <1>1, <1>2, <2>1
  <2>3. WithoutRepeats(q, e)
    BY <1>2, <1>3, <2>2 DEF WithoutRepeats
  <2> QED BY <1>4, <2>3 DEF e
<1>5. CASE ~Contains(q, s)
  <2> DEFINE w == Append(q, s)
             n == Len(q) + 1
  <2>1. /\ w \in Seq(Strings) /\ DOMAIN w = 1..n /\ n \in Nat /\ w[n] = s
        /\ \A j \in 1..Len(q) : w[j] = q[j]
    BY <1>0
  <2>2. ToSet(w) = ToSet(e)
    <3>1. ToSet(w) = ToSet(q) \cup {s}
      BY AppendSet
    <3> QED BY <1>1, <1>2, <3>1
  <2>3. (\A j \in 1..Len(q) : q[j] # s) /\ s \notin ToSet(q)
    BY <1>0, <1>5 DEF Contains, ToSet
  <2> HIDE DEF w
  <2>4. \A j, k \in DOMAIN w : w[j] = w[k] => j = k
    BY <1>0, <1>2, <2>1, <2>3
  <2>5. ASSUME NEW j \in DOMAIN w, NEW k \in DOMAIN w, j < k
        PROVE  \E m \in DOMAIN e : e[m] = w[j] /\ \A l \in 1..m : e[l] # w[k]
    <3>1. j \in DOMAIN q /\ w[j] = q[j]
      BY <1>0, <2>1, <2>5
    <3>2. CASE k \in DOMAIN q
      <4>1. w[k] = q[k]
        BY <1>0, <2>1, <3>2
      <4> QED BY <1>3, <2>5, <3>1, <3>2, <4>1
    <3>3. CASE k \notin DOMAIN q
      <4>1. w[k] = s
        BY <1>0, <2>1, <3>3
      <4>2. PICK m \in DOMAIN d : d[m] = q[j]
        <5>1. q[j] \in ToSet(d)
          BY <1>2, <3>1 DEF ToSet
        <5> QED BY <5>1 DEF ToSet
      <4>3. m \in DOMAIN e /\ e[m] = q[j] /\ \A l \in 1..m : l \in DOMAIN d /\ e[l] = d[l]
        BY <1>0, <4>2
      <4>4. \A l \in DOMAIN d : d[l] # s
        BY <1>2, <2>3 DEF ToSet
      <4> QED BY <3>1, <4>1, <4>3, <4>4
    <3> QED BY <3>2, <3>3
  <2>6. WithoutRepeats(w, e)
    BY <2>2, <2>4, <2>5 DEF WithoutRepeats
  <2> QED BY <1>5, <2>1, <2>6 DEF w, e
<1> QED BY <1>4, <1>5

LEMMA QueuedType ==
  ASSUME NEW q \in PendingType, NEW f
  PROVE  Queued(q, f) \in Seq(Strings)
<1>1. /\ DOMAIN q = 1..Len(q) /\ Len(q) \in Nat
      /\ \A j \in DOMAIN q : q[j] \in Policies \X {g \in Fields : ~Scalar(g)} \X Strings
  BY DEF PendingType
<1>2. \A j \in 1..Len(q) : q[j][3] \in Strings
  BY <1>1
<1>3. [j \in 1..Len(q) |-> q[j][3]] \in Seq(Strings)
  BY <1>1, <1>2
<1> QED BY <1>1, <1>3 DEF Queued

\* An iteration of the loop takes the first of the strings that are left.
LEMMA QueuedNext ==
  ASSUME NEW q \in PendingType, q # <<>>, OneField(q)
  PROVE  /\ OneField(Tail(q)) /\ Tail(q) \in PendingType
         /\ Queued(q, q[1][2]) = Cons(q[1][3], Queued(Tail(q), q[1][2]))
         /\ \A g : g # q[1][2] => Queued(q, g) = <<>> /\ Queued(Tail(q), g) = <<>>
<1> DEFINE t == Tail(q)
           n == Len(t)
           f == q[1][2]
<1>1. /\ Len(q) \in Nat \ {0} /\ DOMAIN q = 1..Len(q)
      /\ \A j \in DOMAIN q : q[j] \in Policies \X {g \in Fields : ~Scalar(g)} \X Strings
  BY EmptySeq DEF PendingType
<1>2. t \in PendingType /\ n = Len(q) - 1 /\ DOMAIN t = 1..n /\ \A j \in 1..n : t[j] = q[j + 1]
  BY <1>1 DEF PendingType
<1> HIDE DEF t
<1>3. n \in Nat /\ Len(q) = n + 1 /\ 1 \in 1..(n + 1) /\ \A j \in 1..n : j + 1 \in 1..(n + 1)
  BY <1>1, <1>2
<1>4. \A j \in 1..n : t[j][2] = f
  BY <1>1, <1>2, <1>3 DEF OneField
<1>5. OneField(t)
  <2>1. \A j \in 1..n : 1 \in 1..n
    BY <1>3
  <2> QED BY <1>2, <1>4, <2>1 DEF OneField
<1>6. t # <<>> => t[1][2] = f
  <2>1. t # <<>> => 1 \in 1..n
    BY <1>2, <1>3, EmptySeq DEF PendingType
  <2> QED BY <1>4, <2>1
<1> DEFINE a == [j \in DOMAIN q |-> q[j][3]]
           b == [j \in DOMAIN t |-> t[j][3]]
<1>7. Queued(t, f) = b
  <2>1. CASE t = <<>>
    BY <2>1 DEF Queued
  <2>2. CASE t # <<>>
    BY <1>6, <2>2 DEF Queued
  <2> QED BY <2>1, <2>2
<1>8. Queued(q, f) = a
  BY DEF Queued
<1>9. a = Cons(q[1][3], b)
  <2>1. \A j \in 1..(n + 1) : q[j][3] \in Strings
    BY <1>1, <1>3
  <2>2. a \in [1..(n + 1) -> Strings]
    BY <1>1, <1>3, <2>1
  <2>3. b \in [1..n -> Strings]
    BY <1>2, <1>3, <2>1
  <2>4. a[1] = q[1][3] /\ \A j \in 1..n : a[j + 1] = b[j]
    BY <1>1, <1>2, <1>3
  <2> HIDE DEF a, b
  <2>5. Shifts(a, b, q[1][3], n, Strings)
    BY <1>3, <2>2, <2>3, <2>4 DEF Shifts
  <2> QED BY <2>5, FunctionCons
<1>10. \A g : g # f => Queued(q, g) = <<>> /\ Queued(t, g) = <<>>
  BY <1>6 DEF Queued
<1> QED BY <1>2, <1>5, <1>7, <1>8, <1>9, <1>10 DEF t

\* ArrayInv after a step that listed the strings l for g and queued them.
LEMMA ArrayInvListed ==
  ASSUME NEW g \in Fields, ArrayInv(g), pending = <<>>, NEW l \in Seq(Strings),
         listed'[g] = listed[g] \o l, Queued(pending', g) = l, Kept(g)' = Kept(g),
         report'.value[g] # Unset =>
           report'.value[g][1] = "array" /\ report'.value[g][2] \in Seq(Strings)
  PROVE  ArrayInv(g)'
<1>1. PICK done \in Seq(Strings) :
         listed[g] = done \o Queued(pending, g) /\ WithoutRepeats(Kept(g), done)
  BY DEF ArrayInv
<1>2. listed[g] = done
  BY <1>1, ConcatEmpty DEF Queued
<1>3. listed'[g] = done \o Queued(pending', g) /\ WithoutRepeats(Kept(g)', done)
  BY <1>1, <1>2
<1>4. \E d \in Seq(Strings) : listed'[g] = d \o Queued(pending', g) /\ WithoutRepeats(Kept(g)', d)
  BY <1>3
<1> QED BY <1>4 DEF ArrayInv, Queued, WithoutRepeats

\* StringArrayMask::apply_to before its loop: the logs grow, and the array is at most created empty.
LEMMA ArrayMaskKeeps ==
  ASSUME LogInv, NEW i \in Policies, NEW f \in Fields, NEW v \in Answers,
         ApplyStringArrayMask(i, f, v)
  PROVE  /\ Grows(report, report') /\ OneField(pending')
         /\ \A g \in Fields : ~Scalar(g) /\ ArrayInv(g) => ArrayInv(g)'
<1> DEFINE m == Mask(i, f, None)
           found == extract_strings(v)
           loop == v # Unset /\ found # None /\ found[2] # <<>>
<1>0. /\ ~Scalar(f) /\ report \in ReportType /\ m.name = f /\ m.policy_index = i
      /\ listed \in [Fields -> Seq(Strings)] /\ pending = <<>>
      /\ listed' = [listed EXCEPT ![f] = @ \o Lists(v)]
      /\ pending' = IF loop THEN [j \in DOMAIN found[2] |-> <<i, f, found[2][j]>>] ELSE <<>>
      /\ report' = IF loop THEN report ELSE StringArrayMask_apply_to(m, v, report)
  BY DEF ApplyStringArrayMask, NextMask, Scalar, TypeOK, LogInv, Mask
<1> HIDE DEF m
<1>1. OneField(pending') /\ \A g \in Fields : Queued(pending', g) = IF g = f THEN Lists(v) ELSE <<>>
  <2>1. CASE loop
    <3> DEFINE q == found[2]
    <3>1. q \in Seq(Strings) /\ q # <<>> /\ Lists(v) = q
      BY <2>1, ExtractType, ExtractLists
    <3>2. pending' = [j \in DOMAIN q |-> <<i, f, q[j]>>]
      BY <1>0, <2>1
    <3> HIDE DEF q, loop, found
    <3>3. Len(q) \in Nat \ {0} /\ DOMAIN q = 1..Len(q)
      BY <3>1, EmptySeq
    <3>4. 1 \in DOMAIN q
      BY <3>3
    <3>5. /\ DOMAIN pending' = DOMAIN q
          /\ \A j \in DOMAIN q : pending'[j][2] = f /\ pending'[j][3] = q[j]
      BY <3>2
    <3>6. pending' # <<>> /\ pending'[1][2] = f
      BY <3>4, <3>5
    <3>7. [j \in DOMAIN pending' |-> pending'[j][3]] = q
      BY <3>1, <3>3, <3>5
    <3> QED BY <3>1, <3>5, <3>6, <3>7 DEF OneField, Queued
  <2>2. CASE ~loop
    <3>1. pending' = <<>> /\ Lists(v) = <<>>
      BY <1>0, <2>2, ExtractLists
    <3> QED BY <3>1 DEF OneField, Queued
  <2> QED BY <2>1, <2>2
<1>2. ASSUME NEW g \in Fields, ArrayInv(g), Kept(g)' = Kept(g),
             report'.value[g] # Unset =>
               report'.value[g][1] = "array" /\ report'.value[g][2] \in Seq(Strings)
      PROVE  ArrayInv(g)'
  <2> DEFINE l == IF g = f THEN Lists(v) ELSE <<>>
  <2>1. l \in Seq(Strings) /\ Queued(pending', g) = l
    BY <1>1, ExtractLists
  <2>2. listed'[g] = listed[g] \o l
    <3>1. listed[g] \o <<>> = listed[g]
      BY <1>0, ConcatEmpty
    <3> QED BY <1>0, <3>1
  <2> HIDE DEF l
  <2> QED BY <1>0, <1>2, <2>1, <2>2, ArrayInvListed
<1>3. CASE loop \/ v = Unset
  <2>1. report' = report
    BY <1>0, <1>3 DEF StringArrayMask_apply_to
  <2>2. \A g \in Fields : ArrayInv(g) => ArrayInv(g)'
    BY <1>2, <2>1 DEF Kept, ArrayInv
  <2> QED BY <1>0, <1>1, <2>1, <2>2, GrowsByValue
<1>4. CASE ~loop /\ v # Unset /\ found = None
  <2>1. report' = report_type_check_failure(report, f)
    BY <1>0, <1>4 DEF StringArrayMask_apply_to
  <2> HIDE DEF found
  <2>2. report'.value = report.value /\ Grows(report, report')
    BY <1>0, <2>1, TypeCheckLogs, TypeCheckGrows
  <2>3. \A g \in Fields : ArrayInv(g) => ArrayInv(g)'
    BY <1>2, <2>2 DEF Kept, ArrayInv
  <2> QED BY <1>1, <2>2, <2>3
<1>5. CASE ~loop /\ v # Unset /\ found # None
  <2> DEFINE q == report_policy_index(report, i)
             w == IF q.value[f] = Unset THEN <<"array", <<>>>> ELSE q.value[f]
  <2>1. report' = [q EXCEPT !.value[f] = w]
    BY <1>0, <1>5 DEF StringArrayMask_apply_to, init_empty_string_array
  <2>2. q \in ReportType /\ q.value = report.value /\ Grows(report, q)
    BY <1>0, PolicyIndexLogs, PolicyIndexGrows
  <2>3. w \in JsonOut /\ w = IF report.value[f] = Unset THEN <<"array", <<>>>> ELSE report.value[f]
    <3>1. <<>> \in Seq(Strings) /\ q.value[f] \in JsonOut
      BY <2>2 DEF ReportType
    <3> QED BY <2>2, <3>1, ArrayJson
  <2> HIDE DEF q, w, found
  <2>4. /\ report' \in ReportType /\ report'.value = [report.value EXCEPT ![f] = w]
        /\ report'.default = q.default /\ report'.conflicts = q.conflicts /\ report'.errors = q.errors
        /\ report'.rules_matched = q.rules_matched
    <3>1. report'.rules_matched = q.rules_matched
      BY <2>1, <2>2 DEF ReportType
    <3> QED BY <2>1, <2>2, <2>3, <3>1, StoreType
  <2>5. Grows(report, report')
    BY <2>2, <2>4, GrowsByValue, GrowsTransitive
  <2>6. ASSUME NEW g \in Fields, ArrayInv(g) PROVE ArrayInv(g)'
    <3>1. report'.value[g] = IF g = f THEN w ELSE report.value[g]
      BY <1>0, <2>4 DEF ReportType
    <3>2. CASE g = f /\ report.value[f] = Unset
      <4>1. report'.value[g] = <<"array", <<>>>>
        BY <2>3, <3>1, <3>2
      <4>2. <<"array", <<>>>>[1] = "array" /\ <<"array", <<>>>>[2] = <<>> /\ <<"array", <<>>>> # Unset
        BY DEF Unset
      <4>3. Kept(g)' = <<>> /\ Kept(g) = <<>> /\ <<>> \in Seq(Strings)
        BY <3>2, <4>1, <4>2 DEF Kept
      <4> QED BY <1>2, <2>6, <4>1, <4>2, <4>3
    <3>3. CASE g # f \/ report.value[f] # Unset
      <4>1. report'.value[g] = report.value[g]
        BY <2>3, <3>1, <3>3
      <4> QED BY <1>2, <2>6, <4>1 DEF Kept, ArrayInv
    <3> QED BY <3>2, <3>3
  <2> QED BY <1>1, <2>5, <2>6
<1> QED BY <1>3, <1>4, <1>5

\* One iteration of the loop: the policy is logged and its string collected.
LEMMA NextStringKeeps ==
  ASSUME LogInv, ReportNextString, OneField(pending)
  PROVE  /\ Grows(report, report') /\ OneField(pending')
         /\ (\A g \in Fields : ~Scalar(g) => ArrayInv(g)) => \A g \in Fields : ~Scalar(g) => ArrayInv(g)'
<1> DEFINE p == Head(pending)
<1>1. p \in Policies \X {f \in Fields : ~Scalar(f)} \X Strings
  BY DEF LogInv, TypeOK, ReportNextString
<1> DEFINE i == p[1]
           f == p[2]
           s == p[3]
           q == report_policy_index(report, i)
           w == IF q.value[f][1] # "array" THEN <<"array", <<s>>>>
                ELSE IF Contains(q.value[f][2], s) THEN q.value[f]
                ELSE <<"array", Append(q.value[f][2], s)>>
<1>2. i \in Policies /\ f \in Fields /\ ~Scalar(f) /\ s \in Strings
  BY <1>1
<1>3. q \in ReportType /\ q.value = report.value /\ Grows(report, q)
  BY <1>2, PolicyIndexLogs, PolicyIndexGrows DEF LogInv, TypeOK
<1>4. report' = [q EXCEPT !.value[f] = w]
  BY <1>3 DEF ReportNextString, report_string_array
<1>5. w \in JsonOut
  <2>1. q.value[f] \in JsonOut
    BY <1>2, <1>3 DEF ReportType
  <2>2. <<s>> \in Seq(Strings)
    BY <1>2
  <2>3. q.value[f][1] = "array" => Append(q.value[f][2], s) \in Seq(Strings)
    BY <1>2, <2>1, ArrayJson
  <2> QED BY <2>1, <2>2, <2>3, ArrayJson
<1>6. report.value \in [Fields -> JsonOut]
  BY DEF LogInv, TypeOK, ReportType
<1>7. /\ report' \in ReportType /\ report'.value = [report.value EXCEPT ![f] = w]
      /\ Grows(report, report')
  <2> HIDE DEF q, w
  <2>1. /\ report' \in ReportType /\ report'.value = [report.value EXCEPT ![f] = w]
        /\ report'.default = q.default /\ report'.conflicts = q.conflicts /\ report'.errors = q.errors
    BY <1>2, <1>3, <1>4, <1>5, StoreType
  <2>2. report'.rules_matched = q.rules_matched
    BY <1>3, <1>4 DEF ReportType
  <2> QED BY <1>3, <2>1, <2>2, GrowsByValue, GrowsTransitive
<1>8. pending \in PendingType /\ pending # <<>> /\ pending' = Tail(pending) /\ listed' = listed
  BY DEF LogInv, TypeOK, ReportNextString, PendingType
<1>9. /\ OneField(pending') /\ pending' \in PendingType
      /\ Queued(pending, f) = Cons(s, Queued(pending', f))
      /\ \A g : g # f => Queued(pending, g) = <<>> /\ Queued(pending', g) = <<>>
  <2>1. pending[1] = p
    BY <1>8 DEF PendingType
  <2> QED BY <1>8, <2>1, QueuedNext
<1>10. w = IF report.value[f][1] # "array" THEN <<"array", <<s>>>>
           ELSE IF Contains(report.value[f][2], s) THEN report.value[f]
           ELSE <<"array", Append(report.value[f][2], s)>>
  BY <1>3
<1> HIDE DEF q, w, p, i, f, s
<1>11. ASSUME NEW g \in Fields, ~Scalar(g), ArrayInv(g) PROVE ArrayInv(g)'
  <2>1. CASE g # f
    <3>1. report'.value[g] = report.value[g] /\ Kept(g)' = Kept(g)
      BY <1>2, <1>6, <1>7, <2>1 DEF Kept
    <3>2. Queued(pending', g) = Queued(pending, g)
      BY <1>9, <2>1
    <3>3. \E d \in Seq(Strings) : listed'[g] = d \o Queued(pending', g) /\ WithoutRepeats(Kept(g)', d)
      BY <1>8, <1>11, <3>1, <3>2 DEF ArrayInv
    <3> QED BY <1>11, <3>1, <3>3 DEF ArrayInv, Queued, WithoutRepeats
  <2>2. CASE g = f
    <3> DEFINE o == Kept(f)
               n == IF Contains(o, s) THEN o ELSE Append(o, s)
    <3>1. PICK done \in Seq(Strings) :
             listed[f] = done \o Queued(pending, f) /\ WithoutRepeats(Kept(f), done)
      BY <1>11, <2>2 DEF ArrayInv
    <3>2. report'.value[f] = w
      BY <1>2, <1>6, <1>7
    <3>3. o \in Seq(Strings) /\ (report.value[f] # Unset => report.value[f] = <<"array", o>>)
      <4>1. CASE report.value[f] = Unset
        BY <4>1 DEF Kept
      <4>2. CASE report.value[f] # Unset
        <5>1. /\ report.value[f][1] = "array" /\ report.value[f][2] \in Seq(Strings) /\ o = report.value[f][2]
              /\ report.value[f] \in JsonOut
          BY <1>2, <1>6, <1>11, <2>2, <4>2 DEF ArrayInv, Kept
        <5> HIDE DEF o
        <5> QED BY <5>1, ArrayJson
      <4> QED BY <4>1, <4>2
    <3>4. n \in Seq(Strings) /\ WithoutRepeats(n, Append(done, s))
      <4> HIDE DEF o
      <4>1. WithoutRepeats(o, done)
        BY <3>1 DEF o
      <4> QED BY <1>2, <3>3, <4>1, NoRepeatsNext
    <3>5. w = <<"array", n>>
      <4>1. CASE report.value[f] = Unset
        <5>1. Unset[1] # "array"
          BY DEF Unset
        <5>2. o = <<>> /\ ~Contains(o, s) /\ Append(<<>>, s) = <<s>>
          BY <4>1 DEF Kept, Contains
        <5>3. w = <<"array", <<s>>>>
          BY <1>10, <4>1, <5>1
        <5> QED BY <5>2, <5>3
      <4>2. CASE report.value[f] # Unset
        <5>1. report.value[f][1] = "array" /\ report.value[f][2] = o
          BY <3>3, <4>2
        <5> HIDE DEF o
        <5> QED BY <1>10, <3>3, <4>2, <5>1
      <4> QED BY <4>1, <4>2
    <3> HIDE DEF n, o
    <3>6. w # Unset /\ w[1] = "array" /\ w[2] = n
      BY <3>5 DEF Unset
    <3>7. Kept(g)' = n
      BY <2>2, <3>2, <3>6 DEF Kept
    <3>8. listed'[f] = Append(done, s) \o Queued(pending', f)
      <4>1. Queued(pending', f) \in Seq(Strings)
        BY <1>9, QueuedType
      <4> DEFINE b == Queued(pending', f)
      <4>2. listed'[f] = done \o Cons(s, b)
        BY <1>8, <1>9, <3>1
      <4> HIDE DEF b
      <4>3. b \in Seq(Strings)
        BY <4>1 DEF b
      <4>4. done \o Cons(s, b) = Append(done, s) \o b
        BY <1>2, <4>3, ConsMoves
      <4> QED BY <4>2, <4>4 DEF b
    <3>9. Append(done, s) \in Seq(Strings)
      BY <1>2, <3>1
    <3>10. /\ listed'[g] = Append(done, s) \o Queued(pending', g)
           /\ WithoutRepeats(Kept(g)', Append(done, s))
      BY <2>2, <3>4, <3>7, <3>8
    <3>11. \E d \in Seq(Strings) : listed'[g] = d \o Queued(pending', g) /\ WithoutRepeats(Kept(g)', d)
      BY <3>9, <3>10
    <3>12. report'.value[g][1] = "array" /\ report'.value[g][2] \in Seq(Strings)
      BY <2>2, <3>2, <3>4, <3>6
    <3> QED BY <3>11, <3>12 DEF ArrayInv, Queued, WithoutRepeats
  <2> QED BY <2>1, <2>2
<1> QED BY <1>7, <1>9, <1>11

\* A mask of a scalar field leaves every array field and its history alone.
LEMMA ScalarLeavesArrays ==
  ASSUME TypeOK, ScalarEffect, UNCHANGED <<pending, listed>>, NEW g \in Fields, ~Scalar(g), ArrayInv(g)
  PROVE  ArrayInv(g)'
<1>1. report'.value[g] = report.value[g]
  <2>1. CASE Quiet
    BY <2>1 DEF Quiet
  <2>2. ASSUME NEW f \in Fields, Contra(f) PROVE report'.value[g] = report.value[g]
    BY <2>2 DEF Contra
  <2>3. ASSUME NEW f \in Fields, NEW v \in Values, Stores(f, v) \/ Keeps(f, v) \/ Clashes(f, v)
        PROVE  report'.value[g] = report.value[g]
    <3>1. Handed(f, v)
      BY <2>3 DEF Stores, Keeps, Clashes
    <3>2. f # g
      BY <3>1 DEF Handed
    <3> QED BY <2>3, <3>2 DEF Stores, Keeps, Clashes, TypeOK, ReportType
  <2> QED BY <2>1, <2>2, <2>3 DEF ScalarEffect
<1> QED BY <1>1 DEF ArrayInv, Queued, Kept
-----------------------------------------------------------------------------
(* The inductive invariant and its theorems.                               *)

ArraysInv == OneField(pending) /\ \A f \in Fields : ~Scalar(f) => ArrayInv(f)

ReportLogInv == LogInv /\ ArraysInv

\* Every step of Report lets the report grow and preserves the invariant.
LEMMA StepGrows ==
  ASSUME ReportLogInv, Next
  PROVE  Grows(report, report') /\ ReportLogInv'
<1>1. LogInv /\ TypeOK /\ GoodLogs(report) /\ TypeOK'
  BY StepEffect DEF ReportLogInv, LogInv
<1>2. ASSUME NEW i \in Policies, NEW f \in Fields, NEW v \in Answers,
             \/ ApplyBoolMask(i, f, v)
             \/ \E x \in Expected(f) : \/ ApplyNumberMask(i, f, x, v)
                                      \/ ApplyStringMask(i, f, x, v)
                                      \/ ApplyStringEnumMask(i, f, x, v)
      PROVE  Grows(report, report') /\ ArraysInv'
  <2>1. Grows(report, report')
    BY <1>1, <1>2, BoolGrows, NumberGrows, StringGrows, EnumGrows
  <2>2. ScalarEffect
    BY <1>1, <1>2, BoolEffect, NumberEffect, StringEffect, EnumEffect
  <2>3. UNCHANGED <<pending, listed>>
    BY <1>2 DEF ApplyBoolMask, ApplyNumberMask, ApplyStringMask, ApplyStringEnumMask
  <2>4. \A g \in Fields : ~Scalar(g) => ArrayInv(g)'
    BY <1>1, <2>2, <2>3, ScalarLeavesArrays DEF ReportLogInv, ArraysInv
  <2>5. OneField(pending')
    BY <2>3 DEF ReportLogInv, ArraysInv
  <2> QED BY <2>1, <2>4, <2>5 DEF ArraysInv, Scalar, OneField
<1>3. ASSUME NEW i \in Policies, NEW f \in Fields, NEW v \in Answers, ApplyStringArrayMask(i, f, v)
      PROVE  Grows(report, report') /\ ArraysInv'
  <2>1. /\ Grows(report, report') /\ OneField(pending')
        /\ \A g \in Fields : ~Scalar(g) => ArrayInv(g)'
    BY <1>1, <1>3, ArrayMaskKeeps DEF ReportLogInv, ArraysInv
  <2> QED BY <2>1 DEF ArraysInv, Scalar, OneField
<1>4. ASSUME ReportNextString
      PROVE  Grows(report, report') /\ ArraysInv'
  <2>1. /\ Grows(report, report') /\ OneField(pending')
        /\ \A g \in Fields : ~Scalar(g) => ArrayInv(g)'
    BY <1>1, <1>4, NextStringKeeps DEF ReportLogInv, ArraysInv
  <2> QED BY <2>1 DEF ArraysInv, Scalar, OneField
<1>5. Grows(report, report') /\ ArraysInv'
  BY <1>2, <1>3, <1>4 DEF Next, ApplyMask
<1>6. GoodLogs(report')
  BY <1>1, <1>5 DEF Grows
<1>7. LogInv'
  BY <1>1, <1>6 DEF LogInv, GoodLogs
<1> QED BY <1>5, <1>7 DEF ReportLogInv

\* The logs, the defaults and the arrays are as ReportLogInv says, throughout.
THEOREM ReportLogInvariant == Spec => []ReportLogInv
<1>1. Init => ReportLogInv
  <2> SUFFICES ASSUME Init PROVE ReportLogInv
    OBVIOUS
  <2>1. TypeOK
    BY InitType
  <2>2. report.errors = <<>> /\ report.default = default_value
    BY DEF Init, NewReport
  <2>3. GoodLogs(report)
    BY <2>2 DEF GoodLogs, default_value
  <2>4. pending = <<>> /\ \A f \in Fields : report.value[f] = Unset /\ listed[f] = <<>>
    BY DEF Init, NewReport
  <2>5. ASSUME NEW f \in Fields PROVE ArrayInv(f)
    <3>1. Queued(pending, f) = <<>> /\ Kept(f) = <<>>
      BY <2>4 DEF Queued, Kept
    <3>2. <<>> \in Seq(Strings) /\ <<>> \o <<>> = <<>>
      OBVIOUS
    <3> QED BY <2>4, <3>1, <3>2, NoRepeatsEmpty DEF ArrayInv
  <2>6. OneField(pending)
    BY <2>4 DEF OneField
  <2> QED BY <2>1, <2>3, <2>5, <2>6 DEF ReportLogInv, LogInv, ArraysInv
<1>2. ReportLogInv /\ [Next]_vars => ReportLogInv'
  <2>1. ASSUME ReportLogInv, UNCHANGED vars PROVE ReportLogInv'
    <3>1. LogInv'
      BY <2>1 DEF ReportLogInv, LogInv, GoodLogs, vars, TypeOK
    <3>2. ArraysInv'
      BY <2>1 DEF ReportLogInv, ArraysInv, ArrayInv, OneField, Queued, Kept, Scalar, vars
    <3> QED BY <3>1, <3>2 DEF ReportLogInv
  <2> QED BY <2>1, StepGrows
<1> QED BY <1>1, <1>2, PTL DEF Spec

\* For policies of one type, neither the internal check of the report_* functions nor a
\* DefaultConflict can ever fire; only a default that JSON cannot hold is an internal error.
THEOREM ReportNoInternalErrors == Spec => []NoInternalErrors
<1>1. ReportLogInv => NoInternalErrors
  BY DEF ReportLogInv, LogInv, GoodLogs, Allowed, NoInternalErrors
<1> QED BY <1>1, ReportLogInvariant, PTL

\* Once the loops of StringArrayMask::apply_to have run, an array field holds the strings that the
\* answers listed, each once and in the order of their first listing; answers with a leaf that is no
\* string add nothing.
THEOREM ReportArrayIsUnion == Spec => []ArrayIsUnion
<1>1. ReportLogInv => ArrayIsUnion
  <2> SUFFICES ASSUME ReportLogInv, pending = <<>>, NEW f \in Fields, ~Scalar(f)
               PROVE  WithoutRepeats(Kept(f), listed[f])
    BY DEF ArrayIsUnion, Kept
  <2>1. PICK done \in Seq(Strings) :
           listed[f] = done \o Queued(pending, f) /\ WithoutRepeats(Kept(f), done)
    BY DEF ReportLogInv, ArraysInv, ArrayInv
  <2>2. listed[f] = done
    BY <2>1, ConcatEmpty DEF Queued
  <2> QED BY <2>1, <2>2
<1> QED BY <1>1, ReportLogInvariant, PTL

\* The logs of a Report only grow, and a scalar that is set changes only to a value that beats it.
THEOREM ReportNothingTakenBack == Spec => NothingTakenBack
<1> DEFINE Step == /\ IsPrefix(report.rules_matched, report'.rules_matched)
                   /\ IsPrefix(report.conflicts, report'.conflicts)
                   /\ IsPrefix(report.errors, report'.errors)
                   /\ \A f \in Fields :
                        Scalar(f) /\ report.value[f] # Unset /\ report'.value[f] # report.value[f]
                          => /\ OnConflict[f] = "LargestValue"
                             /\ Beats(Kind[f], report'.value[f], report.value[f])
<1>1. ReportLogInv /\ [Next]_vars => [Step]_vars
  <2> SUFFICES ASSUME ReportLogInv, Next PROVE Step
    OBVIOUS
  <2>1. TypeOK /\ Effect /\ Grows(report, report')
    BY StepGrows, StepEffect DEF ReportLogInv, LogInv
  <2>2. ASSUME NEW f \in Fields, Scalar(f), report.value[f] # Unset, report'.value[f] # report.value[f]
        PROVE  OnConflict[f] = "LargestValue" /\ Beats(Kind[f], report'.value[f], report.value[f])
    <3>1. ~Quiet /\ ~ArrayStep /\ \A g \in Fields : ~Contra(g)
      BY <2>2 DEF Quiet, ArrayStep, Contra
    <3>2. PICK g \in Fields, v \in Values : Stores(g, v)
      BY <2>1, <2>2, <3>1 DEF Effect, ScalarEffect, Keeps, Clashes
    <3>3. g = f /\ report'.value[f] = v
      BY <2>1, <2>2, <3>2 DEF Stores, TypeOK, ReportType
    <3> QED BY <2>2, <3>2, <3>3 DEF Stores
  <2> QED BY <2>1, <2>2 DEF Grows
<1>2. NothingTakenBack <=> [][Step]_vars
  BY DEF NothingTakenBack
<1> HIDE DEF Step
<1> QED BY <1>1, <1>2, ReportLogInvariant, PTL DEF Spec
=============================================================================
