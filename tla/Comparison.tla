----------------------------- MODULE Comparison -----------------------------
(***************************************************************************)
(* The two notions of "matches the expected output" in the command line    *)
(* tools: values_match of policyai-evaluate-policies, which produces the   *)
(* field metrics, and values_match of policyai-extract-regressions, which  *)
(* decides what a regression is.                                           *)
(*                                                                         *)
(* A document is [object |-> is it a JSON object?, map |-> its entries].   *)
(* The values in it are tagged: <<"number", x>> with x the f64 in some     *)
(* integer unit, <<"string", s>>, <<"bool", b>>, <<"null">> and arrays     *)
(* <<"array", q>> of the others; nothing is nested deeper, as no field of  *)
(* a policy type is.                                                       *)
(***************************************************************************)
EXTENDS Integers, Sequences, FiniteSets, SequencesExt, FiniteSetsExt

CONSTANTS
  Normal    \* normalize_whitespace of each string that occurs

ASSUME NormalIsIdempotent == \A s \in DOMAIN Normal : Normal[s] \in DOMAIN Normal /\ Normal[Normal[s]] = Normal[s]

NotAnObject == [object |-> FALSE, map |-> <<>>]
Object(entries) == [object |-> TRUE, map |-> entries]

\* The values of an entry, and what a document is.
Scalars ==
  {<<"null">>} \cup ({"number"} \X Int) \cup ({"string"} \X DOMAIN Normal) \cup ({"bool"} \X BOOLEAN)
FieldValues == Scalars \cup ({"array"} \X Seq(Scalars))
Entries(map) == IsFiniteSet(DOMAIN map) /\ map \in [DOMAIN map -> FieldValues]
Document(d) == d.object \in BOOLEAN /\ Entries(d.map)

Magnitude(x) == IF x < 0 THEN -x ELSE x

\* Mutant: a tolerance of 1%.
evaluate_values_match_coarse(expected, actual) ==
  \/ expected = actual
  \/ /\ expected[1] = "number" /\ actual[1] = "number"
     /\ Magnitude(expected[2] - actual[2]) * 100 <= Magnitude(expected[2])

\* values_match of policyai-evaluate-policies: equal, or numbers that differ by no more than 0.001%
\* of the expected one; nothing but zero matches zero.
evaluate_values_match(expected, actual) ==
  \/ expected = actual
  \/ /\ expected[1] = "number" /\ actual[1] = "number"
     /\ expected[2] # 0 /\ actual[2] # 0
     /\ Magnitude(expected[2] - actual[2]) * 100000 <= Magnitude(expected[2])

normalize_whitespace(s) == Normal[s]

\* values_match_recursive of policyai-extract-regressions on scalars: numbers may differ by 0.1% of
\* the expected one.
ScalarsMatch(a, e, args) ==
  CASE a[1] = "number" /\ e[1] = "number" -> Magnitude(a[2] - e[2]) * 1000 <= Magnitude(e[2])
    [] a[1] = "string" /\ e[1] = "string" /\ args.ignore_whitespace ->
         normalize_whitespace(a[2]) = normalize_whitespace(e[2])
    [] OTHER -> a = e

arrays_match_ordered(a, b, args) ==
  Len(a) = Len(b) /\ \A j \in DOMAIN a : ScalarsMatch(a[j], b[j], args)

\* Mutant: an element of b may be matched by several of a.
arrays_match_unordered_reusing(a, b, args) ==
  Len(a) = Len(b) /\ \A j \in DOMAIN a : \E k \in DOMAIN b : ScalarsMatch(a[j], b[k], args)

\* Each element of a takes the first unused element of b that it matches.
arrays_match_unordered(a, b, args) ==
  LET Take(acc, x) ==
        LET free == {k \in DOMAIN b \ acc.used : ScalarsMatch(x, b[k], args)}
        IN IF free = {} THEN [acc EXCEPT !.found_match = FALSE]
           ELSE [acc EXCEPT !.used = @ \cup {Min(free)}]
  IN Len(a) = Len(b) /\ FoldLeft(Take, [used |-> {}, found_match |-> TRUE], a).found_match

FieldsMatch(a, e, args) ==
  IF a[1] = "array" /\ e[1] = "array"
  THEN IF args.ignore_array_order THEN arrays_match_unordered(a[2], e[2], args)
       ELSE arrays_match_ordered(a[2], e[2], args)
  ELSE ScalarsMatch(a, e, args)

\* values_match_recursive on two documents.
values_match_recursive(actual, expected, args) ==
  IF actual.object /\ expected.object
  THEN /\ Cardinality(DOMAIN actual.map) = Cardinality(DOMAIN expected.map)
       /\ \A k \in DOMAIN actual.map :
            k \in DOMAIN expected.map /\ FieldsMatch(actual.map[k], expected.map[k], args)
  ELSE actual = expected
=============================================================================
