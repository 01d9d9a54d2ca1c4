----------------------------- MODULE MCEvaluation -----------------------------
(* One policy type with a number, a string with a default and a string array. *)
(* The unit of numbers is 1/100000, so that 100001 is within 0.001% of 1 and  *)
(* 100050 within 0.1%.                                                        *)
EXTENDS Evaluation

MCNormal == [s \in {"a", " a", "b"} |-> IF s = " a" THEN "a" ELSE s]

Num(x) == <<"number", x>>
Str(s) == <<"string", s>>
Arr(q) == <<"array", q>>

T1 == [fields |-> {"n", "s", "t"}, defaults |-> [s |-> Str("a")]]
T2 == [fields |-> {"n"}, defaults |-> [n |-> Num(0)]]

Point(policies, expected) == [policies |-> policies, expected |-> expected]
MCPoints ==
  {Point(<<T1>>, Some(Object([n |-> Num(100000), s |-> Str("a")]))),
   Point(<<T1>>, Some(Object([t |-> Arr(<<Str("a"), Str("b"), Str("a")>>), s |-> Str("b")]))),
   Point(<<T1, T1>>, Some(Object([n |-> Num(100000)]))),
   Point(<<T2>>, None), Point(<<>>, Some(Object(<<>>))),
   Point(<<T1>>, Some(NotAnObject)), Point(<<T1, T2>>, None)}
MCBaselines ==
  {NotAnObject, Object([n |-> Num(100000)]), Object([n |-> Num(100050), s |-> Str(" a")]),
   Object([__rule_numbers__ |-> Arr(<<Num(100000)>>), n |-> Num(100000), s |-> Str("a")])}
MCOutputs ==
  {Object(<<>>), Object([s |-> Str("a")]), Object([n |-> Num(0)]),
   Object([n |-> Num(100001), s |-> Str("a")]), Object([n |-> Num(101000), s |-> Str("a")]),
   Object([t |-> Arr(<<Str("b"), Str("a"), Str("a")>>), s |-> Str("b")]),
   Object([t |-> Arr(<<Str("b"), Str("a"), Str("b")>>), s |-> Str("b")])}
MCUsages == {[input |-> 3, output |-> 1, cache_creation |-> 0, cache_read |-> 2]}
Flags(b, w, o) == [include_baseline_failures |-> b, ignore_whitespace |-> w, ignore_array_order |-> o]
\* One expectation that leaves a default out, and a baseline that is as sparse.
SparsePoints == {Point(<<T1>>, Some(Object([n |-> Num(100000)])))}
SparseBaselines == {Object([n |-> Num(100000)])}
SparseOutputs == {Object([n |-> Num(100000), s |-> Str("a")])}
MCArgSets == {Flags(FALSE, FALSE, FALSE), Flags(FALSE, TRUE, TRUE), Flags(TRUE, FALSE, TRUE)}
=============================================================================
