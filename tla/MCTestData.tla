------------------------------ MODULE MCTestData ------------------------------
(* A type with a field of every kind, two of which require agreement; the     *)
(* enum has a value that is also its name, and the string defaults to "".     *)
EXTENDS TestData

MCF64 == [i \in {} |-> 0]
MCStrLen == [s \in Strings |-> IF s = "" THEN 0 ELSE 1]

MCType ==
  <<Field("b", "bool", <<"bool", TRUE>>, "Agreement", {}),
    Field("e", "enum", <<"string", "x">>, "Agreement", {"e", "x"}),
    Field("s", "string", <<"string", "">>, "LargestValue", {}),
    Field("n", "number", None, "LargestValue", {}),
    Field("a", "array", None, "Default", {})>>

MCNumberCases(i) == {<<"float", 0>>, <<"float", i>>}
MCStringCases(i) == {"", "s", ToString(i)}
MCArrayCases(i) == {<<>>, <<ToString(i), "a">>}

MCBoolType == <<Field("b", "bool", <<"bool", FALSE>>, "Agreement", {})>>
MCQuietType == <<Field("s", "string", <<"string", "x">>, "LargestValue", {})>>

Options(type, p, n, flags, total, matching) ==
  [type |-> type, positives |-> p, negatives |-> n, flags |-> flags, policies |-> total, matching |-> matching]
MCOptions ==
  {Options(MCType, 2, 1, {}, 3, 2), Options(MCQuietType, 1, 1, {}, 2, 1),
   Options(MCQuietType, 2, 0, {"bool"}, 2, 2), Options(MCBoolType, 2, 0, {"number"}, 2, 2), Options(MCType, 2, 0, {"string", "array"}, 2, 2),
   Options(MCType, 2, 1, {"bool", "enum"}, 3, 2), Options(MCType, 3, 0, {"bool", "enum", "all"}, 3, 3),
   Options(MCType, 3, 0, {"bool", "enum"}, 3, 3), Options(MCType, 2, 2, {"bool"}, 2, 1), Options(MCType, 1, 1, {"number"}, 3, 2)}
=============================================================================
