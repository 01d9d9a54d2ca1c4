------------------------------- MODULE MCReport -------------------------------
(* Small policy types for the Report module.  Floats have a two-bit mantissa, *)
(* so that 5 rounds to 4 and 7 to 8; i64::MAX is 6, so that 7 is only a u64.  *)
EXTENDS Report

MCInts == {-1, 4, 5, 7}
MCFloats == {0, 4}
MCF64 == [i \in MCInts |-> CASE i = -1 -> -1 [] i = 7 -> 8 [] OTHER -> 4]
MCStrLen == [s \in Strings |-> CASE s = "" -> 0 [] s = "low" -> 3 [] s = "high" -> 4 [] OTHER -> 6]
MCArrays == {<<"array", <<>>, 0>>, <<"array", <<<<"string", "low">>, <<"string", "high">>,
             <<"string", "low">>>>, 2>>, <<"array", <<<<"string", "low">>, Null>>, 1>>,
             <<"array", <<<<"string", "low">>>>, 3>>}

\* A field is named by its kind and its strategy.
MCFields == {<<"bool", "Default">>, <<"number", "Agreement">>,
             <<"number", "LargestValue">>, <<"string", "LargestValue">>,
             <<"enum", "LargestValue">>, <<"array", "Default">>}
BoolByDefault == {<<"bool", "Default">>}
LargestEnum == {<<"enum", "LargestValue">>}

MCKind == [f \in Fields |-> f[1]]
MCOnConflict == [f \in Fields |-> f[2]]

\* One of the number defaults is one that JSON cannot hold.
MCDefault == [f \in Fields |-> CASE f[1] = "bool" -> <<"bool", FALSE>>
                                 [] f = <<"number", "Agreement">> -> NonFinite
                                 [] f[1] = "number" -> <<"number", <<"float", 0>>>>
                                 [] f[1] = "string" -> <<"string", "">>
                                 [] f[1] = "enum" -> <<"string", "low">>
                                 [] OTHER -> None]

\* README.md on LargestValue, for an enum declared ["low", "medium", "high"]: "values later in the
\* list win", "high" > "medium" > "low".
EnumPosition == [s \in {"low", "medium", "high"} |->
                   CASE s = "low" -> 1 [] s = "medium" -> 2 [] OTHER -> 3]
LaterEnumWins ==
  \A f \in Fields : Kind[f] = "enum" =>
    \A v \in seen[f] : EnumPosition[v[2]] <= EnumPosition[report.value[f][2]]

\* OnConflict::Default in src/on_conflict.rs: "Use the field's default value when conflicts occur".
DefaultOnConflict ==
  \A f \in Fields :
    OnConflict[f] = "Default" /\ (\E v, w \in seen[f] : v # w) => value(report)[f] = DefaultOf[f]
=============================================================================
