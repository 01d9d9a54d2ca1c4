--------------------------- MODULE MCReportBuilder ---------------------------
(* Policies of two types that differ in the default and the strategy of a   *)
(* shared field, with actions that fit their type and actions that do not.  *)
EXTENDS ReportBuilder

MCInts == {4, 5}
MCFloats == {4}
MCF64 == [i \in MCInts |-> 4]
MCStrLen == [s \in Strings |-> CASE s = "low" -> 3 [] OTHER -> 4]

StringArray == <<"array", <<<<"string", "low">>>>, 1>>

T1 == <<Field("b", "bool", <<"bool", FALSE>>, "Agreement", {}),
        Field("n", "number", None, "LargestValue", {}),
        Field("e", "enum", <<"string", "low">>, "LargestValue", {"low", "high"})>>
T2 == <<Field("b", "bool", <<"bool", TRUE>>, "Default", {}),
        Field("n", "string", <<"string", "low">>, "Agreement", {}),
        Field("a", "array", None, "Default", {})>>

Act(b, n, e, a) == [f \in Fields |-> CASE f = "b" -> b [] f = "n" -> n [] f = "e" -> e [] OTHER -> a]
Policy(type, action) == [type |-> type, action |-> action]

MCPolicies ==
  {Policy(T1, Act(<<"bool", TRUE>>, Unset, Unset, Unset)),
   Policy(T1, Act(Unset, <<"number", <<"pos", 5>>>>, <<"string", "high">>, Unset)),
   Policy(T1, Act(<<"bool", FALSE>>, Null, Unset, Unset)),
   Policy(T1, Act(Unset, Unset, Null, Unset)),
   Policy(T1, Act(<<"bool", TRUE>>, Unset, <<"string", "huge">>, Unset)),
   Policy(T1, Act(Unset, Unset, Unset, Unset)),
   Policy(T2, Act(<<"bool", TRUE>>, Unset, Unset, <<"array", <<<<"string", "low">>>>>>)),
   Policy(T2, Act(Unset, <<"string", "high">>, Unset, Unset)),
   Policy(T2, Act(Unset, Null, Unset, <<"array", <<Null>>>>))}

MCAnswers == {Unset, <<"bool", TRUE>>, <<"bool", FALSE>>, <<"number", <<"float", 4>>>>,
              <<"number", <<"pos", 4>>>>, <<"string", "high">>, StringArray}
=============================================================================
