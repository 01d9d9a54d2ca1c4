------------------------------ MODULE MCManager ------------------------------
(* A manager with a few policies of one type, one of another type that Add   *)
(* refuses, and one whose action does not fit its type.                      *)
EXTENDS Manager

MCInts == {5}
MCF64 == [i \in MCInts |-> 4]
MCStrLen == [s \in Strings |-> CASE s = "low" -> 3 [] OTHER -> 4]

T1 == <<Field("b", "bool", <<"bool", FALSE>>, "Agreement", {}),
        Field("e", "enum", <<"string", "low">>, "LargestValue", {"low", "high"})>>
T2 == <<Field("b", "bool", <<"bool", TRUE>>, "Default", {})>>

Act(b, e) == [f \in Fields |-> IF f = "b" THEN b ELSE e]
Policy(type, action) == [type |-> type, action |-> action]

Urgent == Policy(T1, Act(<<"bool", TRUE>>, Unset))
High == Policy(T1, Act(Unset, <<"string", "high">>))
Idle == Policy(T1, Act(Unset, Unset))            \* an action that sets nothing
Misfit == Policy(T1, Act(<<"string", "low">>, Unset))
Other == Policy(T2, Act(<<"bool", TRUE>>, Unset))

AllPolicies == {Urgent, High, Idle, Misfit, Other}
GoodPolicies == {Urgent, High}
OnlyUrgent == {Urgent}

Prefix(role) == [role |-> role, blocks |-> <<<<"prefix", 0>>>>]
OldCall == [role |-> "assistant", blocks |-> <<<<"prefix", 0>>, <<"tool_use", 9>>>>]
OldResult == [role |-> "user", blocks |-> <<<<"tool_result", 9, {}>>>>]
AllTemplates == {<<>>, <<Prefix("user"), Prefix("assistant")>>, <<Prefix("user"), OldCall, OldResult>>}
NoTemplate == {<<>>}

BoolAnswers == {Unset, <<"bool", TRUE>>, <<"bool", FALSE>>}
AllAnswers == BoolAnswers \cup {<<"string", "low">>}
=============================================================================
