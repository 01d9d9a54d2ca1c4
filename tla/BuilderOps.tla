------------------------------ MODULE BuilderOps ------------------------------
(***************************************************************************)
(* src/report_builder.rs as operators on a builder record, with the parts  *)
(* of src/policy_type.rs and src/field.rs they use.                        *)
(*                                                                         *)
(* A policy is [type, action]: a type is a sequence of fields, an action   *)
(* maps each field name to a JSON value, or to Unset when the action does  *)
(* not mention it (an array in an action is <<"array", elements>>).  The    *)
(* prompt text a policy carries is left out.                               *)
(***************************************************************************)
EXTENDS ReportOps

\* A field of a policy type; `values` matters for an enum only.
Field(name, kind, default, on_conflict, values) ==
  [name |-> name, kind |-> kind, default |-> default, on_conflict |-> on_conflict,
   values |-> values]

\* The fields, the policies and the answers that occur: what serde_json and PolicyType can hold.
Scalars == Bools \cup NumberValues \cup StringValues
FieldRecords ==
  [name : Fields, kind : Kinds, default : {None, NonFinite} \cup Scalars, on_conflict : Strategies,
   values : SUBSET Strings]
ActionValues == {Unset, Null} \cup Scalars \cup ({"array"} \X Seq({Null} \cup Scalars))
PolicyRecords == [type : Seq(FieldRecords), action : [Fields -> ActionValues]]
JsonAnswers == {Unset, Null} \cup Scalars \cup ({"array"} \X Seq({Null} \cup Scalars) \X Nat)

\* The elements of the sequence s that lie in S, in their order.
Keep(s, S) == FoldLeft(LAMBDA kept, x : IF x \in S THEN Append(kept, x) ELSE kept, <<>>, s)

\* PolicyType::default_value leaves out null, the empty string and the empty array, and a number
\* that JSON cannot hold converts to null.  Of several fields of one name the last one counts.
ShownDefaults(type, f) ==
  {j \in DOMAIN type : LET y == type[j]
                       IN /\ y.name = f /\ y.default \notin {None, NonFinite}
                          /\ y.default[1] = "string" => StrLen[y.default[2]] > 0}

default_value(type) ==
  [f \in Fields |-> LET shown == ShownDefaults(type, f)
                   IN IF shown = {} THEN Unset ELSE type[Max(shown)].default]

RuleNumbers == <<"__rule_numbers__", 0>>
Justification == <<"__justification__", 0>>

NewBuilder ==
  [mask_index |-> 1, masks |-> [k \in Kinds |-> <<>>], masks_by_index |-> <<>>,
   default_return |-> [f \in Fields |-> Unset], messages |-> <<>>, policy_index |-> 1,
   properties |-> [k \in {RuleNumbers, Justification} |->
                     IF k = RuleNumbers THEN "integers" ELSE "string"],
   drawn |-> 0]

\* The n-th Uuid::new_v4() of a builder: identifiers never repeat.
Uuid(n) == <<"mask", n>>

\* Does the policy's action give the field a value of its type?
Accepts(field, v) ==
  CASE field.kind = "bool" -> v[1] = "bool"
    [] field.kind = "number" -> v[1] \in {"number", "null"}
    [] field.kind = "string" -> v[1] \in {"string", "null"}
    [] field.kind = "array" -> v[1] = "array" /\ \A j \in DOMAIN v[2] : v[2][j][1] = "string"
    [] field.kind = "enum" -> v[1] = "null" \/ (v[1] = "string" /\ v[2] \in field.values)

\* Mutant: the schema asks for the name of the enum value.
SchemaOf_enum_as_string(kind) ==
  CASE kind = "bool" -> "boolean" [] kind = "number" -> "number" [] kind = "array" -> "strings"
    [] OTHER -> "string"

\* What the JSON schema asks the LLM for under the mask of a field.
SchemaOf(kind) ==
  CASE kind = "number" -> "number" [] kind = "string" -> "string" [] kind = "array" -> "strings"
    [] OTHER -> "boolean"

NewMask(b, j, field, v) ==
  [kind |-> field.kind, policy_index |-> b.policy_index, name |-> field.name,
   mask |-> Uuid(b.drawn + j), default |-> field.default,
   value |-> IF field.kind \in {"bool", "array"} \/ v = Null THEN None ELSE v,
   on_conflict |-> field.on_conflict]

\* push_or_merge_message, for messages of [role, blocks]: a message of the role of the last one is
\* appended to it.
push_or_merge_message(messages, role, blocks) ==
  IF messages # <<>> /\ Last(messages).role = role
  THEN [messages EXCEPT ![Len(messages)].blocks = @ \o blocks]
  ELSE Append(messages, [role |-> role, blocks |-> blocks])

\* The fields of the policy's type that its action mentions, in the type's order.
Mentioned(policy) ==
  Keep(policy.type, {field \in ToSet(policy.type) : policy.action[field.name] # Unset})

AddPolicyFails(policy) ==
  \E j \in DOMAIN Mentioned(policy) :
    LET field == Mentioned(policy)[j] IN ~Accepts(field, policy.action[field.name])

\* Mutant: the mask index does not advance.
BeginAddPolicy_same_index(b, policy) == [b EXCEPT !.default_return = default_value(policy.type)]

\* What add_policy changes before it looks at the action, and so also when it fails.
BeginAddPolicy(b, policy) ==
  [b EXCEPT !.mask_index = @ + 1, !.default_return = default_value(policy.type)]

\* The text block that shows the policy to the LLM, and the mutant that numbers it by the mask index,
\* which a rejected policy advances too.
RuleBlock_by_mask_index(b) == <<"rule", b.mask_index - 1>>
RuleBlock(b) == <<"rule", b.policy_index>>

\* masks_by_index gets one entry per policy; the mutant skips a policy without masks.
IndexMasks_nonempty(table, ids) == IF ids = <<>> THEN table ELSE Append(table, ids)
IndexMasks(table, ids) == Append(table, ids)

\* Everything add_policy commits when every field of the action is accepted.
CommitPolicy(b, policy) ==
  LET fields == Mentioned(policy)
      new == [j \in DOMAIN fields |-> NewMask(b, j, fields[j], policy.action[fields[j].name])]
      ids == [j \in DOMAIN new |-> new[j].mask]
  IN [b EXCEPT
        !.messages = push_or_merge_message(@, "user", <<RuleBlock(b)>>),
        !.properties = [x \in DOMAIN @ \cup ToSet(ids) |->
                          IF x \in DOMAIN @ THEN @[x]
                          ELSE SchemaOf((CHOOSE m \in ToSet(new) : m.mask = x).kind)],
        !.masks = [k \in Kinds |-> @[k] \o Keep(new, {m \in ToSet(new) : m.kind = k})],
        !.masks_by_index = IndexMasks(@, ids),
        !.policy_index = @ + 1,
        !.drawn = @ + Len(new)]

add_policy(b, policy) ==
  IF AddPolicyFails(policy) THEN BeginAddPolicy(b, policy)
  ELSE CommitPolicy(BeginAddPolicy(b, policy), policy)

apply_to(m, v, r) ==
  CASE m.kind = "bool" -> BoolMask_apply_to(m, v, r)
    [] m.kind = "number" -> NumberMask_apply_to(m, v, r)
    [] m.kind = "string" -> StringMask_apply_to(m, v, r)
    [] m.kind = "array" -> StringArrayMask_apply_to(m, v, r)
    [] m.kind = "enum" -> StringEnumMask_apply_to(m, v, r)

\* The masks in the order consume_ir applies them.
MasksInOrder(b) ==
  b.masks["bool"] \o b.masks["number"] \o b.masks["string"] \o b.masks["array"] \o b.masks["enum"]

MaskIds(b) == {m.mask : m \in ToSet(MasksInOrder(b))}

\* Does the answer v to mask m count as a match of m's rule?
Fires(m, v) ==
  CASE m.kind = "bool" -> v \in Bools
    [] m.kind = "number" -> v \in NumberValues
    [] m.kind = "string" -> v \in StringValues
    [] m.kind = "array" -> v # Unset /\ extract_strings(v) # None
    [] m.kind = "enum" -> v = <<"bool", TRUE>>

\* Is v the value that the policy of mask m names?
Names(m, v) == v[1] = Tag(m.kind) /\ Same(m.kind, v, m.value)

\* Does mask m, answered with v, account for the value x in the output?  A number, string or enum has
\* to be what the policy names; a bool, and a value for a policy that names null, is the answer.
Justifies(m, v, x) ==
  IF m.kind = "array" THEN x[1] = "array" ELSE IF m.value = None THEN x = v ELSE Names(m, x)

\* Is the string s among the strings of an answer v to the array mask m?
Gives(m, v, s) ==
  m.kind = "array" /\ (v = <<"string", s>> \/ (v[1] = "array" /\ <<"string", s>> \in ToSet(v[2])))

\* The answer `ir` maps every mask to a JSON value, or to Unset when the LLM left the key out.
consume_ir(b, ir) ==
  LET step(r, m) == apply_to(m, ir[m.mask], r)
  IN FoldLeft(step, NewReport(b.default_return), MasksInOrder(b))
=============================================================================
