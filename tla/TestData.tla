------------------------------- MODULE TestData -------------------------------
(***************************************************************************)
(* The generators of test data under examples/, and whether what they      *)
(* promise is what a ReportBuilder makes of their policies when the LLM    *)
(* does exactly as the prompts say.                                        *)
(*                                                                         *)
(* generate-semantic-injections and generate-decidables find the prompts   *)
(* that match a text and the ones that do not (only their numbers matter   *)
(* here), generate-actions writes actions that set one field each, and     *)
(* generate-test-data combines them into a TestDataPoint.  A random choice *)
(* is a choice of anything; a loop that draws until it finds what it wants *)
(* never ends when there is nothing to find.                               *)
(*                                                                         *)
(* Of a prompt only <action>..</action> is kept: the name of the field and *)
(* the value to output, as the tokens content.replace can tell apart.      *)
(***************************************************************************)
EXTENDS BuilderOps

CONSTANTS
  NumberCases(_),    \* the numbers, strings and arrays that generate_case has for line i
  StringCases(_),
  ArrayCases(_),
  OptionSets,        \* the options of the four programs, and the policy type they are given
  Count              \* how many actions to generate

\* The arrays of generate_case repeat no element, and no mask is also a value.
ASSUME CasesType ==
  /\ Count \in Nat
  /\ \A i \in 1..Count :
       /\ NumberCases(i) \subseteq Numbers /\ StringCases(i) \subseteq Strings
       /\ \A a \in ArrayCases(i) : IsInjective(a) /\ ToSet(a) \subseteq Strings

VARIABLES
  pc,          \* what is running: "injections", "decidables", "actions", "sample", "normal",
               \* "conflict", "fill", "shuffle"; or how it ended: "done", "exit", "failed", "panicked"
  options,     \* [type, positives, negatives, flags, policies, matching]
  positives, negatives,   \* the lengths of DecidableSemanticInjection's vectors
  actions,     \* the actions file
  policies,    \* the policies of the test case: [policy, prompt, matching]
  expected,    \* field name to value
  conflicts,   \* the names of the conflict fields, in order
  selected,    \* the fields still to be given conflicting policies
  num_values, seen_values   \* for the first of them: how many values to go, and the ones used

inputVars == <<options, positives, negatives, actions>>
conflictVars == <<conflicts, selected, num_values, seen_values>>
caseVars == <<policies, expected, conflictVars>>
vars == <<pc, inputVars, caseVars>>

Type == options.type     \* a sequence of fields
NoValues == [f \in Fields |-> Unset]

Init ==
  /\ pc = "injections" /\ options \in OptionSets
  /\ positives = 0 /\ negatives = 0 /\ actions = <<>>
  /\ policies = <<>> /\ expected = NoValues /\ conflicts = <<>> /\ selected = <<>>
  /\ num_values = 0 /\ seen_values = {}
-----------------------------------------------------------------------------
(* generate-semantic-injections and generate-decidables.  A prompt that the *)
(* LLM does not confirm is dropped, which changes nothing.                  *)

ConfirmInjection ==
  /\ pc = "injections" /\ positives < options.positives
  /\ positives' = positives + 1
  /\ UNCHANGED <<pc, options, negatives, actions, caseVars>>

ConfirmNegative ==
  /\ pc = "decidables" /\ negatives < options.negatives
  /\ negatives' = negatives + 1
  /\ UNCHANGED <<pc, options, positives, actions, caseVars>>

\* The client fails: one program returns the error, the other unwraps it.
ClientFails ==
  /\ \/ pc = "injections" /\ positives < options.positives /\ pc' = "failed"
     \/ pc = "decidables" /\ negatives < options.negatives /\ pc' = "panicked"
  /\ UNCHANGED <<inputVars, caseVars>>

\* The line with the prompts found is printed.
PrintInjections ==
  /\ \/ pc = "injections" /\ positives = options.positives /\ pc' = "decidables"
     \/ pc = "decidables" /\ negatives = options.negatives /\ pc' = "actions"
  /\ UNCHANGED <<inputVars, caseVars>>
-----------------------------------------------------------------------------
(* generate-actions                                                        *)

should_generate_for_field(field, flags) ==
  "all" \in flags \/ flags = {} \/ field.kind \in flags

eligible_fields == SelectSeq(Type, LAMBDA field : should_generate_for_field(field, options.flags))

\* The values generate_case may give the field on line i.
generate_case(field, i) ==
  CASE field.kind = "bool" -> Bools
    [] field.kind = "number" -> {<<"number", n>> : n \in NumberCases(i)}
    [] field.kind = "string" -> {<<"string", s>> : s \in StringCases(i)}
    [] field.kind = "array" -> {<<"array", [j \in DOMAIN a |-> <<"string", a[j]>>]>> : a \in ArrayCases(i)}
    [] field.kind = "enum" -> {<<"string", s>> : s \in field.values}

\* An action names one field and gives it a value.
GenerateAction ==
  /\ pc = "actions" /\ eligible_fields # <<>> /\ Len(actions) < Count
  /\ LET field == eligible_fields[(Len(actions) % Len(eligible_fields)) + 1]
     IN \E v \in generate_case(field, Len(actions) + 1) :
          actions' = Append(actions, [name |-> field.name, value |-> v])
  /\ UNCHANGED <<pc, options, positives, negatives, caseVars>>

ActionsWritten ==
  /\ pc = "actions" /\ (eligible_fields = <<>> \/ Len(actions) = Count)
  /\ pc' = "sample"
  /\ UNCHANGED <<inputVars, caseVars>>
-----------------------------------------------------------------------------
(* generate-test-data                                                      *)

\* The two assertions of main; policies - matching does not go below zero.
Enough ==
  /\ options.matching <= options.policies
  /\ positives >= options.matching /\ negatives >= options.policies - options.matching

AssertionFails ==
  /\ pc = "sample" /\ ~Enough /\ pc' = "panicked"
  /\ UNCHANGED <<inputVars, caseVars>>

\* Every value of a field's action, in the tokens of a prompt.
Tokens(v) ==
  CASE v[1] = "string" -> <<<<"quoted", v[2]>>>>
    [] v[1] = "array" -> [j \in DOMAIN v[2] |-> <<"quoted", v[2][j][2]>>]
    [] OTHER -> <<<<"literal", v>>>>

NewPolicy(a, matching) ==
  [policy |-> [type |-> Type, action |-> [NoValues EXCEPT ![a.name] = a.value]],
   prompt |-> <<<<"quoted", a.name>>>> \o Tokens(a.value), matching |-> matching]

StartNormal ==
  /\ pc = "sample" /\ Enough /\ pc' = "normal"
  /\ UNCHANGED <<inputVars, caseVars>>

\* Mutant: only an action on a field that is not set yet.
is_compatible_action_fresh(a) == expected[a.name] = Unset

is_compatible_action(a) == expected[a.name] \in {Unset, a.value}

\* A matching policy with an action that fits the expected output so far.
AddMatching ==
  /\ pc = "normal" /\ Len(policies) < options.matching
  /\ \E a \in ToSet(actions) :
       /\ is_compatible_action(a)
       /\ expected' = [expected EXCEPT ![a.name] = a.value]
       /\ policies' = Append(policies, NewPolicy(a, TRUE))
  /\ UNCHANGED <<pc, inputVars, conflictVars>>

\* A policy that does not match; the assertions see to it that there is a prompt for it.
AddNonMatching ==
  /\ pc = "normal" /\ Len(policies) \in options.matching..(options.policies - 1)
  /\ \E a \in ToSet(actions) : policies' = Append(policies, NewPolicy(a, FALSE))
  /\ UNCHANGED <<pc, inputVars, expected, conflictVars>>

AddDefaults ==
  /\ pc = "normal" /\ Len(policies) = options.policies /\ pc' = "shuffle"
  /\ expected' = [f \in Fields |-> IF expected[f] # Unset THEN expected[f] ELSE default_value(Type)[f]]
  /\ UNCHANGED <<inputVars, policies, conflictVars>>

agreement_fields == SelectSeq(Type, LAMBDA field : field.kind # "array" /\ field.on_conflict = "Agreement")

NoAgreementFields ==
  /\ pc = "sample" /\ Enough /\ agreement_fields = <<>> /\ pc' = "exit"
  /\ UNCHANGED <<inputVars, caseVars>>

\* Field::default_value, but for null: an array has one, and so has a string that is empty.
FieldDefault(field) ==
  IF field.kind = "array" THEN <<"array", <<>>>>
  ELSE IF field.default \in {None, NonFinite} THEN Unset ELSE field.default

FieldNamed(f) == CHOOSE field \in ToSet(Type) : field.name = f
FieldNames == {field.name : field \in ToSet(Type)}

\* generate_conflict_test_case up to its first loop: at least one field, in any order.
StartConflict ==
  /\ pc = "sample" /\ Enough /\ agreement_fields # <<>> /\ pc' = "conflict"
  /\ expected' = [f \in Fields |-> IF f \in FieldNames THEN FieldDefault(FieldNamed(f)) ELSE Unset]
  /\ \E S \in SUBSET {field.name : field \in ToSet(agreement_fields)} :
       S # {} /\ selected' \in SetToSeqs(S)
  /\ UNCHANGED <<inputVars, policies, conflicts, num_values, seen_values>>

\* The next selected field: it is listed, and 2 to 4 values are wanted.  No such number exists when
\* fewer than two policies are to match.
SelectField ==
  /\ pc = "conflict" /\ num_values = 0 /\ selected # <<>>
  /\ conflicts' = Append(conflicts, Head(selected))
  /\ LET most == IF options.matching < 4 THEN options.matching ELSE 4
     IN IF most < 2 THEN pc' = "panicked" /\ UNCHANGED num_values
        ELSE num_values' \in 2..most /\ UNCHANGED pc
  /\ seen_values' = {}
  /\ UNCHANGED <<inputVars, policies, expected, selected>>

FieldDone ==
  /\ selected' = Tail(selected)
  /\ UNCHANGED <<inputVars, expected, conflicts>>

\* Mutant: a value may come twice.
Candidates_any(f) == {a \in ToSet(actions) : a.name = f}

\* The actions the search for another value of the field may stop at.
Candidates(f) == {a \in ToSet(actions) : a.name = f /\ a.value \notin seen_values}

\* A policy with another value for the field.
AddConflicting ==
  /\ pc = "conflict" /\ num_values > 0 /\ Len(policies) < options.policies
  /\ \E a \in Candidates(Head(selected)) :
       /\ policies' = Append(policies, NewPolicy(a, TRUE))
       /\ seen_values' = seen_values \cup {a.value}
  /\ num_values' = num_values - 1
  /\ UNCHANGED pc
  /\ IF num_values = 1 THEN FieldDone
     ELSE UNCHANGED <<inputVars, expected, conflicts, selected>>

\* An empty file of actions has nothing to choose from.
NoActions ==
  /\ pc = "conflict" /\ num_values > 0 /\ Len(policies) < options.policies
  /\ actions = <<>> /\ pc' = "panicked"
  /\ UNCHANGED <<inputVars, caseVars>>

\* The case is full: `break`.
BreakField ==
  /\ pc = "conflict" /\ num_values > 0 /\ Len(policies) >= options.policies
  /\ num_values' = 0
  /\ FieldDone
  /\ UNCHANGED <<pc, policies, seen_values>>

FieldsDone ==
  /\ pc = "conflict" /\ num_values = 0 /\ selected = <<>>
  /\ pc' = IF Len(policies) < options.policies THEN "fill" ELSE "shuffle"
  /\ UNCHANGED <<inputVars, caseVars>>

\* A non-matching policy for a slot that is left; without a prompt for it unwrap panics.
Fill ==
  /\ pc = "fill"
  /\ IF negatives = 0 THEN pc' = "panicked" /\ UNCHANGED policies
     ELSE /\ \E a \in ToSet(actions) : policies' = Append(policies, NewPolicy(a, FALSE))
          /\ pc' = IF Len(policies) + 1 = options.policies THEN "shuffle" ELSE pc
  /\ UNCHANGED <<inputVars, expected, conflictVars>>

\* The policies in any order, and the line with the TestDataPoint.
Shuffle ==
  /\ pc = "shuffle" /\ pc' = "done"
  /\ policies' \in {[j \in DOMAIN policies |-> policies[p[j]]] : p \in Permutations(DOMAIN policies)}
  /\ UNCHANGED <<inputVars, expected, conflicts, selected, num_values, seen_values>>

GenerateInputs ==
  \/ ConfirmInjection \/ ConfirmNegative \/ ClientFails \/ PrintInjections
  \/ GenerateAction \/ ActionsWritten

GenerateTestCase ==
  \/ AssertionFails
  \/ StartNormal \/ AddMatching \/ AddNonMatching \/ AddDefaults
  \/ NoAgreementFields \/ StartConflict \/ SelectField
  \/ AddConflicting \/ NoActions \/ BreakField \/ FieldsDone \/ Fill
  \/ Shuffle

Next == GenerateInputs \/ GenerateTestCase

\* The programs keep running, and a loop that draws at random until a draw fits comes to one that
\* does, if there is any.
Spec == Init /\ [][Next]_vars /\ WF_vars(Next)
-----------------------------------------------------------------------------
(* What becomes of the test case.  add_policy replaces the quoted names of   *)
(* the policy's fields, and the quoted value of an enum, in the prompt.      *)

\* Mutant: the value of an enum is left as it is.
Masked_name_only(prompt, m) ==
  [j \in DOMAIN prompt |-> IF prompt[j] = <<"quoted", m.name>> THEN <<"masked", m.mask>> ELSE prompt[j]]

Masked(prompt, m) ==
  LET named == [j \in DOMAIN prompt |->
                  IF prompt[j] = <<"quoted", m.name>> THEN <<"masked", m.mask>> ELSE prompt[j]]
  IN [j \in DOMAIN prompt |->
        IF m.kind = "enum" /\ m.value # None /\ named[j] = <<"quoted", m.value[2]>>
        THEN <<"literal", <<"bool", TRUE>>>> ELSE named[j]]

\* What an LLM that does as the prompt says answers: a mask where a value should be is a string
\* like any other.
ValueOf(token) ==
  CASE token[1] = "literal" -> token[2]
    [] token[1] = "quoted" -> <<"string", token[2]>>
    [] OTHER -> <<"string", "uuid">>

ObedientAnswer(m, prompt) ==
  LET tokens == Tail(Masked(prompt, m))
  IN IF m.kind # "array" THEN ValueOf(tokens[1])
     ELSE <<"array", [j \in DOMAIN tokens |-> ValueOf(tokens[j])], IF tokens = <<>> THEN 0 ELSE 1>>

\* The report of the test case, when the LLM answers for the policies that match and no other.
ObedientReport ==
  LET b == FoldLeft(LAMBDA acc, c : add_policy(acc, c.policy), NewBuilder, policies)
      mask(x) == CHOOSE m \in ToSet(MasksInOrder(b)) : m.mask = x
      answer(m) == LET c == policies[m.policy_index]
                   IN IF c.matching THEN ObedientAnswer(m, c.prompt) ELSE Unset
  IN consume_ir(b, [x \in MaskIds(b) |-> answer(mask(x))])

\* The arrays of a report are flat.
InReport(v) == IF v[1] = "array" THEN <<"array", [j \in DOMAIN v[2] |-> v[2][j][2]]>> ELSE v

IsEmpty(v) == v \in {Unset, <<"array", <<>>>>} \/ (v[1] = "string" /\ StrLen[v[2]] = 0)

\* Does a matching policy's value read like the name of its field?
Confusable == \E c \in ToSet(policies) : c.matching /\ Head(c.prompt) \in ToSet(Tail(c.prompt))

\* A normal test case expects exactly what PolicyAI makes of it when the LLM does as it is told: no
\* error, no conflict, the rules that match and no other, and every expected value.  (The default
\* "" is not expected, but shows up when a policy that does not match leaves it to its mask.)  It
\* goes wrong exactly when a value reads like the name of its field, which add_policy replaces too.
ExpectedIsProduced ==
  pc = "done" /\ conflicts = <<>> =>
    LET r == ObedientReport
        produced == /\ r.errors = <<>> /\ r.conflicts = <<>>
                    /\ ToSet(r.rules_matched) = {j \in DOMAIN policies : policies[j].matching}
                    /\ \A f \in Fields : \/ value(r)[f] = InReport(expected[f])
                                         \/ expected[f] = Unset /\ IsEmpty(value(r)[f])
    IN produced <=> ~Confusable

\* A conflict test case has a conflict, on exactly those of its listed fields for which there was
\* room for two policies, and what it expects of the other fields is what they are.
ConflictsAreProduced ==
  pc = "done" /\ conflicts # <<>> /\ ~Confusable =>
    LET r == ObedientReport
        setBy(f) == {j \in DOMAIN policies : policies[j].matching /\ policies[j].policy.action[f] # Unset}
        listed == ToSet(conflicts)
    IN /\ r.errors = <<>> /\ r.conflicts # <<>>
       /\ {c[1] : c \in ToSet(r.conflicts)} = {f \in listed : Cardinality(setBy(f)) >= 2}
       /\ \A f \in Fields \ listed : \/ value(r)[f] = InReport(expected[f])
                                     \/ IsEmpty(value(r)[f]) /\ IsEmpty(expected[f])

Ended == pc \in {"done", "exit", "failed", "panicked"}
ValuesOfActions(f) == {a.value : a \in {x \in ToSet(actions) : x.name = f}}

\* Every field that requires agreement has as many different values as may be wanted.
RichActions ==
  /\ actions # <<>>
  /\ \A field \in ToSet(agreement_fields) :
       Cardinality(ValuesOfActions(field.name)) >= Min({4, options.matching})

\* With any action at all a normal case is always completed: the actions it took stay compatible.
\* A conflict case is, when every field that requires agreement has enough values to differ in; a
\* bool has two, so three matching policies may keep the search going for ever.
GenerationEnds ==
  /\ (pc = "sample" /\ actions # <<>>) ~> (Ended \/ pc = "conflict")
  /\ (pc = "sample" /\ RichActions) ~> Ended
=============================================================================
