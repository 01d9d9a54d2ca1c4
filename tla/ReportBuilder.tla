---------------------------- MODULE ReportBuilder ----------------------------
(***************************************************************************)
(* A ReportBuilder: add_policy in any order, with actions that fit their   *)
(* type and actions that do not, and consume_ir of arbitrary answers on a  *)
(* clone of it (as Manager::apply does on every attempt).                  *)
(***************************************************************************)
EXTENDS BuilderOps

CONSTANTS
  PolicySet,    \* the policies that may be added
  Answers,      \* what the LLM may put under a mask (Unset: nothing)
  MaxPolicies   \* bound on the policies added to one builder

ASSUME MaxPoliciesType == MaxPolicies \in Nat
ASSUME InputTypes == PolicySet \subseteq PolicyRecords /\ Answers \subseteq JsonAnswers

VARIABLES
  builder,   \* the ReportBuilder
  added,     \* history: the policies add_policy accepted, in order
  failed,    \* history: has an add_policy failed?
  consumed,  \* is a report of this builder in the caller's hands?
  ir,        \* the answer it was made from
  report     \* that Report

vars == <<builder, added, failed, consumed, ir, report>>

NoIr == [x \in {} |-> Unset]

Init ==
  /\ builder = NewBuilder
  /\ added = <<>>
  /\ failed = FALSE
  /\ consumed = FALSE
  /\ ir = NoIr
  /\ report = NewReport([f \in Fields |-> Unset])

AddPolicy(policy) ==
  /\ builder.mask_index <= MaxPolicies
  /\ ~consumed
  /\ ~AddPolicyFails(policy)
  /\ builder' = add_policy(builder, policy)
  /\ added' = Append(added, policy)
  /\ UNCHANGED <<failed, consumed, ir, report>>

AddPolicyErr(policy) ==
  /\ builder.mask_index <= MaxPolicies
  /\ ~consumed
  /\ AddPolicyFails(policy)
  /\ builder' = add_policy(builder, policy)
  /\ failed' = TRUE
  /\ UNCHANGED <<added, consumed, ir, report>>

ConsumeIr(answer) ==
  /\ ~consumed
  /\ consumed' = TRUE
  /\ ir' = answer
  /\ report' = consume_ir(builder, answer)
  /\ UNCHANGED <<builder, added, failed>>

\* The caller drops the report; the builder, which was cloned, is used again.
DropReport ==
  /\ consumed
  /\ consumed' = FALSE
  /\ ir' = NoIr
  /\ report' = NewReport([f \in Fields |-> Unset])
  /\ UNCHANGED <<builder, added, failed>>

Next ==
  \/ \E policy \in PolicySet : AddPolicy(policy) \/ AddPolicyErr(policy)
  \/ \E answer \in [MaskIds(builder) -> Answers] : ConsumeIr(answer)
  \/ DropReport

Spec == Init /\ [][Next]_vars
-----------------------------------------------------------------------------
AllMasks == ToSet(MasksInOrder(builder))

SameType == \A j, k \in DOMAIN added : added[j].type = added[k].type

\* Does the answer v have the type that the schema asks for?
FitsSchema(schema, v) ==
  CASE schema = "boolean" -> v \in Bools
    [] schema = "number" -> v \in NumberValues
    [] schema = "string" -> v \in StringValues
    [] schema = "strings" -> v[1] = "array" /\ v[3] <= 1 /\ \A j \in DOMAIN v[2] : v[2][j] \in StringValues

\* Every part of the builder has its type, and no more rules are numbered than add_policy was called.
TypeOK ==
  /\ builder.mask_index \in 1..(MaxPolicies + 1)
  /\ builder.policy_index \in 1..builder.mask_index
  /\ \A k \in Kinds : \A m \in ToSet(builder.masks[k]) : m.kind = k /\ m.name \in Fields
  /\ DOMAIN builder.default_return = Fields
  /\ consumed => ir \in [MaskIds(builder) -> Answers]

\* After any mix of accepted and rejected policies the rule numbers shown to the LLM, the masks
\* and the masks_by_index table that Manager::apply indexes with rule - 1 agree: rule i lists exactly
\* the masks of the i-th accepted policy, one per field its action mentions, and no mask is shared.
MasksFollowRules ==
  /\ builder.policy_index = Len(added) + 1
  /\ Len(builder.masks_by_index) = Len(added)
  /\ \A i \in DOMAIN added :
       /\ ToSet(builder.masks_by_index[i]) = {m.mask : m \in {x \in AllMasks : x.policy_index = i}}
       /\ \A f \in Fields :
            (\E m \in AllMasks : m.policy_index = i /\ m.name = f)
              <=> (\E x \in ToSet(added[i].type) : x.name = f) /\ added[i].action[f] # Unset
  /\ \A m, n \in AllMasks : m.mask = n.mask => m = n
  /\ {m.policy_index : m \in AllMasks} \subseteq DOMAIN added

\* The LLM is shown one message that holds the accepted rules, numbered from 1 without a gap, and
\* its schema has exactly the masks and the two bookkeeping keys.
RequestMatchesMasks ==
  /\ Len(builder.messages) <= 1
  /\ added # <<>> => builder.messages[1].blocks = [i \in DOMAIN added |-> <<"rule", i>>]
  /\ DOMAIN builder.properties = MaskIds(builder) \cup {RuleNumbers, Justification}

\* consume_ir attributes matches exactly: rule i is in rules_matched if and only if one of its masks
\* was answered in a way that counts as a match.
MatchesAttributed ==
  consumed =>
    ToSet(report.rules_matched) = {m.policy_index : m \in {x \in AllMasks : Fires(x, ir[x.mask])}}

\* Every value in the output is accounted for by the mask of a matched rule for that field: a number,
\* string or enum is the one its policy names.  A bool is the LLM's own answer, whatever the policy
\* says, and so is a number or string where the policy names null.  Of an array every string was in
\* the answer to an array mask of the field; the strings the policy names are not compared with it.
ValuesComeFromPolicies ==
  consumed =>
    \A f \in Fields :
      LET x == report.value[f]
          matching == {m \in AllMasks : m.name = f /\ m.policy_index \in ToSet(report.rules_matched)}
      IN /\ x # Unset => \E m \in matching : Justifies(m, ir[m.mask], x)
         /\ x[1] = "array" => \A s \in ToSet(x[2]) : \E m \in matching : Gives(m, ir[m.mask], s)

\* An answer that honours the schema is consumed without an error when all policies have one type,
\* provided it names no field twice and JSON can hold its default numbers, which the types that the
\* run enumerates do: for a field with an infinite default consume_ir logs errors.
SchemaSuffices ==
  consumed /\ SameType /\ ~failed
    /\ (\A x \in MaskIds(builder) : ir[x] = Unset \/ FitsSchema(builder.properties[x], ir[x]))
    => report.errors = <<>>
=============================================================================
