------------------------- MODULE ReportBuilderProofs -------------------------
(***************************************************************************)
(* The invariants of ReportBuilder, for every set of policies and answers  *)
(* and every number of calls.                                              *)
(***************************************************************************)
EXTENDS ReportBuilder, BuilderOpsProofs

\* The builder holds what the accepted policies put there, and a report in the caller's hands was
\* made from it: add_policy and consume_ir of one builder never overlap.
BuilderInv ==
  /\ added \in Seq(PolicyRecords) /\ Built(builder, added)
  /\ \A i \in 1..Len(added) : added[i] \in PolicySet
  /\ ~failed => builder.default_return = default_value(LatestType(added))
  /\ builder.mask_index \in 1..(MaxPolicies + 1)
  /\ builder.policy_index \in 1..builder.mask_index
  /\ consumed => /\ ir \in [MaskIds(builder) -> Answers]
                 /\ report = consume_ir(builder, ir)

LEMMA BuilderInit == Init => BuilderInv
<1> SUFFICES ASSUME Init PROVE BuilderInv
  OBVIOUS
<1>1. builder = NewBuilder /\ added = <<>> /\ consumed = FALSE
  BY DEF Init
<1>2. NewBuilder.mask_index = 1 /\ NewBuilder.policy_index = 1
  BY DEF NewBuilder
<1>3. Built(builder, added)
  BY <1>1, NewBuilt
<1>4. builder.default_return = default_value(LatestType(added))
  BY <1>1, NewDefaults
<1> QED BY <1>1, <1>2, <1>3, <1>4, MaxPoliciesType DEF BuilderInv

\* An accepted and a rejected call of add_policy.
LEMMA AddKeeps ==
  ASSUME BuilderInv, NEW p \in PolicySet, AddPolicy(p) \/ AddPolicyErr(p)
  PROVE  BuilderInv'
<1>1. /\ p \in PolicyRecords /\ builder' = add_policy(builder, p)
      /\ builder.mask_index <= MaxPolicies /\ ~consumed'
  BY InputTypes DEF AddPolicy, AddPolicyErr
<1>2. /\ added \in Seq(PolicyRecords) /\ Built(builder, added)
      /\ builder.mask_index \in 1..(MaxPolicies + 1) /\ builder.policy_index \in 1..builder.mask_index
  BY DEF BuilderInv
<1>3. /\ builder'.mask_index = builder.mask_index + 1
      /\ AddPolicyFails(p) => Built(builder', added)
      /\ ~AddPolicyFails(p) => Built(builder', Append(added, p))
      /\ builder'.default_return = default_value(p.type)
  BY <1>1, <1>2, AddBuilt
<1>4. \A b, s : Built(b, s) => b.policy_index = Len(s) + 1
  BY DEF Built, RulesBuilt
<1>5. CASE AddPolicyErr(p)
  <2>1. added' = added /\ Built(builder', added')
    BY <1>3, <1>5 DEF AddPolicyErr
  <2>2. builder'.policy_index = builder.policy_index
    BY <1>2, <1>4, <2>1
  <2>3. failed'
    BY <1>5 DEF AddPolicyErr
  <2>4. builder'.mask_index \in 1..(MaxPolicies + 1) /\ builder'.policy_index \in 1..builder'.mask_index
    BY <1>1, <1>2, <1>3, <2>2, MaxPoliciesType
  <2> QED BY <1>1, <1>2, <2>1, <2>3, <2>4 DEF BuilderInv
<1>6. CASE AddPolicy(p)
  <2>1. added' = Append(added, p) /\ Built(builder', added')
    BY <1>3, <1>6 DEF AddPolicy
  <2>2. added' \in Seq(PolicyRecords) /\ Len(added') = Len(added) + 1 /\ Len(added) \in Nat
    BY <1>1, <1>2, <2>1
  <2>3. builder'.policy_index = builder.policy_index + 1
    BY <1>2, <1>4, <2>1, <2>2
  <2>4. \A i \in 1..Len(added') : added'[i] \in PolicySet
    BY <1>2, <2>1, <2>2 DEF BuilderInv
  <2>5. LatestType(added') = p.type
    BY <1>2, <2>1, <2>2 DEF LatestType, Last
  <2>6. builder'.mask_index \in 1..(MaxPolicies + 1) /\ builder'.policy_index \in 1..builder'.mask_index
    BY <1>1, <1>2, <1>3, <2>3, MaxPoliciesType
  <2>7. builder'.default_return = default_value(LatestType(added'))
    BY <1>3, <2>5
  <2> QED BY <1>1, <2>1, <2>2, <2>4, <2>6, <2>7 DEF BuilderInv
<1> QED BY <1>5, <1>6

LEMMA BuilderStep == BuilderInv /\ [Next]_vars => BuilderInv'
<1> SUFFICES ASSUME BuilderInv, [Next]_vars PROVE BuilderInv'
  OBVIOUS
<1>1. ASSUME NEW p \in PolicySet, AddPolicy(p) \/ AddPolicyErr(p) PROVE BuilderInv'
  BY <1>1, AddKeeps
<1>2. ASSUME NEW answer \in [MaskIds(builder) -> Answers], ConsumeIr(answer) PROVE BuilderInv'
  BY <1>2 DEF ConsumeIr, BuilderInv
<1>3. CASE DropReport
  BY <1>3 DEF DropReport, BuilderInv
<1>4. CASE UNCHANGED vars
  BY <1>4 DEF vars, BuilderInv
<1> QED BY <1>1, <1>2, <1>3, <1>4 DEF Next

\* The invariant above holds in every reachable state.
THEOREM BuilderInvariant == Spec => []BuilderInv
<1> QED BY BuilderInit, BuilderStep, PTL DEF Spec

\* The masks that consume_ir applies are those filed under the kinds.
LEMMA TheMasks ==
  ASSUME BuilderInv
  PROVE  AllMasks = MasksOf(builder) /\ MaskIds(builder) = {m.mask : m \in MasksOf(builder)}
<1>1. builder \in BuilderType
  BY DEF BuilderInv, Built
<1>2. ToSet(MasksInOrder(builder)) = MasksOf(builder)
  BY <1>1, InOrder
<1> QED BY <1>2 DEF AllMasks, MaskIds

\* Every part of a ReportBuilder keeps its type, and rules are numbered no further than calls of
\* add_policy were made, however accepted and rejected policies alternate.
THEOREM BuilderTypeOK == Spec => []TypeOK
<1>1. BuilderInv => TypeOK
  <2> SUFFICES ASSUME BuilderInv PROVE TypeOK
    OBVIOUS
  <2>1. builder \in BuilderType /\ MasksBuilt(builder, added)
    BY DEF BuilderInv, Built
  <2>2. \A k \in Kinds : \A m \in ToSet(builder.masks[k]) : m.kind = k /\ m.name \in Fields
    <3>1. ASSUME NEW k \in Kinds, NEW m \in ToSet(builder.masks[k]) PROVE m.name \in Fields
      <4>1. builder.masks[k] \in Seq(MaskType)
        BY <2>1 DEF BuilderType
      <4>2. m \in MaskType
        BY <4>1 DEF ToSet
      <4> QED BY <4>2 DEF MaskType
    <3> QED BY <2>1, <3>1 DEF MasksBuilt
  <2>3. DOMAIN builder.default_return = Fields
    BY <2>1 DEF BuilderType, DefaultMaps
  <2> QED BY <2>2, <2>3 DEF BuilderInv, TypeOK
<1> QED BY <1>1, BuilderInvariant, PTL

\* After any mix of accepted and rejected policies, rule i of the prompt, entry i of masks_by_index
\* and the masks of the i-th accepted policy are the same thing, and no mask is shared.
THEOREM BuilderMasksFollowRules == Spec => []MasksFollowRules
<1>1. BuilderInv => MasksFollowRules
  <2> SUFFICES ASSUME BuilderInv PROVE MasksFollowRules
    OBVIOUS
  <2>1. /\ added \in Seq(PolicyRecords) /\ DOMAIN added = 1..Len(added)
        /\ MasksBuilt(builder, added) /\ RulesBuilt(builder, added)
    BY DEF BuilderInv, Built
  <2>2. AllMasks = MasksOf(builder)
    BY TheMasks
  <2>3. ASSUME NEW i \in DOMAIN added
        PROVE  /\ ToSet(builder.masks_by_index[i]) = {m.mask : m \in {x \in AllMasks : x.policy_index = i}}
               /\ \A f \in Fields :
                    (\E m \in AllMasks : m.policy_index = i /\ m.name = f)
                      <=> (\E x \in ToSet(added[i].type) : x.name = f) /\ added[i].action[f] # Unset
    <3>1. /\ ToSet(builder.masks_by_index[i]) = RuleMasks(AllMasks, i)
          /\ Covers(AllMasks, i, added[i])
      BY <2>1, <2>2 DEF RulesBuilt
    <3> QED BY <3>1 DEF RuleMasks, Covers
  <2>4. \A m, n \in AllMasks : m.mask = n.mask => m = n
    BY <2>1, <2>2 DEF MasksBuilt
  <2>5. {m.policy_index : m \in AllMasks} \subseteq DOMAIN added
    BY <2>1, <2>2 DEF MasksBuilt
  <2>6. builder.policy_index = Len(added) + 1 /\ Len(builder.masks_by_index) = Len(added)
    BY <2>1 DEF RulesBuilt
  <2> QED BY <2>3, <2>4, <2>5, <2>6 DEF MasksFollowRules
<1> QED BY <1>1, BuilderInvariant, PTL

\* The prompt holds the accepted rules from 1 on in one user message, and the schema asks for exactly
\* the masks and the two bookkeeping keys.
THEOREM BuilderRequestMatchesMasks == Spec => []RequestMatchesMasks
<1>1. BuilderInv => RequestMatchesMasks
  <2> SUFFICES ASSUME BuilderInv PROVE RequestMatchesMasks
    OBVIOUS
  <2>1. added \in Seq(PolicyRecords) /\ DOMAIN added = 1..Len(added) /\ RequestBuilt(builder, added)
    BY DEF BuilderInv, Built
  <2>2. DOMAIN builder.properties = MaskIds(builder) \cup {RuleNumbers, Justification}
    BY <2>1, TheMasks DEF RequestBuilt
  <2>3. CASE added = <<>>
    BY <2>1, <2>2, <2>3 DEF RequestBuilt, RequestMatchesMasks
  <2>4. CASE added # <<>>
    <3> DEFINE all == [i \in DOMAIN added |-> <<"rule", i>>]
    <3>1. builder.messages = <<[role |-> "user", blocks |-> all]>>
      BY <2>1, <2>4 DEF RequestBuilt
    <3>2. Len(builder.messages) <= 1 /\ builder.messages[1].blocks = all
      <4> HIDE DEF all
      <4> QED BY <3>1
    <3> QED BY <2>2, <3>2 DEF RequestMatchesMasks
  <2> QED BY <2>3, <2>4
<1> QED BY <1>1, BuilderInvariant, PTL

\* What the invariant says of a report in the caller's hands.
LEMMA ReportConsumed ==
  ASSUME BuilderInv, consumed
  PROVE  MatchedBy(AllMasks, ir, report) /\ ValuesBy(AllMasks, ir, report)
<1>1. Built(builder, added) /\ ir \in [MaskIds(builder) -> Answers] /\ report = consume_ir(builder, ir)
  BY DEF BuilderInv
<1>2. ir \in [MaskIds(builder) -> JsonAnswers]
  BY <1>1, InputTypes
<1>3. MatchedBy(MasksOf(builder), ir, report) /\ ValuesBy(MasksOf(builder), ir, report)
  BY <1>1, <1>2, ConsumeEffect
<1> QED BY <1>3, TheMasks

\* Whatever the LLM answers, rules_matched of the report names exactly the rules of which some mask
\* was answered in a way that counts.
THEOREM BuilderMatchesAttributed == Spec => []MatchesAttributed
<1>1. BuilderInv => MatchesAttributed
  BY ReportConsumed DEF MatchesAttributed, MatchedBy
<1> QED BY <1>1, BuilderInvariant, PTL

\* No answer of the LLM puts a number, string or enum into the output that differs from what a matched
\* policy names for the field; a bool or a value for a policy that names null is the answer to such a
\* policy's mask, and every string of an array is in the answer to such a mask.
THEOREM BuilderValuesComeFromPolicies == Spec => []ValuesComeFromPolicies
<1>1. BuilderInv => ValuesComeFromPolicies
  <2> SUFFICES ASSUME BuilderInv, consumed, NEW f \in Fields
               PROVE  LET x == report.value[f]
                          matching == {m \in AllMasks :
                                         m.name = f /\ m.policy_index \in ToSet(report.rules_matched)}
                      IN /\ x # Unset => \E m \in matching : Justifies(m, ir[m.mask], x)
                         /\ x[1] = "array" =>
                              \A s \in ToSet(x[2]) : \E m \in matching : Gives(m, ir[m.mask], s)
    BY DEF ValuesComeFromPolicies
  <2> DEFINE x == report.value[f]
             matching == {m \in AllMasks : m.name = f /\ m.policy_index \in ToSet(report.rules_matched)}
  <2>1. \A m \in AllMasks : m.name = f /\ Fires(m, ir[m.mask]) => m \in matching
    BY ReportConsumed DEF MatchedBy
  <2>2. x # Unset => \E m \in AllMasks : m.name = f /\ Fires(m, ir[m.mask]) /\ Justifies(m, ir[m.mask], x)
    BY ReportConsumed DEF ValuesBy
  <2>3. \A s : Listed(x, s) => \E m \in AllMasks : m.name = f /\ Fires(m, ir[m.mask]) /\ Gives(m, ir[m.mask], s)
    BY ReportConsumed DEF ValuesBy
  <2> HIDE DEF matching, x
  <2>4. x # Unset => \E m \in matching : Justifies(m, ir[m.mask], x)
    BY <2>1, <2>2
  <2>5. x[1] = "array" => \A s \in ToSet(x[2]) : \E m \in matching : Gives(m, ir[m.mask], s)
    BY <2>1, <2>3 DEF Listed
  <2> QED BY <2>4, <2>5 DEF x, matching
<1> QED BY <1>1, BuilderInvariant, PTL

\* An answer of the type the schema asks for is one that the mask reads.
LEMMA SchemaFits ==
  ASSUME NEW m \in MaskType, NEW v \in JsonAnswers, FitsSchema(SchemaOf(m.kind), v)
  PROVE  Fits(m, v)
<1>1. m.kind \in Kinds
  BY DEF MaskType
<1>2. CASE m.kind \in {"bool", "enum"}
  BY <1>2 DEF SchemaOf, FitsSchema, Fits
<1>3. CASE m.kind = "number"
  BY <1>3 DEF SchemaOf, FitsSchema, Fits
<1>4. CASE m.kind = "string"
  BY <1>4 DEF SchemaOf, FitsSchema, Fits
<1>5. CASE m.kind = "array"
  <2>1. v[1] = "array" /\ v[3] <= 1 /\ \A j \in DOMAIN v[2] : v[2][j] \in StringValues
    BY <1>5 DEF SchemaOf, FitsSchema
  <2>2. v[3] \in Nat
    BY <2>1, AnswerTags
  <2>3. v[3] < MaxDepth
    BY <2>1, <2>2, MaxDepthType
  <2>4. \A j \in DOMAIN v[2] : v[2][j][1] = "string"
    BY <2>1, ScalarTags
  <2>5. extract_strings(v) = <<"some", [j \in DOMAIN v[2] |-> v[2][j][2]]>>
    BY <2>1, <2>3, <2>4 DEF extract_strings
  <2>6. extract_strings(v) # None
    BY <2>5 DEF None
  <2> QED BY <1>5, <2>6 DEF Fits
<1> QED BY <1>1, <1>2, <1>3, <1>4, <1>5 DEF Kinds

\* Whatever mix of policies of one type is added, an answer that honours the JSON schema (or leaves
\* keys out) is consumed without a type check failure, a default conflict or an invariant violation,
\* provided the type names no field twice and JSON can hold its default numbers.
THEOREM BuilderSchemaSuffices ==
  ASSUME \A p \in PolicySet : PlainType(p.type)
  PROVE  Spec => []SchemaSuffices
<1>1. BuilderInv => SchemaSuffices
  <2> SUFFICES ASSUME BuilderInv, consumed, SameType, ~failed,
                      \A x \in MaskIds(builder) : ir[x] = Unset \/ FitsSchema(builder.properties[x], ir[x])
               PROVE  report.errors = <<>>
    BY DEF SchemaSuffices
  <2>1. /\ added \in Seq(PolicyRecords) /\ Built(builder, added) /\ report = consume_ir(builder, ir)
        /\ ir \in [MaskIds(builder) -> Answers] /\ builder.default_return = default_value(LatestType(added))
        /\ \A i \in 1..Len(added) : added[i] \in PolicySet
    BY DEF BuilderInv
  <2>2. ir \in [MaskIds(builder) -> JsonAnswers]
    BY <2>1, InputTypes
  <2>3. LatestType(added) \in Seq(FieldRecords) /\ PlainType(LatestType(added))
        /\ \A i \in 1..Len(added) : added[i].type = LatestType(added)
    <3>1. CASE added = <<>>
      <4>1. LatestType(added) = <<>> /\ ToSet(<<>>) = {}
        BY <3>1 DEF LatestType, ToSet
      <4> QED BY <3>1, <4>1 DEF PlainType, LatestType
    <3>2. CASE added # <<>>
      <4> DEFINE n == Len(added)
      <4>1. n \in 1..Len(added) /\ DOMAIN added = 1..Len(added) /\ LatestType(added) = added[n].type
        BY <2>1, <3>2 DEF LatestType, Last
      <4>2. added[n] \in PolicyRecords /\ added[n] \in PolicySet
        BY <2>1, <4>1
      <4> HIDE DEF n
      <4>3. LatestType(added) \in Seq(FieldRecords)
        BY <4>1, <4>2 DEF PolicyRecords
      <4> QED BY <4>1, <4>2, <4>3 DEF SameType
    <3> QED BY <3>1, <3>2
  <2>4. ASSUME NEW m \in MasksOf(builder) PROVE Fits(m, ir[m.mask])
    <3>1. m.mask \in MaskIds(builder) /\ m \in MaskType
      <4>1. builder \in BuilderType
        BY <2>1 DEF Built
      <4>2. MasksInOrder(builder) \in Seq(MaskType) /\ ToSet(MasksInOrder(builder)) = MasksOf(builder)
        BY <4>1, InOrder
      <4> QED BY <4>2 DEF MaskIds, ToSet
    <3>2. builder.properties[m.mask] = SchemaOf(m.kind)
      BY <2>1 DEF Built, RequestBuilt
    <3>3. ir[m.mask] \in JsonAnswers /\ (ir[m.mask] = Unset \/ FitsSchema(SchemaOf(m.kind), ir[m.mask]))
      BY <2>2, <3>1, <3>2
    <3>4. CASE ir[m.mask] = Unset
      BY <3>4 DEF Fits
    <3>5. CASE FitsSchema(SchemaOf(m.kind), ir[m.mask])
      BY <3>1, <3>3, <3>5, SchemaFits
    <3> QED BY <3>3, <3>4, <3>5
  <2>5. CleanAfter(TRUE, consume_ir(builder, ir))
    BY <2>1, <2>2, <2>3, <2>4, ConsumeClean
  <2> QED BY <2>1, <2>5 DEF CleanAfter
<1> QED BY <1>1, BuilderInvariant, PTL
=============================================================================
