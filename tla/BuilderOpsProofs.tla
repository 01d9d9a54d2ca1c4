--------------------------- MODULE BuilderOpsProofs ---------------------------
(***************************************************************************)
(* Facts about the operations of ReportBuilder, for every policy and every *)
(* answer: what add_policy keeps true of a builder, and what consume_ir    *)
(* puts in a report.                                                       *)
(***************************************************************************)
EXTENDS BuilderOps, SequenceProofs
-----------------------------------------------------------------------------
(* Keep, the filter of add_policy's loop over the fields.                   *)

\* h[k] is the result of Keep after the first k elements.
KeepsAlong(h, s, S) ==
  /\ h[0] = <<>> /\ Keep(s, S) = h[Len(s)]
  /\ \A k \in 1..Len(s) : h[k] = IF s[k] \in S THEN Append(h[k - 1], s[k]) ELSE h[k - 1]

LEMMA KeepFold ==
  ASSUME NEW X, NEW s \in Seq(X), NEW S
  PROVE  \E h \in [0..Len(s) -> Seq(X)] : KeepsAlong(h, s, S)
<1> DEFINE n == Len(s)
           A == Seq(X)
           Op(kept, x) == IF x \in S THEN Append(kept, x) ELSE kept
           F == [p \in A \X (1..n) |-> Op(p[1], s[p[2]])]
           Body(g) == [t \in SUBSET DOMAIN s |-> IF t = {} THEN <<>> ELSE Op(g[t \ {Max(t)}], s[Max(t)])]
           it == CHOOSE g : g = Body(g)
<1>1. n \in Nat /\ DOMAIN s = 1..n /\ \A k \in 1..n : s[k] \in X
  OBVIOUS
<1>2. <<>> \in A /\ \A a \in A, x \in X : Op(a, x) \in A
  OBVIOUS
<1>3. Keep(s, S) = it[DOMAIN s]
  BY DEF Keep, FoldLeft, MapThenFoldSet
<1> HIDE DEF n, A, Op
<1>4. F \in [A \X (1..n) -> A] /\ \A a \in A, k \in 1..n : F[<<a, k>>] = Op(a, s[k])
  BY <1>1, <1>2
<1> HIDE DEF F
<1>5. PICK g \in [SUBSET (1..n) -> A] : FoldsOver(g, F, <<>>, n)
  BY <1>1, <1>2, <1>4, FoldExists
<1>6. g = Body(g)
  <2>1. ASSUME NEW t \in SUBSET (1..n), t # {} PROVE g[t] = Op(g[t \ {Max(t)}], s[Max(t)])
    <3>1. Max(t) \in 1..n /\ g[t \ {Max(t)}] \in A /\ g[t] = F[<<g[t \ {Max(t)}], Max(t)>>]
      BY <1>5, <2>1 DEF FoldsOver
    <3> QED BY <1>4, <3>1
  <2>2. g[{}] = <<>>
    BY <1>5 DEF FoldsOver
  <2> QED BY <1>1, <1>5, <2>1, <2>2
<1>7. it = Body(it)
  <2> HIDE DEF Body
  <2> QED BY <1>6, Zenon
<1> HIDE DEF it
<1>8. FoldsTo(it, F, A, <<>>, n)
  BY <1>1, <1>4, <1>5, <1>7 DEF FoldsTo, FoldsOver
<1>9. PICK h \in [0..n -> A] : Along(h, F, <<>>, n, it[1..n])
  BY <1>1, <1>2, <1>4, <1>8, FoldAlong
<1>10. ASSUME NEW k \in 1..n PROVE h[k] = Op(h[k - 1], s[k])
  <2>1. k - 1 \in 0..n /\ h[k] = F[<<h[k - 1], k>>]
    BY <1>1, <1>9 DEF Along
  <2> QED BY <1>4, <1>9, <2>1
<1> QED BY <1>1, <1>3, <1>9, <1>10 DEF n, A, Op, Along, KeepsAlong

\* Keep returns the elements of s that lie in S.
LEMMA KeepSet ==
  ASSUME NEW X, NEW s \in Seq(X), NEW S
  PROVE  Keep(s, S) \in Seq(X) /\ ToSet(Keep(s, S)) = ToSet(s) \cap S
<1>1. PICK h \in [0..Len(s) -> Seq(X)] : KeepsAlong(h, s, S)
  BY KeepFold
<1>2. Len(s) \in Nat /\ DOMAIN s = 1..Len(s)
  OBVIOUS
<1> DEFINE P(k) == ToSet(h[k]) = {s[j] : j \in 1..k} \cap S
           T == {k \in Nat : k <= Len(s) => P(k)}
<1>3. P(0)
  BY <1>1 DEF ToSet, KeepsAlong
<1>4. ASSUME NEW k \in Nat, P(k), k + 1 <= Len(s) PROVE P(k + 1)
  <2>1. k + 1 \in 1..Len(s) /\ (k + 1) - 1 = k /\ h[k] \in Seq(X) /\ s[k + 1] \in X
    BY <1>2, <1>4
  <2>2. h[k + 1] = IF s[k + 1] \in S THEN Append(h[k], s[k + 1]) ELSE h[k]
    BY <1>1, <2>1 DEF KeepsAlong
  <2>3. {s[j] : j \in 1..(k + 1)} = {s[j] : j \in 1..k} \cup {s[k + 1]}
    <3>1. \A j : j \in 1..(k + 1) <=> j \in 1..k \/ j = k + 1
      OBVIOUS
    <3> QED BY <3>1
  <2>4. ToSet(Append(h[k], s[k + 1])) = ToSet(h[k]) \cup {s[k + 1]}
    BY <2>1, AppendSet
  <2> QED BY <1>4, <2>2, <2>3, <2>4
<1> HIDE DEF P
<1>5. 0 \in T /\ \A k \in Nat : k \in T => k + 1 \in T
  BY <1>3, <1>4
<1>6. Nat \subseteq T
  <2> HIDE DEF T
  <2> QED BY <1>5, NatSetInduction
<1>7. P(Len(s))
  BY <1>2, <1>6
<1>8. {s[j] : j \in 1..Len(s)} = ToSet(s)
  BY <1>2 DEF ToSet
<1> QED BY <1>1, <1>2, <1>7, <1>8 DEF P, KeepsAlong
-----------------------------------------------------------------------------
(* The parts of a builder.                                                  *)

Ids == {"mask"} \X Nat

MaskType ==
  [kind : Kinds, policy_index : Nat, name : Fields, mask : Ids,
   default : {None, NonFinite} \cup Scalars, value : {None} \cup Scalars, on_conflict : Strategies]

\* What a mask expects of the answer has the type of its field.
Expects(m) ==
  CASE m.kind = "number" -> m.value \in {None} \cup NumberValues
    [] m.kind \in {"string", "enum"} -> m.value \in {None} \cup StringValues
    [] OTHER -> m.value = None

Schemas == {"integers", "boolean", "number", "string", "strings"}
PropertyMaps == UNION {[S -> Schemas] : S \in SUBSET (Ids \cup {RuleNumbers, Justification})}

DefaultMaps == [Fields -> {Unset} \cup Scalars]

BuilderType ==
  [mask_index : Nat, masks : [Kinds -> Seq(MaskType)], masks_by_index : Seq(Seq(Ids)),
   default_return : DefaultMaps, messages : Seq([role : {"user"}, blocks : Seq({"rule"} \X Nat)]),
   policy_index : Nat, properties : PropertyMaps, drawn : Nat]

\* The masks of all kinds.
MasksOf(b) == UNION {ToSet(b.masks[k]) : k \in Kinds}

\* consume_ir applies the masks of every kind and no others.
LEMMA InOrder ==
  ASSUME NEW b \in BuilderType
  PROVE  MasksInOrder(b) \in Seq(MaskType) /\ ToSet(MasksInOrder(b)) = MasksOf(b)
<1> DEFINE B == b.masks["bool"]
           N == b.masks["number"]
           S == b.masks["string"]
           A == b.masks["array"]
           E == b.masks["enum"]
<1>1. B \in Seq(MaskType) /\ N \in Seq(MaskType) /\ S \in Seq(MaskType) /\ A \in Seq(MaskType)
      /\ E \in Seq(MaskType)
  BY DEF BuilderType, Kinds
<1>2. MasksInOrder(b) = (((B \o N) \o S) \o A) \o E
  BY DEF MasksInOrder
<1>3. MasksOf(b) = ToSet(B) \cup ToSet(N) \cup ToSet(S) \cup ToSet(A) \cup ToSet(E)
  BY DEF MasksOf, Kinds
<1> HIDE DEF B, N, S, A, E
<1> DEFINE BN == B \o N
           BNS == BN \o S
           BNSA == BNS \o A
           BNSAE == BNSA \o E
<1>4. BN \in Seq(MaskType) /\ ToSet(BN) = ToSet(B) \cup ToSet(N)
  BY <1>1, ConcatSet
<1>5. MasksInOrder(b) = BNSAE
  BY <1>2
<1> HIDE DEF BN
<1>6. BNS \in Seq(MaskType) /\ ToSet(BNS) = ToSet(BN) \cup ToSet(S)
  BY <1>1, <1>4, ConcatSet
<1> HIDE DEF BNS
<1>7. BNSA \in Seq(MaskType) /\ ToSet(BNSA) = ToSet(BNS) \cup ToSet(A)
  BY <1>1, <1>6, ConcatSet
<1> HIDE DEF BNSA
<1>8. BNSAE \in Seq(MaskType) /\ ToSet(BNSAE) = ToSet(BNSA) \cup ToSet(E)
  BY <1>1, <1>7, ConcatSet
<1> QED BY <1>3, <1>4, <1>5, <1>6, <1>7, <1>8
-----------------------------------------------------------------------------
(* What the accepted policies `added` leave in a builder.                   *)

\* Mask m was made for a field of the type of policy p.
Made(m, p) == \E y \in ToSet(p.type) : y.name = m.name /\ y.kind = m.kind /\ y.default = m.default

\* Every mask is of the kind it is filed under, belongs to an accepted policy and has an identifier
\* of its own.
MasksBuilt(b, added) ==
  /\ \A k \in Kinds : \A m \in ToSet(b.masks[k]) : m.kind = k
  /\ \A m \in MasksOf(b) : /\ Expects(m) /\ m.policy_index \in 1..Len(added)
                           /\ Made(m, added[m.policy_index])
                           /\ \E j \in 1..b.drawn : m.mask = Uuid(j)
  /\ \A m, n \in MasksOf(b) : m.mask = n.mask => m = n

\* Among the masks M, the identifiers of those of rule i; and do those of rule i name exactly the
\* fields of p's type that its action mentions?
RuleMasks(M, i) == {m.mask : m \in {x \in M : x.policy_index = i}}
Covers(M, i, p) ==
  \A f \in Fields :
    (\E m \in M : m.policy_index = i /\ m.name = f)
      <=> (\E x \in ToSet(p.type) : x.name = f) /\ p.action[f] # Unset

\* Policy i has one mask for each field that its action mentions, listed at masks_by_index[i].
RulesBuilt(b, added) ==
  /\ b.policy_index = Len(added) + 1
  /\ Len(b.masks_by_index) = Len(added)
  /\ \A i \in 1..Len(added) : /\ ToSet(b.masks_by_index[i]) = RuleMasks(MasksOf(b), i)
                              /\ Covers(MasksOf(b), i, added[i])

\* One user message with the rules from 1 on; a schema with the masks and the two bookkeeping keys.
RequestBuilt(b, added) ==
  /\ b.messages = IF added = <<>> THEN <<>>
                  ELSE <<[role |-> "user", blocks |-> [i \in 1..Len(added) |-> <<"rule", i>>]]>>
  /\ DOMAIN b.properties = {m.mask : m \in MasksOf(b)} \cup {RuleNumbers, Justification}
  /\ \A m \in MasksOf(b) : b.properties[m.mask] = SchemaOf(m.kind)

Built(b, added) ==
  /\ b \in BuilderType
  /\ MasksBuilt(b, added) /\ RulesBuilt(b, added) /\ RequestBuilt(b, added)

LEMMA NewBuilt == Built(NewBuilder, <<>>)
<1>1. NewBuilder \in BuilderType
  <2>1. NewBuilder.masks \in [Kinds -> Seq(MaskType)]
    BY DEF NewBuilder
  <2>2. NewBuilder.properties \in PropertyMaps
    <3> DEFINE S == {RuleNumbers, Justification}
    <3>1. NewBuilder.properties \in [S -> Schemas]
      BY DEF NewBuilder, Schemas
    <3>2. S \in SUBSET (Ids \cup {RuleNumbers, Justification})
      OBVIOUS
    <3> QED BY <3>1, <3>2 DEF PropertyMaps
  <2>3. NewBuilder.default_return \in DefaultMaps
    BY DEF NewBuilder, DefaultMaps
  <2> QED BY <2>1, <2>2, <2>3 DEF NewBuilder, BuilderType
<1>0. \A k \in Kinds : ToSet(NewBuilder.masks[k]) = {}
  BY DEF NewBuilder, ToSet
<1>2. MasksOf(NewBuilder) = {}
  BY <1>0 DEF MasksOf
<1>3. MasksBuilt(NewBuilder, <<>>)
  BY <1>0, <1>2 DEF MasksBuilt
<1>4. RulesBuilt(NewBuilder, <<>>)
  BY DEF RulesBuilt, NewBuilder
<1>5. RequestBuilt(NewBuilder, <<>>)
  BY <1>2 DEF RequestBuilt, NewBuilder
<1> QED BY <1>1, <1>3, <1>4, <1>5 DEF Built

\* The defaults of a type are scalars.
LEMMA ShownDefault ==
  ASSUME NEW type \in Seq(FieldRecords), NEW f \in Fields, default_value(type)[f] # Unset
  PROVE  \E y \in ToSet(type) : /\ y \in FieldRecords /\ y.name = f
                                /\ y.default \notin {None, NonFinite} /\ default_value(type)[f] = y.default
<1> DEFINE S == ShownDefaults(type, f)
           j == Max(S)
<1>1. Len(type) \in Nat /\ DOMAIN type = 1..Len(type)
  OBVIOUS
<1>2. S \subseteq DOMAIN type /\ \A k \in S : type[k].name = f /\ type[k].default \notin {None, NonFinite}
  BY DEF ShownDefaults
<1>3. S # {} /\ default_value(type)[f] = type[j].default
  BY DEF default_value
<1> HIDE DEF S
<1>4. j \in S
  BY <1>1, <1>2, <1>3, MaxInside
<1> HIDE DEF j
<1>5. type[j] \in FieldRecords /\ type[j] \in ToSet(type)
  BY <1>1, <1>2, <1>4 DEF ToSet
<1> QED BY <1>2, <1>3, <1>4, <1>5

LEMMA DefaultsType ==
  ASSUME NEW p \in PolicyRecords
  PROVE  default_value(p.type) \in DefaultMaps
<1> DEFINE type == p.type
<1>0. type \in Seq(FieldRecords)
  BY DEF PolicyRecords
<1> HIDE DEF type
<1>1. ASSUME NEW f \in Fields PROVE default_value(type)[f] \in {Unset} \cup Scalars
  <2>1. CASE default_value(type)[f] # Unset
    BY <1>0, <2>1, ShownDefault DEF FieldRecords
  <2> QED BY <2>1
<1>2. default_value(type) = [f \in Fields |-> default_value(type)[f]]
  BY DEF default_value
<1> QED BY <1>1, <1>2 DEF DefaultMaps, type

\* The two assignments of it, as an operator.
Begun(b, n, d) == [b EXCEPT !.mask_index = n, !.default_return = d]

LEMMA BegunParts ==
  ASSUME NEW b \in BuilderType, NEW n \in Nat, NEW d \in DefaultMaps
  PROVE  LET c == Begun(b, n, d)
         IN  /\ c \in BuilderType /\ c.mask_index = n /\ c.default_return = d
             /\ c.masks = b.masks /\ c.masks_by_index = b.masks_by_index /\ c.messages = b.messages
             /\ c.policy_index = b.policy_index /\ c.properties = b.properties /\ c.drawn = b.drawn
  BY DEF Begun, BuilderType

\* add_policy up to its look at the action keeps what was built.
LEMMA BeginBuilt ==
  ASSUME NEW b, NEW added, Built(b, added), NEW p \in PolicyRecords
  PROVE  /\ Built(BeginAddPolicy(b, p), added)
         /\ BeginAddPolicy(b, p).mask_index = b.mask_index + 1
         /\ BeginAddPolicy(b, p).drawn = b.drawn
         /\ BeginAddPolicy(b, p).default_return = default_value(p.type)
<1> DEFINE c == BeginAddPolicy(b, p)
<1>0. c = Begun(b, b.mask_index + 1, default_value(p.type))
  BY DEF BeginAddPolicy, Begun
<1>1. b \in BuilderType /\ default_value(p.type) \in DefaultMaps /\ b.mask_index + 1 \in Nat
  BY DefaultsType DEF Built, BuilderType
<1>2. /\ c \in BuilderType /\ c.mask_index = b.mask_index + 1 /\ c.default_return = default_value(p.type)
      /\ c.masks = b.masks /\ c.masks_by_index = b.masks_by_index /\ c.messages = b.messages
      /\ c.policy_index = b.policy_index /\ c.properties = b.properties /\ c.drawn = b.drawn
  <2> HIDE DEF c
  <2> QED BY <1>0, <1>1, BegunParts
<1> HIDE DEF c
<1>3. MasksOf(c) = MasksOf(b)
  BY <1>2 DEF MasksOf
<1>4. Built(c, added)
  <2>1. MasksBuilt(c, added)
    BY <1>2, <1>3 DEF Built, MasksBuilt
  <2>2. RulesBuilt(c, added)
    BY <1>2, <1>3 DEF Built, RulesBuilt
  <2>3. RequestBuilt(c, added)
    BY <1>2, <1>3 DEF Built, RequestBuilt
  <2> QED BY <1>2, <2>1, <2>2, <2>3 DEF Built
<1> QED BY <1>2, <1>4 DEF c
-----------------------------------------------------------------------------
(* The masks of one policy.                                                 *)

\* The tag of a value decides which of the JSON types it has.
LEMMA ScalarTags ==
  /\ \A x \in Bools : x[1] = "bool"
  /\ \A x \in NumberValues : x[1] = "number"
  /\ \A x \in StringValues : x[1] = "string"
  /\ Unset[1] = "unset" /\ None[1] = "none" /\ Null[1] = "null" /\ NonFinite[1] = "nonfinite"
<1>1. \A x \in Bools : x[1] = "bool"
  BY DEF Bools
<1>2. \A x \in NumberValues : x[1] = "number"
  BY DEF NumberValues
<1>3. \A x \in StringValues : x[1] = "string"
  BY DEF StringValues
<1> QED BY <1>1, <1>2, <1>3 DEF Unset, None, Null, NonFinite

LEMMA ActionTags ==
  ASSUME NEW v \in ActionValues
  PROVE  /\ v[1] = "bool" => v \in Bools
         /\ v[1] = "number" => v \in NumberValues
         /\ v[1] = "string" => v \in StringValues
         /\ v[1] = "null" => v = Null
<1>1. \A x \in {"array"} \X Seq({Null} \cup Scalars) : x[1] = "array"
  OBVIOUS
<1> QED BY <1>1, ScalarTags DEF ActionValues, Scalars

\* The fields an action mentions are fields of the type, with a value in the action.
LEMMA MentionedFields ==
  ASSUME NEW p \in PolicyRecords
  PROVE  /\ Mentioned(p) \in Seq(FieldRecords)
         /\ \A x : x \in ToSet(Mentioned(p)) <=> x \in ToSet(p.type) /\ p.action[x.name] # Unset
<1> DEFINE K == {field \in ToSet(p.type) : p.action[field.name] # Unset}
<1>1. p.type \in Seq(FieldRecords)
  BY DEF PolicyRecords
<1>2. Mentioned(p) = Keep(p.type, K)
  BY DEF Mentioned
<1>3. \A x : x \in K <=> x \in ToSet(p.type) /\ p.action[x.name] # Unset
  OBVIOUS
<1> HIDE DEF K
<1>4. Keep(p.type, K) \in Seq(FieldRecords) /\ ToSet(Keep(p.type, K)) = ToSet(p.type) \cap K
  BY <1>1, KeepSet
<1> QED BY <1>2, <1>3, <1>4

\* The mask of an accepted field.
LEMMA NewMaskParts ==
  ASSUME NEW b \in BuilderType, NEW j \in Nat, NEW field \in FieldRecords, NEW v \in ActionValues,
         Accepts(field, v)
  PROVE  LET m == NewMask(b, j, field, v)
         IN  /\ m \in MaskType /\ Expects(m) /\ m.kind = field.kind /\ m.name = field.name
             /\ m.default = field.default
             /\ m.policy_index = b.policy_index /\ m.mask = Uuid(b.drawn + j)
<1> DEFINE x == IF field.kind \in {"bool", "array"} \/ v = Null THEN None ELSE v
           m == NewMask(b, j, field, v)
<1>1. /\ field.kind \in Kinds /\ field.name \in Fields /\ field.on_conflict \in Strategies
      /\ field.default \in {None, NonFinite} \cup Scalars
      /\ b.policy_index \in Nat /\ b.drawn \in Nat
  BY DEF FieldRecords, BuilderType
<1>2. Uuid(b.drawn + j) \in Ids
  BY <1>1 DEF Uuid, Ids
<1>3. /\ field.kind = "number" => x \in {None} \cup NumberValues
      /\ field.kind \in {"string", "enum"} => x \in {None} \cup StringValues
      /\ field.kind \notin {"number", "string", "enum"} => x = None
  <2>1. CASE field.kind = "number"
    BY <2>1, ActionTags DEF Accepts
  <2>2. CASE field.kind = "string"
    BY <2>2, ActionTags DEF Accepts
  <2>3. CASE field.kind = "enum"
    BY <2>3, ActionTags DEF Accepts
  <2>4. CASE field.kind \in {"bool", "array"}
    BY <2>4
  <2> QED BY <1>1, <2>1, <2>2, <2>3, <2>4 DEF Kinds
<1>4. x \in {None} \cup Scalars
  BY <1>1, <1>3 DEF Kinds, Scalars
<1>5. m = [kind |-> field.kind, policy_index |-> b.policy_index, name |-> field.name,
           mask |-> Uuid(b.drawn + j), default |-> field.default, value |-> x,
           on_conflict |-> field.on_conflict]
  BY DEF NewMask
<1> HIDE DEF x
<1>6. /\ m \in MaskType /\ m.kind = field.kind /\ m.name = field.name /\ m.value = x
      /\ m.default = field.default
      /\ m.policy_index = b.policy_index /\ m.mask = Uuid(b.drawn + j)
  BY <1>1, <1>2, <1>4, <1>5 DEF MaskType
<1> HIDE DEF m
<1>7. Expects(m)
  BY <1>1, <1>3, <1>6 DEF Expects, Kinds
<1> QED BY <1>6, <1>7 DEF m

\* The masks add_policy draws for an accepted policy, in order.
NewMasks(b, p) ==
  LET fields == Mentioned(p)
  IN [j \in DOMAIN fields |-> NewMask(b, j, fields[j], p.action[fields[j].name])]

LEMMA NewMasksParts ==
  ASSUME NEW b \in BuilderType, NEW p \in PolicyRecords, ~AddPolicyFails(p)
  PROVE  /\ NewMasks(b, p) \in Seq(MaskType)
         /\ \A j \in DOMAIN NewMasks(b, p) : /\ Expects(NewMasks(b, p)[j]) /\ Made(NewMasks(b, p)[j], p)
                                             /\ NewMasks(b, p)[j].policy_index = b.policy_index
                                             /\ NewMasks(b, p)[j].mask = Uuid(b.drawn + j)
         /\ Covers(ToSet(NewMasks(b, p)), b.policy_index, p)
<1> DEFINE fields == Mentioned(p)
           new == NewMasks(b, p)
           n == Len(fields)
<1>1. /\ fields \in Seq(FieldRecords) /\ n \in Nat /\ DOMAIN fields = 1..n
      /\ \A x : x \in ToSet(fields) <=> x \in ToSet(p.type) /\ p.action[x.name] # Unset
  BY MentionedFields
<1>2. /\ DOMAIN new = 1..n
      /\ \A j \in 1..n : new[j] = NewMask(b, j, fields[j], p.action[fields[j].name])
  BY <1>1 DEF NewMasks
<1>3. \A j \in 1..n : /\ fields[j] \in FieldRecords /\ fields[j].name \in Fields
                      /\ p.action[fields[j].name] \in ActionValues
                      /\ Accepts(fields[j], p.action[fields[j].name])
  <2>1. \A j \in 1..n : fields[j] \in FieldRecords
    BY <1>1
  <2>2. \A j \in 1..n : Accepts(fields[j], p.action[fields[j].name])
    BY <1>1 DEF AddPolicyFails
  <2> HIDE DEF fields
  <2>3. \A j \in 1..n : fields[j].name \in Fields
    BY <2>1 DEF FieldRecords
  <2> QED BY <2>1, <2>2, <2>3 DEF PolicyRecords
<1>4. new = [j \in 1..n |-> new[j]]
  BY <1>1 DEF NewMasks
<1>5. \A x : x \in ToSet(fields) <=> \E j \in 1..n : x = fields[j]
  BY <1>1 DEF ToSet
<1>6. \A x : x \in ToSet(new) <=> \E j \in 1..n : x = new[j]
  BY <1>2 DEF ToSet
<1> HIDE DEF fields, n, new
<1>7. \A j \in 1..n : /\ new[j] \in MaskType /\ Expects(new[j])
                      /\ new[j].policy_index = b.policy_index /\ new[j].mask = Uuid(b.drawn + j)
                      /\ new[j].name = fields[j].name /\ new[j].kind = fields[j].kind
                      /\ new[j].default = fields[j].default
  <2>1. ASSUME NEW j \in 1..n
        PROVE  /\ new[j] \in MaskType /\ Expects(new[j])
               /\ new[j].policy_index = b.policy_index /\ new[j].mask = Uuid(b.drawn + j)
               /\ new[j].name = fields[j].name /\ new[j].kind = fields[j].kind
               /\ new[j].default = fields[j].default
    <3> DEFINE field == fields[j]
               v == p.action[field.name]
    <3>1. field \in FieldRecords /\ v \in ActionValues /\ Accepts(field, v) /\ j \in Nat
          /\ new[j] = NewMask(b, j, field, v)
      BY <1>1, <1>2, <1>3
    <3> HIDE DEF field, v
    <3> QED BY <3>1, NewMaskParts DEF field
  <2> QED BY <2>1
<1>8. new \in Seq(MaskType)
  BY <1>1, <1>4, <1>7
<1>9. Covers(ToSet(new), b.policy_index, p)
  <2>1. ASSUME NEW f \in Fields
        PROVE  (\E m \in ToSet(new) : m.policy_index = b.policy_index /\ m.name = f)
                 <=> (\E x \in ToSet(p.type) : x.name = f) /\ p.action[f] # Unset
    <3>1. (\E m \in ToSet(new) : m.policy_index = b.policy_index /\ m.name = f)
            <=> \E j \in 1..n : fields[j].name = f
      BY <1>6, <1>7
    <3>2. (\E j \in 1..n : fields[j].name = f) <=> \E x \in ToSet(fields) : x.name = f
      BY <1>5
    <3>3. (\E x \in ToSet(fields) : x.name = f)
            <=> (\E x \in ToSet(p.type) : x.name = f) /\ p.action[f] # Unset
      BY <1>1
    <3> QED BY <3>1, <3>2, <3>3
  <2> QED BY <2>1 DEF Covers
<1>10. \A j \in 1..n : Made(new[j], p)
  BY <1>1, <1>5, <1>7 DEF Made
<1> QED BY <1>2, <1>7, <1>8, <1>9, <1>10 DEF new

\* The six assignments with which add_policy commits, as an operator.
Committed(b, ms, ps, mk, mi, pi, dr) ==
  [b EXCEPT !.messages = ms, !.properties = ps, !.masks = mk, !.masks_by_index = mi,
            !.policy_index = pi, !.drawn = dr]

RuleMessages == Seq([role : {"user"}, blocks : Seq({"rule"} \X Nat)])

LEMMA CommittedParts ==
  ASSUME NEW b \in BuilderType, NEW x1 \in RuleMessages, NEW x2 \in PropertyMaps,
         NEW x3 \in [Kinds -> Seq(MaskType)], NEW x4 \in Seq(Seq(Ids)), NEW x5 \in Nat, NEW x6 \in Nat
  PROVE  LET after == Committed(b, x1, x2, x3, x4, x5, x6)
         IN  /\ after \in BuilderType /\ after.mask_index = b.mask_index /\ after.messages = x1
             /\ after.properties = x2 /\ after.masks = x3 /\ after.masks_by_index = x4 /\ after.policy_index = x5
             /\ after.drawn = x6 /\ after.default_return = b.default_return
  BY DEF Committed, BuilderType, RuleMessages

\* Replacing the blocks of a message.
LEMMA NewBlocks ==
  ASSUME NEW r, NEW x, NEW y
  PROVE  [[role |-> r, blocks |-> x] EXCEPT !.blocks = y] = [role |-> r, blocks |-> y]
<1>1. [[role |-> r, blocks |-> x] EXCEPT !.blocks = y] \in [role : {r}, blocks : {y}]
  OBVIOUS
<1>2. \A m \in [role : {r}, blocks : {y}] : m = [role |-> r, blocks |-> y]
  OBVIOUS
<1> QED BY <1>1, <1>2

\* push_or_merge_message puts the block of the next rule behind those of the earlier rules.
LEMMA RulesMerge ==
  ASSUME NEW n \in Nat, NEW messages,
         messages = IF n = 0 THEN <<>>
                    ELSE <<[role |-> "user", blocks |-> [i \in 1..n |-> <<"rule", i>>]]>>
  PROVE  push_or_merge_message(messages, "user", <<<<"rule", n + 1>>>>)
           = <<[role |-> "user", blocks |-> [i \in 1..(n + 1) |-> <<"rule", i>>]]>>
<1> DEFINE old == [i \in 1..n |-> <<"rule", i>>]
           all == [i \in 1..(n + 1) |-> <<"rule", i>>]
           one == <<<<"rule", n + 1>>>>
<1>1. CASE n = 0
  <2>1. all = one
    <3>1. 1..(0 + 1) = {1}
      OBVIOUS
    <3> QED BY <1>1, <3>1
  <2>2. push_or_merge_message(messages, "user", one) = <<[role |-> "user", blocks |-> one]>>
    BY <1>1 DEF push_or_merge_message
  <2> QED BY <2>1, <2>2
<1>2. CASE n # 0
  <2>1. old \in Seq({"rule"} \X Nat) /\ Len(old) = n
    OBVIOUS
  <2>2. old \o one = all
    <3>1. one \in Seq({"rule"} \X Nat) /\ Len(one) = 1 /\ one[1] = <<"rule", n + 1>>
      OBVIOUS
    <3>2. old \o one = [i \in 1..(n + 1) |-> IF i <= n THEN old[i] ELSE one[i - n]]
      BY <2>1, <3>1
    <3>3. \A i \in 1..(n + 1) : (IF i <= n THEN old[i] ELSE one[i - n]) = <<"rule", i>>
      <4>1. ASSUME NEW i \in 1..(n + 1) PROVE (IF i <= n THEN old[i] ELSE one[i - n]) = <<"rule", i>>
        <5>1. CASE i <= n
          BY <5>1
        <5>2. CASE ~(i <= n)
          <6>1. i = n + 1 /\ i - n = 1
            BY <5>2
          <6> QED BY <3>1, <5>2, <6>1
        <5> QED BY <5>1, <5>2
      <4> QED BY <4>1
    <3> HIDE DEF old, one
    <3> QED BY <3>2, <3>3
  <2> DEFINE head == [role |-> "user", blocks |-> old]
  <2>3. messages = <<head>> /\ Len(messages) = 1 /\ Last(messages) = head /\ messages # <<>>
    BY <1>2 DEF Last
  <2>4. push_or_merge_message(messages, "user", one) = [messages EXCEPT ![1].blocks = @ \o one]
    <3>1. Last(messages).role = "user"
      BY <2>3
    <3> HIDE DEF one, old, head
    <3> QED BY <2>3, <3>1 DEF push_or_merge_message
  <2>5. [messages EXCEPT ![1].blocks = @ \o one] = <<[role |-> "user", blocks |-> old \o one]>>
    <3> HIDE DEF one, old
    <3> DEFINE longer == [role |-> "user", blocks |-> old \o one]
               q == [messages EXCEPT ![1].blocks = @ \o one]
    <3>1. q = [messages EXCEPT ![1] = [messages[1] EXCEPT !.blocks = messages[1].blocks \o one]]
      OBVIOUS
    <3>2. messages[1] = head /\ head.blocks = old
      BY <2>3
    <3>3. [head EXCEPT !.blocks = old \o one] = longer
      <4> DEFINE y == old \o one
      <4> HIDE DEF y
      <4> QED BY NewBlocks DEF y
    <3>4. q = [messages EXCEPT ![1] = longer]
      <4> HIDE DEF longer, head, q
      <4> QED BY <3>1, <3>2, <3>3
    <3> HIDE DEF longer, head, q
    <3>5. q = <<longer>>
      BY <2>3, <3>4
    <3> QED BY <3>5 DEF longer, q
  <2> HIDE DEF one, old, all
  <2>6. push_or_merge_message(messages, "user", one) = <<[role |-> "user", blocks |-> all]>>
    BY <2>2, <2>4, <2>5
  <2> QED BY <2>6 DEF one, all
<1> QED BY <1>1, <1>2

\* SchemaOf is one of the schemas, whatever the kind.
LEMMA SchemaType == \A k : SchemaOf(k) \in Schemas
  BY DEF SchemaOf, Schemas

\* The schema gets a key for each new mask and keeps the others.
PropertiesWith(ps, ids, new) ==
  [x \in DOMAIN ps \cup ids |->
     IF x \in DOMAIN ps THEN ps[x] ELSE SchemaOf((CHOOSE m \in ToSet(new) : m.mask = x).kind)]

LEMMA PropertiesGrow ==
  ASSUME NEW old \in PropertyMaps, NEW extra \in SUBSET Ids, NEW fresh
  PROVE  /\ PropertiesWith(old, extra, fresh) \in PropertyMaps
         /\ DOMAIN PropertiesWith(old, extra, fresh) = DOMAIN old \cup extra
<1> DEFINE D == DOMAIN old \cup extra
           G(x) == SchemaOf((CHOOSE m \in ToSet(fresh) : m.mask = x).kind)
           qs == [x \in D |-> IF x \in DOMAIN old THEN old[x] ELSE G(x)]
<1>1. PICK S \in SUBSET (Ids \cup {RuleNumbers, Justification}) : old \in [S -> Schemas]
  BY DEF PropertyMaps
<1>2. \A x : G(x) \in Schemas
  BY SchemaType
<1> HIDE DEF G
<1>3. qs \in [D -> Schemas] /\ DOMAIN qs = D
  BY <1>1, <1>2
<1>4. D \in SUBSET (Ids \cup {RuleNumbers, Justification})
  BY <1>1
<1>5. qs \in PropertyMaps
  <2> HIDE DEF qs, D
  <2> QED BY <1>3, <1>4 DEF PropertyMaps
<1> QED BY <1>3, <1>5 DEF G, PropertiesWith

\* The new masks are filed by kind behind the old ones.
LEMMA MasksGrow ==
  ASSUME NEW filed \in [Kinds -> Seq(MaskType)], NEW fresh \in Seq(MaskType)
  PROVE  LET ml == [k \in Kinds |-> filed[k] \o Keep(fresh, {m \in ToSet(fresh) : m.kind = k})]
         IN  /\ ml \in [Kinds -> Seq(MaskType)]
             /\ \A k \in Kinds : ToSet(ml[k]) = ToSet(filed[k]) \cup {m \in ToSet(fresh) : m.kind = k}
<1> DEFINE K(k) == {m \in ToSet(fresh) : m.kind = k}
           ml == [k \in Kinds |-> filed[k] \o Keep(fresh, K(k))]
<1>1. ASSUME NEW k \in Kinds
      PROVE  ml[k] \in Seq(MaskType) /\ ToSet(ml[k]) = ToSet(filed[k]) \cup K(k)
  <2> DEFINE kept == Keep(fresh, K(k))
  <2>1. ToSet(fresh) \cap K(k) = K(k)
    OBVIOUS
  <2> HIDE DEF K
  <2>2. kept \in Seq(MaskType) /\ ToSet(kept) = K(k)
    BY <2>1, KeepSet
  <2>3. filed[k] \in Seq(MaskType) /\ ml[k] = filed[k] \o kept
    OBVIOUS
  <2> HIDE DEF kept
  <2>4. filed[k] \o kept \in Seq(MaskType) /\ ToSet(filed[k] \o kept) = ToSet(filed[k]) \cup ToSet(kept)
    BY <2>2, <2>3, ConcatSet
  <2> QED BY <2>2, <2>3, <2>4
<1> HIDE DEF K
<1>2. ml \in [Kinds -> Seq(MaskType)]
  BY <1>1
<1> QED BY <1>1, <1>2 DEF K

\* Everything the later steps use of the builder that CommitPolicy returns.
Grown(b, c, new, added) ==
  /\ c \in BuilderType /\ c.mask_index = b.mask_index /\ c.default_return = b.default_return
  /\ \A k \in Kinds : ToSet(c.masks[k]) = ToSet(b.masks[k]) \cup {m \in ToSet(new) : m.kind = k}
  /\ MasksOf(c) = MasksOf(b) \cup ToSet(new)
  /\ \E ids \in Seq(Ids) : /\ c.masks_by_index = Append(b.masks_by_index, ids)
                           /\ ToSet(ids) = {m.mask : m \in ToSet(new)}
  /\ c.policy_index = b.policy_index + 1
  /\ c.drawn = b.drawn + Len(new)
  /\ c.messages = <<[role |-> "user", blocks |-> [i \in 1..(Len(added) + 1) |-> <<"rule", i>>]]>>
  /\ DOMAIN c.properties = DOMAIN b.properties \cup {m.mask : m \in ToSet(new)}
  /\ \A x \in DOMAIN b.properties : c.properties[x] = b.properties[x]
  /\ \A m \in ToSet(new) : m.mask \notin DOMAIN b.properties => c.properties[m.mask] = SchemaOf(m.kind)

LEMMA CommitGrows ==
  ASSUME NEW b, NEW added \in Seq(PolicyRecords), Built(b, added), NEW p \in PolicyRecords,
         ~AddPolicyFails(p)
  PROVE  Grown(b, CommitPolicy(b, p), NewMasks(b, p), added)
<1> DEFINE new == NewMasks(b, p)
           ids == [j \in DOMAIN new |-> new[j].mask]
           ms == push_or_merge_message(b.messages, "user", <<RuleBlock(b)>>)
           ps == PropertiesWith(b.properties, ToSet(ids), new)
           mk == [k \in Kinds |-> b.masks[k] \o Keep(new, {m \in ToSet(new) : m.kind = k})]
           mi == Append(b.masks_by_index, ids)
           c == CommitPolicy(b, p)
<1>1. c = Committed(b, ms, ps, mk, mi, b.policy_index + 1, b.drawn + Len(new))
  BY DEF CommitPolicy, NewMasks, IndexMasks, Committed, PropertiesWith
<1>2. /\ b \in BuilderType /\ b.messages \in RuleMessages /\ b.properties \in PropertyMaps
      /\ b.masks \in [Kinds -> Seq(MaskType)] /\ b.masks_by_index \in Seq(Seq(Ids))
      /\ b.policy_index \in Nat /\ b.drawn \in Nat /\ b.mask_index \in Nat
  BY DEF Built, BuilderType, RuleMessages
<1>3. new \in Seq(MaskType) /\ Len(new) \in Nat /\ DOMAIN new = 1..Len(new)
  BY <1>2, NewMasksParts
<1>4. ids \in Seq(Ids) /\ ToSet(ids) = {m.mask : m \in ToSet(new)}
  <2> HIDE DEF new
  <2>0. \A j \in 1..Len(new) : new[j] \in MaskType
    BY <1>3
  <2>1. \A j \in 1..Len(new) : new[j].mask \in Ids
    BY <2>0 DEF MaskType
  <2>2. ids = [j \in 1..Len(new) |-> new[j].mask]
    BY <1>3
  <2>3. ids \in Seq(Ids)
    BY <1>3, <2>1, <2>2
  <2> QED BY <1>3, <2>2, <2>3 DEF ToSet
<1>14. \A x, y \in ToSet(new) : x.mask = y.mask => x = y
  <2>1. \A j \in 1..Len(new) : new[j].mask = Uuid(b.drawn + j)
    BY <1>2, <1>3, NewMasksParts
  <2> HIDE DEF new
  <2>2. \A j, k \in 1..Len(new) : new[j].mask = new[k].mask => j = k
    BY <1>2, <1>3, <2>1 DEF Uuid
  <2> QED BY <1>3, <2>2 DEF ToSet
<1> HIDE DEF new
<1>5. ToSet(ids) \in SUBSET Ids
  BY <1>4 DEF ToSet
<1>6. ps \in PropertyMaps /\ DOMAIN ps = DOMAIN b.properties \cup ToSet(ids)
  BY <1>2, <1>5, PropertiesGrow
<1>15. /\ \A x \in DOMAIN b.properties : ps[x] = b.properties[x]
       /\ \A m \in ToSet(new) : m.mask \notin DOMAIN b.properties => ps[m.mask] = SchemaOf(m.kind)
  <2>1. /\ \A x \in DOMAIN b.properties : ps[x] = b.properties[x]
        /\ \A x \in ToSet(ids) \ DOMAIN b.properties :
             ps[x] = SchemaOf((CHOOSE m \in ToSet(new) : m.mask = x).kind)
    BY DEF PropertiesWith
  <2>2. ASSUME NEW m \in ToSet(new), m.mask \notin DOMAIN b.properties PROVE ps[m.mask] = SchemaOf(m.kind)
    <3> DEFINE w == CHOOSE x \in ToSet(new) : x.mask = m.mask
    <3>1. w \in ToSet(new) /\ w.mask = m.mask
      OBVIOUS
    <3>2. w = m
      BY <1>14, <3>1
    <3>3. m.mask \in ToSet(ids) \ DOMAIN b.properties
      BY <1>4, <2>2
    <3>4. ps[m.mask] = SchemaOf(w.kind)
      BY <2>1, <3>3
    <3> QED BY <3>2, <3>4
  <2> QED BY <2>1, <2>2
<1>7. /\ mk \in [Kinds -> Seq(MaskType)]
      /\ \A k \in Kinds : ToSet(mk[k]) = ToSet(b.masks[k]) \cup {m \in ToSet(new) : m.kind = k}
  <2> DEFINE ml == b.masks
  <2>1. ml \in [Kinds -> Seq(MaskType)]
    BY <1>2
  <2> HIDE DEF ml
  <2>2. LET mn == [k \in Kinds |-> ml[k] \o Keep(new, {m \in ToSet(new) : m.kind = k})]
        IN  /\ mn \in [Kinds -> Seq(MaskType)]
            /\ \A k \in Kinds : ToSet(mn[k]) = ToSet(ml[k]) \cup {m \in ToSet(new) : m.kind = k}
    BY <1>3, <2>1, MasksGrow
  <2> QED BY <2>2 DEF ml
<1> HIDE DEF ids, ps, mk
<1>8. mi \in Seq(Seq(Ids))
  BY <1>2, <1>4
<1>9. ms = <<[role |-> "user", blocks |-> [i \in 1..(Len(added) + 1) |-> <<"rule", i>>]]>>
      /\ ms \in RuleMessages
  <2>1. b.policy_index = Len(added) + 1 /\ Len(added) \in Nat /\ (added = <<>> <=> Len(added) = 0)
    BY DEF Built, RulesBuilt
  <2> DEFINE n == Len(added)
             messages == b.messages
             all == [i \in 1..(n + 1) |-> <<"rule", i>>]
  <2>2. messages = IF n = 0 THEN <<>>
                   ELSE <<[role |-> "user", blocks |-> [i \in 1..n |-> <<"rule", i>>]]>>
    BY <2>1 DEF Built, RequestBuilt
  <2>3. ms = push_or_merge_message(messages, "user", <<<<"rule", n + 1>>>>)
    BY <2>1 DEF RuleBlock
  <2>4. n \in Nat
    BY <2>1
  <2>5. all \in Seq({"rule"} \X Nat)
    BY <2>4
  <2> HIDE DEF messages, n, ms
  <2>6. ms = <<[role |-> "user", blocks |-> all]>>
    BY <2>2, <2>3, <2>4, RulesMerge
  <2> HIDE DEF all
  <2>7. ms \in RuleMessages
    BY <2>5, <2>6 DEF RuleMessages
  <2> QED BY <2>6, <2>7 DEF all, n
<1> HIDE DEF ms, c
<1> DEFINE pi == b.policy_index + 1
           dr == b.drawn + Len(new)
<1>10. pi \in Nat /\ dr \in Nat
  BY <1>2, <1>3
<1> HIDE DEF mi, pi, dr
<1>11. c = Committed(b, ms, ps, mk, mi, pi, dr)
  BY <1>1 DEF pi, dr
<1>12. /\ c \in BuilderType /\ c.mask_index = b.mask_index /\ c.messages = ms
       /\ c.properties = ps /\ c.masks = mk /\ c.masks_by_index = mi /\ c.policy_index = pi
       /\ c.drawn = dr /\ c.default_return = b.default_return
  <2>1. /\ b \in BuilderType /\ ms \in RuleMessages /\ ps \in PropertyMaps
        /\ mk \in [Kinds -> Seq(MaskType)] /\ mi \in Seq(Seq(Ids)) /\ pi \in Nat /\ dr \in Nat
    BY <1>2, <1>6, <1>7, <1>8, <1>9, <1>10
  <2> QED BY <1>11, <2>1, CommittedParts
<1>13. MasksOf(c) = MasksOf(b) \cup ToSet(new)
  <2>0. \A m \in ToSet(new) : m \in MaskType
    BY <1>3 DEF ToSet
  <2>1. \A m \in ToSet(new) : m.kind \in Kinds
    BY <2>0 DEF MaskType
  <2>2. \A k \in Kinds : ToSet(c.masks[k]) = ToSet(b.masks[k]) \cup {m \in ToSet(new) : m.kind = k}
    BY <1>7, <1>12
  <2> QED BY <2>1, <2>2 DEF MasksOf
<1>16. Grown(b, c, new, added)
  BY <1>4, <1>6, <1>7, <1>9, <1>12, <1>13, <1>15 DEF Grown, mi, pi, dr
<1> QED BY <1>16 DEF c, new

\* add_policy builds the masks, the rule and the schema of an accepted policy.
LEMMA CommitBuilt ==
  ASSUME NEW b, NEW added \in Seq(PolicyRecords), Built(b, added), NEW p \in PolicyRecords,
         ~AddPolicyFails(p)
  PROVE  /\ Built(CommitPolicy(b, p), Append(added, p))
         /\ CommitPolicy(b, p).mask_index = b.mask_index
         /\ CommitPolicy(b, p).default_return = b.default_return
<1> DEFINE c == CommitPolicy(b, p)
           new == NewMasks(b, p)
           all == Append(added, p)
           n == Len(added)
<1>1. b \in BuilderType
  BY DEF Built
<1>2. Grown(b, c, new, added)
  BY CommitGrows
<1>3. /\ new \in Seq(MaskType)
      /\ \A j \in DOMAIN new : /\ Expects(new[j]) /\ Made(new[j], p) /\ new[j].policy_index = b.policy_index
                               /\ new[j].mask = Uuid(b.drawn + j)
      /\ Covers(ToSet(new), b.policy_index, p)
  BY <1>1, NewMasksParts
<1>4. /\ n \in Nat /\ all \in Seq(PolicyRecords) /\ Len(all) = n + 1 /\ all # <<>>
      /\ all[n + 1] = p /\ \A i \in 1..n : all[i] = added[i]
  OBVIOUS
<1>5. b.policy_index = n + 1 /\ Len(b.masks_by_index) = n /\ b.drawn \in Nat
  BY DEF Built, RulesBuilt, BuilderType
<1> HIDE DEF c, new, all, n
<1>6. /\ Len(new) \in Nat /\ DOMAIN new = 1..Len(new)
      /\ \A x : x \in ToSet(new) <=> \E j \in 1..Len(new) : x = new[j]
  BY <1>3 DEF ToSet
<1>7. \A m \in ToSet(new) : /\ Expects(m) /\ m.policy_index = n + 1 /\ Made(m, p)
                            /\ \E j \in 1..Len(new) : m = new[j] /\ m.mask = Uuid(b.drawn + j)
  BY <1>3, <1>5, <1>6
<1>8. MasksOf(c) = MasksOf(b) \cup ToSet(new) /\ c.drawn = b.drawn + Len(new)
  BY <1>2 DEF Grown
<1>9. \A m \in MasksOf(b) : /\ Expects(m) /\ m.policy_index \in 1..n /\ Made(m, added[m.policy_index])
                            /\ \E j \in 1..b.drawn : m.mask = Uuid(j)
  BY DEF Built, MasksBuilt, n
<1>10. MasksBuilt(c, all)
  <2>1. \A k \in Kinds : \A m \in ToSet(c.masks[k]) : m.kind = k
    BY <1>2 DEF Grown, Built, MasksBuilt
  <2>2. ASSUME NEW m \in MasksOf(c)
        PROVE  /\ Expects(m) /\ m.policy_index \in 1..Len(all) /\ Made(m, all[m.policy_index])
               /\ \E j \in 1..c.drawn : m.mask = Uuid(j)
    <3>1. CASE m \in MasksOf(b)
      <4>1. PICK j \in 1..b.drawn : m.mask = Uuid(j)
        BY <1>9, <3>1
      <4>2. j \in 1..c.drawn
        BY <1>5, <1>6, <1>8
      <4>3. Expects(m) /\ m.policy_index \in 1..Len(all) /\ Made(m, all[m.policy_index])
        BY <1>4, <1>9, <3>1
      <4> QED BY <4>1, <4>2, <4>3
    <3>2. CASE m \in ToSet(new)
      <4>1. PICK j \in 1..Len(new) : m.mask = Uuid(b.drawn + j)
        BY <1>7, <3>2
      <4>2. b.drawn + j \in 1..c.drawn
        BY <1>5, <1>6, <1>8
      <4>3. Expects(m) /\ m.policy_index \in 1..Len(all) /\ Made(m, all[m.policy_index])
        BY <1>4, <1>7, <3>2
      <4> QED BY <4>1, <4>2, <4>3
    <3> QED BY <1>8, <3>1, <3>2
  <2>3. \A i, j \in Nat : Uuid(i) = Uuid(j) => i = j
    BY DEF Uuid
  <2>4. ASSUME NEW x \in MasksOf(c), NEW y \in MasksOf(c), x.mask = y.mask PROVE x = y
    <3>1. CASE x \in MasksOf(b) /\ y \in MasksOf(b)
      BY <2>4, <3>1 DEF Built, MasksBuilt
    <3>2. ASSUME NEW u \in MasksOf(b), NEW w \in ToSet(new), u.mask = w.mask PROVE FALSE
      <4>1. PICK i \in 1..b.drawn : u.mask = Uuid(i)
        BY <1>9
      <4>2. PICK j \in 1..Len(new) : w.mask = Uuid(b.drawn + j)
        BY <1>7
      <4>3. i \in Nat /\ b.drawn + j \in Nat /\ i # b.drawn + j
        BY <1>5, <1>6
      <4> QED BY <2>3, <3>2, <4>1, <4>2, <4>3
    <3>3. CASE x \in ToSet(new) /\ y \in ToSet(new)
      <4>1. PICK i \in 1..Len(new) : x = new[i] /\ x.mask = Uuid(b.drawn + i)
        BY <1>7, <3>3
      <4>2. PICK j \in 1..Len(new) : y = new[j] /\ y.mask = Uuid(b.drawn + j)
        BY <1>7, <3>3
      <4>3. b.drawn + i \in Nat /\ b.drawn + j \in Nat /\ (b.drawn + i = b.drawn + j => i = j)
        BY <1>5, <1>6
      <4> QED BY <2>3, <2>4, <4>1, <4>2, <4>3
    <3> QED BY <1>8, <2>4, <3>1, <3>2, <3>3
  <2> QED BY <2>1, <2>2, <2>4 DEF MasksBuilt
<1>11. PICK ids \in Seq(Ids) : /\ c.masks_by_index = Append(b.masks_by_index, ids)
                               /\ ToSet(ids) = {m.mask : m \in ToSet(new)}
  BY <1>2 DEF Grown
<1>12. RulesBuilt(c, all)
  <2>1. c.policy_index = Len(all) + 1
    BY <1>2, <1>4, <1>5 DEF Grown
  <2>2. /\ Len(c.masks_by_index) = Len(all) /\ c.masks_by_index[n + 1] = ids
        /\ \A i \in 1..n : c.masks_by_index[i] = b.masks_by_index[i]
    <3>1. b.masks_by_index \in Seq(Seq(Ids))
      BY <1>1 DEF BuilderType
    <3> QED BY <1>4, <1>5, <1>11, <3>1
  <2>3. ASSUME NEW i \in 1..Len(all)
        PROVE  /\ ToSet(c.masks_by_index[i]) = RuleMasks(MasksOf(c), i)
               /\ Covers(MasksOf(c), i, all[i])
    <3>1. CASE i \in 1..n
      <4>1. i # n + 1
        BY <1>4, <3>1
      <4>2. ToSet(b.masks_by_index[i]) = RuleMasks(MasksOf(b), i) /\ Covers(MasksOf(b), i, added[i])
        BY <3>1 DEF Built, RulesBuilt, n
      <4>3. \A m \in MasksOf(c) : m.policy_index = i => m \in MasksOf(b)
        BY <1>7, <1>8, <4>1
      <4>4. RuleMasks(MasksOf(c), i) = RuleMasks(MasksOf(b), i)
        BY <1>8, <4>3 DEF RuleMasks
      <4>5. Covers(MasksOf(c), i, added[i])
        BY <1>8, <4>2, <4>3 DEF Covers
      <4> QED BY <1>4, <2>2, <3>1, <4>2, <4>4, <4>5
    <3>2. CASE i = n + 1
      <4>1. n + 1 \notin 1..n
        BY <1>4
      <4>2. \A m \in MasksOf(c) : m.policy_index = n + 1 <=> m \in ToSet(new)
        BY <1>7, <1>8, <1>9, <4>1
      <4>3. RuleMasks(MasksOf(c), n + 1) = {m.mask : m \in ToSet(new)}
        BY <1>8, <4>2 DEF RuleMasks
      <4>4. Covers(MasksOf(c), n + 1, p)
        BY <1>3, <1>5, <1>8, <4>2 DEF Covers
      <4> QED BY <1>4, <1>11, <2>2, <3>2, <4>3, <4>4
    <3> QED BY <1>4, <3>1, <3>2
  <2> QED BY <2>1, <2>2, <2>3 DEF RulesBuilt
<1>13. RequestBuilt(c, all)
  <2>1. c.messages = <<[role |-> "user", blocks |-> [i \in 1..Len(all) |-> <<"rule", i>>]]>>
    BY <1>2, <1>4 DEF Grown, n
  <2>2. DOMAIN b.properties = {m.mask : m \in MasksOf(b)} \cup {RuleNumbers, Justification}
    BY DEF Built, RequestBuilt
  <2>3. DOMAIN c.properties = {m.mask : m \in MasksOf(c)} \cup {RuleNumbers, Justification}
    BY <1>2, <1>8, <2>2 DEF Grown
  <2>4. ASSUME NEW m \in MasksOf(c) PROVE c.properties[m.mask] = SchemaOf(m.kind)
    <3>1. CASE m \in MasksOf(b)
      <4>1. m.mask \in DOMAIN b.properties /\ b.properties[m.mask] = SchemaOf(m.kind)
        BY <2>2, <3>1 DEF Built, RequestBuilt
      <4> QED BY <1>2, <4>1 DEF Grown
    <3>2. CASE m \in ToSet(new)
      <4>1. PICK j \in 1..Len(new) : m.mask = Uuid(b.drawn + j)
        BY <1>7, <3>2
      <4>2. m.mask \notin {RuleNumbers, Justification}
        BY <4>1 DEF Uuid, RuleNumbers, Justification
      <4>3. ASSUME NEW x \in MasksOf(b), x.mask = m.mask PROVE FALSE
        <5>1. PICK i \in 1..b.drawn : x.mask = Uuid(i)
          BY <1>9
        <5>2. i # b.drawn + j
          BY <1>5, <1>6
        <5> QED BY <4>1, <4>3, <5>1, <5>2 DEF Uuid
      <4>4. m.mask \notin DOMAIN b.properties
        BY <2>2, <4>2, <4>3
      <4> QED BY <1>2, <3>2, <4>4 DEF Grown
    <3> QED BY <1>8, <3>1, <3>2
  <2> QED BY <1>4, <2>1, <2>3, <2>4 DEF RequestBuilt
<1> QED BY <1>2, <1>10, <1>12, <1>13 DEF Grown, Built, c, all

\* A whole call of add_policy.
LEMMA AddBuilt ==
  ASSUME NEW b, NEW added \in Seq(PolicyRecords), Built(b, added), NEW p \in PolicyRecords
  PROVE  /\ add_policy(b, p).mask_index = b.mask_index + 1
         /\ add_policy(b, p).default_return = default_value(p.type)
         /\ AddPolicyFails(p) => Built(add_policy(b, p), added)
         /\ ~AddPolicyFails(p) => Built(add_policy(b, p), Append(added, p))
<1> DEFINE c == BeginAddPolicy(b, p)
<1>1. Built(c, added) /\ c.mask_index = b.mask_index + 1 /\ c.default_return = default_value(p.type)
  BY BeginBuilt
<1> HIDE DEF c
<1>2. add_policy(b, p) = IF AddPolicyFails(p) THEN c ELSE CommitPolicy(c, p)
  BY DEF add_policy, c
<1> QED BY <1>1, <1>2, CommitBuilt
-----------------------------------------------------------------------------
(* What applying one mask does to a report.                                 *)

ReportValues == {Unset} \cup Scalars \cup ({"array"} \X Seq(Strings))
ConflictValues == {Null} \cup ReportValues
ErrorKinds == {"InvariantViolation", "TypeCheckFailure", "DefaultConflict"}

ReportRecords ==
  [value : [Fields -> ReportValues], default : [Fields -> {Unset, NonFinite} \cup Scalars],
   errors : Seq(ErrorKinds \X Fields), conflicts : Seq(Fields \X ConflictValues \X ConflictValues),
   rules_matched : Seq(Nat)]

\* The operations that only append to a log or set one field.
LEMMA LogIndex ==
  ASSUME NEW r \in ReportRecords, NEW i \in Nat
  PROVE  LET q == report_policy_index(r, i)
         IN  /\ q \in ReportRecords /\ q.value = r.value
             /\ ToSet(q.rules_matched) = ToSet(r.rules_matched) \cup {i}
<1>1. r.rules_matched \in Seq(Nat) /\ Append(r.rules_matched, i) \in Seq(Nat)
  BY DEF ReportRecords
<1>2. ToSet(Append(r.rules_matched, i)) = ToSet(r.rules_matched) \cup {i}
  BY <1>1, AppendSet
<1>3. /\ report_policy_index(r, i) \in ReportRecords /\ report_policy_index(r, i).value = r.value
      /\ report_policy_index(r, i).rules_matched = Append(r.rules_matched, i)
  BY <1>1 DEF ReportRecords, report_policy_index
<1> QED BY <1>2, <1>3

LEMMA LogError ==
  ASSUME NEW r \in ReportRecords, NEW e \in ErrorKinds, NEW f \in Fields
  PROVE  LET q == [r EXCEPT !.errors = Append(@, <<e, f>>)]
         IN  q \in ReportRecords /\ q.value = r.value /\ q.rules_matched = r.rules_matched
<1>1. Append(r.errors, <<e, f>>) \in Seq(ErrorKinds \X Fields)
  BY DEF ReportRecords
<1> QED BY <1>1 DEF ReportRecords

LEMMA LogConflict ==
  ASSUME NEW r \in ReportRecords, NEW f \in Fields, NEW a \in ConflictValues, NEW b \in ConflictValues
  PROVE  LET q == report_conflict(r, f, a, b)
         IN  q \in ReportRecords /\ q.value = r.value /\ q.rules_matched = r.rules_matched
<1>1. Append(r.conflicts, <<f, a, b>>) \in Seq(Fields \X ConflictValues \X ConflictValues)
  BY DEF ReportRecords
<1> QED BY <1>1 DEF ReportRecords, report_conflict

LEMMA SetValue ==
  ASSUME NEW r \in ReportRecords, NEW f \in Fields, NEW v \in ReportValues
  PROVE  LET q == [r EXCEPT !.value[f] = v]
         IN  /\ q \in ReportRecords /\ q.rules_matched = r.rules_matched
             /\ q.value = [r.value EXCEPT ![f] = v]
  BY DEF ReportRecords

\* A default that a mask reports changes neither the values nor the matches.
LEMMA SetDefault ==
  ASSUME NEW r \in ReportRecords, NEW f \in Fields, NEW d \in {NonFinite} \cup Scalars
  PROVE  LET q == report_default(r, f, d)
         IN  q \in ReportRecords /\ q.value = r.value /\ q.rules_matched = r.rules_matched
<1>1. LET q == [r EXCEPT !.default[f] = d]
      IN  q \in ReportRecords /\ q.value = r.value /\ q.rules_matched = r.rules_matched
  BY DEF ReportRecords
<1> QED BY <1>1, LogError DEF report_default, ErrorKinds

\* The four report_* functions for scalars keep the other fields, and either keep or set theirs.
MaySet(q, r, f, v) ==
  /\ q \in ReportRecords /\ q.rules_matched = r.rules_matched
  /\ q.value = r.value \/ q.value = [r.value EXCEPT ![f] = v]

LEMMA ResolveSets ==
  ASSUME NEW k, NEW r \in ReportRecords, NEW f \in Fields, NEW v \in Scalars, NEW oc
  PROVE  MaySet(Resolve(k, r, f, v, oc), r, f, v)
<1>1. r.value[f] \in ConflictValues /\ v \in ConflictValues /\ v \in ReportValues
  BY DEF ReportRecords, ConflictValues, ReportValues
<1> DEFINE set == [r EXCEPT !.value[f] = v]
           clash == report_conflict(r, f, r.value[f], v)
           broken == report_invariant_violation(r, f)
<1>2. set \in ReportRecords /\ set.rules_matched = r.rules_matched /\ set.value = [r.value EXCEPT ![f] = v]
  BY <1>1, SetValue
<1>3. clash \in ReportRecords /\ clash.rules_matched = r.rules_matched /\ clash.value = r.value
  BY <1>1, LogConflict
<1>4. broken \in ReportRecords /\ broken.rules_matched = r.rules_matched /\ broken.value = r.value
  BY LogError DEF report_invariant_violation, ErrorKinds
<1>5. Resolve(k, r, f, v, oc) \in {set, clash, broken, r}
  BY DEF Resolve
<1> HIDE DEF set, clash, broken
<1> QED BY <1>2, <1>3, <1>4, <1>5 DEF MaySet

\* Is s a string of the array x?
Listed(x, s) == x[1] = "array" /\ s \in ToSet(x[2])

\* What mask m does to report r when its answer is v: its rule is matched when the answer counts, and
\* a field that changes is the mask's, with a value that mask and answer account for.
Applied(m, v, r, q) ==
  /\ q \in ReportRecords
  /\ ToSet(q.rules_matched) = ToSet(r.rules_matched) \cup (IF Fires(m, v) THEN {m.policy_index} ELSE {})
  /\ \A f \in Fields : q.value[f] # r.value[f] =>
       f = m.name /\ Fires(m, v) /\ Justifies(m, v, q.value[f])
  /\ \A f \in Fields : \A s : Listed(q.value[f], s) =>
       Listed(r.value[f], s) \/ (f = m.name /\ Fires(m, v) /\ Gives(m, v, s))

\* The cases of it: the mask says nothing, contradicts the policy, or reports a value.
LEMMA AppliedQuietly ==
  ASSUME NEW m, NEW v, NEW r, NEW q \in ReportRecords, ~Fires(m, v),
         q.value = r.value, q.rules_matched = r.rules_matched
  PROVE  Applied(m, v, r, q)
  BY DEF Applied

LEMMA AppliedContradicting ==
  ASSUME NEW m \in MaskType, NEW v, NEW r \in ReportRecords, Fires(m, v),
         NEW a \in ConflictValues, NEW b \in ConflictValues
  PROVE  Applied(m, v, r, report_conflict(report_policy_index(r, m.policy_index), m.name, a, b))
<1> DEFINE s == report_policy_index(r, m.policy_index)
           q == report_conflict(s, m.name, a, b)
<1>0. m.policy_index \in Nat /\ m.name \in Fields
  BY DEF MaskType
<1>1. /\ s \in ReportRecords /\ s.value = r.value
      /\ ToSet(s.rules_matched) = ToSet(r.rules_matched) \cup {m.policy_index}
  BY <1>0, LogIndex
<1> HIDE DEF s
<1>2. q \in ReportRecords /\ q.value = s.value /\ q.rules_matched = s.rules_matched
  BY <1>0, <1>1, LogConflict
<1> HIDE DEF q
<1>3. Applied(m, v, r, q)
  BY <1>1, <1>2 DEF Applied
<1> QED BY <1>3 DEF q, s

LEMMA AppliedReporting ==
  ASSUME NEW m \in MaskType, NEW v, NEW r \in ReportRecords, Fires(m, v), NEW x \in Scalars,
         m.kind # "array", Justifies(m, v, x), NEW oc
  PROVE  Applied(m, v, r, Resolve(m.kind, report_policy_index(r, m.policy_index), m.name, x, oc))
<1> DEFINE s == report_policy_index(r, m.policy_index)
           q == Resolve(m.kind, s, m.name, x, oc)
<1>0. m.policy_index \in Nat /\ m.name \in Fields
  BY DEF MaskType
<1>1. /\ s \in ReportRecords /\ s.value = r.value
      /\ ToSet(s.rules_matched) = ToSet(r.rules_matched) \cup {m.policy_index}
  BY <1>0, LogIndex
<1> HIDE DEF s
<1>2. /\ q \in ReportRecords /\ q.rules_matched = s.rules_matched
      /\ q.value = s.value \/ q.value = [s.value EXCEPT ![m.name] = x]
  <2>1. MaySet(q, s, m.name, x)
    BY <1>0, <1>1, ResolveSets
  <2> HIDE DEF q
  <2> QED BY <2>1 DEF MaySet
<1> HIDE DEF q
<1>3. \A f \in Fields : q.value[f] # r.value[f] => f = m.name /\ q.value[f] = x
  BY <1>0, <1>1, <1>2 DEF ReportRecords
<1>4. x[1] # "array"
  BY ScalarTags DEF Scalars
<1>5. \A f \in Fields : \A y : Listed(q.value[f], y) => Listed(r.value[f], y)
  BY <1>3, <1>4 DEF Listed
<1>6. Applied(m, v, r, q)
  BY <1>1, <1>2, <1>3, <1>5 DEF Applied
<1> QED BY <1>6 DEF q, s

\* What the tag of an answer says about it.
LEMMA AnswerTags ==
  ASSUME NEW v \in JsonAnswers
  PROVE  /\ v \in Bools <=> v[1] = "bool"
         /\ v \in NumberValues <=> v[1] = "number"
         /\ v \in StringValues <=> v[1] = "string"
         /\ v = Unset <=> v[1] = "unset"
         /\ v[1] = "array" => v \in {"array"} \X Seq({Null} \cup Scalars) \X Nat
<1>1. \A x \in {"array"} \X Seq({Null} \cup Scalars) \X Nat : x[1] = "array"
  OBVIOUS
<1> QED BY <1>1, ScalarTags DEF JsonAnswers, Scalars

\* An answer of the wrong type is logged, and a mask without an answer reports its default.
LEMMA AppliedUnanswered ==
  ASSUME NEW m \in MaskType, NEW v, NEW r \in ReportRecords, ~Fires(m, v)
  PROVE  /\ Applied(m, v, r, r)
         /\ Applied(m, v, r, report_type_check_failure(r, m.name))
         /\ Applied(m, v, r, report_invariant_violation(r, m.name))
         /\ m.default # None => Applied(m, v, r, report_default(r, m.name, m.default))
<1>1. m.name \in Fields /\ (m.default # None => m.default \in {NonFinite} \cup Scalars)
  BY DEF MaskType
<1> DEFINE a == report_type_check_failure(r, m.name)
           b == report_invariant_violation(r, m.name)
           c == report_default(r, m.name, m.default)
<1>2. a \in ReportRecords /\ a.value = r.value /\ a.rules_matched = r.rules_matched
  BY <1>1, LogError DEF report_type_check_failure, ErrorKinds
<1>3. b \in ReportRecords /\ b.value = r.value /\ b.rules_matched = r.rules_matched
  BY <1>1, LogError DEF report_invariant_violation, ErrorKinds
<1>4. m.default # None => c \in ReportRecords /\ c.value = r.value /\ c.rules_matched = r.rules_matched
  BY <1>1, SetDefault
<1> HIDE DEF a, b, c
<1>5. Applied(m, v, r, r) /\ Applied(m, v, r, a) /\ Applied(m, v, r, b)
  BY <1>2, <1>3, AppliedQuietly
<1>6. m.default # None => Applied(m, v, r, c)
  BY <1>4, AppliedQuietly
<1> QED BY <1>5, <1>6 DEF a, b, c

LEMMA BoolApplied ==
  ASSUME NEW m \in MaskType, m.kind = "bool", Expects(m), NEW v \in JsonAnswers, NEW r \in ReportRecords
  PROVE  Applied(m, v, r, BoolMask_apply_to(m, v, r))
<1>0. Fires(m, v) <=> v \in Bools
  BY DEF Fires
<1>1. CASE v \in Bools
  <2>1. v # Unset /\ v[1] = "bool" /\ v \in Scalars /\ Justifies(m, v, v)
    BY <1>1, AnswerTags DEF Scalars, Expects, Justifies
  <2>2. BoolMask_apply_to(m, v, r)
          = Resolve(m.kind, report_policy_index(r, m.policy_index), m.name, v, m.on_conflict)
    BY <2>1 DEF BoolMask_apply_to, report_bool
  <2>3. Applied(m, v, r, Resolve(m.kind, report_policy_index(r, m.policy_index), m.name, v, m.on_conflict))
    BY <1>0, <1>1, <2>1, AppliedReporting
  <2> QED BY <2>2, <2>3
<1>2. CASE v \notin Bools
  <2>1. v[1] # "bool"
    BY <1>2, AnswerTags
  <2> QED BY <1>0, <1>2, <2>1, AppliedUnanswered DEF BoolMask_apply_to, report_bool_default
<1> QED BY <1>1, <1>2

LEMMA NumberApplied ==
  ASSUME NEW m \in MaskType, m.kind = "number", Expects(m), NEW v \in JsonAnswers, NEW r \in ReportRecords
  PROVE  Applied(m, v, r, NumberMask_apply_to(m, v, r))
<1>0. Fires(m, v) <=> v \in NumberValues
  BY DEF Fires
<1>1. CASE v \in NumberValues /\ (m.value = None \/ number_is_equal(v[2], m.value[2]))
  <2>1. v # Unset /\ v[1] = "number" /\ v \in Scalars
    BY <1>1, AnswerTags DEF Scalars
  <2>2. Justifies(m, v, v)
    BY <1>1, <2>1 DEF Justifies, Names, Same, Tag
  <2>3. NumberMask_apply_to(m, v, r)
          = Resolve(m.kind, report_policy_index(r, m.policy_index), m.name, v, m.on_conflict)
    BY <1>1, <2>1 DEF NumberMask_apply_to, report_number
  <2>4. Applied(m, v, r, Resolve(m.kind, report_policy_index(r, m.policy_index), m.name, v, m.on_conflict))
    BY <1>0, <1>1, <2>1, <2>2, AppliedReporting
  <2> QED BY <2>3, <2>4
<1>2. CASE v \in NumberValues /\ ~(m.value = None \/ number_is_equal(v[2], m.value[2]))
  <2>1. v # Unset /\ v[1] = "number" /\ v \in ConflictValues /\ m.value \in ConflictValues
    BY <1>2, AnswerTags DEF Scalars, Expects, ConflictValues, ReportValues
  <2>2. NumberMask_apply_to(m, v, r)
          = report_conflict(report_policy_index(r, m.policy_index), m.name, v, m.value)
    BY <1>2, <2>1 DEF NumberMask_apply_to, Mismatch
  <2> QED BY <1>0, <1>2, <2>1, <2>2, AppliedContradicting
<1>3. CASE v \notin NumberValues
  <2>1. v[1] # "number"
    BY <1>3, AnswerTags
  <2> QED BY <1>0, <1>3, <2>1, AppliedUnanswered DEF NumberMask_apply_to, report_number_default
<1> QED BY <1>1, <1>2, <1>3

LEMMA StringApplied ==
  ASSUME NEW m \in MaskType, m.kind = "string", Expects(m), NEW v \in JsonAnswers, NEW r \in ReportRecords
  PROVE  Applied(m, v, r, StringMask_apply_to(m, v, r))
<1>0. Fires(m, v) <=> v \in StringValues
  BY DEF Fires
<1>1. CASE v \in StringValues /\ (m.value = None \/ v = m.value)
  <2>1. v # Unset /\ v[1] = "string" /\ v \in Scalars
    BY <1>1, AnswerTags DEF Scalars
  <2>2. Justifies(m, v, v)
    BY <1>1, <2>1 DEF Justifies, Names, Same, Tag
  <2>3. StringMask_apply_to(m, v, r)
          = Resolve(m.kind, report_policy_index(r, m.policy_index), m.name, v, m.on_conflict)
    BY <1>1, <2>1 DEF StringMask_apply_to, report_string
  <2>4. Applied(m, v, r, Resolve(m.kind, report_policy_index(r, m.policy_index), m.name, v, m.on_conflict))
    BY <1>0, <1>1, <2>1, <2>2, AppliedReporting
  <2> QED BY <2>3, <2>4
<1>2. CASE v \in StringValues /\ ~(m.value = None \/ v = m.value)
  <2>1. v # Unset /\ v[1] = "string" /\ v \in ConflictValues /\ m.value \in ConflictValues
    BY <1>2, AnswerTags DEF Scalars, Expects, ConflictValues, ReportValues
  <2>2. StringMask_apply_to(m, v, r)
          = report_conflict(report_policy_index(r, m.policy_index), m.name, v, m.value)
    BY <1>2, <2>1 DEF StringMask_apply_to, Mismatch
  <2> QED BY <1>0, <1>2, <2>1, <2>2, AppliedContradicting
<1>3. CASE v \notin StringValues
  <2>1. v[1] # "string"
    BY <1>3, AnswerTags
  <2> QED BY <1>0, <1>3, <2>1, AppliedUnanswered DEF StringMask_apply_to, report_string_default
<1> QED BY <1>1, <1>2, <1>3

LEMMA EnumApplied ==
  ASSUME NEW m \in MaskType, m.kind = "enum", Expects(m), NEW v \in JsonAnswers, NEW r \in ReportRecords
  PROVE  Applied(m, v, r, StringEnumMask_apply_to(m, v, r))
<1> DEFINE yes == <<"bool", TRUE>>
           no == <<"bool", FALSE>>
<1>0. Fires(m, v) <=> v = yes
  BY DEF Fires
<1>1. yes[1] = "bool" /\ yes \notin {Unset, no} /\ yes \in ConflictValues /\ Null \in ConflictValues
  BY DEF Unset, ConflictValues, ReportValues, Scalars, Bools
<1>2. v \in Bools => v \in {yes, no}
  BY Zenon DEF Bools
<1> HIDE DEF yes, no
<1>3. StringEnumMask_apply_to(m, v, r) =
        IF v \in {Unset, no}
          THEN IF m.default = None THEN r ELSE report_default(r, m.name, m.default)
        ELSE IF v[1] # "bool" THEN report_type_check_failure(r, m.name)
        ELSE IF m.value = None
          THEN report_conflict(report_policy_index(r, m.policy_index), m.name, v, Null)
        ELSE Resolve("enum", report_policy_index(r, m.policy_index), m.name, m.value, m.on_conflict)
  BY DEF StringEnumMask_apply_to, report_string_default, report_string_enum, no
<1>4. CASE v = yes /\ m.value = None
  BY <1>0, <1>1, <1>3, <1>4, AppliedContradicting
<1>5. CASE v = yes /\ m.value # None
  <2>1. m.value \in Scalars /\ Justifies(m, v, m.value)
    BY <1>5, ScalarTags DEF Expects, Scalars, Justifies, Names, Same, Tag
  <2>2. Applied(m, v, r, Resolve(m.kind, report_policy_index(r, m.policy_index), m.name, m.value, m.on_conflict))
    BY <1>0, <1>5, <2>1, AppliedReporting
  <2> QED BY <1>1, <1>3, <1>5, <2>2
<1>6. CASE v # yes
  <2>1. v \in {Unset, no} \/ v[1] # "bool"
    BY <1>2, <1>6, AnswerTags
  <2> QED BY <1>0, <1>3, <1>6, <2>1, AppliedUnanswered
<1> QED BY <1>4, <1>5, <1>6

\* The report q differs from r in that rule i is matched and, at most, in field f: if that changes, it
\* becomes an array, with no string but those it had and those in S.
Touches(r, i, f, S, q) ==
  /\ q \in ReportRecords /\ ToSet(q.rules_matched) = ToSet(r.rules_matched) \cup {i}
  /\ \A g \in Fields : g # f => q.value[g] = r.value[g]
  /\ q.value[f] # r.value[f] => q.value[f][1] = "array"
  /\ \A s : Listed(q.value[f], s) => Listed(r.value[f], s) \/ s \in S

\* Adding one string to an array field, and making sure that there is an array.
LEMMA ArrayReported ==
  ASSUME NEW r \in ReportRecords, NEW i \in Nat, NEW f \in Fields, NEW s \in Strings
  PROVE  Touches(r, i, f, {s}, report_string_array(r, i, f, s))
<1> DEFINE old == r.value[f]
           new == IF old[1] # "array" THEN <<"array", <<s>>>>
                  ELSE IF Contains(old[2], s) THEN old
                  ELSE <<"array", Append(old[2], s)>>
           p == report_policy_index(r, i)
           q == [p EXCEPT !.value[f] = new]
<1>1. old \in ReportValues
  BY DEF ReportRecords
<1>2. old[1] = "array" => old \in {"array"} \X Seq(Strings)
  BY <1>1, ScalarTags DEF ReportValues, Scalars
<1> HIDE DEF old
<1>3. new \in ReportValues
  <2>1. CASE old[1] # "array"
    <3>1. <<s>> \in Seq(Strings)
      OBVIOUS
    <3>2. <<"array", <<s>>>> \in {"array"} \X Seq(Strings)
      BY <3>1
    <3> QED BY <2>1, <3>2 DEF ReportValues
  <2>2. CASE old[1] = "array"
    <3>1. old[2] \in Seq(Strings) /\ Append(old[2], s) \in Seq(Strings)
      BY <1>2, <2>2
    <3> QED BY <1>1, <2>2, <3>1 DEF ReportValues
  <2> QED BY <2>1, <2>2
<1>4. new[1] = "array" /\ \A x : Listed(new, x) => Listed(old, x) \/ x = s
  <2>1. CASE old[1] # "array"
    <3>1. new = <<"array", <<s>>>> /\ ToSet(<<s>>) = {s}
      BY <2>1 DEF ToSet
    <3> HIDE DEF new
    <3> QED BY <3>1 DEF Listed
  <2>2. CASE old[1] = "array" /\ Contains(old[2], s)
    BY <2>2
  <2>3. CASE old[1] = "array" /\ ~Contains(old[2], s)
    <3>1. new = <<"array", Append(old[2], s)>> /\ old[2] \in Seq(Strings)
      BY <1>2, <2>3
    <3>2. ToSet(Append(old[2], s)) = ToSet(old[2]) \cup {s}
      BY <3>1, AppendSet
    <3> HIDE DEF new
    <3> QED BY <2>3, <3>1, <3>2 DEF Listed
  <2> QED BY <2>1, <2>2, <2>3
<1>5. report_string_array(r, i, f, s) = q
  BY DEF report_string_array, old
<1>6. /\ p \in ReportRecords /\ p.value = r.value
      /\ ToSet(p.rules_matched) = ToSet(r.rules_matched) \cup {i}
  BY LogIndex
<1> HIDE DEF new, p
<1>7. q \in ReportRecords /\ q.rules_matched = p.rules_matched /\ q.value = [p.value EXCEPT ![f] = new]
  BY <1>3, <1>6, SetValue
<1> HIDE DEF q
<1>8. p.value \in [Fields -> ReportValues]
  BY <1>6 DEF ReportRecords
<1>9. q.value[f] = new /\ old = r.value[f]
  BY <1>6, <1>7, <1>8 DEF old
<1> QED BY <1>4, <1>5, <1>6, <1>7, <1>8, <1>9 DEF Touches

LEMMA EmptyArrayReported ==
  ASSUME NEW r \in ReportRecords, NEW i \in Nat, NEW f \in Fields
  PROVE  Touches(r, i, f, {}, init_empty_string_array(r, i, f))
<1> DEFINE p == report_policy_index(r, i)
           new == IF p.value[f] = Unset THEN <<"array", <<>>>> ELSE p.value[f]
           q == [p EXCEPT !.value[f] = new]
<1>1. /\ p \in ReportRecords /\ p.value = r.value
      /\ ToSet(p.rules_matched) = ToSet(r.rules_matched) \cup {i}
  BY LogIndex
<1>2. init_empty_string_array(r, i, f) = q
  BY DEF init_empty_string_array
<1> HIDE DEF p
<1>3. p.value \in [Fields -> ReportValues]
  BY <1>1 DEF ReportRecords
<1>4. new \in ReportValues
  <2>1. p.value[f] \in ReportValues
    BY <1>3
  <2>2. <<"array", <<>>>> \in ReportValues
    <3>1. <<>> \in Seq(Strings)
      OBVIOUS
    <3>2. <<"array", <<>>>> \in {"array"} \X Seq(Strings)
      BY <3>1
    <3> QED BY <3>2 DEF ReportValues
  <2> QED BY <2>1, <2>2
<1>5. new # r.value[f] => new = <<"array", <<>>>>
  BY <1>1
<1> HIDE DEF new
<1>6. q \in ReportRecords /\ q.rules_matched = p.rules_matched /\ q.value = [p.value EXCEPT ![f] = new]
  BY <1>1, <1>4, SetValue
<1> HIDE DEF q
<1>7. q.value[f] = new /\ \A g \in Fields : g # f => q.value[g] = r.value[g]
  BY <1>1, <1>3, <1>6
<1>8. q.value[f] # r.value[f] => q.value[f][1] = "array"
  BY <1>5, <1>7
<1>9. \A s : Listed(q.value[f], s) => Listed(r.value[f], s)
  <2>1. ToSet(<<>>) = {}
    BY DEF ToSet
  <2>2. \A s : ~Listed(<<"array", <<>>>>, s)
    BY <2>1 DEF Listed
  <2> QED BY <1>5, <1>7, <2>2
<1> QED BY <1>1, <1>2, <1>6, <1>7, <1>8, <1>9 DEF Touches

\* The loop of StringArrayMask::apply_to, and its result after the first k strings.
ReportStrings(m, s, r) ==
  FoldLeft(LAMBDA acc, x : report_string_array(acc, m.policy_index, m.name, x), r, s)

StringsAlong(h, m, s, r) ==
  /\ h[0] = r /\ ReportStrings(m, s, r) = h[Len(s)]
  /\ \A k \in 1..Len(s) : h[k] = report_string_array(h[k - 1], m.policy_index, m.name, s[k])

LEMMA StringsFold ==
  ASSUME NEW m \in MaskType, NEW s \in Seq(Strings), NEW r \in ReportRecords
  PROVE  \E h \in [0..Len(s) -> ReportRecords] : StringsAlong(h, m, s, r)
<1> DEFINE n == Len(s)
           A == ReportRecords
           Op(acc, x) == report_string_array(acc, m.policy_index, m.name, x)
           F == [p \in A \X (1..n) |-> Op(p[1], s[p[2]])]
           Body(g) == [t \in SUBSET DOMAIN s |-> IF t = {} THEN r ELSE Op(g[t \ {Max(t)}], s[Max(t)])]
           it == CHOOSE g : g = Body(g)
<1>1. n \in Nat /\ DOMAIN s = 1..n /\ \A k \in 1..n : s[k] \in Strings
  OBVIOUS
<1>2. r \in A /\ \A a \in A, x \in Strings : Op(a, x) \in A
  BY ArrayReported DEF MaskType, Touches
<1>3. ReportStrings(m, s, r) = it[DOMAIN s]
  BY DEF ReportStrings, FoldLeft, MapThenFoldSet
<1> HIDE DEF n, A, Op
<1>4. F \in [A \X (1..n) -> A] /\ \A a \in A, k \in 1..n : F[<<a, k>>] = Op(a, s[k])
  BY <1>1, <1>2
<1> HIDE DEF F
<1>5. PICK g \in [SUBSET (1..n) -> A] : FoldsOver(g, F, r, n)
  BY <1>1, <1>2, <1>4, FoldExists
<1>6. g = Body(g)
  <2>1. ASSUME NEW t \in SUBSET (1..n), t # {} PROVE g[t] = Op(g[t \ {Max(t)}], s[Max(t)])
    <3>1. Max(t) \in 1..n /\ g[t \ {Max(t)}] \in A /\ g[t] = F[<<g[t \ {Max(t)}], Max(t)>>]
      BY <1>5, <2>1 DEF FoldsOver
    <3> QED BY <1>4, <3>1
  <2>2. g[{}] = r
    BY <1>5 DEF FoldsOver
  <2> QED BY <1>1, <1>5, <2>1, <2>2
<1>7. it = Body(it)
  <2> HIDE DEF Body
  <2> QED BY <1>6, Zenon
<1> HIDE DEF it
<1>8. FoldsTo(it, F, A, r, n)
  BY <1>1, <1>4, <1>5, <1>7 DEF FoldsTo, FoldsOver
<1>9. PICK h \in [0..n -> A] : Along(h, F, r, n, it[1..n])
  BY <1>1, <1>2, <1>4, <1>8, FoldAlong
<1>10. ASSUME NEW k \in 1..n PROVE h[k] = Op(h[k - 1], s[k])
  <2>1. k - 1 \in 0..n /\ h[k] = F[<<h[k - 1], k>>]
    BY <1>1, <1>9 DEF Along
  <2> QED BY <1>4, <1>9, <2>1
<1> QED BY <1>1, <1>3, <1>9, <1>10 DEF n, A, Op, Along, StringsAlong

\* A non-empty answer matches the rule and changes only the mask's field.
LEMMA StringsReported ==
  ASSUME NEW m \in MaskType, NEW s \in Seq(Strings), s # <<>>, NEW r \in ReportRecords
  PROVE  Touches(r, m.policy_index, m.name, ToSet(s), ReportStrings(m, s, r))
<1>1. PICK h \in [0..Len(s) -> ReportRecords] : StringsAlong(h, m, s, r)
  BY StringsFold
<1>2. Len(s) \in Nat /\ Len(s) # 0 /\ \A k \in 1..Len(s) : s[k] \in Strings
  OBVIOUS
<1>3. m.policy_index \in Nat /\ m.name \in Fields
  BY DEF MaskType
<1> DEFINE P(k) == /\ ToSet(h[k].rules_matched) =
                        ToSet(r.rules_matched) \cup (IF k = 0 THEN {} ELSE {m.policy_index})
                   /\ \A f \in Fields : f # m.name => h[k].value[f] = r.value[f]
                   /\ h[k].value[m.name] # r.value[m.name] => h[k].value[m.name][1] = "array"
                   /\ \A x : Listed(h[k].value[m.name], x) => Listed(r.value[m.name], x) \/ x \in ToSet(s)
           T == {k \in Nat : k <= Len(s) => P(k)}
<1>4. P(0)
  BY <1>1 DEF StringsAlong
<1>5. ASSUME NEW k \in Nat, P(k), k + 1 <= Len(s) PROVE P(k + 1)
  <2>1. k + 1 \in 1..Len(s) /\ (k + 1) - 1 = k /\ h[k] \in ReportRecords /\ k + 1 # 0
    BY <1>2, <1>5
  <2> DEFINE a == h[k]
             x == s[k + 1]
             after == h[k + 1]
  <2>2. after = report_string_array(a, m.policy_index, m.name, x)
    BY <1>1, <2>1 DEF StringsAlong
  <2>3. a \in ReportRecords /\ x \in Strings
    BY <1>2, <2>1
  <2> HIDE DEF a, x, after
  <2>4. /\ ToSet(after.rules_matched) = ToSet(a.rules_matched) \cup {m.policy_index}
        /\ \A f \in Fields : f # m.name => after.value[f] = a.value[f]
        /\ after.value[m.name] # a.value[m.name] => after.value[m.name][1] = "array"
        /\ \A y : Listed(after.value[m.name], y) => Listed(a.value[m.name], y) \/ y = x
    <3>1. Touches(a, m.policy_index, m.name, {x}, after)
      <4> DEFINE mine == m.policy_index
                 name == m.name
      <4>1. mine \in Nat /\ name \in Fields /\ after = report_string_array(a, mine, name, x)
        BY <1>3, <2>2
      <4> HIDE DEF mine, name
      <4>2. Touches(a, mine, name, {x}, report_string_array(a, mine, name, x))
        BY <2>3, <4>1, ArrayReported
      <4>3. Touches(a, mine, name, {x}, after)
        BY <4>1, <4>2
      <4> QED BY <4>3 DEF mine, name
    <3> QED BY <3>1 DEF Touches
  <2>5. x \in ToSet(s)
    BY <2>1 DEF x, ToSet
  <2> QED BY <1>5, <2>1, <2>4, <2>5 DEF a, after
<1> HIDE DEF P
<1>6. 0 \in T /\ \A k \in Nat : k \in T => k + 1 \in T
  BY <1>4, <1>5
<1>7. Nat \subseteq T
  <2> HIDE DEF T
  <2> QED BY <1>6, NatSetInduction
<1>8. P(Len(s))
  BY <1>2, <1>7
<1>9. ReportStrings(m, s, r) = h[Len(s)] /\ h[Len(s)] \in ReportRecords
  BY <1>1, <1>2 DEF StringsAlong
<1> QED BY <1>2, <1>8, <1>9 DEF P, Touches

\* The strings found in an answer are strings of it.
LEMMA Extracted ==
  ASSUME NEW v \in JsonAnswers, extract_strings(v) # None
  PROVE  /\ extract_strings(v)[2] \in Seq(Strings)
         /\ \A m, s : m.kind = "array" /\ s \in ToSet(extract_strings(v)[2]) => Gives(m, v, s)
<1> DEFINE found == extract_strings(v)
<1>1. CASE v[1] = "string"
  <2>1. v[2] \in Strings
    BY <1>1, AnswerTags DEF StringValues
  <2>2. found = <<"some", <<v[2]>>>>
    BY <1>1 DEF extract_strings
  <2>3. v = <<"string", v[2]>> /\ ToSet(<<v[2]>>) = {v[2]}
    BY <1>1, AnswerTags DEF StringValues, ToSet
  <2> QED BY <2>1, <2>2, <2>3 DEF Gives
<1>2. CASE v[1] = "array" /\ v[3] < MaxDepth /\ \A j \in DOMAIN v[2] : v[2][j][1] = "string"
  <2>1. v[2] \in Seq({Null} \cup Scalars)
    BY <1>2, AnswerTags
  <2>2. found = <<"some", [j \in DOMAIN v[2] |-> v[2][j][2]]>>
    BY <1>2 DEF extract_strings
  <2> DEFINE w == v[2]
             u == [j \in DOMAIN w |-> w[j][2]]
  <2>3. w \in Seq({Null} \cup Scalars) /\ DOMAIN w = 1..Len(w) /\ Len(w) \in Nat
    BY <2>1
  <2>4. found[2] = u /\ \A j \in DOMAIN w : w[j][1] = "string"
    BY <1>2, <2>2
  <2> HIDE DEF w
  <2>5. \A j \in DOMAIN w : w[j] \in StringValues
    BY <2>3, <2>4, ScalarTags DEF Scalars
  <2>6. \A j \in 1..Len(w) : w[j][2] \in Strings
    BY <2>3, <2>5 DEF StringValues
  <2>7. u \in Seq(Strings)
    BY <2>3, <2>6
  <2>8. ASSUME NEW s \in ToSet(u) PROVE <<"string", s>> \in ToSet(w)
    <3>1. PICK j \in DOMAIN w : s = w[j][2]
      BY DEF ToSet
    <3>2. w[j] = <<"string", s>>
      BY <2>5, <3>1 DEF StringValues
    <3> QED BY <3>2 DEF ToSet
  <2> HIDE DEF u
  <2> QED BY <1>2, <2>4, <2>7, <2>8 DEF Gives, w
<1>3. CASE v[1] # "string" /\ ~(v[1] = "array" /\ v[3] < MaxDepth /\ \A j \in DOMAIN v[2] : v[2][j][1] = "string")
  BY <1>3 DEF extract_strings
<1> QED BY <1>1, <1>2, <1>3

LEMMA ArrayApplied ==
  ASSUME NEW m \in MaskType, m.kind = "array", Expects(m), NEW v \in JsonAnswers, NEW r \in ReportRecords
  PROVE  Applied(m, v, r, StringArrayMask_apply_to(m, v, r))
<1> DEFINE found == extract_strings(v)
<1>0. Fires(m, v) <=> v # Unset /\ found # None
  BY DEF Fires
<1>1. found # None => found[2] \in Seq(Strings) /\ \A x \in ToSet(found[2]) : Gives(m, v, x)
  BY Extracted
<1>2. StringArrayMask_apply_to(m, v, r) =
        IF v = Unset THEN r
        ELSE IF found = None THEN report_type_check_failure(r, m.name)
        ELSE IF found[2] = <<>> THEN init_empty_string_array(r, m.policy_index, m.name)
        ELSE ReportStrings(m, found[2], r)
  BY DEF StringArrayMask_apply_to, ReportStrings
<1> HIDE DEF found
<1>3. CASE v = Unset \/ found = None
  BY <1>0, <1>2, <1>3, AppliedUnanswered
<1>4. CASE v # Unset /\ found # None
  <2> DEFINE q == StringArrayMask_apply_to(m, v, r)
             s == found[2]
  <2>1. m.policy_index \in Nat /\ m.name \in Fields
    BY DEF MaskType
  <2>2. q = IF s = <<>> THEN init_empty_string_array(r, m.policy_index, m.name) ELSE ReportStrings(m, s, r)
    BY <1>2, <1>4
  <2>3. s \in Seq(Strings) /\ \A x \in ToSet(s) : Gives(m, v, x)
    BY <1>1, <1>4
  <2> HIDE DEF q, s
  <2>4. Touches(r, m.policy_index, m.name, ToSet(s), q)
    <3>1. CASE s = <<>>
      <4>1. ToSet(s) = {}
        BY <3>1 DEF ToSet
      <4> QED BY <2>1, <2>2, <3>1, <4>1, EmptyArrayReported
    <3>2. CASE s # <<>>
      BY <2>2, <2>3, <3>2, StringsReported
    <3> QED BY <3>1, <3>2
  <2>5. Applied(m, v, r, q)
    BY <1>0, <1>4, <2>1, <2>3, <2>4 DEF Applied, Touches, Justifies
  <2> QED BY <2>5 DEF q
<1> QED BY <1>3, <1>4
-----------------------------------------------------------------------------
(* consume_ir.                                                              *)

LEMMA MaskApplied ==
  ASSUME NEW m \in MaskType, Expects(m), NEW v \in JsonAnswers, NEW r \in ReportRecords
  PROVE  Applied(m, v, r, apply_to(m, v, r))
<1>1. m.kind \in Kinds
  BY DEF MaskType
<1>2. CASE m.kind = "bool"
  BY <1>2, BoolApplied DEF apply_to
<1>3. CASE m.kind = "number"
  BY <1>3, NumberApplied DEF apply_to
<1>4. CASE m.kind = "string"
  BY <1>4, StringApplied DEF apply_to
<1>5. CASE m.kind = "array"
  BY <1>5, ArrayApplied DEF apply_to
<1>6. CASE m.kind = "enum"
  BY <1>6, EnumApplied DEF apply_to
<1> QED BY <1>1, <1>2, <1>3, <1>4, <1>5, <1>6 DEF Kinds

\* The masks with an answer in ir; and the report after the first k of a sequence of them.
Answered(ir) == {m \in MaskType : Expects(m) /\ ir[m.mask] \in JsonAnswers}

ApplyAll(s, ir, base) == FoldLeft(LAMBDA r, m : apply_to(m, ir[m.mask], r), base, s)

AppliesAlong(h, s, ir, base) ==
  /\ h[0] = base /\ ApplyAll(s, ir, base) = h[Len(s)]
  /\ \A k \in 1..Len(s) : h[k] = apply_to(s[k], ir[s[k].mask], h[k - 1])

LEMMA ApplyFold ==
  ASSUME NEW ir, NEW s \in Seq(Answered(ir)), NEW r \in ReportRecords
  PROVE  \E h \in [0..Len(s) -> ReportRecords] : AppliesAlong(h, s, ir, r)
<1> DEFINE n == Len(s)
           A == ReportRecords
           Op(acc, x) == apply_to(x, ir[x.mask], acc)
           F == [p \in A \X (1..n) |-> Op(p[1], s[p[2]])]
           Body(g) == [t \in SUBSET DOMAIN s |-> IF t = {} THEN r ELSE Op(g[t \ {Max(t)}], s[Max(t)])]
           it == CHOOSE g : g = Body(g)
<1>1. n \in Nat /\ DOMAIN s = 1..n /\ \A k \in 1..n : s[k] \in Answered(ir)
  OBVIOUS
<1>2. r \in A /\ \A a \in A, x \in Answered(ir) : Op(a, x) \in A
  <2>1. ASSUME NEW a \in A, NEW x \in Answered(ir) PROVE Op(a, x) \in A
    <3>1. x \in MaskType /\ Expects(x) /\ ir[x.mask] \in JsonAnswers
      BY DEF Answered
    <3>2. Applied(x, ir[x.mask], a, Op(a, x))
      BY <3>1, MaskApplied
    <3> QED BY <3>2 DEF Applied
  <2> QED BY <2>1
<1>3. ApplyAll(s, ir, r) = it[DOMAIN s]
  BY DEF ApplyAll, FoldLeft, MapThenFoldSet
<1> HIDE DEF n, A, Op
<1>4. F \in [A \X (1..n) -> A] /\ \A a \in A, k \in 1..n : F[<<a, k>>] = Op(a, s[k])
  BY <1>1, <1>2
<1> HIDE DEF F
<1>5. PICK g \in [SUBSET (1..n) -> A] : FoldsOver(g, F, r, n)
  BY <1>1, <1>2, <1>4, FoldExists
<1>6. g = Body(g)
  <2>1. ASSUME NEW t \in SUBSET (1..n), t # {} PROVE g[t] = Op(g[t \ {Max(t)}], s[Max(t)])
    <3>1. Max(t) \in 1..n /\ g[t \ {Max(t)}] \in A /\ g[t] = F[<<g[t \ {Max(t)}], Max(t)>>]
      BY <1>5, <2>1 DEF FoldsOver
    <3> QED BY <1>4, <3>1
  <2>2. g[{}] = r
    BY <1>5 DEF FoldsOver
  <2> QED BY <1>1, <1>5, <2>1, <2>2
<1>7. it = Body(it)
  <2> HIDE DEF Body
  <2> QED BY <1>6, Zenon
<1> HIDE DEF it
<1>8. FoldsTo(it, F, A, r, n)
  BY <1>1, <1>4, <1>5, <1>7 DEF FoldsTo, FoldsOver
<1>9. PICK h \in [0..n -> A] : Along(h, F, r, n, it[1..n])
  BY <1>1, <1>2, <1>4, <1>8, FoldAlong
<1>10. ASSUME NEW k \in 1..n PROVE h[k] = Op(h[k - 1], s[k])
  <2>1. k - 1 \in 0..n /\ h[k] = F[<<h[k - 1], k>>]
    BY <1>1, <1>9 DEF Along
  <2> QED BY <1>4, <1>9, <2>1
<1> QED BY <1>1, <1>3, <1>9, <1>10 DEF n, A, Op, Along, AppliesAlong

\* The rules matched, and the masks behind the values, when the masks M have been applied.
MatchedBy(M, ir, r) == ToSet(r.rules_matched) = {m.policy_index : m \in {x \in M : Fires(x, ir[x.mask])}}
ValuesBy(M, ir, r) ==
  \A f \in Fields :
    /\ r.value[f] # Unset =>
         \E m \in M : m.name = f /\ Fires(m, ir[m.mask]) /\ Justifies(m, ir[m.mask], r.value[f])
    /\ \A s : Listed(r.value[f], s) =>
         \E m \in M : m.name = f /\ Fires(m, ir[m.mask]) /\ Gives(m, ir[m.mask], s)

\* One more mask.
LEMMA OneMore ==
  ASSUME NEW ir, NEW M, NEW m \in Answered(ir), NEW r \in ReportRecords, NEW q,
         Applied(m, ir[m.mask], r, q), MatchedBy(M, ir, r), ValuesBy(M, ir, r)
  PROVE  MatchedBy(M \cup {m}, ir, q) /\ ValuesBy(M \cup {m}, ir, q)
<1>1. MatchedBy(M \cup {m}, ir, q)
  BY DEF MatchedBy, Applied
<1>2. ASSUME NEW f \in Fields, q.value[f] # Unset
      PROVE  \E x \in M \cup {m} :
               x.name = f /\ Fires(x, ir[x.mask]) /\ Justifies(x, ir[x.mask], q.value[f])
  <2>1. CASE q.value[f] = r.value[f]
    BY <1>2, <2>1 DEF ValuesBy
  <2>2. CASE q.value[f] # r.value[f]
    BY <2>2 DEF Applied
  <2> QED BY <2>1, <2>2
<1>3. ASSUME NEW f \in Fields, NEW s, Listed(q.value[f], s)
      PROVE  \E x \in M \cup {m} : x.name = f /\ Fires(x, ir[x.mask]) /\ Gives(x, ir[x.mask], s)
  <2>1. Listed(r.value[f], s) \/ (f = m.name /\ Fires(m, ir[m.mask]) /\ Gives(m, ir[m.mask], s))
    BY <1>3 DEF Applied
  <2> QED BY <2>1 DEF ValuesBy
<1> QED BY <1>1, <1>2, <1>3 DEF ValuesBy

LEMMA ApplyAllEffect ==
  ASSUME NEW ir, NEW s \in Seq(Answered(ir)), NEW r \in ReportRecords,
         r.rules_matched = <<>>, \A f \in Fields : r.value[f] = Unset
  PROVE  LET q == ApplyAll(s, ir, r)
         IN  q \in ReportRecords /\ MatchedBy(ToSet(s), ir, q) /\ ValuesBy(ToSet(s), ir, q)
<1>1. PICK h \in [0..Len(s) -> ReportRecords] : AppliesAlong(h, s, ir, r)
  BY ApplyFold
<1>2. Len(s) \in Nat /\ DOMAIN s = 1..Len(s) /\ \A k \in 1..Len(s) : s[k] \in Answered(ir)
  OBVIOUS
<1> DEFINE M(k) == {s[j] : j \in 1..k}
           P(k) == MatchedBy(M(k), ir, h[k]) /\ ValuesBy(M(k), ir, h[k])
           T == {k \in Nat : k <= Len(s) => P(k)}
<1>3. P(0)
  <2>1. M(0) = {} /\ h[0] = r
    BY <1>1 DEF AppliesAlong
  <2>2. ToSet(<<>>) = {}
    BY DEF ToSet
  <2> HIDE DEF M
  <2>3. \A f \in Fields : \A x : ~Listed(r.value[f], x)
    BY ScalarTags DEF Listed
  <2> QED BY <2>1, <2>2, <2>3 DEF MatchedBy, ValuesBy
<1>4. ASSUME NEW k \in Nat, P(k), k + 1 <= Len(s) PROVE P(k + 1)
  <2>1. k + 1 \in 1..Len(s) /\ (k + 1) - 1 = k /\ h[k] \in ReportRecords
    BY <1>2, <1>4
  <2> DEFINE a == h[k]
             x == s[k + 1]
             after == h[k + 1]
             old == M(k)
  <2>2. after = apply_to(x, ir[x.mask], a)
    BY <1>1, <2>1 DEF AppliesAlong
  <2>3. a \in ReportRecords /\ x \in Answered(ir)
    BY <1>2, <2>1
  <2>4. M(k + 1) = old \cup {x}
    <3>1. \A j : j \in 1..(k + 1) <=> j \in 1..k \/ j = k + 1
      OBVIOUS
    <3> QED BY <3>1
  <2>5. MatchedBy(old, ir, a) /\ ValuesBy(old, ir, a)
    BY <1>4
  <2> HIDE DEF a, x, after, old, M
  <2>6. x \in MaskType /\ Expects(x) /\ ir[x.mask] \in JsonAnswers
    BY <2>3 DEF Answered
  <2>7. Applied(x, ir[x.mask], a, after)
    BY <2>2, <2>3, <2>6, MaskApplied
  <2>8. MatchedBy(old \cup {x}, ir, after) /\ ValuesBy(old \cup {x}, ir, after)
    BY <2>3, <2>5, <2>7, OneMore
  <2> QED BY <2>4, <2>8 DEF after
<1> HIDE DEF P
<1>5. 0 \in T /\ \A k \in Nat : k \in T => k + 1 \in T
  BY <1>3, <1>4
<1>6. Nat \subseteq T
  <2> HIDE DEF T
  <2> QED BY <1>5, NatSetInduction
<1>7. P(Len(s))
  BY <1>2, <1>6
<1>8. M(Len(s)) = ToSet(s)
  BY <1>2 DEF ToSet
<1>9. ApplyAll(s, ir, r) = h[Len(s)] /\ h[Len(s)] \in ReportRecords
  BY <1>1, <1>2 DEF AppliesAlong
<1> HIDE DEF M
<1> QED BY <1>7, <1>8, <1>9 DEF P

\* What consume_ir puts in the report: exactly the rules of the masks whose answers count, and no
\* value that no such mask accounts for.
LEMMA ConsumeEffect ==
  ASSUME NEW b, NEW added, Built(b, added), NEW ir \in [MaskIds(b) -> JsonAnswers]
  PROVE  LET q == consume_ir(b, ir)
         IN  q \in ReportRecords /\ MatchedBy(MasksOf(b), ir, q) /\ ValuesBy(MasksOf(b), ir, q)
<1> DEFINE s == MasksInOrder(b)
           r == NewReport(b.default_return)
<1>1. b \in BuilderType /\ b.default_return \in DefaultMaps /\ MasksBuilt(b, added)
  BY DEF Built, BuilderType
<1>2. s \in Seq(MaskType) /\ ToSet(s) = MasksOf(b) /\ Len(s) \in Nat /\ DOMAIN s = 1..Len(s)
  BY <1>1, InOrder
<1>3. consume_ir(b, ir) = ApplyAll(s, ir, r)
  BY DEF consume_ir, ApplyAll
<1>4. r \in ReportRecords /\ r.rules_matched = <<>> /\ \A f \in Fields : r.value[f] = Unset
  <2>1. [f \in Fields |-> Unset] \in [Fields -> ReportValues]
    BY DEF ReportValues
  <2>2. b.default_return \in [Fields -> {Unset, NonFinite} \cup Scalars]
    BY <1>1 DEF DefaultMaps
  <2> QED BY <2>1, <2>2 DEF NewReport, ReportRecords
<1>5. MaskIds(b) = {m.mask : m \in MasksOf(b)}
  BY <1>2 DEF MaskIds
<1> HIDE DEF s, r
<1>6. \A k \in 1..Len(s) : s[k] \in Answered(ir)
  <2>1. ASSUME NEW k \in 1..Len(s) PROVE s[k] \in Answered(ir)
    <3>1. s[k] \in MaskType /\ s[k] \in MasksOf(b)
      BY <1>2 DEF ToSet
    <3>2. Expects(s[k]) /\ s[k].mask \in MaskIds(b)
      BY <1>1, <1>5, <3>1 DEF MasksBuilt
    <3> QED BY <3>1, <3>2 DEF Answered
  <2> QED BY <2>1
<1>7. s \in Seq(Answered(ir))
  BY <1>2, <1>6
<1> QED BY <1>2, <1>3, <1>4, <1>7, ApplyAllEffect
-----------------------------------------------------------------------------
(* Which errors consume_ir can log.                                         *)

OnlyTypeChecks(r) == \A j \in DOMAIN r.errors : r.errors[j][1] = "TypeCheckFailure"

\* What a mask of kind k and default d for field f may do to a report: nothing to the other fields,
\* and no error but a failed type check.
Tidy(k, f, d, r, q) ==
  /\ r \in ReportRecords /\ q \in ReportRecords
  /\ \A g \in Fields : g # f => q.value[g] = r.value[g] /\ q.default[g] = r.default[g]
  /\ q.default[f] \in {r.default[f], d}
  /\ q.value[f] = r.value[f] \/ q.value[f][1] = Tag(k)
  /\ OnlyTypeChecks(r) => OnlyTypeChecks(q)

\* The field holds nothing that the mask could clash with.
Ready(k, f, d, r) ==
  /\ r.default[f] \in {Unset, d}
  /\ r.value[f] # Unset => r.value[f][1] = Tag(k)

LEMMA TidyTransitive ==
  ASSUME NEW k, NEW f, NEW d, NEW r, NEW p, NEW q, Tidy(k, f, d, r, p), Tidy(k, f, d, p, q)
  PROVE  Tidy(k, f, d, r, q)
  BY DEF Tidy

LEMMA TidyQuiet ==
  ASSUME NEW k, NEW f, NEW d, NEW r \in ReportRecords, NEW q \in ReportRecords,
         q.value = r.value, q.default = r.default, q.errors = r.errors
  PROVE  Tidy(k, f, d, r, q)
  BY DEF Tidy, OnlyTypeChecks

LEMMA TidyIndex ==
  ASSUME NEW k, NEW f, NEW d, NEW r \in ReportRecords, NEW i \in Nat
  PROVE  LET q == report_policy_index(r, i)
         IN  Tidy(k, f, d, r, q) /\ q \in ReportRecords /\ q.errors = r.errors /\ q.value = r.value
<1> DEFINE q == report_policy_index(r, i)
<1>1. q \in ReportRecords /\ q.value = r.value
  BY LogIndex
<1>2. q.default = r.default /\ q.errors = r.errors
  BY DEF report_policy_index, ReportRecords
<1> HIDE DEF q
<1>3. Tidy(k, f, d, r, q)
  BY <1>1, <1>2, TidyQuiet
<1> QED BY <1>1, <1>2, <1>3 DEF q

LEMMA TidyConflict ==
  ASSUME NEW k, NEW f \in Fields, NEW d, NEW r \in ReportRecords, NEW a \in ConflictValues, NEW b \in ConflictValues
  PROVE  LET q == report_conflict(r, f, a, b) IN Tidy(k, f, d, r, q) /\ q.errors = r.errors
<1> DEFINE q == report_conflict(r, f, a, b)
<1>1. q \in ReportRecords /\ q.value = r.value
  BY LogConflict
<1>2. q.default = r.default /\ q.errors = r.errors
  BY DEF report_conflict, ReportRecords
<1> HIDE DEF q
<1>3. Tidy(k, f, d, r, q)
  BY <1>1, <1>2, TidyQuiet
<1> QED BY <1>2, <1>3 DEF q

LEMMA TidyTypeCheck ==
  ASSUME NEW k, NEW f \in Fields, NEW d, NEW r \in ReportRecords
  PROVE  Tidy(k, f, d, r, report_type_check_failure(r, f))
<1> DEFINE q == report_type_check_failure(r, f)
           e == <<"TypeCheckFailure", f>>
           E == ErrorKinds \X Fields
<1>1. q \in ReportRecords /\ q.value = r.value
  BY LogError DEF report_type_check_failure, ErrorKinds
<1>2. q.default = r.default /\ q.errors = Append(r.errors, e)
  BY DEF report_type_check_failure, ReportRecords
<1>3. r.errors \in Seq(E) /\ e \in E /\ e[1] = "TypeCheckFailure"
  BY DEF ReportRecords, ErrorKinds
<1> HIDE DEF q, e, E
<1>4. OnlyTypeChecks(r) => OnlyTypeChecks(q)
  <2>1. /\ DOMAIN r.errors = 1..Len(r.errors) /\ DOMAIN q.errors = 1..(Len(r.errors) + 1)
        /\ Len(r.errors) \in Nat /\ q.errors[Len(r.errors) + 1] = e
        /\ \A j \in 1..Len(r.errors) : q.errors[j] = r.errors[j]
    BY <1>2, <1>3
  <2> QED BY <1>3, <2>1 DEF OnlyTypeChecks
<1>5. Tidy(k, f, d, r, q)
  BY <1>1, <1>2, <1>4 DEF Tidy
<1> QED BY <1>5 DEF q

LEMMA TidyDefault ==
  ASSUME NEW k, NEW f \in Fields, NEW d \in Scalars, NEW r \in ReportRecords, Ready(k, f, d, r)
  PROVE  LET q == report_default(r, f, d) IN Tidy(k, f, d, r, q) /\ q.errors = r.errors
<1> DEFINE q == [r EXCEPT !.default[f] = d]
<1>1. CASE r.default[f] = Unset
  <2>1. /\ q \in ReportRecords /\ q.value = r.value /\ q.errors = r.errors
        /\ q.default = [r.default EXCEPT ![f] = d] /\ f \in DOMAIN r.default
    BY DEF ReportRecords
  <2>2. report_default(r, f, d) = q
    BY <1>1 DEF report_default
  <2> HIDE DEF q
  <2>3. Tidy(k, f, d, r, q)
    BY <2>1 DEF Tidy, OnlyTypeChecks, ReportRecords
  <2> QED BY <2>1, <2>2, <2>3
<1>2. CASE r.default[f] # Unset
  <2>1. report_default(r, f, d) = r
    BY <1>2 DEF report_default, Ready
  <2> QED BY <2>1, TidyQuiet
<1> QED BY <1>1, <1>2

LEMMA TidyStore ==
  ASSUME NEW k, NEW f \in Fields, NEW d, NEW r \in ReportRecords, NEW v \in ReportValues, v[1] = Tag(k)
  PROVE  LET q == [r EXCEPT !.value[f] = v] IN Tidy(k, f, d, r, q) /\ q.errors = r.errors
<1> DEFINE q == [r EXCEPT !.value[f] = v]
<1>1. q \in ReportRecords /\ q.value = [r.value EXCEPT ![f] = v]
  BY SetValue
<1>2. q.errors = r.errors /\ q.default = r.default
  BY DEF ReportRecords
<1> HIDE DEF q
<1>3. Tidy(k, f, d, r, q)
  BY <1>1, <1>2 DEF Tidy, OnlyTypeChecks, ReportRecords
<1> QED BY <1>2, <1>3 DEF q

\* The four report_* functions for scalars never meet a value of another kind.
LEMMA TidyResolve ==
  ASSUME NEW k, NEW f \in Fields, NEW d, NEW r \in ReportRecords, NEW v \in Scalars, v[1] = Tag(k), NEW oc,
         NEW i \in Nat, Ready(k, f, d, r)
  PROVE  LET q == Resolve(k, report_policy_index(r, i), f, v, oc) IN Tidy(k, f, d, r, q) /\ q.errors = r.errors
<1> DEFINE p == report_policy_index(r, i)
           q == Resolve(k, p, f, v, oc)
           stored == [p EXCEPT !.value[f] = v]
           clash == report_conflict(p, f, p.value[f], v)
<1>1. Tidy(k, f, d, r, p) /\ p \in ReportRecords /\ p.errors = r.errors /\ p.value = r.value
  BY TidyIndex
<1> HIDE DEF p
<1>2. p.value[f] # Unset => p.value[f][1] = Tag(k)
  BY <1>1 DEF Ready
<1>3. p.value[f] \in ConflictValues /\ v \in ConflictValues /\ v \in ReportValues
  BY <1>1 DEF ReportRecords, ConflictValues, ReportValues
<1>4. q \in {p, stored, clash}
  BY <1>2 DEF Resolve
<1>5. Tidy(k, f, d, p, stored) /\ stored.errors = p.errors
  BY <1>1, <1>3, TidyStore
<1>6. Tidy(k, f, d, p, clash) /\ clash.errors = p.errors
  BY <1>1, <1>3, TidyConflict
<1>7. Tidy(k, f, d, p, p)
  BY <1>1, TidyQuiet
<1> HIDE DEF q, stored, clash
<1>8. Tidy(k, f, d, p, q) /\ q.errors = r.errors
  BY <1>1, <1>4, <1>5, <1>6, <1>7
<1>9. Tidy(k, f, d, r, q)
  BY <1>1, <1>8, TidyTransitive
<1> QED BY <1>8, <1>9 DEF p, q

\* The answer has the type that the mask reads.
Fits(m, v) ==
  \/ v = Unset
  \/ /\ m.kind \in {"bool", "enum"} => v \in Bools
     /\ m.kind = "number" => v \in NumberValues
     /\ m.kind = "string" => v \in StringValues
     /\ m.kind = "array" => extract_strings(v) # None

\* A mask that finds its field as it expects logs no error but a failed type check, and none at all
\* for an answer of its type.
Behaves(m, v, r, q) ==
  /\ Tidy(m.kind, m.name, m.default, r, q)
  /\ Fits(m, v) => q.errors = r.errors

Prepared(m, r) ==
  /\ m \in MaskType /\ Expects(m) /\ m.default # NonFinite
  /\ r \in ReportRecords /\ Ready(m.kind, m.name, m.default, r)

LEMMA BehavesUnanswered ==
  ASSUME NEW m, NEW v, NEW r, Prepared(m, r)
  PROVE  /\ Behaves(m, v, r, r)
         /\ ~Fits(m, v) => Behaves(m, v, r, report_type_check_failure(r, m.name))
         /\ m.default # None => Behaves(m, v, r, report_default(r, m.name, m.default))
<1> DEFINE f == m.name
           d == m.default
           k == m.kind
           a == report_type_check_failure(r, f)
           c == report_default(r, f, d)
<1>1. f \in Fields /\ r \in ReportRecords /\ Ready(k, f, d, r) /\ (d # None => d \in Scalars)
  BY DEF Prepared, MaskType
<1>2. Tidy(k, f, d, r, r)
  BY <1>1, TidyQuiet
<1>3. Tidy(k, f, d, r, a)
  <2> HIDE DEF k, f, d
  <2> QED BY <1>1, TidyTypeCheck
<1>4. d # None => Tidy(k, f, d, r, c) /\ c.errors = r.errors
  <2> HIDE DEF k, f, d
  <2> QED BY <1>1, TidyDefault
<1> QED BY <1>2, <1>3, <1>4 DEF Behaves

LEMMA BehavesReporting ==
  ASSUME NEW m, NEW v, NEW r, Prepared(m, r), NEW x \in Scalars, x[1] = Tag(m.kind), NEW oc
  PROVE  Behaves(m, v, r, Resolve(m.kind, report_policy_index(r, m.policy_index), m.name, x, oc))
<1> DEFINE f == m.name
           d == m.default
           k == m.kind
           i == m.policy_index
           q == Resolve(k, report_policy_index(r, i), f, x, oc)
<1>1. f \in Fields /\ r \in ReportRecords /\ Ready(k, f, d, r) /\ i \in Nat /\ x[1] = Tag(k)
  BY DEF Prepared, MaskType
<1>2. Tidy(k, f, d, r, q) /\ q.errors = r.errors
  <2> HIDE DEF k, f, d, i
  <2> QED BY <1>1, TidyResolve
<1> QED BY <1>2 DEF Behaves

LEMMA BehavesContradicting ==
  ASSUME NEW m, NEW v, NEW r, Prepared(m, r), NEW a \in ConflictValues, NEW b \in ConflictValues
  PROVE  Behaves(m, v, r, report_conflict(report_policy_index(r, m.policy_index), m.name, a, b))
<1> DEFINE f == m.name
           d == m.default
           k == m.kind
           i == m.policy_index
           p == report_policy_index(r, i)
           q == report_conflict(p, f, a, b)
<1>1. f \in Fields /\ r \in ReportRecords /\ i \in Nat
  BY DEF Prepared, MaskType
<1> HIDE DEF k, f, d, i
<1>2. Tidy(k, f, d, r, p) /\ p \in ReportRecords /\ p.errors = r.errors
  BY <1>1, TidyIndex
<1> HIDE DEF p
<1>3. Tidy(k, f, d, p, q) /\ q.errors = p.errors
  BY <1>1, <1>2, TidyConflict
<1> HIDE DEF q
<1>4. Tidy(k, f, d, r, q) /\ q.errors = r.errors
  BY <1>2, <1>3, TidyTransitive
<1> QED BY <1>4 DEF Behaves, k, f, d, i, p, q

LEMMA BoolBehaves ==
  ASSUME NEW m, NEW r, Prepared(m, r), m.kind = "bool", NEW v \in JsonAnswers
  PROVE  Behaves(m, v, r, BoolMask_apply_to(m, v, r))
<1>1. CASE v \in Bools
  <2>1. v # Unset /\ v[1] = "bool" /\ v \in Scalars /\ v[1] = Tag(m.kind)
    BY <1>1, AnswerTags DEF Scalars, Tag
  <2>2. BoolMask_apply_to(m, v, r)
          = Resolve(m.kind, report_policy_index(r, m.policy_index), m.name, v, m.on_conflict)
    BY <2>1 DEF BoolMask_apply_to, report_bool
  <2>3. Behaves(m, v, r, Resolve(m.kind, report_policy_index(r, m.policy_index), m.name, v, m.on_conflict))
    BY <2>1, BehavesReporting
  <2> QED BY <2>2, <2>3
<1>2. CASE v \notin Bools
  <2>1. v[1] # "bool"
    BY <1>2, AnswerTags
  <2>2. v # Unset => ~Fits(m, v)
    BY <1>2 DEF Fits
  <2> QED BY <2>1, <2>2, BehavesUnanswered DEF BoolMask_apply_to, report_bool_default
<1> QED BY <1>1, <1>2

LEMMA NumberBehaves ==
  ASSUME NEW m, NEW r, Prepared(m, r), m.kind = "number", NEW v \in JsonAnswers
  PROVE  Behaves(m, v, r, NumberMask_apply_to(m, v, r))
<1>1. CASE v \in NumberValues /\ (m.value = None \/ number_is_equal(v[2], m.value[2]))
  <2>1. v # Unset /\ v[1] = "number" /\ v \in Scalars /\ v[1] = Tag(m.kind)
    BY <1>1, AnswerTags DEF Scalars, Tag
  <2>2. NumberMask_apply_to(m, v, r)
          = Resolve(m.kind, report_policy_index(r, m.policy_index), m.name, v, m.on_conflict)
    BY <1>1, <2>1 DEF NumberMask_apply_to, report_number
  <2>3. Behaves(m, v, r, Resolve(m.kind, report_policy_index(r, m.policy_index), m.name, v, m.on_conflict))
    BY <2>1, BehavesReporting
  <2> QED BY <2>2, <2>3
<1>2. CASE v \in NumberValues /\ ~(m.value = None \/ number_is_equal(v[2], m.value[2]))
  <2>1. v # Unset /\ v[1] = "number" /\ v \in ConflictValues /\ m.value \in ConflictValues
    BY <1>2, AnswerTags DEF Scalars, Expects, ConflictValues, ReportValues, Prepared
  <2>2. NumberMask_apply_to(m, v, r)
          = report_conflict(report_policy_index(r, m.policy_index), m.name, v, m.value)
    BY <1>2, <2>1 DEF NumberMask_apply_to, Mismatch
  <2> QED BY <2>1, <2>2, BehavesContradicting
<1>3. CASE v \notin NumberValues
  <2>1. v[1] # "number" /\ m.default # NonFinite
    BY <1>3, AnswerTags DEF Prepared
  <2>2. v # Unset => ~Fits(m, v)
    BY <1>3 DEF Fits
  <2> QED BY <2>1, <2>2, BehavesUnanswered DEF NumberMask_apply_to, report_number_default
<1> QED BY <1>1, <1>2, <1>3

LEMMA StringBehaves ==
  ASSUME NEW m, NEW r, Prepared(m, r), m.kind = "string", NEW v \in JsonAnswers
  PROVE  Behaves(m, v, r, StringMask_apply_to(m, v, r))
<1>1. CASE v \in StringValues /\ (m.value = None \/ v = m.value)
  <2>1. v # Unset /\ v[1] = "string" /\ v \in Scalars /\ v[1] = Tag(m.kind)
    BY <1>1, AnswerTags DEF Scalars, Tag
  <2>2. StringMask_apply_to(m, v, r)
          = Resolve(m.kind, report_policy_index(r, m.policy_index), m.name, v, m.on_conflict)
    BY <1>1, <2>1 DEF StringMask_apply_to, report_string
  <2>3. Behaves(m, v, r, Resolve(m.kind, report_policy_index(r, m.policy_index), m.name, v, m.on_conflict))
    BY <2>1, BehavesReporting
  <2> QED BY <2>2, <2>3
<1>2. CASE v \in StringValues /\ ~(m.value = None \/ v = m.value)
  <2>1. v # Unset /\ v[1] = "string" /\ v \in ConflictValues /\ m.value \in ConflictValues
    BY <1>2, AnswerTags DEF Scalars, Expects, ConflictValues, ReportValues, Prepared
  <2>2. StringMask_apply_to(m, v, r)
          = report_conflict(report_policy_index(r, m.policy_index), m.name, v, m.value)
    BY <1>2, <2>1 DEF StringMask_apply_to, Mismatch
  <2> QED BY <2>1, <2>2, BehavesContradicting
<1>3. CASE v \notin StringValues
  <2>1. v[1] # "string"
    BY <1>3, AnswerTags
  <2>2. v # Unset => ~Fits(m, v)
    BY <1>3 DEF Fits
  <2> QED BY <2>1, <2>2, BehavesUnanswered DEF StringMask_apply_to, report_string_default
<1> QED BY <1>1, <1>2, <1>3

LEMMA EnumBehaves ==
  ASSUME NEW m, NEW r, Prepared(m, r), m.kind = "enum", NEW v \in JsonAnswers
  PROVE  Behaves(m, v, r, StringEnumMask_apply_to(m, v, r))
<1> DEFINE no == <<"bool", FALSE>>
<1>1. no \in Bools /\ Null \in ConflictValues
  BY DEF Bools, ConflictValues
<1> HIDE DEF no
<1>2. StringEnumMask_apply_to(m, v, r) =
        IF v \in {Unset, no}
          THEN IF m.default = None THEN r ELSE report_default(r, m.name, m.default)
        ELSE IF v[1] # "bool" THEN report_type_check_failure(r, m.name)
        ELSE IF m.value = None
          THEN report_conflict(report_policy_index(r, m.policy_index), m.name, v, Null)
        ELSE Resolve(m.kind, report_policy_index(r, m.policy_index), m.name, m.value, m.on_conflict)
  BY DEF StringEnumMask_apply_to, report_string_default, report_string_enum, no
<1>3. CASE v \in {Unset, no}
  BY <1>2, <1>3, BehavesUnanswered
<1>4. CASE v \notin {Unset, no} /\ v[1] # "bool"
  <2>1. ~Fits(m, v)
    BY <1>4, AnswerTags DEF Fits
  <2> QED BY <1>2, <1>4, <2>1, BehavesUnanswered
<1>5. CASE v \notin {Unset, no} /\ v[1] = "bool" /\ m.value = None
  <2>1. v \in ConflictValues
    BY <1>5, AnswerTags DEF ConflictValues, ReportValues, Scalars
  <2> QED BY <1>1, <1>2, <1>5, <2>1, BehavesContradicting
<1>6. CASE v \notin {Unset, no} /\ v[1] = "bool" /\ m.value # None
  <2>1. m.value \in StringValues
    BY <1>6 DEF Prepared, Expects
  <2>2. m.value \in Scalars /\ m.value[1] = Tag(m.kind)
    BY <2>1, ScalarTags DEF Scalars, Tag
  <2>3. Behaves(m, v, r, Resolve(m.kind, report_policy_index(r, m.policy_index), m.name, m.value, m.on_conflict))
    BY <2>2, BehavesReporting
  <2> QED BY <1>2, <1>6, <2>3
<1> QED BY <1>3, <1>4, <1>5, <1>6

\* Adding a string to an array field leaves it an array and logs nothing.
TidyArray(r, f, d, q) == Tidy("array", f, d, r, q) /\ q.errors = r.errors

LEMMA TidyAdd ==
  ASSUME NEW r \in ReportRecords, NEW i \in Nat, NEW f \in Fields, NEW d, NEW s \in Strings
  PROVE  TidyArray(r, f, d, report_string_array(r, i, f, s))
<1> DEFINE old == r.value[f]
           new == IF old[1] # "array" THEN <<"array", <<s>>>>
                  ELSE IF Contains(old[2], s) THEN old
                  ELSE <<"array", Append(old[2], s)>>
           p == report_policy_index(r, i)
           q == [p EXCEPT !.value[f] = new]
<1>1. old \in ReportValues
  BY DEF ReportRecords
<1>2. old[1] = "array" => old \in {"array"} \X Seq(Strings)
  BY <1>1, ScalarTags DEF ReportValues, Scalars
<1> HIDE DEF old
<1>3. new \in ReportValues /\ new[1] = Tag("array")
  <2>1. CASE old[1] # "array"
    BY <2>1 DEF ReportValues, Tag
  <2>2. CASE old[1] = "array"
    <3>1. old[2] \in Seq(Strings) /\ Append(old[2], s) \in Seq(Strings)
      BY <1>2, <2>2
    <3> QED BY <1>1, <2>2, <3>1 DEF ReportValues, Tag
  <2> QED BY <2>1, <2>2
<1>4. report_string_array(r, i, f, s) = q
  BY DEF report_string_array, old
<1>5. Tidy("array", f, d, r, p) /\ p \in ReportRecords /\ p.errors = r.errors
  BY TidyIndex
<1> HIDE DEF new, p
<1>6. Tidy("array", f, d, p, q) /\ q.errors = p.errors
  BY <1>3, <1>5, TidyStore
<1> HIDE DEF q
<1>7. Tidy("array", f, d, r, q)
  BY <1>5, <1>6, TidyTransitive
<1> QED BY <1>4, <1>5, <1>6, <1>7 DEF TidyArray

LEMMA TidyEmpty ==
  ASSUME NEW r \in ReportRecords, NEW i \in Nat, NEW f \in Fields, NEW d
  PROVE  TidyArray(r, f, d, init_empty_string_array(r, i, f))
<1> DEFINE p == report_policy_index(r, i)
           new == IF p.value[f] = Unset THEN <<"array", <<>>>> ELSE p.value[f]
           q == [p EXCEPT !.value[f] = new]
<1>1. Tidy("array", f, d, r, p) /\ p \in ReportRecords /\ p.errors = r.errors
  BY TidyIndex
<1>2. init_empty_string_array(r, i, f) = q
  BY DEF init_empty_string_array
<1> HIDE DEF p
<1>3. Tidy("array", f, d, p, q) /\ q.errors = p.errors
  <2>1. CASE p.value[f] = Unset
    <3>1. <<>> \in Seq(Strings)
      OBVIOUS
    <3>2. <<"array", <<>>>> \in {"array"} \X Seq(Strings)
      BY <3>1
    <3>3. new \in ReportValues /\ new[1] = Tag("array")
      BY <2>1, <3>2 DEF ReportValues, Tag
    <3> HIDE DEF new
    <3> QED BY <1>1, <3>3, TidyStore
  <2>2. CASE p.value[f] # Unset
    <3>1. new = p.value[f] /\ new \in ReportValues
      BY <1>1, <2>2 DEF ReportRecords
    <3> HIDE DEF new
    <3>2. /\ q \in ReportRecords /\ q.value = [p.value EXCEPT ![f] = new]
          /\ q.default = p.default /\ q.errors = p.errors
      BY <1>1, <3>1, SetValue DEF ReportRecords
    <3> HIDE DEF q
    <3>3. q.value = p.value
      BY <1>1, <3>1, <3>2 DEF ReportRecords
    <3> QED BY <1>1, <3>2, <3>3, TidyQuiet
  <2> QED BY <2>1, <2>2
<1> HIDE DEF q
<1>4. Tidy("array", f, d, r, q)
  BY <1>1, <1>3, TidyTransitive
<1> QED BY <1>1, <1>2, <1>3, <1>4 DEF TidyArray

LEMMA TidyStrings ==
  ASSUME NEW m \in MaskType, NEW s \in Seq(Strings), NEW r \in ReportRecords, NEW d
  PROVE  TidyArray(r, m.name, d, ReportStrings(m, s, r))
<1>1. PICK h \in [0..Len(s) -> ReportRecords] : StringsAlong(h, m, s, r)
  BY StringsFold
<1>2. Len(s) \in Nat /\ \A k \in 1..Len(s) : s[k] \in Strings
  OBVIOUS
<1> DEFINE i == m.policy_index
           f == m.name
<1>3. i \in Nat /\ f \in Fields
  BY DEF MaskType
<1>4. /\ h[0] = r /\ ReportStrings(m, s, r) = h[Len(s)]
      /\ \A k \in 1..Len(s) : h[k] = report_string_array(h[k - 1], i, f, s[k])
  BY <1>1 DEF StringsAlong
<1> HIDE DEF i, f
<1> DEFINE P(k) == TidyArray(r, f, d, h[k])
           T == {k \in Nat : k <= Len(s) => P(k)}
<1>5. P(0)
  BY <1>4, TidyQuiet DEF TidyArray
<1>6. ASSUME NEW k \in Nat, P(k), k + 1 <= Len(s) PROVE P(k + 1)
  <2>1. k + 1 \in 1..Len(s) /\ (k + 1) - 1 = k
    BY <1>2, <1>6
  <2> DEFINE a == h[k]
             x == s[k + 1]
             after == h[k + 1]
  <2>2. after = report_string_array(a, i, f, x) /\ x \in Strings
    BY <1>2, <1>4, <2>1
  <2>3. TidyArray(r, f, d, a)
    BY <1>6
  <2> HIDE DEF a, x, after
  <2>4. a \in ReportRecords
    BY <2>3 DEF TidyArray, Tidy
  <2>5. TidyArray(a, f, d, report_string_array(a, i, f, x))
    BY <1>3, <2>2, <2>4, TidyAdd
  <2>6. Tidy("array", f, d, r, a) /\ Tidy("array", f, d, a, after) /\ after.errors = r.errors
    BY <2>2, <2>3, <2>5 DEF TidyArray
  <2>7. Tidy("array", f, d, r, after)
    BY <2>6, TidyTransitive
  <2> QED BY <2>6, <2>7 DEF TidyArray, after
<1> HIDE DEF P
<1>7. 0 \in T /\ \A k \in Nat : k \in T => k + 1 \in T
  BY <1>5, <1>6
<1>8. Nat \subseteq T
  <2> HIDE DEF T
  <2> QED BY <1>7, NatSetInduction
<1>9. P(Len(s))
  BY <1>2, <1>8
<1> QED BY <1>4, <1>9 DEF P, f

LEMMA ArrayBehaves ==
  ASSUME NEW m, NEW r, Prepared(m, r), m.kind = "array", NEW v \in JsonAnswers
  PROVE  Behaves(m, v, r, StringArrayMask_apply_to(m, v, r))
<1> DEFINE found == extract_strings(v)
           q == StringArrayMask_apply_to(m, v, r)
<1>1. m \in MaskType /\ m.policy_index \in Nat /\ m.name \in Fields /\ r \in ReportRecords
  BY DEF Prepared, MaskType
<1>2. q = IF v = Unset THEN r
          ELSE IF found = None THEN report_type_check_failure(r, m.name)
          ELSE IF found[2] = <<>> THEN init_empty_string_array(r, m.policy_index, m.name)
          ELSE ReportStrings(m, found[2], r)
  BY DEF StringArrayMask_apply_to, ReportStrings
<1>3. v # Unset /\ found = None => ~Fits(m, v)
  BY DEF Fits
<1>4. found # None => found[2] \in Seq(Strings)
  BY Extracted
<1> HIDE DEF found, q
<1>5. CASE v = Unset \/ found = None
  <2>1. Behaves(m, v, r, q)
    BY <1>2, <1>3, <1>5, BehavesUnanswered
  <2> QED BY <2>1 DEF q
<1>6. CASE v # Unset /\ found # None
  <2>1. TidyArray(r, m.name, m.default, q)
    <3>1. CASE found[2] = <<>>
      BY <1>1, <1>2, <1>6, <3>1, TidyEmpty
    <3>2. CASE found[2] # <<>>
      BY <1>1, <1>2, <1>4, <1>6, <3>2, TidyStrings
    <3> QED BY <3>1, <3>2
  <2>2. Behaves(m, v, r, q)
    BY <2>1 DEF TidyArray, Behaves
  <2> QED BY <2>2 DEF q
<1> QED BY <1>5, <1>6

\* A mask of any kind.
LEMMA MaskBehaves ==
  ASSUME NEW m, NEW r, Prepared(m, r), NEW v \in JsonAnswers
  PROVE  Behaves(m, v, r, apply_to(m, v, r))
<1>1. m.kind \in Kinds
  BY DEF Prepared, MaskType
<1>2. CASE m.kind = "bool"
  BY <1>2, BoolBehaves DEF apply_to
<1>3. CASE m.kind = "number"
  BY <1>3, NumberBehaves DEF apply_to
<1>4. CASE m.kind = "string"
  BY <1>4, StringBehaves DEF apply_to
<1>5. CASE m.kind = "array"
  BY <1>5, ArrayBehaves DEF apply_to
<1>6. CASE m.kind = "enum"
  BY <1>6, EnumBehaves DEF apply_to
<1> QED BY <1>1, <1>2, <1>3, <1>4, <1>5, <1>6 DEF Kinds

\* A type that names no field twice and whose default numbers JSON can hold.  The parser refuses the
\* first, a PolicyType made by hand need not; a literal too large for an f64 defeats the second.
PlainType(type) ==
  /\ \A x, y \in ToSet(type) : x.name = y.name => x = y
  /\ \A y \in ToSet(type) : y.default # NonFinite

\* The type of the policies s, as long as they have only one.
LatestType(s) == IF s = <<>> THEN <<>> ELSE Last(s).type

LEMMA NewDefaults == NewBuilder.default_return = default_value(LatestType(<<>>))
<1>1. \A f : ShownDefaults(<<>>, f) = {}
  BY DEF ShownDefaults
<1> QED BY <1>1 DEF NewBuilder, default_value, LatestType

\* No field of the type holds what a mask made for it could clash with.
AllReady(type, r) == \A y \in ToSet(type) : Ready(y.kind, y.name, y.default, r)

\* The report consume_ir starts from: its defaults are those of the type.
LEMMA StartReady ==
  ASSUME NEW type \in Seq(FieldRecords), PlainType(type)
  PROVE  AllReady(type, NewReport(default_value(type)))
<1> DEFINE r == NewReport(default_value(type))
<1>1. /\ r.default = default_value(type) /\ r.value = [f \in Fields |-> Unset]
  BY DEF NewReport
<1> HIDE DEF r
<1>2. ASSUME NEW y \in ToSet(type) PROVE Ready(y.kind, y.name, y.default, r)
  <2>1. y \in FieldRecords
    BY DEF ToSet
  <2>2. y.name \in Fields
    BY <2>1 DEF FieldRecords
  <2>3. r.default[y.name] = default_value(type)[y.name]
    BY <1>1
  <2>4. default_value(type)[y.name] # Unset => default_value(type)[y.name] = y.default
    BY <2>2, ShownDefault DEF PlainType
  <2> QED BY <1>1, <2>2, <2>3, <2>4 DEF Ready
<1> QED BY <1>2 DEF AllReady, r

LEMMA ReadyKept ==
  ASSUME NEW type \in Seq(FieldRecords), PlainType(type), NEW y \in ToSet(type), NEW r, NEW q,
         AllReady(type, r), Tidy(y.kind, y.name, y.default, r, q)
  PROVE  AllReady(type, q)
<1>1. ASSUME NEW z \in ToSet(type) PROVE Ready(z.kind, z.name, z.default, q)
  <2>1. z \in FieldRecords
    BY DEF ToSet
  <2>2. z.name \in Fields /\ Ready(z.kind, z.name, z.default, r)
    BY <2>1 DEF FieldRecords, AllReady
  <2>3. CASE z.name = y.name
    <3>1. z = y
      BY <2>3 DEF PlainType
    <3> QED BY <2>2, <3>1 DEF Ready, Tidy
  <2>4. CASE z.name # y.name
    BY <2>2, <2>4 DEF Ready, Tidy
  <2> QED BY <2>3, <2>4
<1> QED BY <1>1 DEF AllReady

\* What is left of the errors: failed type checks, and none when every answer has its type.
CleanAfter(fit, r) == OnlyTypeChecks(r) /\ (fit => r.errors = <<>>)

LEMMA ApplyAllClean ==
  ASSUME NEW ir, NEW s \in Seq(Answered(ir)), NEW type \in Seq(FieldRecords), PlainType(type),
         \A k \in 1..Len(s) : \E y \in ToSet(type) :
            y.name = s[k].name /\ y.kind = s[k].kind /\ y.default = s[k].default,
         NEW r \in ReportRecords, r.errors = <<>>, AllReady(type, r),
         NEW fit \in BOOLEAN, fit => \A k \in 1..Len(s) : Fits(s[k], ir[s[k].mask])
  PROVE  CleanAfter(fit, ApplyAll(s, ir, r))
<1>1. PICK h \in [0..Len(s) -> ReportRecords] : AppliesAlong(h, s, ir, r)
  BY ApplyFold
<1>2. Len(s) \in Nat /\ DOMAIN s = 1..Len(s) /\ \A k \in 1..Len(s) : s[k] \in Answered(ir)
  OBVIOUS
<1> DEFINE P(k) == AllReady(type, h[k]) /\ CleanAfter(fit, h[k])
           T == {k \in Nat : k <= Len(s) => P(k)}
<1>3. P(0)
  <2>1. h[0] = r
    BY <1>1 DEF AppliesAlong
  <2> QED BY <2>1 DEF CleanAfter, OnlyTypeChecks
<1>4. ASSUME NEW k \in Nat, P(k), k + 1 <= Len(s) PROVE P(k + 1)
  <2>1. k + 1 \in 1..Len(s) /\ (k + 1) - 1 = k /\ h[k] \in ReportRecords
    BY <1>2, <1>4
  <2> DEFINE a == h[k]
             x == s[k + 1]
             after == h[k + 1]
  <2>2. after = apply_to(x, ir[x.mask], a)
    BY <1>1, <2>1 DEF AppliesAlong
  <2>3. a \in ReportRecords /\ x \in Answered(ir) /\ AllReady(type, a) /\ CleanAfter(fit, a)
    BY <1>2, <1>4, <2>1
  <2>4. PICK y \in ToSet(type) : y.name = x.name /\ y.kind = x.kind /\ y.default = x.default
    BY <2>1
  <2>5. fit => Fits(x, ir[x.mask])
    BY <2>1
  <2> HIDE DEF a, x, after
  <2>6. x \in MaskType /\ Expects(x) /\ ir[x.mask] \in JsonAnswers
    BY <2>3 DEF Answered
  <2>7. Prepared(x, a)
    BY <2>3, <2>4, <2>6 DEF Prepared, AllReady, PlainType
  <2>8. Behaves(x, ir[x.mask], a, after)
    BY <2>2, <2>6, <2>7, MaskBehaves
  <2>9. Tidy(y.kind, y.name, y.default, a, after)
    BY <2>4, <2>8 DEF Behaves
  <2>10. AllReady(type, after)
    BY <2>3, <2>9, ReadyKept
  <2>11. CleanAfter(fit, after)
    BY <2>3, <2>5, <2>8 DEF CleanAfter, Behaves, Tidy
  <2> QED BY <2>10, <2>11 DEF after
<1> HIDE DEF P
<1>5. 0 \in T /\ \A k \in Nat : k \in T => k + 1 \in T
  BY <1>3, <1>4
<1>6. Nat \subseteq T
  <2> HIDE DEF T
  <2> QED BY <1>5, NatSetInduction
<1>7. P(Len(s))
  BY <1>2, <1>6
<1>8. ApplyAll(s, ir, r) = h[Len(s)]
  BY <1>1 DEF AppliesAlong
<1> QED BY <1>7, <1>8 DEF P

\* Policies of one plain type: whatever the LLM answers, consume_ir logs failed type checks only, and
\* none when every answer has the type its mask reads.
LEMMA ConsumeClean ==
  ASSUME NEW b, NEW added, Built(b, added), NEW type \in Seq(FieldRecords), PlainType(type),
         \A i \in 1..Len(added) : added[i].type = type, b.default_return = default_value(type),
         NEW ir \in [MaskIds(b) -> JsonAnswers],
         NEW fit \in BOOLEAN, fit => \A m \in MasksOf(b) : Fits(m, ir[m.mask])
  PROVE  CleanAfter(fit, consume_ir(b, ir))
<1> DEFINE s == MasksInOrder(b)
           r == NewReport(b.default_return)
<1>1. b \in BuilderType /\ b.default_return \in DefaultMaps /\ MasksBuilt(b, added)
  BY DEF Built, BuilderType
<1>2. s \in Seq(MaskType) /\ ToSet(s) = MasksOf(b) /\ Len(s) \in Nat /\ DOMAIN s = 1..Len(s)
  BY <1>1, InOrder
<1>3. consume_ir(b, ir) = ApplyAll(s, ir, r)
  BY DEF consume_ir, ApplyAll
<1>4. r \in ReportRecords /\ r.errors = <<>>
  <2>1. [f \in Fields |-> Unset] \in [Fields -> ReportValues]
    BY DEF ReportValues
  <2>2. b.default_return \in [Fields -> {Unset, NonFinite} \cup Scalars]
    BY <1>1 DEF DefaultMaps
  <2> QED BY <2>1, <2>2 DEF NewReport, ReportRecords
<1>5. AllReady(type, r)
  BY StartReady
<1>6. MaskIds(b) = {m.mask : m \in MasksOf(b)}
  BY <1>2 DEF MaskIds
<1> HIDE DEF s, r
<1>7. ASSUME NEW k \in 1..Len(s)
      PROVE  /\ s[k] \in Answered(ir) /\ s[k] \in MasksOf(b)
             /\ \E y \in ToSet(type) : y.name = s[k].name /\ y.kind = s[k].kind /\ y.default = s[k].default
  <2>1. s[k] \in MaskType /\ s[k] \in MasksOf(b)
    BY <1>2 DEF ToSet
  <2>2. Expects(s[k]) /\ s[k].mask \in MaskIds(b) /\ s[k].policy_index \in 1..Len(added)
        /\ Made(s[k], added[s[k].policy_index])
    BY <1>1, <1>6, <2>1 DEF MasksBuilt
  <2>3. added[s[k].policy_index].type = type
    BY <2>2
  <2> QED BY <2>1, <2>2, <2>3 DEF Answered, Made
<1>8. s \in Seq(Answered(ir))
  BY <1>2, <1>7
<1>9. CleanAfter(fit, ApplyAll(s, ir, r))
  BY <1>4, <1>5, <1>7, <1>8, ApplyAllClean
<1> QED BY <1>3, <1>9
=============================================================================
