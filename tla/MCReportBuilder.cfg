SPECIFICATION Spec
CONSTANTS
  Ints <- MCInts
  Floats <- MCFloats
  I64Max = 6
  F64 <- MCF64
  Fields = {"b", "n", "e", "a"}
  Strings = {"low", "high", "huge"}
  StrLen <- MCStrLen
  MaxDepth = 3
  PolicySet <- MCPolicies
  Answers <- MCAnswers
  MaxPolicies = 2
INVARIANTS TypeOK MasksFollowRules RequestMatchesMasks MatchesAttributed ValuesComeFromPolicies SchemaSuffices
