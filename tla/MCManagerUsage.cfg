SPECIFICATION Spec
CONSTANTS
  Ints <- MCInts
  Floats = {4}
  I64Max = 6
  F64 <- MCF64
  Fields = {"b", "e"}
  Strings = {"low", "high"}
  StrLen <- MCStrLen
  MaxDepth = 3
  PolicySet <- GoodPolicies
  Templates <- NoTemplate
  Answers <- BoolAnswers
  RuleSets = {{}, {1}}
  Tokens = {1, 3}
  MaxAttempts = 5
  MaxPolicies = 1
  MaxApplies = 2
INVARIANT UsageCountsResponses
PROPERTY ApplyReturns
CHECK_DEADLOCK FALSE
