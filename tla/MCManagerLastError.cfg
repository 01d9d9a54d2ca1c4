SPECIFICATION Spec
CONSTANTS
  Ints <- MCInts
  Floats = {4}
  I64Max = 6
  F64 <- MCF64
  Fields = {"b", "e"}
  Strings = {"low", "high"}
  StrLen <- MCStrLen
  MaxDepth = 3
  PolicySet <- OnlyUrgent
  Templates <- NoTemplate
  Answers <- BoolAnswers
  RuleSets = {{}, {1}}
  Tokens = {1}
  MaxAttempts = 5
  MaxPolicies = 1
  MaxApplies = 1
INVARIANT LastErrorIsFinal
CHECK_DEADLOCK FALSE
