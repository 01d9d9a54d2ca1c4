SPECIFICATION Spec
CONSTANTS
  Ints <- MCInts
  Floats = {4}
  I64Max = 6
  F64 <- MCF64
  Fields = {"b", "e"}
  Strings = {"low", "high"}
  StrLen <- MCStrLen
  MaxDepth = 3
  PolicySet <- AllPolicies
  Templates <- AllTemplates
  Answers <- AllAnswers
  RuleSets = {{}, {1}, {2}, {1, 2}, {0, 1}, {3}}
  Tokens = {1}
  MaxAttempts = 3
  MaxPolicies = 2
  MaxApplies = 1
INVARIANTS TypeOK ConversationWellFormed OkIsAccountedFor OkHasNoInternalError
PROPERTIES ConversationOnlyGrows FeedbackNamesRules
CHECK_DEADLOCK FALSE
