SPECIFICATION Spec
CONSTANTS
  Idents = {"x", "inf"}
  Strings <- MCStrings
  Numbers = {"1", "inf", "-inf"}
  MaxTokens = 18
INVARIANTS TypeOK RoundTrip NothingIgnored
CHECK_DEADLOCK FALSE
