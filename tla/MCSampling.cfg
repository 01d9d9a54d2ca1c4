SPECIFICATION Spec
CONSTANTS
  Ks = {0, 1, 2, 3, 4}
  Ns = {0, 1, 2, 3, 4, 5, 6}
INVARIANTS TypeOK Counted AppliesIsExact NegativesAreNegative
PROPERTY Terminates
CHECK_DEADLOCK FALSE
