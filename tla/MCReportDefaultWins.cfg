SPECIFICATION Spec
CONSTANTS
  Ints <- MCInts
  Floats <- MCFloats
  I64Max = 6
  F64 <- MCF64
  Fields <- BoolByDefault
  Strings = {"", "low", "high"}
  StrLen <- MCStrLen
  MaxDepth = 3
  Kind <- MCKind
  OnConflict <- MCOnConflict
  DefaultOf <- MCDefault
  Policies = {1}
  Arrays <- MCArrays
  NMasks = 3
INVARIANT DefaultOnConflict
CHECK_DEADLOCK FALSE
