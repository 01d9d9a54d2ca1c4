SPECIFICATION Spec
CONSTANTS
  Ints <- MCInts
  Floats <- MCFloats
  I64Max = 6
  F64 <- MCF64
  Fields <- LargestEnum
  Strings = {"low", "medium", "high"}
  StrLen <- MCStrLen
  MaxDepth = 3
  Kind <- MCKind
  OnConflict <- MCOnConflict
  DefaultOf <- MCDefault
  Policies = {1}
  Arrays <- MCArrays
  NMasks = 3
INVARIANT LaterEnumWins
CHECK_DEADLOCK FALSE
