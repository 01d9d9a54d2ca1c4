SPECIFICATION Spec
CONSTANTS
  Ints = {}
  Floats = {0, 1, 2, 3, 4, 5}
  I64Max = 6
  F64 <- MCF64
  Fields = {"b", "e", "s", "n", "a"}
  Strings = {"", "s", "e", "x", "a", "1", "2", "3", "4", "5"}
  StrLen <- MCStrLen
  MaxDepth = 128
  NumberCases <- MCNumberCases
  StringCases <- MCStringCases
  ArrayCases <- MCArrayCases
  OptionSets <- MCOptions
  Count = 5
INVARIANTS ExpectedIsProduced ConflictsAreProduced
PROPERTY GenerationEnds
CHECK_DEADLOCK FALSE
