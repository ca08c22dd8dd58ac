SPECIFICATION Spec
CONSTANTS
  Answers = {"all", "none", "error"}
  BufMax = 64
  Lengths = {1, 12}
  Digits = {15, 20}
  Expected = {5, 13}
  UserSizes = {50}
  MaxPieces = 9
  MaxNest = 3
INVARIANTS   OnlyRefusalFails MessageIsJson
CHECK_DEADLOCK FALSE
