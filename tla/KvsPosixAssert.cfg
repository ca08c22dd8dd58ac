SPECIFICATION Spec
CONSTANTS
  Keys = {k1, k2}
  NoKey = NoKey
  Ints = {1}
  a = a
  b = b
  Wides <- MCWideOne
  Chars = {a, b}
  Strings <- MCStrings
  Absent = Absent
  Unknown = Unknown
  NoOp = NoOp
  MaxCells = 6
SYMMETRY MCKeys
INVARIANT AssertHolds
