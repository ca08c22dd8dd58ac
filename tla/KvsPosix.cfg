SPECIFICATION Spec
CONSTANTS
  Keys = {k1, k2}
  NoKey = NoKey
  Ints = {1}
  a = a
  b = b
  Wides <- MCWides
  Chars = {a, b}
  Strings <- MCStrings
  Absent = Absent
  Unknown = Unknown
  NoOp = NoOp
  MaxCells = 4
SYMMETRY MCKeys
INVARIANTS StaysSound OneNodePerKey ReadBack FailsAtWides
PROPERTY IsMap
