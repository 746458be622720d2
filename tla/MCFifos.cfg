SPECIFICATION BothSpec
CONSTANTS
  Val = {a, b}
  DEPTH = 4
INVARIANTS
  TypeOK
  PointersAgree
  SameHandshake
PROPERTIES
  FifoSpec
  NoWordClash
