\* Two VCs, one credit a value, spent pool first; the receiver is fair to VC 0
\* alone.
SPECIFICATION FairSpec
CONSTANTS
  NVC = 2
  CREDITS = 3
  RESERVE = 1
  CHECK = 1
  POLICY = "pool_first"
  Data = {0, 1, 2, 3, 4}
  None = None
  DEPTH = 3
  CRDEPTH = 1
INVARIANTS
  TypeOK
  Conservation
  NoViolation
  ReserveKept
  InOrder
PROPERTY
  ReserveMakesProgress
