SPECIFICATION Spec
CONSTANTS
  p = p  c = c  m = m  A = A  B = B  C = C  V = V  W = W  L = L
  Proc = Proc
  a = a  b = b
  Nets <- AllNets
  Val = {a, b}
  v0 = a
  MaxLog = 2
INVARIANTS
  TypeOK
  AllOrNothing
  OneValuePerCommit
  EdgeStartSeen
  NoMissedViolation
PROPERTY
  CycleContract
