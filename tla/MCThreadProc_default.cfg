CONSTANTS
  Modulus = 4
  MaxTurns = 8
  None = None
  Names = {"default"}
  Objects <- MCObjects
  Subs <- MCSubs
  Dispatch <- MCDispatch
  Programs <- MCPrograms
  Code <- MCCode
  Heap <- MCHeap
SPECIFICATION Spec
CHECK_DEADLOCK FALSE
INVARIANT
  SameState
