CONSTANTS
  Modulus = 4
  MaxTurns = 8
  None = None
  Names = {}
  Objects <- MCObjects
  Subs <- MCSubs
  Dispatch <- MCDispatch
  Programs <- MCPrograms
  Code <- MCCode
  Heap <- MCHeap
SPECIFICATION Spec
CHECK_DEADLOCK FALSE
INVARIANTS
  SameState
  SameAwait
  ResumedOnce
PROPERTY
  NoEdgePassed
