SPECIFICATION Spec
CONSTANTS
  None = None
  Classes <- AllClasses
  Processes <- AllProcesses
INVARIANTS SameState SameOps SameRegisters
