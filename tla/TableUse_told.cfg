\* Users write and remove as soon as they are told where an install went.
SPECIFICATION Spec
CONSTANTS
  N = 2
  Key = {a, b}
  Val = {0, 1}
  None = None
  DEPTH = 1
  WAITS = FALSE
PROPERTY
  SequentialTable
