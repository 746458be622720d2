\* Two slots and two keys, so the table is full and a key is duplicated; users
\* wait for a lookup to find what they installed.
SPECIFICATION Spec
CONSTANTS
  N = 2
  Key = {a, b}
  Val = {0, 1}
  None = None
  DEPTH = 1
  WAITS = TRUE
INVARIANTS
  UniqueKeys
  BookAgrees
PROPERTY
  SequentialTable
