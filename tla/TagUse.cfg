\* Three tokens, so a producer retires from the middle of the list, and one
\* dependent (dependents do not affect one another).
SPECIFICATION FairSpec
CONSTANTS
  N = 3
  M = 1
  None = None
INVARIANTS
  TagsNameOne
  WaitsForYoungest
  ListIsOrder
PROPERTIES
  TrackerSpec
  RequestsGranted
