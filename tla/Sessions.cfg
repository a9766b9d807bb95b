\* Two machines, two boots, and one request at a time that lists them.
SPECIFICATION Spec
CONSTANTS
  MACs = {m1, m2}
  Details <- SomeDetails
  MaxSessions = 2
  MaxLimit = 3
SYMMETRY Symmetry
INVARIANTS
  RightSessions
  Story
  NewestFirst
PROPERTIES
  EndIsEnd
CHECK_DEADLOCK FALSE
