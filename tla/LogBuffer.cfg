\* A ring of three: every position, empty, filling, full and wrapped.
SPECIFICATION Spec
CONSTANTS
  MAC <- MCMAC
  Service <- MCService
  Level <- MCLevel
  Requested = 3
INVARIANTS
  TypeOK
  RecentAnswers
  FilterAnswers
PROPERTIES
  ImplementsRecentEntries
