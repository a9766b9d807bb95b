\* A machine that is switched on, and two changes of the server.
SPECIFICATION FairSpec
CONSTANTS
  Machine = {"a"}
  Arch <- MCArch
  ArchOf <- MCArchOf
  Net0 <- MCNet0
  Noise <- MCNoise
  Config <- MCConfig
  NoClient = NoClient
  Files = {"kpxe", "own", "efi", "efi2"}
  Routes <- MCRoutes
  Handlers = {"h"}
  MaxPower = 1
  MaxChanges = 2
CHECK_DEADLOCK FALSE
INVARIANTS
  OwnBootFile
  NoLoop
  OwnScript
  ChosenRuns
PROPERTIES
  GetsScript
