\* Two requests, one port in use at first and one opened by another process later.
SPECIFICATION FairSpec
CONSTANTS
  Config <- MCConfig
  Hosts <- MCHosts
  BootFiles <- MCBootFiles
  Requests = {r1, r2}
  MaxTaken = 1
  HeaderSize = 8
  MinHeader = 3
INVARIANTS
  OwnPorts
  PassedAndQuiet
  Drains
  AtMostOneMore
PROPERTIES
  StartsUp
  ShutsDown
CHECK_DEADLOCK FALSE
