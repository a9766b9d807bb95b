\* An operator edits a directory that is split by concern.
SPECIFICATION Spec
CONSTANTS
  Absent = Absent
  Garbage = Garbage
  Rejected = Rejected
  FileOrder <- MCFiles
  Word <- MCWord
  ParseMAC <- MCMAC
  Main = "bootforge.toml"
  Directories <- Split
  Interfaces = {"eth0"}
  DataDirs <- MCDataDirs
  Port = {69}
  MenuName = {"a"}
  MACText = {"*", "M1", "m"}
  Kernel = {"k"}
  HTTPPath = {"/h/"}
  Downloads <- MCDownloads
  Switches <- MCSwitches
  MaxAnswers = 1
CHECK_DEADLOCK FALSE
INVARIANTS
  EditKeepsLoadable
