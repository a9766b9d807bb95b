\* An operator sets up an empty directory, or edits one file, or several, twice.
SPECIFICATION Spec
CONSTANTS
  Absent = Absent
  Garbage = Garbage
  Rejected = Rejected
  FileOrder <- MCFiles
  Word <- MCWord
  ParseMAC <- MCMAC
  Main = "bootforge.toml"
  Directories <- Anywhere
  Interfaces = {"eth0"}
  DataDirs <- MCDataDirs
  Port = {69}
  MenuName = {"a"}
  MACText = {"*", "M1", "m"}
  Kernel = {"k"}
  HTTPPath = {"/h/"}
  Downloads <- MCDownloads
  Switches <- MCSwitches
  MaxAnswers = 2
CHECK_DEADLOCK FALSE
INVARIANTS
  EntriesRefer
  SavedComesBack
  LastGoodKept
  LoadsWhole
