SPECIFICATION FairSpec
CONSTANTS
  NumPids = 2
  Comm <- AllWords
  Children = 2
  Programs = {"lib"}
  ForksFail = FALSE
  MaxZombies = 2
PROPERTY LibraryReaps
CHECK_DEADLOCK FALSE
