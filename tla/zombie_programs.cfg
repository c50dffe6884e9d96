SPECIFICATION FairSpec
CONSTANTS
  NumPids = 3
  Comm <- AllKinds
  Children = 3
  Programs = {"creator", "explicit", "handler", "ignore", "daemon", "lib"}
  ForksFail = TRUE
  MaxZombies = 1
INVARIANTS TypeOK CountsFollowKernel ExplicitLeavesNone DetectorSound
PROPERTIES ZombiesReaped ProgramsEnd
CHECK_DEADLOCK FALSE
