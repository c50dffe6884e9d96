SPECIFICATION Spec
CONSTANTS
  Pids = {p1, p2}
  NoPid = NoPid
  MAX_PROCESSES = 2
  MaxCmds = 3
  Recycling = {}
  Obedient = TRUE
  Interrupts = FALSE
  ChecksStatus = FALSE
INVARIANT RunningMeansRunning
CHECK_DEADLOCK FALSE
