SPECIFICATION FiniteChildrenSpec
CONSTANTS
  Pids = {p1, p2}
  NoPid = NoPid
  MAX_PROCESSES = 2
  MaxCmds = 4
  Recycling = {}
  Obedient = TRUE
  Interrupts = TRUE
  ChecksStatus = TRUE
PROPERTIES ZombiesReaped WaitReturns KillReturns GracefulShutdown
CHECK_DEADLOCK FALSE
