SPECIFICATION Spec
CONSTANTS
  Pids = {p1, p2, p3}
  NoPid = NoPid
  MAX_PROCESSES = 2
  MaxCmds = 5
  Recycling = {"other"}
  Obedient = TRUE
  Interrupts = TRUE
  ChecksStatus = TRUE
SYMMETRY Symmetry
INVARIANTS TypeOK RunningUnlessMissed NoChildLost EntriesSignalled
CHECK_DEADLOCK FALSE
