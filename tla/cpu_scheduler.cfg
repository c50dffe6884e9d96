SPECIFICATION FairSpec
CONSTANTS
  N = 3
  Arrivals = {0, 1, 4}
  Bursts = {0, 1, 3, 6}
  Quantum = 2
  NumQueues = 3
  Quanta <- MCQuanta
  BoostInterval = 4
  MAX_TIMELINE_EVENTS = 21
  MaxTime = 5
INVARIANTS TypeOK TimelineIsTheSchedule LateStartIsFirstSlice FifoInArrivalOrder
  RoundRobinFair MlfqQueuesRight DemotedByQuanta BoostedUnlessBusy SmallWorkloadsFit ShortestFirstIsOptimal
PROPERTIES ImplementsOneCpu ReportWritten
CHECK_DEADLOCK FALSE
