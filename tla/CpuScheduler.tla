------------------------------ MODULE CpuScheduler ------------------------------
(***************************************************************************)
(* The scheduling simulator: report.c runs the five algorithms of          *)
(* algorithms.c one after another on copies of a workload and computes the *)
(* metrics of each.  A step is one iteration of an algorithm's loop, or of *)
(* a loop inside it.                                                       *)
(***************************************************************************)
EXTENDS Integers, Sequences, FiniteSetsExt

CONSTANTS N,               (* number of processes                           *)
          Arrivals, Bursts,   (* what a workload file may say               *)
          Quantum,         (* of round robin                                *)
          NumQueues, Quanta, BoostInterval,   (* of MLFQ                    *)
          MAX_TIMELINE_EVENTS,
          MaxTime          (* bound: the clock, when nothing ever finishes  *)

Procs  == 1..N
Levels == 0..(NumQueues - 1)

ASSUME SchedulerAssumption ==
  /\ N \in Nat \ {0} /\ Arrivals \subseteq Nat /\ Bursts \subseteq Nat
  /\ Quantum \in Nat \ {0} /\ NumQueues \in Nat \ {0}
  /\ Quanta \in [Levels -> Nat \ {0}]
  /\ BoostInterval \in Nat /\ MaxTime \in Nat
  /\ MAX_TIMELINE_EVENTS \in Nat

VARIABLES processes,       (* the workload                                  *)
          alg,             (* which algorithm runs, or "written"            *)
          pc,              (* which of its loops                            *)
          p,               (* FIFO: the order of the copied array           *)
          remaining_time, start_time, completion_time,   (* of the copy     *)
          time, timeline,
          i, j,            (* loop counters                                 *)
          completed,       (* counter of SJF, and n - remaining of RR, MLFQ *)
          progressed,      (* RR                                            *)
          last_pid,        (* STCF                                          *)
          queue, tail, in_queue,   (* MLFQ; a queue is what is between its  *)
                           (* head and its tail                             *)
          metrics          (* what calculate_metrics() found                *)

copyVars  == <<remaining_time, start_time, completion_time>>
cpuVars   == <<copyVars, time, timeline>>
fifoVars  == <<p, j>>
queueVars == <<queue, tail, in_queue>>
vars == <<processes, alg, pc, cpuVars, fifoVars, i, completed, progressed,
          last_pid, queueVars, metrics>>

Pid(q)     == processes[q].pid
Arrival(q) == processes[q].arrival_time
Burst(q)   == processes[q].burst_time

After == [FIFO |-> "SJF", SJF |-> "STCF", STCF |-> "RR", RR |-> "MLFQ",
          MLFQ |-> "written"]

\* The pids of a workload differ.
Workloads ==
  {w \in [Procs -> [pid : Procs, arrival_time : Arrivals, burst_time : Bursts]] :
     \A q, r \in Procs : q # r => w[q].pid # w[r].pid}

Init ==
  /\ processes \in Workloads
  /\ alg = "FIFO" /\ pc = "sort" /\ p = [q \in Procs |-> q]
  /\ remaining_time = [q \in Procs |-> Burst(q)]
  /\ start_time = [q \in Procs |-> 0] /\ completion_time = [q \in Procs |-> 0]
  /\ time = 0 /\ timeline = <<>> /\ i = 1 /\ j = 2
  /\ completed = 0 /\ progressed = FALSE /\ last_pid = -1
  /\ queue = [l \in Levels |-> <<>>] /\ tail = [l \in Levels |-> 0]
  /\ in_queue = {}
  /\ metrics = [a \in DOMAIN After |-> <<>>]

-----------------------------------------------------------------------------
(* What the algorithms have in common.                                     *)

Ready == {q \in Procs : remaining_time[q] > 0 /\ Arrival(q) <= time}

\* Mutant: the comparison is the wrong way round.
CheapestReversed(cost) ==
  {q \in Ready : \A r \in Ready : cost[q] > cost[r] \/ (cost[q] = cost[r] /\ q <= r)}

\* The scan for the smallest cost: the first of them.
Cheapest(cost) ==
  {q \in Ready : \A r \in Ready : cost[q] < cost[r] \/ (cost[q] = cost[r] /\ q <= r)}

AtMost(a, b) == IF a > b THEN b ELSE a

\* Process q has the CPU for d units from t on.
Execute(q, t, d) ==
  /\ time' = t + d
  /\ remaining_time' = [remaining_time EXCEPT ![q] = @ - d]
  /\ completion_time' = IF remaining_time[q] = d
                          THEN [completion_time EXCEPT ![q] = t + d]
                          ELSE completion_time

NewSlice(q, t, d) ==
  timeline' = Append(timeline, [time |-> t, pid |-> Pid(q), duration |-> d])

\* Mutant: no test whether it has been set.
MarkStartAlways(q) == start_time' = [start_time EXCEPT ![q] = time]

\* start_time is 0 as long as it has not been set.
MarkStart(q) ==
  start_time' = IF start_time[q] = 0 THEN [start_time EXCEPT ![q] = time]
                                     ELSE start_time

CountIfDone(q, d) ==
  completed' = IF remaining_time[q] = d THEN completed + 1 ELSE completed

Tick ==
  /\ time < MaxTime /\ time' = time + 1
  /\ UNCHANGED <<copyVars, timeline>>

-----------------------------------------------------------------------------
(* schedule_fifo()                                                         *)

Before(q, r) ==
  \/ Arrival(q) < Arrival(r)
  \/ Arrival(q) = Arrival(r) /\ Pid(q) < Pid(r)

FifoSwap ==
  /\ alg = "FIFO" /\ pc = "sort" /\ j <= N
  /\ p' = IF Before(p[j], p[i]) THEN [p EXCEPT ![i] = p[j], ![j] = p[i]] ELSE p
  /\ j' = j + 1
  /\ UNCHANGED <<processes, alg, pc, cpuVars, i, completed, progressed,
                 last_pid, queueVars, metrics>>

\* Mutant: the inner loop starts one too late.
FifoSortNextSkips ==
  /\ alg = "FIFO" /\ pc = "sort" /\ j > N
  /\ \/ i < N /\ i' = i + 1 /\ j' = i + 3 /\ UNCHANGED pc
     \/ i = N /\ i' = 1 /\ pc' = "loop" /\ UNCHANGED j
  /\ UNCHANGED <<processes, alg, p, cpuVars, completed, progressed, last_pid,
                 queueVars, metrics>>

FifoSortNext ==
  /\ alg = "FIFO" /\ pc = "sort" /\ j > N
  /\ \/ i < N /\ i' = i + 1 /\ j' = i + 2 /\ UNCHANGED pc
     \/ i = N /\ i' = 1 /\ pc' = "loop" /\ UNCHANGED j
  /\ UNCHANGED <<processes, alg, p, cpuVars, completed, progressed, last_pid,
                 queueVars, metrics>>

FifoRun ==
  /\ alg = "FIFO" /\ pc = "loop" /\ i <= N
  /\ LET q == p[i]
         t == IF time < Arrival(q) THEN Arrival(q) ELSE time
     IN /\ Execute(q, t, Burst(q)) /\ NewSlice(q, t, Burst(q))
        /\ start_time' = [start_time EXCEPT ![q] = t]
  /\ i' = i + 1
  /\ UNCHANGED <<processes, alg, pc, fifoVars, completed, progressed, last_pid,
                 queueVars, metrics>>

-----------------------------------------------------------------------------
(* schedule_sjf() and schedule_stcf()                                      *)

SjfRun ==
  /\ alg = "SJF" /\ completed < N
  /\ \E q \in Cheapest([r \in Procs |-> Burst(r)]) :
       Execute(q, time, Burst(q)) /\ NewSlice(q, time, Burst(q)) /\ MarkStart(q)
  /\ completed' = completed + 1
  /\ UNCHANGED <<processes, alg, pc, fifoVars, i, progressed, last_pid,
                 queueVars, metrics>>

SjfIdle ==
  /\ alg = "SJF" /\ completed < N /\ Ready = {}
  /\ Tick
  /\ UNCHANGED <<processes, alg, pc, fifoVars, i, completed, progressed,
                 last_pid, queueVars, metrics>>

\* Mutant: last_pid is not looked at.
StcfRunExtends ==
  /\ alg = "STCF"
  /\ \E q \in Cheapest(remaining_time) :
       /\ Execute(q, time, 1) /\ MarkStart(q)
       /\ \/ timeline = <<>> /\ NewSlice(q, time, 1)
          \/ timeline # <<>>
             /\ timeline' = [timeline EXCEPT ![Len(timeline)].duration = @ + 1]
       /\ last_pid' = Pid(q)
  /\ UNCHANGED <<processes, alg, pc, fifoVars, i, completed, progressed,
                 queueVars, metrics>>

\* One unit; it extends the slice of the process that ran before.
StcfRun ==
  /\ alg = "STCF"
  /\ \E q \in Cheapest(remaining_time) :
       /\ Execute(q, time, 1) /\ MarkStart(q)
       /\ \/ last_pid # Pid(q) /\ NewSlice(q, time, 1)
          \/ last_pid = Pid(q)
             /\ timeline' = [timeline EXCEPT ![Len(timeline)].duration = @ + 1]
       /\ last_pid' = Pid(q)
  /\ UNCHANGED <<processes, alg, pc, fifoVars, i, completed, progressed,
                 queueVars, metrics>>

StcfIdle ==
  /\ alg = "STCF" /\ Ready = {} /\ \E q \in Procs : remaining_time[q] > 0
  /\ Tick
  /\ last_pid' = -1
  /\ UNCHANGED <<processes, alg, pc, fifoVars, i, completed, progressed,
                 queueVars, metrics>>

-----------------------------------------------------------------------------
(* schedule_rr(): a pass over the array.                                   *)

\* Mutant: a whole quantum, also for a process that needs less.
RrVisitWholeQuantum ==
  /\ alg = "RR" /\ i <= N /\ (i > 1 \/ completed < N)
  /\ IF i \in Ready
       THEN /\ Execute(i, time, Quantum) /\ NewSlice(i, time, Quantum) /\ MarkStart(i)
            /\ CountIfDone(i, Quantum)
            /\ progressed' = TRUE
       ELSE UNCHANGED <<cpuVars, completed, progressed>>
  /\ i' = i + 1
  /\ UNCHANGED <<processes, alg, pc, fifoVars, last_pid, queueVars, metrics>>

\* Mutant: after each slice the pass starts again.
RrVisitRestarts ==
  /\ alg = "RR" /\ i <= N /\ (i > 1 \/ completed < N)
  /\ IF i \in Ready
       THEN LET run == AtMost(remaining_time[i], Quantum)
            IN /\ Execute(i, time, run) /\ NewSlice(i, time, run) /\ MarkStart(i)
               /\ CountIfDone(i, run)
               /\ i' = 1
       ELSE i' = i + 1 /\ UNCHANGED <<cpuVars, completed>>
  /\ UNCHANGED <<processes, alg, pc, fifoVars, progressed, last_pid, queueVars, metrics>>

RrVisit ==
  /\ alg = "RR" /\ i <= N /\ (i > 1 \/ completed < N)
  /\ IF i \in Ready
       THEN LET run == AtMost(remaining_time[i], Quantum)
            IN /\ Execute(i, time, run) /\ NewSlice(i, time, run) /\ MarkStart(i)
               /\ CountIfDone(i, run)
               /\ progressed' = TRUE
       ELSE UNCHANGED <<cpuVars, completed, progressed>>
  /\ i' = i + 1
  /\ UNCHANGED <<processes, alg, pc, fifoVars, last_pid, queueVars, metrics>>

\* Mutant: the clock stands still when nobody is ready.
RrPassEndsWithoutTick ==
  /\ alg = "RR" /\ i > N
  /\ i' = 1 /\ progressed' = FALSE
  /\ UNCHANGED <<processes, alg, pc, cpuVars, fifoVars, completed, last_pid, queueVars,
                 metrics>>

RrPassEnds ==
  /\ alg = "RR" /\ i > N
  /\ IF progressed THEN UNCHANGED cpuVars ELSE Tick
  /\ i' = 1 /\ progressed' = FALSE
  /\ UNCHANGED <<processes, alg, pc, fifoVars, completed, last_pid, queueVars,
                 metrics>>

-----------------------------------------------------------------------------
(* schedule_mlfq(): arrivals, boost, selection.                            *)

\* Mutant: in_queue is not tested.
MlfqArriveAgain ==
  /\ alg = "MLFQ" /\ pc = "arrive" /\ i <= N /\ (i > 1 \/ completed < N)
  /\ IF i \in Ready
       THEN /\ queue' = [queue EXCEPT ![0] = Append(@, i)]
            /\ tail' = [tail EXCEPT ![0] = @ + 1]
            /\ in_queue' = in_queue \cup {i}
       ELSE UNCHANGED queueVars
  /\ i' = i + 1
  /\ UNCHANGED <<processes, alg, pc, cpuVars, fifoVars, completed, progressed,
                 last_pid, metrics>>

\* Mutant: who arrives now is queued one unit later.
MlfqArriveLate ==
  /\ alg = "MLFQ" /\ pc = "arrive" /\ i <= N /\ (i > 1 \/ completed < N)
  /\ IF i \in Ready \ in_queue /\ Arrival(i) < time
       THEN /\ queue' = [queue EXCEPT ![0] = Append(@, i)]
            /\ tail' = [tail EXCEPT ![0] = @ + 1]
            /\ in_queue' = in_queue \cup {i}
       ELSE UNCHANGED queueVars
  /\ i' = i + 1
  /\ UNCHANGED <<processes, alg, pc, cpuVars, fifoVars, completed, progressed,
                 last_pid, metrics>>

MlfqArrive ==
  /\ alg = "MLFQ" /\ pc = "arrive" /\ i <= N /\ (i > 1 \/ completed < N)
  /\ IF i \in Ready \ in_queue
       THEN /\ queue' = [queue EXCEPT ![0] = Append(@, i)]
            /\ tail' = [tail EXCEPT ![0] = @ + 1]
            /\ in_queue' = in_queue \cup {i}
       ELSE UNCHANGED queueVars
  /\ i' = i + 1
  /\ UNCHANGED <<processes, alg, pc, cpuVars, fifoVars, completed, progressed,
                 last_pid, metrics>>

\* A boost is due only when the clock is a multiple of the interval.
MlfqArrived ==
  /\ alg = "MLFQ" /\ pc = "arrive" /\ i > N
  /\ pc' = IF BoostInterval > 0 /\ time > 0 /\ time % BoostInterval = 0
             THEN "boost" ELSE "select"
  /\ i' = 1
  /\ UNCHANGED <<processes, alg, cpuVars, fifoVars, completed, progressed,
                 last_pid, queueVars, metrics>>

\* Mutant: one process of each queue, "if" for "while".
MlfqBoostHeads ==
  /\ alg = "MLFQ" /\ pc = "boost" /\ i < NumQueues
  /\ i' = i + 1
  /\ IF queue[i] # <<>>
       THEN /\ queue' = [queue EXCEPT ![0] = Append(@, Head(queue[i])), ![i] = Tail(@)]
            /\ tail' = [tail EXCEPT ![0] = @ + 1]
       ELSE UNCHANGED <<queue, tail>>
  /\ UNCHANGED <<processes, alg, pc, cpuVars, fifoVars, completed, progressed,
                 last_pid, in_queue, metrics>>

\* Queue i gives its head to queue 0, or is empty and starts afresh.
MlfqBoost ==
  /\ alg = "MLFQ" /\ pc = "boost" /\ i < NumQueues
  /\ \/ /\ queue[i] # <<>>
        /\ queue' = [queue EXCEPT ![0] = Append(@, Head(queue[i])), ![i] = Tail(@)]
        /\ tail' = [tail EXCEPT ![0] = @ + 1]
        /\ UNCHANGED i
     \/ /\ queue[i] = <<>>
        /\ tail' = [tail EXCEPT ![i] = 0]
        /\ i' = i + 1
        /\ UNCHANGED queue
  /\ UNCHANGED <<processes, alg, pc, cpuVars, fifoVars, completed, progressed,
                 last_pid, in_queue, metrics>>

MlfqBoosted ==
  /\ alg = "MLFQ" /\ pc = "boost" /\ i >= NumQueues
  /\ pc' = "select" /\ i' = 1
  /\ UNCHANGED <<processes, alg, cpuVars, fifoVars, completed, progressed,
                 last_pid, queueVars, metrics>>

\* Mutant: two levels down.
DemotedTwice(l) == AtMost(l + 2, NumQueues - 1)

\* Where a process goes that has used its quantum of level l.
Demoted(l) == AtMost(l + 1, NumQueues - 1)

MlfqRun ==
  /\ alg = "MLFQ" /\ pc = "select"
  /\ \E l \in Levels :
       /\ queue[l] # <<>> /\ \A h \in 0..(l - 1) : queue[h] = <<>>
       /\ LET q   == Head(queue[l])
              run == AtMost(remaining_time[q], Quanta[l])
              out == [queue EXCEPT ![l] = Tail(@)]
          IN /\ Execute(q, time, run) /\ NewSlice(q, time, run) /\ MarkStart(q)
             /\ CountIfDone(q, run)
             /\ IF remaining_time[q] = run
                  THEN /\ queue' = out /\ in_queue' = in_queue \ {q}
                       /\ UNCHANGED tail
                  ELSE /\ queue' = [out EXCEPT ![Demoted(l)] = Append(@, q)]
                       /\ tail' = [tail EXCEPT ![Demoted(l)] = @ + 1]
                       /\ UNCHANGED in_queue
  /\ pc' = "arrive"
  /\ UNCHANGED <<processes, alg, fifoVars, i, progressed, last_pid, metrics>>

MlfqIdle ==
  /\ alg = "MLFQ" /\ pc = "select" /\ \A l \in Levels : queue[l] = <<>>
  /\ Tick
  /\ pc' = "arrive"
  /\ UNCHANGED <<processes, alg, fifoVars, i, completed, progressed, last_pid,
                 queueVars, metrics>>

-----------------------------------------------------------------------------
(* generate_report()                                                       *)

\* The loop of the algorithm has come to its end.
Ended ==
  \/ alg = "FIFO" /\ pc = "loop" /\ i > N
  \/ alg = "SJF" /\ completed = N
  \/ alg = "STCF" /\ \A q \in Procs : remaining_time[q] <= 0
  \/ alg = "RR" /\ i = 1 /\ completed = N
  \/ alg = "MLFQ" /\ pc = "arrive" /\ i = 1 /\ completed = N

\* calculate_metrics()
MetricsOf(q) ==
  [turnaround_time |-> completion_time[q] - Arrival(q),
   waiting_time    |-> completion_time[q] - Arrival(q) - Burst(q),
   response_time   |-> start_time[q] - Arrival(q)]

\* The times are written back, the metrics computed, and the next algorithm
\* starts with a new copy of the workload.
NextAlgorithm ==
  /\ Ended
  /\ metrics' = [metrics EXCEPT ![alg] = [q \in Procs |-> MetricsOf(q)]]
  /\ alg' = After[alg] /\ pc' = IF alg' = "MLFQ" THEN "arrive" ELSE "loop"
  /\ p' = [q \in Procs |-> q]
  /\ remaining_time' = [q \in Procs |-> Burst(q)]
  /\ start_time' = [q \in Procs |-> 0] /\ completion_time' = [q \in Procs |-> 0]
  /\ time' = 0 /\ timeline' = <<>> /\ i' = 1 /\ j' = 2
  /\ completed' = 0 /\ progressed' = FALSE /\ last_pid' = -1
  /\ queue' = [l \in Levels |-> <<>>] /\ tail' = [l \in Levels |-> 0]
  /\ in_queue' = {}
  /\ UNCHANGED processes

Next ==
  \/ FifoSwap \/ FifoSortNext \/ FifoRun
  \/ SjfRun \/ SjfIdle \/ StcfRun \/ StcfIdle
  \/ RrVisit \/ RrPassEnds
  \/ MlfqArrive \/ MlfqArrived \/ MlfqBoost \/ MlfqBoosted \/ MlfqRun \/ MlfqIdle
  \/ NextAlgorithm

Spec == Init /\ [][Next]_vars

\* The simulator is one sequential program: it goes on until it ends.
FairSpec == Spec /\ WF_vars(Next)
-----------------------------------------------------------------------------
TypeOK ==
  /\ processes \in Workloads
  /\ alg \in DOMAIN After \cup {"written"}
  /\ pc \in {"sort", "loop", "arrive", "boost", "select"}
  /\ p \in [Procs -> Procs]
  /\ remaining_time \in [Procs -> Nat]
  /\ start_time \in [Procs -> Nat] /\ completion_time \in [Procs -> Nat]
  /\ time \in Nat
  /\ timeline \in Seq([time : Nat, pid : Procs, duration : Nat])
  /\ i \in Nat \ {0} /\ j \in Nat \ {0}
  /\ completed \in Nat /\ progressed \in BOOLEAN
  /\ last_pid \in Procs \cup {-1}
  /\ queue \in [Levels -> Seq(Procs)] /\ tail \in [Levels -> Nat]
  /\ in_queue \subseteq Procs

\* The abstract specification, read off the clock and the copied array.
Cpu == INSTANCE OneCpu WITH
  arrival <- [q \in Procs |-> Arrival(q)], burst <- [q \in Procs |-> Burst(q)],
  clock <- time, left <- remaining_time, finish <- completion_time

\* "All algorithms produce a timeline and update processes' completion/start
\* times": each of the five gives every process exactly its burst, after its
\* arrival, one at a time, never leaves the CPU idle while somebody waits,
\* and starts from the workload its predecessor got.
ImplementsOneCpu == Cpu!Spec

SlicesOf(q) == {a \in DOMAIN timeline : timeline[a].pid = Pid(q)}
SliceEnd(a) == timeline[a].time + timeline[a].duration
Used(q)     == MapThenSumSet(LAMBDA a : timeline[a].duration, SlicesOf(q))
Executed    == MapThenSumSet(LAMBDA q : Burst(q) - remaining_time[q], Procs)
TotalBurst  == MapThenSumSet(Burst, Procs)
Total(a)    == MapThenSumSet(LAMBDA q : metrics[a][q].turnaround_time, Procs)

\* "timeline_event_t tracks when each PID runs and for how long": slices do
\* not overlap, nobody runs before he arrives, the slices of a process add up
\* to what it has used, also when STCF extends one, and the last one ends at
\* its completion time.
TimelineIsTheSchedule ==
  /\ \A a \in DOMAIN timeline :
       SliceEnd(a) <= IF a = Len(timeline) THEN time ELSE timeline[a + 1].time
  /\ \A q \in Procs :
       /\ \A a \in SlicesOf(q) : timeline[a].time >= Arrival(q)
       /\ Used(q) = Burst(q) - remaining_time[q]
       /\ remaining_time[q] = 0 /\ Burst(q) > 0 =>
            completion_time[q] = Max({SliceEnd(a) : a \in SlicesOf(q)})

\* scheduler.h:15 on start_time, "First time scheduled": it is the start of the
\* first slice whenever that is not 0, the value that stands for "not started";
\* preemption and later slices do not change it.  (Who starts at 0 and is
\* preempted gets the start of his second slice.)
LateStartIsFirstSlice ==
  \A q \in Procs :
    SlicesOf(q) # {} /\ timeline[Min(SlicesOf(q))].time > 0 =>
      start_time[q] = timeline[Min(SlicesOf(q))].time

\* "Processes are ordered by arrival time": FIFO starts everybody in the
\* order of arrival, whatever the order of the workload file.
FifoInArrivalOrder ==
  alg = "FIFO" =>
    \A q, r \in Procs : \A a \in SlicesOf(q), b \in SlicesOf(r) :
      Arrival(q) < Arrival(r) => a < b

\* "Good for ... fairness": between two slices of a process, round robin
\* gives one to everybody else who had arrived by the end of the first and
\* was not finished then.
RoundRobinFair ==
  alg = "RR" =>
    \A q, r \in Procs : \A a, b \in SlicesOf(q) :
      /\ a < b /\ q # r
      /\ Arrival(r) <= SliceEnd(a)
      /\ remaining_time[r] > 0 \/ \E c \in SlicesOf(r) : c > a
      => \E c \in SlicesOf(r) : c \in a..b

Places(q) == {x \in Levels \X (1..N) :
                x[2] <= Len(queue[x[1]]) /\ queue[x[1]][x[2]] = q}

\* in_queue[] agrees with the queues: whoever is in them is there once and
\* unfinished, and when a process is selected everybody who waits is there.
MlfqQueuesRight ==
  alg = "MLFQ" =>
    /\ \A l \in Levels : Len(queue[l]) <= N
    /\ \A q \in Procs : Cardinality(Places(q)) = IF q \in in_queue THEN 1 ELSE 0
    /\ \A q \in in_queue : remaining_time[q] > 0
    /\ pc = "select" => Ready \subseteq in_queue

\* ALGORITHMS.md:36 demotes who "uses its full quantum": nobody else is demoted,
\* that is, nobody is on a level without having used the quanta of all above it.
DemotedByQuanta ==
  \A l \in Levels : \A n \in DOMAIN queue[l] :
    Burst(queue[l][n]) - remaining_time[queue[l][n]] >=
      MapThenSumSet(LAMBDA h : Quanta[h], 0..(l - 1))

\* DESIGN.md:33, "every `boost_interval` units, all processes are moved back to the
\* top queue", as far as the code keeps it: when one is selected, everybody below
\* the top has been demoted since the last multiple of the interval, unless a slice
\* went on over that very moment, and the boost was skipped.
BoostedUnlessBusy ==
  alg = "MLFQ" /\ pc = "select" /\ BoostInterval > 0 /\ time >= BoostInterval =>
    LET due == time - (time % BoostInterval)
    IN  \/ \A l \in Levels \ {0} : \A n \in DOMAIN queue[l] :
             SliceEnd(Max(SlicesOf(queue[l][n]))) > due
        \/ \E a \in DOMAIN timeline : timeline[a].time < due /\ due < SliceEnd(a)

\* algorithms.h:12, "All algorithms produce a timeline": in the arrays they write,
\* n * 10 entries for each queue of MLFQ (whose tail is reset only when a boost has
\* emptied it) and MAX_TIMELINE_EVENTS for the timeline.  Nothing tests the capacities.
WithinArrays ==
  /\ \A l \in Levels : tail[l] <= N * 10
  /\ Len(timeline) <= MAX_TIMELINE_EVENTS

\* The arrays suffice for a workload whose bursts add up to no more than nine times
\* its processes, whatever the quanta and the boosts.
SmallWorkloadsFit ==
  N + TotalBurst <= N * 10 /\ N + TotalBurst <= MAX_TIMELINE_EVENTS => WithinArrays

\* "Optimal for minimizing average turnaround time": no algorithm of the
\* report beats STCF; nor does STCF beat SJF when all arrive together.
ShortestFirstIsOptimal ==
  (\A q \in Procs : Burst(q) > 0) =>
    /\ \A a \in DOMAIN After : metrics["STCF"] # <<>> /\ metrics[a] # <<>> =>
         Total("STCF") <= Total(a)
    /\ (\A q, r \in Procs : Arrival(q) = Arrival(r)) /\ metrics["STCF"] # <<>> =>
         Total("SJF") = Total("STCF")

\* The report gets written, unless a burst is 0: SJF, round robin and MLFQ
\* count a process as completed only when it has run.
ReportWritten ==
  (\A q \in Procs : Burst(q) > 0) => <>(alg = "written")
=============================================================================
