----------------------------- MODULE SchedulerProofs -----------------------------
(***************************************************************************)
(* For any number of processes and queues, any quanta and any workload,    *)
(* the five algorithms of CpuScheduler do what OneCpu says.  The invariant *)
(* has one part for each algorithm: what its loop relies on.               *)
(***************************************************************************)
EXTENDS CpuScheduler, SequenceTheorems, FiniteSetTheorems, TLAPS

USE DEF copyVars, cpuVars, fifoVars, queueVars, vars

Workload == processes \in [Procs -> [pid : Procs, arrival_time : Arrivals, burst_time : Bursts]]

LEMMA WorkloadFacts ==
  ASSUME Workload
  PROVE  \A q \in Procs : Arrival(q) \in Nat /\ Burst(q) \in Nat /\ Pid(q) \in Procs
BY SchedulerAssumption DEF Workload, Arrival, Burst, Pid

-----------------------------------------------------------------------------
(* The queues of MLFQ, as a function from levels to sequences.             *)

Queues == [Levels -> Seq(Procs)]

Distinct(Q) ==
  \A l, m \in Levels : \A a \in 1..Len(Q[l]), b \in 1..Len(Q[m]) :
    Q[l][a] = Q[m][b] => l = m /\ a = b

Held(Q) == {q \in Procs : \E l \in Levels : \E a \in 1..Len(Q[l]) : Q[l][a] = q}

LEMMA Queued ==
  ASSUME NEW Q \in Queues, Distinct(Q), NEW l \in Levels, NEW x \in Procs, x \notin Held(Q)
  PROVE  LET R == [Q EXCEPT ![l] = Append(@, x)]
         IN  R \in Queues /\ Distinct(R) /\ Held(R) = Held(Q) \cup {x}
<1> DEFINE R == [Q EXCEPT ![l] = Append(@, x)]
<1>1. /\ Q[l] \in Seq(Procs) /\ Len(Q[l]) \in Nat
      /\ R[l] = Append(Q[l], x) /\ \A m \in Levels : m # l => R[m] = Q[m]
      /\ \A m \in Levels : Len(Q[m]) \in Nat
  BY DEF Queues
<1>2. /\ Append(Q[l], x) \in Seq(Procs) /\ Len(R[l]) = Len(Q[l]) + 1
      /\ R[l][Len(Q[l]) + 1] = x /\ \A a \in 1..Len(Q[l]) : R[l][a] = Q[l][a]
  BY <1>1, AppendProperties
<1>3. R \in Queues
  BY <1>1, <1>2 DEF Queues
<1>4. \A m \in Levels : \A a \in 1..Len(R[m]) :
        \/ m = l /\ a = Len(Q[l]) + 1 /\ R[m][a] = x
        \/ a \in 1..Len(Q[m]) /\ R[m][a] = Q[m][a]
  BY <1>1, <1>2
<1>5. \A m \in Levels : \A a \in 1..Len(Q[m]) : Q[m][a] \in Procs /\ Q[m][a] # x
  BY <1>1, ElementOfSeq DEF Held, Queues
<1>6. Distinct(R)
  BY <1>4, <1>5 DEF Distinct
<1>7. \A m \in Levels : \A a \in 1..Len(Q[m]) : a \in 1..Len(R[m]) /\ R[m][a] = Q[m][a]
  BY <1>1, <1>2
<1>8. Len(Q[l]) + 1 \in 1..Len(R[l])
  BY <1>1, <1>2
<1>9. Held(R) = Held(Q) \cup {x}
  <2>1. Held(R) \subseteq Held(Q) \cup {x}
    BY <1>4 DEF Held
  <2>2. Held(Q) \subseteq Held(R)
    BY <1>7 DEF Held
  <2>3. x \in Held(R)
    BY <1>2, <1>8 DEF Held
  <2>4. QED
    BY <2>1, <2>2, <2>3
<1>10. QED
  BY <1>3, <1>6, <1>9

LEMMA Dequeued ==
  ASSUME NEW Q \in Queues, Distinct(Q), NEW l \in Levels, Q[l] # <<>>
  PROVE  LET R == [Q EXCEPT ![l] = Tail(@)]
         IN  /\ R \in Queues /\ Distinct(R)
             /\ Head(Q[l]) \in Held(Q) /\ Held(R) = Held(Q) \ {Head(Q[l])}
<1> DEFINE R == [Q EXCEPT ![l] = Tail(@)]
           x == Head(Q[l])
<1>1. /\ Q[l] \in Seq(Procs) /\ R[l] = Tail(Q[l]) /\ \A m \in Levels : m # l => R[m] = Q[m]
      /\ \A m \in Levels : Len(Q[m]) \in Nat
  BY DEF Queues
<1>2. /\ Tail(Q[l]) \in Seq(Procs) /\ Len(R[l]) = Len(Q[l]) - 1 /\ Len(Q[l]) \in Nat \ {0}
      /\ x \in Procs /\ Q[l][1] = x
      /\ \A a \in 1..Len(R[l]) : R[l][a] = Q[l][a + 1]
  <2> DEFINE s == Q[l]
  <2>1. s \in Seq(Procs) /\ s # <<>>
    BY <1>1
  <2> HIDE DEF s
  <2>2. /\ Head(s) \in Procs /\ Tail(s) \in Seq(Procs) /\ Len(Tail(s)) = Len(s) - 1
        /\ Len(s) \in Nat \ {0} /\ \A a \in 1..Len(Tail(s)) : Tail(s)[a] = s[a + 1]
    BY <2>1, HeadTailProperties, EmptySeq
  <2>3. s[1] = Head(s)
    BY <2>1
  <2>4. QED
    BY <1>1, <2>2, <2>3 DEF s
<1>3. R \in Queues
  BY <1>1, <1>2 DEF Queues
<1>4. \A m \in Levels : \A a \in 1..Len(R[m]) :
        \/ m = l /\ a + 1 \in 1..Len(Q[l]) /\ R[m][a] = Q[l][a + 1]
        \/ m # l /\ a \in 1..Len(Q[m]) /\ R[m][a] = Q[m][a]
  BY <1>1, <1>2
<1>5. Distinct(R)
  BY <1>1, <1>4 DEF Distinct
<1>6. 1 \in 1..Len(Q[l])
  BY <1>2
<1>7. \A m \in Levels : \A a \in 1..Len(R[m]) : R[m][a] # x
  BY <1>2, <1>4, <1>6 DEF Distinct
<1>8. \A m \in Levels : \A a \in 1..Len(Q[m]) :
        Q[m][a] # x => \E b \in 1..Len(R[m]) : R[m][b] = Q[m][a]
  <2> SUFFICES ASSUME NEW m \in Levels, NEW a \in 1..Len(Q[m]), Q[m][a] # x
               PROVE  \E b \in 1..Len(R[m]) : R[m][b] = Q[m][a]
    OBVIOUS
  <2>1. CASE m = l
    <3>1. a - 1 \in 1..Len(R[l]) /\ (a - 1) + 1 = a
      BY <1>2, <2>1
    <3>2. R[l][a - 1] = Q[l][a]
      BY <1>2, <3>1
    <3>3. QED
      BY <2>1, <3>1, <3>2
  <2>2. CASE m # l
    BY <1>1, <2>2
  <2>3. QED
    BY <2>1, <2>2
<1>9. x \in Held(Q)
  BY <1>2, <1>6 DEF Held
<1>10. Held(R) \subseteq Held(Q) \ {x}
  BY <1>4, <1>7 DEF Held
<1>11. Held(Q) \ {x} \subseteq Held(R)
  BY <1>8 DEF Held
<1>12. QED
  BY <1>3, <1>5, <1>9, <1>10, <1>11

-----------------------------------------------------------------------------
(* What each algorithm relies on.                                          *)

Done == {q \in Procs : remaining_time[q] = 0}

\* Everybody before place a, and the one there as far as b, precede the rest.
Ordered(f, a, b) ==
  \A c, d \in Procs :
    c < d /\ (c < a \/ (c = a /\ d < b)) => Arrival(f[c]) <= Arrival(f[d])

Permutes(f) ==
  /\ f \in [Procs -> Procs]
  /\ \A a, b \in Procs : f[a] = f[b] => a = b
  /\ \A q \in Procs : \E a \in Procs : f[a] = q

\* The sort leaves a permutation, ordered as far as it has come; then the
\* processes up to i are finished and the others have not begun.
FifoInv ==
  alg = "FIFO" =>
    /\ pc \in {"sort", "loop"}
    /\ Permutes(p)
    /\ pc = "sort" =>
         /\ i \in 1..N /\ j \in (i + 1)..(N + 1)
         /\ time = 0 /\ \A q \in Procs : remaining_time[q] = Burst(q)
         /\ Ordered(p, i, j)
    /\ pc = "loop" =>
         /\ i \in 1..(N + 1)
         /\ Ordered(p, N + 1, N + 1)
         /\ \A a \in Procs : remaining_time[p[a]] = IF a < i THEN 0 ELSE Burst(p[a])

SjfInv ==
  alg = "SJF" =>
    /\ \A q \in Procs : remaining_time[q] \in {0, Burst(q)}
    /\ completed <= Cardinality(Done)

StcfInv == alg = "STCF" => (last_pid # -1 => timeline # <<>>)

\* A pass in which nobody has run yet has found nobody ready.
RrInv ==
  alg = "RR" =>
    /\ i \in 1..(N + 1) /\ completed <= Cardinality(Done)
    /\ ~progressed => \A q \in Procs : q < i => q \notin Ready

\* in_queue[] and the queues agree, and whoever is ready gets into them.
MlfqInv ==
  alg = "MLFQ" =>
    /\ pc \in {"arrive", "boost", "select"} /\ completed <= Cardinality(Done)
    /\ Distinct(queue) /\ in_queue = Held(queue)
    /\ \A q \in in_queue : remaining_time[q] > 0 /\ Arrival(q) <= time
    /\ pc = "arrive" => i \in 1..(N + 1) /\ \A q \in Ready : q < i => q \in in_queue
    /\ pc # "arrive" => Ready \subseteq in_queue
    /\ pc = "boost" => i \in 1..NumQueues
    /\ pc = "select" => i = 1

Inv == TypeOK /\ FifoInv /\ SjfInv /\ StcfInv /\ RrInv /\ MlfqInv

LEMMA InvFacts ==
  ASSUME TypeOK
  PROVE  /\ Workload /\ \A q \in Procs : Arrival(q) \in Nat /\ Burst(q) \in Nat /\ Pid(q) \in Procs
         /\ N \in Nat \ {0} /\ IsFiniteSet(Done) /\ Cardinality(Done) \in Nat
<1>1. Workload
  BY DEF TypeOK, Workload, Workloads
<1>2. N \in Nat \ {0}
  BY SchedulerAssumption
<1>3. IsFiniteSet(Done)
  <2>1. IsFiniteSet(Procs)
    BY <1>2, FS_Interval DEF Procs
  <2>2. Done \subseteq Procs
    BY DEF Done
  <2>3. QED
    BY <2>1, <2>2, FS_Subset
<1>4. QED
  BY <1>1, <1>2, <1>3, WorkloadFacts, FS_CardinalityType

\* When as many have been counted as there are, all are finished.
LEMMA AllDone ==
  ASSUME TypeOK, completed <= Cardinality(Done), completed = N
  PROVE  \A q \in Procs : remaining_time[q] = 0
<1>1. IsFiniteSet(Procs) /\ Cardinality(Procs) = N
  BY SchedulerAssumption, FS_Interval DEF Procs
<1>2. Done \subseteq Procs
  BY DEF Done
<1>3. Cardinality(Done) <= N
  BY <1>1, <1>2, FS_Subset
<1>4. Cardinality(Done) = N
  BY <1>3, InvFacts
<1>5. Done = Procs
  BY <1>1, <1>2, <1>4, FS_Subset
<1>6. QED
  BY <1>5 DEF Done

-----------------------------------------------------------------------------
(* What the algorithms have in common.                                     *)

\* The workload stays as it is.
LEMMA SameWorkload ==
  ASSUME UNCHANGED processes
  PROVE  \A q \in Procs : Arrival(q)' = Arrival(q) /\ Burst(q)' = Burst(q) /\ Pid(q)' = Pid(q)
BY DEF Arrival, Burst, Pid

LEMMA ExecuteStep ==
  ASSUME TypeOK, NEW q \in Procs, NEW t \in Nat, NEW d \in 0..remaining_time[q], Execute(q, t, d)
  PROVE  /\ remaining_time' \in [Procs -> Nat] /\ completion_time' \in [Procs -> Nat]
         /\ time' = t + d /\ time' \in Nat
         /\ remaining_time'[q] = remaining_time[q] - d
         /\ \A r \in Procs : r # q => remaining_time'[r] = remaining_time[r]
<1>1. remaining_time \in [Procs -> Nat] /\ completion_time \in [Procs -> Nat]
  BY DEF TypeOK
<1>2. remaining_time[q] \in Nat /\ d \in Nat /\ remaining_time[q] - d \in Nat /\ t + d \in Nat
  BY <1>1
<1>3. remaining_time' = [remaining_time EXCEPT ![q] = remaining_time[q] - d]
  BY DEF Execute
<1>4. completion_time' \in {completion_time, [completion_time EXCEPT ![q] = t + d]}
  BY DEF Execute
<1>5. QED
  BY <1>1, <1>2, <1>3, <1>4 DEF Execute

LEMMA DoneStep ==
  ASSUME TypeOK, NEW q \in Procs, NEW t \in Nat, NEW d \in 1..remaining_time[q], Execute(q, t, d)
  PROVE  Cardinality(Done') = IF remaining_time[q] = d THEN Cardinality(Done) + 1 ELSE Cardinality(Done)
<1>1. d \in 0..remaining_time[q] /\ remaining_time[q] \in Nat
  BY DEF TypeOK
<1>2. /\ remaining_time'[q] = remaining_time[q] - d
      /\ \A r \in Procs : r # q => remaining_time'[r] = remaining_time[r]
  BY <1>1, ExecuteStep
<1>3. q \notin Done
  BY <1>1 DEF Done
<1>4. CASE remaining_time[q] = d
  <2>1. Done' = Done \cup {q}
    BY <1>1, <1>2, <1>4 DEF Done
  <2>2. QED
    BY <1>3, <1>4, <2>1, InvFacts, FS_AddElement
<1>5. CASE remaining_time[q] # d
  <2>1. Done' = Done
    BY <1>1, <1>2, <1>5 DEF Done
  <2>2. QED
    BY <1>5, <2>1
<1>6. QED
  BY <1>4, <1>5

LEMMA SliceStep ==
  ASSUME TypeOK, NEW q \in Procs, NEW t \in Nat, NEW d \in Nat, NewSlice(q, t, d)
  PROVE  timeline' \in Seq([time : Nat, pid : Procs, duration : Nat]) /\ timeline' # <<>>
<1> DEFINE Slices == [time : Nat, pid : Procs, duration : Nat]
<1>1. timeline \in Seq(Slices) /\ [time |-> t, pid |-> Pid(q), duration |-> d] \in Slices
  BY InvFacts DEF TypeOK
<1> HIDE DEF Slices
<1>2. /\ timeline' \in Seq(Slices) /\ Len(timeline') = Len(timeline) + 1 /\ Len(timeline) \in Nat
  BY <1>1, AppendProperties, LenProperties DEF NewSlice
<1>3. timeline' # <<>>
  BY <1>2, EmptySeq
<1>4. QED
  BY <1>2, <1>3 DEF Slices

LEMMA StartStep ==
  ASSUME TypeOK, NEW q \in Procs, MarkStart(q)
  PROVE  start_time' \in [Procs -> Nat]
BY DEF TypeOK, MarkStart

-----------------------------------------------------------------------------
(* The steps as OneCpu sees them.                                          *)

LEMMA RunMaps ==
  ASSUME TypeOK, NEW q \in Procs, NEW t \in Nat, NEW d \in 0..remaining_time[q], Execute(q, t, d),
         UNCHANGED processes, time <= t, Arrival(q) <= t,
         \A r \in Procs : \A s \in time..(t - 1) : Arrival(r) <= s => remaining_time[r] = 0
  PROVE  Cpu!Next
<1>1. remaining_time[q] \in Nat /\ time \in Nat
  BY DEF TypeOK
<1>2. Cpu!IdleUntil(t)
  BY <1>1 DEF Cpu!IdleUntil, Cpu!Ready
<1>3. Cpu!Run(q, t, d)
  BY <1>1, <1>2, SameWorkload DEF Cpu!Run, Execute
<1>4. t \in time..time'
  BY <1>1, ExecuteStep
<1>5. QED
  BY <1>3, <1>4 DEF Cpu!Next

LEMMA IdleMaps ==
  ASSUME TypeOK, Tick, Ready = {}, UNCHANGED processes
  PROVE  Cpu!Next
<1>1. time \in Nat /\ time' = time + 1
  BY DEF TypeOK, Tick
<1>2. Cpu!IdleUntil(time + 1)
  <2>1. \A q \in Procs : ~(Arrival(q) <= time /\ remaining_time[q] > 0)
    BY DEF Ready
  <2>2. Cpu!Ready(time) = {}
    BY <2>1 DEF Cpu!Ready
  <2>3. time..((time + 1) - 1) = {time}
    BY <1>1
  <2>4. QED
    BY <1>1, <2>2, <2>3 DEF Cpu!IdleUntil
<1>3. Cpu!Idle(time + 1)
  BY <1>1, <1>2, SameWorkload DEF Cpu!Idle, Tick
<1>4. QED
  BY <1>1, <1>3 DEF Cpu!Next

LEMMA Stutters ==
  ASSUME UNCHANGED <<processes, cpuVars>>
  PROVE  UNCHANGED Cpu!vars
BY SameWorkload DEF Cpu!vars

-----------------------------------------------------------------------------
(* The algorithms.                                                         *)

LEMMA OthersIdle ==
  ASSUME Inv, alg' = alg
  PROVE  /\ alg # "FIFO" => FifoInv'
         /\ alg # "SJF" => SjfInv'
         /\ alg # "STCF" => StcfInv'
         /\ alg # "RR" => RrInv'
         /\ alg # "MLFQ" => MlfqInv'
BY DEF FifoInv, SjfInv, StcfInv, RrInv, MlfqInv

\* The exchange of the sort.
LEMMA Exchange ==
  ASSUME TypeOK, NEW f, Permutes(f), NEW a \in Procs, NEW b \in Procs, a < b, Ordered(f, a, b),
         Arrival(f[b]) <= Arrival(f[a])
  PROVE  LET g == [f EXCEPT ![a] = f[b], ![b] = f[a]]
         IN  Permutes(g) /\ Ordered(g, a, b + 1)
<1> DEFINE g == [f EXCEPT ![a] = f[b], ![b] = f[a]]
<1>1. \A q \in Procs : Arrival(q) \in Nat
  BY InvFacts
<1>2. f \in [Procs -> Procs] /\ g \in [Procs -> Procs]
  BY DEF Permutes
<1>3. /\ a # b /\ a \in Int /\ b \in Int /\ g[a] = f[b] /\ g[b] = f[a]
      /\ \A c \in Procs : c # a /\ c # b => g[c] = f[c]
  BY <1>2 DEF Procs
<1> HIDE DEF g
<1>4. Permutes(g)
  <2>1. \A c, d \in Procs : g[c] = g[d] => c = d
    BY <1>3 DEF Permutes
  <2>2. \A q \in Procs : \E c \in Procs : g[c] = q
    BY <1>3 DEF Permutes
  <2>3. QED
    BY <1>2, <2>1, <2>2 DEF Permutes
<1>5. ASSUME NEW c \in Procs, NEW d \in Procs, c < d, c < a \/ (c = a /\ d < b + 1)
      PROVE  Arrival(g[c]) <= Arrival(g[d])
  <2>1. c \in Int /\ d \in Int
    BY DEF Procs
  <2>2. /\ Arrival(f[c]) \in Nat /\ Arrival(f[d]) \in Nat /\ Arrival(f[a]) \in Nat
        /\ Arrival(f[b]) \in Nat
    BY <1>1, <1>2
  <2>3. CASE c < a
    <3>1. g[c] = f[c] /\ g[d] \in {f[d], f[a], f[b]}
      BY <1>3, <2>1, <2>3
    <3>2. Arrival(f[c]) <= Arrival(f[d]) /\ Arrival(f[c]) <= Arrival(f[a]) /\ Arrival(f[c]) <= Arrival(f[b])
      BY <1>3, <1>5, <2>1, <2>3 DEF Ordered
    <3>3. QED
      BY <3>1, <3>2
  <2>4. CASE c = a /\ d < b
    <3>1. g[c] = f[b] /\ g[d] = f[d] /\ Arrival(f[a]) <= Arrival(f[d])
      BY <1>3, <1>5, <2>1, <2>4 DEF Ordered
    <3>2. QED
      BY <2>2, <3>1
  <2>5. CASE c = a /\ d = b
    BY <1>3, <2>5
  <2>6. QED
    BY <1>3, <1>5, <2>1, <2>3, <2>4, <2>5
<1>6. QED
  BY <1>4, <1>5 DEF Ordered, g

LEMMA FifoSwapStep ==
  ASSUME Inv, FifoSwap
  PROVE  Inv' /\ UNCHANGED Cpu!vars
<1>1. /\ alg = "FIFO" /\ alg' = alg /\ pc = "sort" /\ pc' = "sort" /\ j <= N /\ j' = j + 1
      /\ UNCHANGED <<i, cpuVars, processes, completed, progressed, last_pid, queueVars, metrics>>
      /\ p' = IF Before(p[j], p[i]) THEN [p EXCEPT ![i] = p[j], ![j] = p[i]] ELSE p
  BY DEF FifoSwap
<1>2. /\ Permutes(p) /\ Ordered(p, i, j) /\ i \in 1..N /\ j \in (i + 1)..(N + 1)
      /\ time = 0 /\ \A q \in Procs : remaining_time[q] = Burst(q)
      /\ N \in Nat
  BY <1>1, SchedulerAssumption DEF Inv, FifoInv
<1>3. /\ i \in Procs /\ j \in Procs /\ i < j
  BY <1>1, <1>2 DEF Procs
<1>4. p[i] \in Procs /\ p[j] \in Procs
  BY <1>2, <1>3 DEF Permutes
<1>5. Arrival(p[i]) \in Nat /\ Arrival(p[j]) \in Nat
  BY <1>4, InvFacts DEF Inv
<1>6. Permutes(p') /\ Ordered(p', i, j + 1)
  <2>1. CASE Before(p[j], p[i])
    <3>1. Arrival(p[j]) <= Arrival(p[i])
      BY <1>5, <2>1 DEF Before
    <3>2. QED
      BY <1>1, <1>2, <1>3, <2>1, <3>1, Exchange DEF Inv
  <2>2. CASE ~Before(p[j], p[i])
    <3>1. Arrival(p[i]) <= Arrival(p[j])
      BY <1>5, <2>2 DEF Before
    <3>2. \A d \in Procs : d < j + 1 => d < j \/ d = j
      BY <1>3 DEF Procs
    <3>3. Ordered(p, i, j + 1)
      BY <1>2, <1>3, <3>1, <3>2 DEF Ordered
    <3>4. QED
      BY <1>1, <1>2, <2>2, <3>3
  <2>3. QED
    BY <2>1, <2>2
<1>7. TypeOK'
  <2>1. p' \in [Procs -> Procs]
    BY <1>6 DEF Permutes
  <2>2. j' \in Nat \ {0}
    BY <1>1, <1>2
  <2>3. QED
    BY <1>1, <2>1, <2>2 DEF Inv, TypeOK, Workloads, Pid
<1>8. FifoInv'
  <2>1. Permutes(p)'
    BY <1>6 DEF Permutes
  <2>2. j' \in (i' + 1)..(N + 1)
    BY <1>1, <1>2
  <2>3. \A q \in Procs : remaining_time'[q] = Burst(q)'
    BY <1>1, <1>2, SameWorkload
  <2>4. Ordered(p, i, j)'
    BY <1>1, <1>6 DEF Ordered, Arrival
  <2>5. QED
    BY <1>1, <1>2, <2>1, <2>2, <2>3, <2>4 DEF FifoInv
<1>9. QED
  BY <1>1, <1>7, <1>8, OthersIdle, Stutters DEF Inv

LEMMA FifoSortNextStep ==
  ASSUME Inv, FifoSortNext
  PROVE  Inv' /\ UNCHANGED Cpu!vars
<1>1. /\ alg = "FIFO" /\ alg' = alg /\ pc = "sort" /\ j > N
      /\ UNCHANGED <<p, cpuVars, processes, completed, progressed, last_pid, queueVars, metrics>>
      /\ \/ i < N /\ i' = i + 1 /\ j' = i + 2 /\ pc' = pc
         \/ i = N /\ i' = 1 /\ pc' = "loop" /\ j' = j
  BY DEF FifoSortNext
<1>2. /\ Permutes(p) /\ Ordered(p, i, j) /\ i \in 1..N /\ j \in (i + 1)..(N + 1)
      /\ time = 0 /\ \A q \in Procs : remaining_time[q] = Burst(q)
      /\ N \in Nat
  BY <1>1, SchedulerAssumption DEF Inv, FifoInv
<1>3. TypeOK'
  <2>1. i' \in Nat \ {0} /\ j' \in Nat \ {0} /\ pc' \in {"sort", "loop"}
    BY <1>1, <1>2
  <2>2. QED
    BY <1>1, <2>1 DEF Inv, TypeOK, Workloads, Pid
<1>4. Ordered(p, i + 1, i + 2)
  <2>1. \A d \in Procs : d < j
    BY <1>1, <1>2 DEF Procs
  <2>2. \A c, d \in Procs : c < i + 1 \/ (c = i + 1 /\ d < i + 2) => c < i \/ (c = i /\ d < j) \/ ~(c < d)
    BY <1>2, <2>1 DEF Procs
  <2>3. QED
    BY <1>2, <2>2 DEF Ordered
<1>5. CASE i < N
  <2>0. i' = i + 1 /\ j' = i + 2 /\ p' = p /\ processes' = processes
    BY <1>1, <1>2, <1>5
  <2>1. Ordered(p, i, j)'
    BY <1>4, <2>0 DEF Ordered, Arrival
  <2>2. i' \in 1..N /\ j' \in (i' + 1)..(N + 1) /\ pc' = "sort"
    BY <1>1, <1>2, <1>5
  <2>3. Permutes(p)' /\ time' = 0 /\ \A q \in Procs : remaining_time'[q] = Burst(q)'
    BY <1>1, <1>2, SameWorkload DEF Permutes
  <2>4. FifoInv'
    BY <2>1, <2>2, <2>3 DEF FifoInv
  <2>5. QED
    BY <1>1, <1>3, <2>4, OthersIdle, Stutters DEF Inv
<1>6. CASE i = N
  <2>1. /\ i' = 1 /\ pc' = "loop" /\ i' \in 1..(N + 1) /\ Permutes(p)'
    BY <1>1, <1>2, <1>6 DEF Permutes
  <2>2. \A c, d \in Procs : c < d /\ (c < N + 1 \/ (c = N + 1 /\ d < N + 1)) => c < N
    BY <1>2 DEF Procs
  <2>3. Ordered(p, N + 1, N + 1)
    BY <1>2, <1>6, <2>2 DEF Ordered
  <2>4. Ordered(p, N + 1, N + 1)'
    BY <1>1, <2>3 DEF Ordered, Arrival
  <2>5. \A a \in Procs : ~(a < 1)
    BY DEF Procs
  <2>6. \A a \in Procs : remaining_time[p[a]] = Burst(p[a])
    BY <1>2 DEF Permutes
  <2>7. \A a \in Procs : remaining_time'[p'[a]] = IF a < i' THEN 0 ELSE Burst(p[a])'
    BY <1>1, <2>1, <2>5, <2>6 DEF Burst
  <2>8. FifoInv'
    BY <2>1, <2>4, <2>7 DEF FifoInv
  <2>9. QED
    BY <1>1, <1>3, <2>8, OthersIdle, Stutters DEF Inv
<1>7. QED
  BY <1>1, <1>5, <1>6

\* The next of the sorted processes waits for its arrival, and nobody else
\* could have run in the meantime.
LEMMA FifoRunStep ==
  ASSUME Inv, FifoRun
  PROVE  Inv' /\ Cpu!Next
<1> DEFINE q == p[i]
           t == IF time < Arrival(q) THEN Arrival(q) ELSE time
<1>1. /\ alg = "FIFO" /\ alg' = alg /\ pc = "loop" /\ pc' = pc /\ i <= N /\ i' = i + 1
      /\ Execute(q, t, Burst(q)) /\ NewSlice(q, t, Burst(q))
      /\ start_time' = [start_time EXCEPT ![q] = t]
      /\ UNCHANGED <<p, j, processes, completed, progressed, last_pid, queueVars, metrics>>
  BY DEF FifoRun
<1>2. /\ Permutes(p) /\ Ordered(p, N + 1, N + 1) /\ i \in Procs /\ N \in Nat
      /\ \A a \in Procs : remaining_time[p[a]] = IF a < i THEN 0 ELSE Burst(p[a])
  BY <1>1, SchedulerAssumption DEF Inv, FifoInv, Procs
<1>3. q \in Procs /\ TypeOK
  BY <1>2 DEF Permutes, Inv
<1>4. /\ Arrival(q) \in Nat /\ Burst(q) \in Nat /\ time \in Nat /\ t \in Nat /\ time <= t
      /\ Arrival(q) <= t /\ (time < t => t = Arrival(q))
  <2>1. Arrival(q) \in Nat /\ Burst(q) \in Nat
    BY <1>3, InvFacts
  <2>2. time \in Nat
    BY <1>3 DEF TypeOK
  <2> HIDE DEF q
  <2>3. QED
    BY <2>1, <2>2
<1>5. remaining_time[q] = Burst(q) /\ Burst(q) \in 0..remaining_time[q]
  BY <1>2, <1>4 DEF Procs
<1> HIDE DEF t
<1>6. /\ remaining_time' \in [Procs -> Nat] /\ completion_time' \in [Procs -> Nat] /\ time' \in Nat
      /\ remaining_time'[q] = 0
      /\ \A r \in Procs : r # q => remaining_time'[r] = remaining_time[r]
  BY <1>1, <1>3, <1>4, <1>5, ExecuteStep
<1>7. timeline' \in Seq([time : Nat, pid : Procs, duration : Nat])
  BY <1>1, <1>3, <1>4, SliceStep
<1>8. TypeOK'
  <2>1. start_time' \in [Procs -> Nat] /\ i' \in Nat \ {0}
    BY <1>1, <1>3, <1>4 DEF TypeOK
  <2>2. QED
    BY <1>1, <1>3, <1>6, <1>7, <2>1 DEF TypeOK, Workloads, Pid
<1>9. FifoInv'
  <2>1. \A a \in Procs : (a = i <=> p[a] = q) /\ (a < i + 1 <=> a < i \/ a = i)
    <3>1. \A a \in Procs : a = i <=> p[a] = q
      BY <1>2 DEF Permutes
    <3>2. \A a \in Procs : a < i + 1 <=> a < i \/ a = i
      BY <1>2 DEF Procs
    <3>3. QED
      BY <3>1, <3>2
  <2>2. \A a \in Procs : remaining_time'[p[a]] = IF a < i + 1 THEN 0 ELSE Burst(p[a])
    BY <1>2, <1>6, <2>1 DEF Permutes
  <2>3. \A a \in Procs : remaining_time'[p'[a]] = IF a < i' THEN 0 ELSE Burst(p[a])'
    BY <1>1, <2>2 DEF Burst
  <2>4. Ordered(p, N + 1, N + 1)' /\ Permutes(p)' /\ i' \in 1..(N + 1)
    <3>1. Ordered(p, N + 1, N + 1)'
      BY <1>1, <1>2 DEF Ordered, Arrival
    <3>2. Permutes(p)'
      BY <1>1, <1>2 DEF Permutes
    <3>3. i' \in 1..(N + 1)
      BY <1>1, <1>2 DEF Procs
    <3>4. QED
      BY <3>1, <3>2, <3>3
  <2>5. QED
    BY <1>1, <2>3, <2>4 DEF FifoInv
<1>10. \A r \in Procs : \A s \in time..(t - 1) : Arrival(r) <= s => remaining_time[r] = 0
  <2> SUFFICES ASSUME NEW r \in Procs, NEW s \in time..(t - 1), Arrival(r) <= s
               PROVE  remaining_time[r] = 0
    OBVIOUS
  <2>1. PICK a \in Procs : p[a] = r
    BY <1>2 DEF Permutes
  <2>2. Arrival(r) < Arrival(q)
    BY <1>3, <1>4, InvFacts
  <2>3. ~(i < a) /\ a # i
    <3>1. \A c, d \in Procs : c < d => c < N + 1
      BY <1>2 DEF Procs
    <3>2. i < a => Arrival(q) <= Arrival(r)
      BY <1>2, <2>1, <3>1 DEF Ordered
    <3>3. Arrival(r) \in Nat
      BY <1>3, InvFacts
    <3>4. QED
      BY <1>4, <2>1, <2>2, <3>2, <3>3
  <2>4. a < i
    BY <1>2, <2>3 DEF Procs
  <2>5. QED
    BY <1>2, <2>1, <2>4
<1>11. Cpu!Next
  BY <1>1, <1>3, <1>4, <1>5, <1>10, RunMaps
<1>12. QED
  BY <1>1, <1>8, <1>9, <1>11, OthersIdle DEF Inv

LEMMA SjfSteps ==
  ASSUME Inv, SjfRun \/ SjfIdle
  PROVE  Inv' /\ Cpu!Next
<1>1. /\ alg = "SJF" /\ alg' = alg /\ TypeOK
      /\ UNCHANGED <<pc, p, i, j, processes, progressed, last_pid, queueVars, metrics>>
      /\ \A q \in Procs : remaining_time[q] \in {0, Burst(q)}
      /\ completed <= Cardinality(Done) /\ completed \in Nat /\ Cardinality(Done) \in Nat
      /\ \A q \in Procs : Burst(q) \in Nat /\ Burst(q)' = Burst(q)
  BY InvFacts, SameWorkload DEF SjfRun, SjfIdle, Inv, SjfInv, TypeOK
<1>2. CASE SjfRun
  <2>1. PICK q \in Cheapest([r \in Procs |-> Burst(r)]) :
          Execute(q, time, Burst(q)) /\ NewSlice(q, time, Burst(q)) /\ MarkStart(q)
    BY <1>2 DEF SjfRun
  <2>2. q \in Procs /\ remaining_time[q] > 0 /\ Arrival(q) <= time /\ time \in Nat
    BY <1>1, <2>1 DEF Cheapest, Ready, TypeOK
  <2>3. remaining_time[q] = Burst(q) /\ Burst(q) \in 1..remaining_time[q] /\ Burst(q) \in 0..remaining_time[q]
    BY <1>1, <2>2
  <2>4. /\ remaining_time' \in [Procs -> Nat] /\ completion_time' \in [Procs -> Nat] /\ time' \in Nat
        /\ remaining_time'[q] = 0
        /\ \A r \in Procs : r # q => remaining_time'[r] = remaining_time[r]
    BY <1>1, <2>1, <2>2, <2>3, ExecuteStep
  <2>5. Cardinality(Done') = Cardinality(Done) + 1
    BY <1>1, <2>1, <2>2, <2>3, DoneStep
  <2>6. timeline' \in Seq([time : Nat, pid : Procs, duration : Nat]) /\ start_time' \in [Procs -> Nat]
    BY <1>1, <2>1, <2>2, <2>3, SliceStep, StartStep
  <2>7. completed' = completed + 1
    BY <1>2 DEF SjfRun
  <2>0. progressed' \in BOOLEAN
    BY <1>1 DEF TypeOK
  <2>8. TypeOK'
    <3>1. completed' \in Nat
      BY <1>1, <2>7
    <3>2. /\ remaining_time' \in [Procs -> Nat] /\ completion_time' \in [Procs -> Nat] /\ time' \in Nat
          /\ timeline' \in Seq([time : Nat, pid : Procs, duration : Nat])
      BY <2>4, <2>6
    <3>3. start_time' \in [Procs -> Nat]
      BY <2>6
    <3>4. QED
      BY <1>1, <2>0, <3>1, <3>2, <3>3 DEF TypeOK, Workloads, Pid
  <2>9. SjfInv'
    BY <1>1, <2>4, <2>5, <2>7 DEF SjfInv
  <2>10. time..(time - 1) = {}
    BY <2>2
  <2>11. Cpu!Next
    BY <1>1, <2>1, <2>2, <2>3, <2>10, RunMaps
  <2>12. QED
    BY <1>1, <2>8, <2>9, <2>11, OthersIdle DEF Inv
<1>3. CASE SjfIdle
  <2>1. Tick /\ Ready = {} /\ UNCHANGED completed
    BY <1>3 DEF SjfIdle
  <2>2. time' \in Nat
    BY <1>1, <2>1 DEF Tick, TypeOK
  <2>3. TypeOK'
    BY <1>1, <2>1, <2>2 DEF TypeOK, Tick, Workloads, Pid
  <2>4. SjfInv'
    BY <1>1, <2>1 DEF SjfInv, Tick, Done
  <2>5. QED
    BY <1>1, <2>1, <2>3, <2>4, IdleMaps, OthersIdle DEF Inv
<1>4. QED
  BY <1>2, <1>3

LEMMA StcfSteps ==
  ASSUME Inv, StcfRun \/ StcfIdle
  PROVE  Inv' /\ Cpu!Next
<1>1. /\ alg = "STCF" /\ alg' = alg /\ TypeOK
      /\ UNCHANGED <<pc, p, i, j, completed, processes, progressed, queueVars, metrics>>
      /\ last_pid # -1 => timeline # <<>>
  BY DEF StcfRun, StcfIdle, Inv, StcfInv
<1>2. CASE StcfRun
  <2>1. PICK q \in Cheapest(remaining_time) :
          /\ Execute(q, time, 1) /\ MarkStart(q)
          /\ \/ last_pid # Pid(q) /\ NewSlice(q, time, 1)
             \/ last_pid = Pid(q)
                /\ timeline' = [timeline EXCEPT ![Len(timeline)].duration = @ + 1]
          /\ last_pid' = Pid(q)
    BY <1>2 DEF StcfRun
  <2>2. /\ q \in Procs /\ remaining_time[q] > 0 /\ remaining_time[q] \in Nat
        /\ Arrival(q) <= time /\ time \in Nat
    BY <1>1, <2>1 DEF Cheapest, Ready, TypeOK
  <2>3. 1 \in 0..remaining_time[q]
    BY <2>2
  <2>4. /\ remaining_time' \in [Procs -> Nat] /\ completion_time' \in [Procs -> Nat] /\ time' \in Nat
    BY <1>1, <2>1, <2>2, <2>3, ExecuteStep
  <2>5. Pid(q) \in Procs /\ Pid(q) # -1 /\ last_pid' \in Procs
    BY <1>1, <2>1, <2>2, InvFacts DEF Procs
  <2>6. start_time' \in [Procs -> Nat]
    BY <1>1, <2>1, <2>2, StartStep
  <2>7. timeline' \in Seq([time : Nat, pid : Procs, duration : Nat]) /\ timeline' # <<>>
    <3>1. CASE NewSlice(q, time, 1)
      BY <1>1, <2>2, <3>1, SliceStep
    <3>2. CASE last_pid = Pid(q) /\ timeline' = [timeline EXCEPT ![Len(timeline)].duration = @ + 1]
      <4> DEFINE Slices == [time : Nat, pid : Procs, duration : Nat]
                 last == timeline[Len(timeline)]
                 new == [last EXCEPT !.duration = @ + 1]
      <4>1. timeline \in Seq(Slices) /\ timeline # <<>>
        BY <1>1, <2>5, <3>2 DEF TypeOK
      <4>2. Len(timeline) \in 1..Len(timeline)
        BY <4>1, EmptySeq
      <4>3. last \in Slices
        BY <4>1, <4>2, ElementOfSeq
      <4>4. new \in Slices
        BY <4>3
      <4>5. timeline' = [timeline EXCEPT ![Len(timeline)] = new]
        BY <3>2
      <4> HIDE DEF Slices, new, last
      <4>6. timeline' \in Seq(Slices) /\ Len(timeline') = Len(timeline)
        BY <4>1, <4>2, <4>4, <4>5, ExceptSeq
      <4>7. QED
        BY <4>1, <4>6, EmptySeq DEF Slices
    <3>3. QED
      BY <2>1, <3>1, <3>2
  <2>8. TypeOK'
    BY <1>1, <2>4, <2>5, <2>6, <2>7 DEF TypeOK, Workloads, Pid
  <2>9. StcfInv'
    BY <1>1, <2>7 DEF StcfInv
  <2>10. time..(time - 1) = {}
    BY <2>2
  <2>11. Cpu!Next
    BY <1>1, <2>1, <2>2, <2>3, <2>10, RunMaps
  <2>12. QED
    BY <1>1, <2>8, <2>9, <2>11, OthersIdle DEF Inv
<1>3. CASE StcfIdle
  <2>1. Tick /\ Ready = {} /\ last_pid' = -1
    BY <1>3 DEF StcfIdle
  <2>2. time' \in Nat
    BY <1>1, <2>1 DEF Tick, TypeOK
  <2>3. TypeOK'
    BY <1>1, <2>1, <2>2 DEF TypeOK, Tick, Workloads, Pid
  <2>4. StcfInv'
    BY <1>1, <2>1 DEF StcfInv
  <2>5. QED
    BY <1>1, <2>1, <2>3, <2>4, IdleMaps, OthersIdle DEF Inv
<1>4. QED
  BY <1>2, <1>3

LEMMA RrSteps ==
  ASSUME Inv, RrVisit \/ RrPassEnds
  PROVE  Inv' /\ [Cpu!Next]_(Cpu!vars)
<1>1. /\ alg = "RR" /\ alg' = alg /\ TypeOK
      /\ UNCHANGED <<pc, p, j, processes, last_pid, queueVars, metrics>>
      /\ i \in 1..(N + 1) /\ N \in Nat
      /\ ~progressed => \A q \in Procs : q < i => q \notin Ready
      /\ completed <= Cardinality(Done) /\ completed \in Nat /\ Cardinality(Done) \in Nat
  BY InvFacts DEF RrVisit, RrPassEnds, Inv, RrInv, TypeOK
<1>2. CASE RrVisit
  <2>1. i \in Procs /\ i' = i + 1 /\ i' \in 1..(N + 1)
    BY <1>1, <1>2 DEF RrVisit, Procs
  <2>2. CASE i \in Ready
    <3> DEFINE run == AtMost(remaining_time[i], Quantum)
    <3>1. /\ Execute(i, time, run) /\ NewSlice(i, time, run) /\ MarkStart(i)
          /\ CountIfDone(i, run) /\ progressed' = TRUE
      BY <1>2, <2>2 DEF RrVisit
    <3>2. remaining_time[i] > 0 /\ remaining_time[i] \in Nat /\ Arrival(i) <= time /\ time \in Nat
      BY <1>1, <2>1, <2>2 DEF Ready, TypeOK
    <3>3. run \in 1..remaining_time[i] /\ run \in 0..remaining_time[i] /\ run \in Nat
      BY <3>2, SchedulerAssumption DEF AtMost
    <3> HIDE DEF run
    <3>4. /\ remaining_time' \in [Procs -> Nat] /\ completion_time' \in [Procs -> Nat] /\ time' \in Nat
      BY <1>1, <2>1, <3>1, <3>2, <3>3, ExecuteStep
    <3>5. Cardinality(Done') = IF remaining_time[i] = run THEN Cardinality(Done) + 1 ELSE Cardinality(Done)
      BY <1>1, <2>1, <3>1, <3>2, <3>3, DoneStep
    <3>6. timeline' \in Seq([time : Nat, pid : Procs, duration : Nat]) /\ start_time' \in [Procs -> Nat]
      BY <1>1, <2>1, <3>1, <3>2, <3>3, SliceStep, StartStep
    <3>7. completed' \in Nat /\ completed' <= Cardinality(Done')
      BY <1>1, <3>1, <3>5 DEF CountIfDone
    <3>0. progressed' \in BOOLEAN /\ i' \in Nat \ {0}
      BY <1>1, <2>1, <3>1
    <3>8. TypeOK'
      BY <1>1, <3>0, <3>4, <3>6, <3>7 DEF TypeOK, Workloads, Pid
    <3>9. RrInv'
      BY <1>1, <2>1, <3>1, <3>7 DEF RrInv
    <3>10. time..(time - 1) = {}
      BY <3>2
    <3>11. Cpu!Next
      BY <1>1, <2>1, <3>1, <3>2, <3>3, <3>10, RunMaps
    <3>12. QED
      BY <1>1, <3>8, <3>9, <3>11, OthersIdle DEF Inv
  <2>3. CASE i \notin Ready
    <3>1. UNCHANGED <<cpuVars, completed>>
      BY <1>2, <2>3 DEF RrVisit
    <3>2. progressed' = progressed
      BY <1>2, <2>3 DEF RrVisit
    <3>0. progressed' \in BOOLEAN
      BY <1>1, <3>2 DEF TypeOK
    <3>9. i' \in Nat \ {0}
      BY <1>1, <2>1
    <3>3. TypeOK'
      BY <1>1, <3>0, <3>1, <3>9 DEF TypeOK, Workloads, Pid
    <3>4. Ready' = Ready /\ Done' = Done
      BY <1>1, <3>1, SameWorkload DEF Ready, Done
    <3>5. \A q \in Procs : q < i + 1 => q < i \/ q = i
      BY <2>1 DEF Procs
    <3>6. ~progressed' => \A q \in Procs : q < i' => q \notin Ready'
      BY <1>1, <2>1, <2>3, <3>2, <3>4, <3>5
    <3>7. RrInv'
      BY <1>1, <2>1, <3>1, <3>4, <3>6 DEF RrInv
    <3>8. QED
      BY <1>1, <3>1, <3>3, <3>7, OthersIdle, Stutters DEF Inv
  <2>4. QED
    BY <2>2, <2>3
<1>3. CASE RrPassEnds
  <2>1. /\ i > N /\ i' = 1 /\ UNCHANGED completed
        /\ IF progressed THEN UNCHANGED cpuVars ELSE Tick
    BY <1>3 DEF RrPassEnds
  <2>2. progressed' = FALSE
    BY <1>3 DEF RrPassEnds
  <2>3. i' \in 1..(N + 1) /\ \A q \in Procs : ~(q < i')
    BY <1>1, <2>1 DEF Procs
  <2>0. progressed' \in BOOLEAN
    BY <2>2
  <2>4. CASE UNCHANGED cpuVars
    <3>1. TypeOK'
      BY <1>1, <2>0, <2>1, <2>4 DEF TypeOK, Workloads, Pid
    <3>2. RrInv'
      BY <1>1, <2>1, <2>3, <2>4 DEF RrInv, Done
    <3>3. QED
      BY <1>1, <2>4, <3>1, <3>2, OthersIdle, Stutters DEF Inv
  <2>5. CASE ~progressed /\ Tick
    <3>1. Ready = {}
      <4>1. \A q \in Procs : q < i
        BY <1>1, <2>1 DEF Procs
      <4>2. QED
        BY <1>1, <2>5, <4>1 DEF Ready
    <3>2. time' \in Nat
      BY <1>1, <2>5 DEF Tick, TypeOK
    <3>3. TypeOK'
      BY <1>1, <2>0, <2>1, <2>5, <3>2 DEF TypeOK, Tick, Workloads, Pid
    <3>4. RrInv'
      BY <1>1, <2>1, <2>3, <2>5 DEF RrInv, Done, Tick
    <3>5. QED
      BY <1>1, <2>5, <3>1, <3>3, <3>4, IdleMaps, OthersIdle DEF Inv
  <2>6. QED
    BY <2>1, <2>4, <2>5
<1>4. QED
  BY <1>2, <1>3

\* The steps of MLFQ that leave the CPU alone: arrivals and boost.
LEMMA MlfqQueueSteps ==
  ASSUME Inv, MlfqArrive \/ MlfqArrived \/ MlfqBoost \/ MlfqBoosted
  PROVE  Inv' /\ UNCHANGED Cpu!vars
<1>1. /\ alg = "MLFQ" /\ alg' = alg /\ TypeOK
      /\ UNCHANGED <<processes, cpuVars, p, j, completed, progressed, last_pid, metrics>>
      /\ N \in Nat \ {0} /\ NumQueues \in Nat \ {0} /\ 0 \in Levels
      /\ queue \in Queues /\ Distinct(queue) /\ in_queue = Held(queue)
      /\ completed <= Cardinality(Done)
      /\ \A q \in in_queue : remaining_time[q] > 0 /\ Arrival(q) <= time
      /\ pc = "arrive" => i \in 1..(N + 1) /\ \A q \in Ready : q < i => q \in in_queue
      /\ pc # "arrive" => Ready \subseteq in_queue
      /\ pc = "boost" => i \in 1..NumQueues
      /\ tail \in [Levels -> Nat] /\ i \in Nat \ {0}
  <2>1. /\ alg = "MLFQ" /\ alg' = alg
        /\ UNCHANGED <<processes, cpuVars, p, j, completed, progressed, last_pid, metrics>>
    BY DEF MlfqArrive, MlfqArrived, MlfqBoost, MlfqBoosted
  <2>2. TypeOK /\ queue \in Queues /\ tail \in [Levels -> Nat] /\ i \in Nat \ {0}
    BY DEF Inv, TypeOK, Queues
  <2>3. N \in Nat \ {0} /\ NumQueues \in Nat \ {0} /\ 0 \in Levels
    BY SchedulerAssumption DEF Levels
  <2>4. MlfqInv
    BY DEF Inv
  <2>5. QED
    BY <2>1, <2>2, <2>3, <2>4 DEF MlfqInv
<1>2. progressed' \in BOOLEAN
  BY <1>1 DEF TypeOK
<1>3. Ready' = Ready /\ Done' = Done /\ \A q \in Procs : Arrival(q)' = Arrival(q)
  BY <1>1, SameWorkload DEF Ready, Done
<1>4. ASSUME queue' \in Queues, tail' \in [Levels -> Nat], i' \in Nat \ {0}, in_queue' \subseteq Procs,
             pc' \in {"arrive", "boost", "select"}
      PROVE  TypeOK'
  BY <1>1, <1>2, <1>4 DEF TypeOK, Workloads, Pid, Queues
<1>5. CASE MlfqArrive
  <2>1. /\ pc = "arrive" /\ pc' = "arrive" /\ i \in Procs /\ i' = i + 1
        /\ i' \in 1..(N + 1) /\ i' \in Nat \ {0}
    BY <1>1, <1>5 DEF MlfqArrive, Procs
  <2>2. \A q \in Procs : q < i + 1 => q < i \/ q = i
    BY <2>1 DEF Procs
  <2>3. CASE i \in Ready \ in_queue
    <3>1. /\ queue' = [queue EXCEPT ![0] = Append(@, i)]
          /\ tail' = [tail EXCEPT ![0] = @ + 1]
          /\ in_queue' = in_queue \cup {i}
      BY <1>5, <2>3 DEF MlfqArrive
    <3>2. queue' \in Queues /\ Distinct(queue') /\ Held(queue') = in_queue'
      BY <1>1, <2>1, <2>3, <3>1, Queued
    <3>3. tail' \in [Levels -> Nat] /\ in_queue' \subseteq Procs
      BY <1>1, <2>1, <3>1 DEF TypeOK
    <3>4. \A q \in in_queue' : remaining_time'[q] > 0 /\ Arrival(q)' <= time'
      BY <1>1, <1>3, <2>1, <2>3, <3>1, <3>3 DEF Ready
    <3>5. \A q \in Ready' : q < i' => q \in in_queue'
      BY <1>1, <1>3, <2>1, <2>2, <3>1 DEF Ready
    <3>6. MlfqInv'
      BY <1>1, <1>3, <2>1, <3>2, <3>4, <3>5 DEF MlfqInv, Distinct, Held
    <3>7. QED
      BY <1>1, <1>4, <2>1, <3>2, <3>3, <3>6, OthersIdle, Stutters DEF Inv
  <2>4. CASE i \notin Ready \ in_queue
    <3>1. UNCHANGED queueVars
      BY <1>5, <2>4 DEF MlfqArrive
    <3>2. \A q \in Ready' : q < i' => q \in in_queue'
      BY <1>1, <1>3, <2>1, <2>2, <2>4, <3>1 DEF Ready
    <3>3. \A q \in in_queue' : remaining_time'[q] > 0 /\ Arrival(q)' <= time'
      BY <1>1, <1>3, <3>1 DEF TypeOK
    <3>4. MlfqInv'
      BY <1>1, <1>3, <2>1, <3>1, <3>2, <3>3 DEF MlfqInv, Distinct, Held
    <3>5. TypeOK'
      BY <1>1, <1>4, <2>1, <3>1 DEF TypeOK
    <3>6. QED
      BY <1>1, <3>4, <3>5, OthersIdle, Stutters DEF Inv
  <2>5. QED
    BY <2>3, <2>4
<1>6. CASE MlfqArrived \/ MlfqBoosted
  <2>1. /\ UNCHANGED queueVars /\ pc' \in {"boost", "select"} /\ i' = 1
        /\ (pc = "arrive" /\ i > N) \/ pc = "boost"
    BY <1>6 DEF MlfqArrived, MlfqBoosted
  <2>2. Ready \subseteq in_queue
    <3>1. \A q \in Procs : i > N => q < i
      BY <1>1 DEF Procs
    <3>2. QED
      BY <1>1, <2>1, <3>1 DEF Ready
  <2>3. \A q \in in_queue' : remaining_time'[q] > 0 /\ Arrival(q)' <= time'
    BY <1>1, <1>3, <2>1 DEF TypeOK
  <2>4. i' \in 1..NumQueues
    BY <1>1, <2>1
  <2>5. MlfqInv'
    <3>1. Distinct(queue') /\ in_queue' = Held(queue')
      BY <1>1, <2>1 DEF queueVars
    <3>2. completed' <= Cardinality(Done')
      BY <1>1, <1>3
    <3>3. Ready' \subseteq in_queue'
      BY <1>1, <1>3, <2>1, <2>2 DEF queueVars
    <3>4. QED
      BY <2>1, <2>3, <2>4, <3>1, <3>2, <3>3 DEF MlfqInv, Distinct, Held
  <2>6. TypeOK'
    BY <1>1, <1>4, <2>1 DEF TypeOK
  <2>7. QED
    BY <1>1, <2>5, <2>6, OthersIdle, Stutters DEF Inv
<1>7. CASE MlfqBoost
  <2>1. pc = "boost" /\ pc' = "boost" /\ i < NumQueues /\ in_queue' = in_queue
    BY <1>7 DEF MlfqBoost
  <2>2. i \in Levels /\ i # 0 /\ i \in 1..NumQueues
    BY <1>1, <2>1 DEF Levels
  <2>3. \A q \in in_queue' : remaining_time'[q] > 0 /\ Arrival(q)' <= time'
    BY <1>1, <1>3, <2>1 DEF TypeOK
  <2>4. in_queue' \subseteq Procs
    BY <1>1, <2>1 DEF TypeOK
  <2>5. CASE queue[i] # <<>>
    <3> DEFINE x == Head(queue[i])
               out == [queue EXCEPT ![i] = Tail(@)]
    <3>1. /\ queue' = [queue EXCEPT ![0] = Append(@, x), ![i] = Tail(@)]
          /\ tail' = [tail EXCEPT ![0] = @ + 1] /\ i' = i
      BY <1>7, <2>5 DEF MlfqBoost
    <3>2. /\ out \in Queues /\ Distinct(out) /\ x \in Held(queue) /\ Held(out) = Held(queue) \ {x}
      BY <1>1, <2>2, <2>5, Dequeued
    <3>3. queue' = [out EXCEPT ![0] = Append(@, x)]
      BY <1>1, <2>2, <3>1 DEF Queues
    <3>4. x \in Procs
      BY <3>2 DEF Held
    <3> HIDE DEF x, out
    <3>5. queue' \in Queues /\ Distinct(queue') /\ Held(queue') = Held(out) \cup {x}
      BY <1>1, <3>2, <3>3, <3>4, Queued
    <3>6. in_queue' = Held(queue')
      BY <1>1, <2>1, <3>2, <3>5
    <3>7. tail' \in [Levels -> Nat]
      BY <1>1, <3>1
    <3>8. MlfqInv'
      BY <1>1, <1>3, <2>1, <2>2, <2>3, <3>1, <3>5, <3>6 DEF MlfqInv, Distinct, Held
    <3>9. QED
      BY <1>1, <1>4, <2>1, <2>4, <3>1, <3>5, <3>7, <3>8, OthersIdle, Stutters DEF Inv
  <2>6. CASE queue[i] = <<>>
    <3>1. tail' = [tail EXCEPT ![i] = 0] /\ i' = i + 1 /\ queue' = queue
      BY <1>7, <2>6 DEF MlfqBoost
    <3>2. tail' \in [Levels -> Nat] /\ i' \in 1..NumQueues /\ i' \in Nat \ {0}
      BY <1>1, <2>1, <2>2, <3>1
    <3>6. Distinct(queue)' /\ in_queue' = Held(queue)'
      BY <1>1, <2>1, <3>1 DEF Distinct, Held
    <3>7. completed' <= Cardinality(Done)' /\ Ready' \subseteq in_queue'
      BY <1>1, <1>3, <2>1
    <3>3. MlfqInv'
      BY <2>1, <2>3, <3>2, <3>6, <3>7 DEF MlfqInv
    <3>4. TypeOK'
      BY <1>1, <1>4, <2>1, <2>4, <3>1, <3>2
    <3>5. QED
      BY <1>1, <3>3, <3>4, OthersIdle, Stutters DEF Inv
  <2>7. QED
    BY <2>5, <2>6
<1>8. QED
  BY <1>5, <1>6, <1>7

LEMMA MlfqCpuSteps ==
  ASSUME Inv, MlfqRun \/ MlfqIdle
  PROVE  Inv' /\ Cpu!Next
<1>1. /\ alg = "MLFQ" /\ alg' = alg /\ TypeOK /\ pc = "select" /\ pc' = "arrive" /\ i = 1 /\ i' = 1
      /\ UNCHANGED <<processes, p, j, progressed, last_pid, metrics>>
      /\ N \in Nat \ {0} /\ NumQueues \in Nat \ {0}
      /\ queue \in Queues /\ Distinct(queue) /\ in_queue = Held(queue)
      /\ completed <= Cardinality(Done) /\ completed \in Nat
      /\ \A q \in in_queue : remaining_time[q] > 0 /\ Arrival(q) <= time
      /\ Ready \subseteq in_queue
      /\ tail \in [Levels -> Nat] /\ time \in Nat
  BY SchedulerAssumption DEF MlfqRun, MlfqIdle, Inv, MlfqInv, TypeOK, Queues
<1>2. progressed' \in BOOLEAN
  BY <1>1 DEF TypeOK
<1>3. i' \in 1..(N + 1) /\ \A q \in Procs : ~(q < i')
  BY <1>1 DEF Procs
<1>4. \A q \in Procs : Arrival(q) \in Nat /\ Arrival(q)' = Arrival(q)
  BY <1>1, InvFacts, SameWorkload
<1>5. ASSUME queue' \in Queues, tail' \in [Levels -> Nat], in_queue' \subseteq Procs,
             remaining_time' \in [Procs -> Nat], completion_time' \in [Procs -> Nat],
             start_time' \in [Procs -> Nat], time' \in Nat, completed' \in Nat,
             timeline' \in Seq([time : Nat, pid : Procs, duration : Nat])
      PROVE  TypeOK'
  BY <1>1, <1>2, <1>5 DEF TypeOK, Workloads, Pid, Queues
<1>6. ASSUME Distinct(queue'), in_queue' = Held(queue'), completed' <= Cardinality(Done'),
             \A q \in in_queue' : remaining_time'[q] > 0 /\ Arrival(q)' <= time'
      PROVE  MlfqInv'
  BY <1>1, <1>3, <1>6 DEF MlfqInv, Ready, Distinct, Held
<1>7. CASE MlfqRun
  <2>1. PICK l \in Levels :
          /\ queue[l] # <<>>
          /\ LET q   == Head(queue[l])
                 run == AtMost(remaining_time[q], Quanta[l])
                 out == [queue EXCEPT ![l] = Tail(@)]
             IN /\ Execute(q, time, run) /\ NewSlice(q, time, run) /\ MarkStart(q)
                /\ CountIfDone(q, run)
                /\ IF remaining_time[q] = run
                     THEN /\ queue' = out /\ in_queue' = in_queue \ {q}
                          /\ UNCHANGED tail
                     ELSE /\ queue' = [out EXCEPT ![Demoted(l)] = Append(@, q)]
                          /\ tail' = [tail EXCEPT ![Demoted(l)] = @ + 1]
                          /\ UNCHANGED in_queue
    BY <1>7 DEF MlfqRun
  <2> DEFINE q   == Head(queue[l])
             run == AtMost(remaining_time[q], Quanta[l])
             out == [queue EXCEPT ![l] = Tail(@)]
  <2>2. /\ Execute(q, time, run) /\ NewSlice(q, time, run) /\ MarkStart(q) /\ CountIfDone(q, run)
        /\ IF remaining_time[q] = run
             THEN queue' = out /\ in_queue' = in_queue \ {q} /\ UNCHANGED tail
             ELSE /\ queue' = [out EXCEPT ![Demoted(l)] = Append(@, q)]
                  /\ tail' = [tail EXCEPT ![Demoted(l)] = @ + 1]
                  /\ UNCHANGED in_queue
    BY <2>1
  <2>3. /\ out \in Queues /\ Distinct(out) /\ q \in in_queue /\ Held(out) = in_queue \ {q}
    BY <1>1, <2>1, Dequeued
  <2>4. /\ q \in Procs /\ remaining_time[q] > 0 /\ remaining_time[q] \in Nat /\ Arrival(q) <= time
    BY <1>1, <2>3 DEF TypeOK
  <2>5. run \in 1..remaining_time[q] /\ run \in 0..remaining_time[q] /\ run \in Nat
    <3>1. Quanta[l] \in Nat \ {0}
      BY SchedulerAssumption
    <3>2. QED
      BY <2>4, <3>1 DEF AtMost
  <2>6. Demoted(l) \in Levels
    BY <1>1 DEF Demoted, AtMost, Levels
  <2> HIDE DEF q, run, out
  <2>7. /\ remaining_time' \in [Procs -> Nat] /\ completion_time' \in [Procs -> Nat] /\ time' \in Nat
        /\ time' = time + run /\ remaining_time'[q] = remaining_time[q] - run
        /\ \A r \in Procs : r # q => remaining_time'[r] = remaining_time[r]
    BY <1>1, <2>2, <2>4, <2>5, ExecuteStep
  <2>8. Cardinality(Done') = IF remaining_time[q] = run THEN Cardinality(Done) + 1 ELSE Cardinality(Done)
    BY <1>1, <2>2, <2>4, <2>5, DoneStep
  <2>9. timeline' \in Seq([time : Nat, pid : Procs, duration : Nat]) /\ start_time' \in [Procs -> Nat]
    BY <1>1, <2>2, <2>4, <2>5, SliceStep, StartStep
  <2>10. completed' \in Nat /\ completed' <= Cardinality(Done')
    BY <1>1, <2>2, <2>8, InvFacts DEF CountIfDone
  <2>11. /\ queue' \in Queues /\ Distinct(queue') /\ in_queue' = Held(queue') /\ in_queue' \subseteq Procs
         /\ tail' \in [Levels -> Nat]
         /\ in_queue' = IF remaining_time[q] = run THEN in_queue \ {q} ELSE in_queue
    <3>1. CASE remaining_time[q] = run
      BY <1>1, <2>2, <2>3, <3>1 DEF TypeOK
    <3>2. CASE remaining_time[q] # run
      <4>1. /\ queue' = [out EXCEPT ![Demoted(l)] = Append(@, q)]
            /\ tail' = [tail EXCEPT ![Demoted(l)] = @ + 1] /\ in_queue' = in_queue
        BY <2>2, <3>2
      <4>2. q \notin Held(out)
        BY <2>3
      <4>3. queue' \in Queues /\ Distinct(queue') /\ Held(queue') = Held(out) \cup {q}
        BY <2>3, <2>4, <2>6, <4>1, <4>2, Queued
      <4>4. Held(queue') = in_queue'
        BY <2>3, <4>1, <4>3
      <4>5. tail' \in [Levels -> Nat]
        BY <1>1, <2>6, <4>1
      <4>6. QED
        BY <1>1, <3>2, <4>1, <4>3, <4>4, <4>5 DEF TypeOK
    <3>3. QED
      BY <3>1, <3>2
  <2>12. \A r \in in_queue' : remaining_time'[r] > 0 /\ Arrival(r)' <= time'
    <3> SUFFICES ASSUME NEW r \in in_queue' PROVE remaining_time'[r] > 0 /\ Arrival(r)' <= time'
      OBVIOUS
    <3>1. r \in in_queue /\ r \in Procs
      BY <1>1, <2>11 DEF TypeOK
    <3>2. Arrival(r)' <= time'
      BY <1>1, <1>4, <2>5, <2>7, <3>1
    <3>3. remaining_time'[r] > 0
      BY <1>1, <2>4, <2>5, <2>7, <2>11, <3>1
    <3>4. QED
      BY <3>2, <3>3
  <2>13. time..(time - 1) = {}
    BY <1>1
  <2>14. Cpu!Next
    BY <1>1, <2>2, <2>4, <2>5, <2>13, RunMaps
  <2>15. TypeOK' /\ MlfqInv'
    BY <1>5, <1>6, <2>7, <2>9, <2>10, <2>11, <2>12
  <2>16. QED
    BY <1>1, <2>14, <2>15, OthersIdle DEF Inv
<1>8. CASE MlfqIdle
  <2>1. Tick /\ UNCHANGED <<completed, queueVars>> /\ \A l \in Levels : queue[l] = <<>>
    BY <1>8 DEF MlfqIdle
  <2>2. \A l \in Levels : 1..Len(queue[l]) = {}
    BY <2>1
  <2>3. in_queue = {}
    BY <1>1, <2>2 DEF Held
  <2>4. Ready = {}
    BY <1>1, <2>3
  <2>5. time' \in Nat /\ time' = time + 1 /\ UNCHANGED <<copyVars, timeline>>
    BY <1>1, <2>1 DEF Tick
  <2>6. TypeOK'
    BY <1>1, <1>5, <2>1, <2>5 DEF TypeOK, Queues
  <2>7. Done' = Done
    BY <2>5 DEF Done
  <2>8. MlfqInv'
    BY <1>1, <1>6, <2>1, <2>3, <2>5, <2>7
  <2>9. QED
    BY <1>1, <2>1, <2>4, <2>6, <2>8, IdleMaps, OthersIdle DEF Inv
<1>9. QED
  BY <1>7, <1>8

-----------------------------------------------------------------------------
(* The report, and the whole.                                              *)

LEMMA EndedDone ==
  ASSUME Inv, Ended
  PROVE  /\ \A q \in Procs : remaining_time[q] = 0
         /\ alg \in DOMAIN After
<1> USE DEF Inv
<1>1. CASE alg = "FIFO"
  <2>1. /\ pc = "loop" /\ i > N /\ Permutes(p) /\ N \in Nat /\ i \in Nat
        /\ \A a \in Procs : remaining_time[p[a]] = IF a < i THEN 0 ELSE Burst(p[a])
    BY <1>1, InvFacts DEF Ended, FifoInv, TypeOK
  <2>2. \A a \in Procs : a < i
    BY <2>1 DEF Procs
  <2>3. QED
    BY <1>1, <2>1, <2>2 DEF Permutes, After
<1>2. CASE alg \in {"SJF", "RR", "MLFQ"}
  <2>1. completed = N /\ completed <= Cardinality(Done)
    BY <1>2 DEF Ended, SjfInv, RrInv, MlfqInv
  <2>2. QED
    BY <1>2, <2>1, AllDone DEF After
<1>3. CASE alg = "STCF"
  BY <1>3 DEF Ended, TypeOK, After
<1>4. QED
  BY <1>1, <1>2, <1>3 DEF Ended

LEMMA EmptyQueues ==
  LET Q == [l \in Levels |-> <<>>]
  IN  Q \in Queues /\ Distinct(Q) /\ Held(Q) = {}
<1> DEFINE Q == [l \in Levels |-> <<>>]
<1>1. Q \in Queues
  BY EmptySeq DEF Queues
<1>2. \A l \in Levels : 1..Len(Q[l]) = {}
  OBVIOUS
<1>3. QED
  BY <1>1, <1>2 DEF Distinct, Held

LEMMA NextAlgorithmStep ==
  ASSUME Inv, NextAlgorithm
  PROVE  Inv' /\ Cpu!Next
<1>1. /\ alg \in DOMAIN After /\ TypeOK /\ \A q \in Procs : remaining_time[q] = 0
  BY EndedDone DEF NextAlgorithm, Inv
<1>2. /\ alg' = After[alg] /\ pc' = IF alg' = "MLFQ" THEN "arrive" ELSE "loop"
      /\ p' = [q \in Procs |-> q]
      /\ remaining_time' = [q \in Procs |-> Burst(q)]
      /\ start_time' = [q \in Procs |-> 0] /\ completion_time' = [q \in Procs |-> 0]
      /\ time' = 0 /\ timeline' = <<>> /\ i' = 1 /\ j' = 2
      /\ completed' = 0 /\ last_pid' = -1
      /\ queue' = [l \in Levels |-> <<>>] /\ tail' = [l \in Levels |-> 0]
      /\ in_queue' = {}
      /\ UNCHANGED processes
  BY DEF NextAlgorithm
<1>3. progressed' \in BOOLEAN
  BY DEF NextAlgorithm
<1>4. alg' \in {"SJF", "STCF", "RR", "MLFQ", "written"}
  BY <1>1, <1>2 DEF After
<1>5. \A q \in Procs : Burst(q) \in Nat /\ Burst(q)' = Burst(q)
  BY <1>1, <1>2, InvFacts, SameWorkload
<1>6. queue' \in Queues /\ Distinct(queue') /\ Held(queue') = {}
  BY <1>2, EmptyQueues
<1>7. TypeOK'
  <2>1. timeline' \in Seq([time : Nat, pid : Procs, duration : Nat])
    BY <1>2, EmptySeq
  <2>2. remaining_time' \in [Procs -> Nat]
    BY <1>2, <1>5
  <2>3. QED
    BY <1>1, <1>2, <1>3, <1>4, <1>6, <2>1, <2>2 DEF TypeOK, Workloads, Pid, After, Queues
<1>8. Cardinality(Done') \in Nat /\ 0 <= Cardinality(Done')
  <2>1. IsFiniteSet(Procs)
    BY SchedulerAssumption, FS_Interval DEF Procs
  <2>2. Done' \subseteq Procs
    BY DEF Done
  <2>3. IsFiniteSet(Done')
    BY <2>1, <2>2, FS_Subset
  <2>4. QED
    BY <2>3, FS_CardinalityType
<1>9. 1 \in 1..(N + 1) /\ \A q \in Procs : ~(q < 1)
  BY SchedulerAssumption DEF Procs
<1>10. FifoInv' /\ StcfInv'
  BY <1>2, <1>4 DEF FifoInv, StcfInv
<1>11. SjfInv'
  BY <1>2, <1>5, <1>8 DEF SjfInv
<1>12. RrInv'
  BY <1>2, <1>8, <1>9 DEF RrInv
<1>13. MlfqInv'
  <2>1. Distinct(queue)' /\ in_queue' = Held(queue)'
    BY <1>2, <1>6 DEF Distinct, Held
  <2>2. completed' <= Cardinality(Done)' /\ \A q \in in_queue' : FALSE
    BY <1>2, <1>8
  <2>3. i' \in 1..(N + 1) /\ \A q \in Ready' : ~(q < i')
    BY <1>2, <1>9 DEF Ready
  <2>4. alg' = "MLFQ" => pc' = "arrive"
    BY <1>2
  <2>5. QED
    BY <2>1, <2>2, <2>3, <2>4 DEF MlfqInv
<1>14. Cpu!Restart
  BY <1>1, <1>2, SameWorkload DEF Cpu!Restart
<1>15. QED
  BY <1>7, <1>10, <1>11, <1>12, <1>13, <1>14 DEF Inv, Cpu!Next

LEMMA InitInv == Init => Inv /\ Cpu!Init
<1> SUFFICES ASSUME Init PROVE Inv /\ Cpu!Init
  OBVIOUS
<1>1. /\ processes \in Workloads /\ alg = "FIFO" /\ pc = "sort" /\ p = [q \in Procs |-> q]
      /\ remaining_time = [q \in Procs |-> Burst(q)]
      /\ start_time = [q \in Procs |-> 0] /\ completion_time = [q \in Procs |-> 0]
      /\ time = 0 /\ timeline = <<>> /\ i = 1 /\ j = 2
      /\ completed = 0 /\ last_pid = -1
      /\ queue = [l \in Levels |-> <<>>] /\ tail = [l \in Levels |-> 0]
      /\ in_queue = {}
  BY DEF Init
<1>2. progressed \in BOOLEAN
  BY DEF Init
<1>3. \A q \in Procs : Burst(q) \in Nat /\ Arrival(q) \in Nat
  BY <1>1, WorkloadFacts DEF Workloads, Workload
<1>4. TypeOK
  <2>1. timeline \in Seq([time : Nat, pid : Procs, duration : Nat])
    BY <1>1, EmptySeq
  <2>2. queue \in [Levels -> Seq(Procs)] /\ tail \in [Levels -> Nat] /\ in_queue \subseteq Procs
    BY <1>1, EmptyQueues DEF Queues
  <2>3. remaining_time \in [Procs -> Nat] /\ start_time \in [Procs -> Nat] /\ completion_time \in [Procs -> Nat]
    BY <1>1, <1>3
  <2>4. p \in [Procs -> Procs] /\ alg \in DOMAIN After
    BY <1>1 DEF After
  <2>5. QED
    BY <1>1, <1>2, <2>1, <2>2, <2>3, <2>4 DEF TypeOK
<1>5. FifoInv
  <2>1. Permutes(p)
    BY <1>1 DEF Permutes
  <2>2. 1 \in 1..N /\ 2 \in (1 + 1)..(N + 1)
    BY SchedulerAssumption
  <2>3. \A c, d \in Procs : ~(c < 1) /\ (c = 1 /\ d < 2 => ~(c < d))
    BY DEF Procs
  <2>4. Ordered(p, i, j)
    BY <1>1, <2>3 DEF Ordered
  <2>5. QED
    BY <1>1, <2>1, <2>2, <2>4 DEF FifoInv
<1>6. SjfInv /\ StcfInv /\ RrInv /\ MlfqInv
  BY <1>1 DEF SjfInv, StcfInv, RrInv, MlfqInv
<1>7. Cpu!Init
  BY <1>1, <1>3 DEF Cpu!Init, Cpu!Fresh
<1>8. QED
  BY <1>4, <1>5, <1>6, <1>7 DEF Inv

LEMMA NextInv == ASSUME Inv, [Next]_vars PROVE Inv' /\ [Cpu!Next]_(Cpu!vars)
<1>1. CASE Next
  BY <1>1, FifoSwapStep, FifoSortNextStep, FifoRunStep, SjfSteps, StcfSteps, RrSteps,
     MlfqQueueSteps, MlfqCpuSteps, NextAlgorithmStep DEF Next
<1>2. CASE UNCHANGED vars
  <2>1. UNCHANGED Cpu!vars
    BY <1>2, Stutters
  <2>2. Ready' = Ready /\ Done' = Done /\ \A q \in Procs : Arrival(q)' = Arrival(q) /\ Burst(q)' = Burst(q)
    BY <1>2, SameWorkload DEF Ready, Done
  <2>3. TypeOK'
    BY <1>2 DEF Inv, TypeOK, Workloads, Pid
  <2>4. FifoInv'
    BY <1>2 DEF Inv, FifoInv, Permutes, Ordered, Arrival, Burst
  <2>5. SjfInv' /\ StcfInv' /\ RrInv'
    BY <1>2, <2>2 DEF Inv, SjfInv, StcfInv, RrInv
  <2>6. MlfqInv'
    BY <1>2 DEF Inv, MlfqInv, Distinct, Held, Ready, Done, Arrival
  <2>7. QED
    BY <2>1, <2>3, <2>4, <2>5, <2>6 DEF Inv
<1>3. QED
  BY <1>1, <1>2

LEMMA Invariance == Spec => []Inv
BY InitInv, NextInv, PTL DEF Spec

\* Every reachable state has the declared types: no remaining_time falls
\* below 0, whatever the quanta.
THEOREM TypeCorrect == Spec => []TypeOK
<1>1. Inv => TypeOK
  BY DEF Inv
<1>2. QED
  BY <1>1, Invariance, PTL

\* "All algorithms produce a timeline and update processes' completion/start
\* times": on any workload each of the five gives every process exactly its
\* burst, after its arrival, one at a time, and leaves the CPU idle only
\* while nobody who has arrived is unfinished.
THEOREM AlgorithmsImplementOneCpu == Spec => ImplementsOneCpu
<1>1. Init => Cpu!Init
  BY InitInv
<1>2. Inv /\ [Next]_vars => [Cpu!Next]_(Cpu!vars)
  BY NextInv
<1>3. QED
  BY <1>1, <1>2, Invariance, PTL DEF Spec, ImplementsOneCpu, Cpu!Spec

LEMMA Upto == ASSUME NEW b \in Nat PROVE IsFiniteSet(1..b) /\ Cardinality(1..b) = b
<1>1. IsFiniteSet(1..b) /\ Cardinality(1..b) = IF 1 > b THEN 0 ELSE b - 1 + 1
  BY FS_Interval
<1>2. QED
  BY <1>1

\* in_queue[] and the queues of MLFQ agree, through arrivals, demotions and
\* boosts: nobody waits twice, nobody who waits is finished, and when a
\* process is selected nobody who is ready has been forgotten.
THEOREM QueuesAgree == Spec => []MlfqQueuesRight
<1>1. Inv => MlfqQueuesRight
  <2> SUFFICES ASSUME Inv, alg = "MLFQ" PROVE MlfqQueuesRight
    BY DEF MlfqQueuesRight
  <2>1. /\ Distinct(queue) /\ in_queue = Held(queue) /\ queue \in Queues /\ N \in Nat
        /\ \A q \in in_queue : remaining_time[q] > 0
        /\ pc = "select" => Ready \subseteq in_queue
    BY SchedulerAssumption DEF Inv, MlfqInv, TypeOK, Queues
  <2>2. ASSUME NEW l \in Levels PROVE Len(queue[l]) <= N
    <3>1. queue[l] \in Seq(Procs)
      BY <2>1 DEF Queues
    <3>2. Len(queue[l]) \in Nat /\ queue[l] \in [1..Len(queue[l]) -> Procs]
      BY <3>1, LenProperties
    <3>3. /\ IsFiniteSet(Procs) /\ Cardinality(Procs) = N /\ IsFiniteSet(1..Len(queue[l]))
          /\ Cardinality(1..Len(queue[l])) = Len(queue[l])
      <4>1. IsFiniteSet(1..N) /\ Cardinality(1..N) = N
        BY <2>1, Upto
      <4>2. IsFiniteSet(1..Len(queue[l])) /\ Cardinality(1..Len(queue[l])) = Len(queue[l])
        BY <3>2, Upto
      <4>3. QED
        BY <4>1, <4>2 DEF Procs
    <3>4. \A a, b \in 1..Len(queue[l]) : queue[l][a] = queue[l][b] => a = b
      BY <2>1 DEF Distinct
    <3>5. ~(Cardinality(Procs) < Cardinality(1..Len(queue[l])))
      BY <3>2, <3>3, <3>4, FS_PigeonHole
    <3>6. QED
      BY <2>1, <3>2, <3>3, <3>5
  <2>3. ASSUME NEW q \in Procs PROVE Cardinality(Places(q)) = IF q \in in_queue THEN 1 ELSE 0
    <3>1. CASE q \in in_queue
      <4>0. PICK l \in Levels : \E a \in 1..Len(queue[l]) : queue[l][a] = q
        BY <2>1, <3>1 DEF Held
      <4>1. PICK a \in 1..Len(queue[l]) : queue[l][a] = q
        BY <4>0
      <4>2. a \in 1..N /\ a <= Len(queue[l])
        BY <2>1, <2>2, LenProperties DEF Queues
      <4>3. <<l, a>> \in Places(q)
        BY <4>1, <4>2 DEF Places
      <4>4. ASSUME NEW x \in Places(q) PROVE x = <<l, a>>
        <5>1. /\ x \in Levels \X (1..N) /\ x[1] \in Levels /\ x[2] \in 1..N
              /\ x[2] <= Len(queue[x[1]]) /\ queue[x[1]][x[2]] = q
          BY DEF Places
        <5>2. x[2] \in 1..Len(queue[x[1]])
          BY <2>1, <5>1, LenProperties DEF Queues
        <5>3. x[1] = l /\ x[2] = a
          BY <2>1, <4>1, <5>1, <5>2 DEF Distinct
        <5>4. QED
          BY <5>1, <5>3
      <4>5. Places(q) = {<<l, a>>}
        BY <4>3, <4>4
      <4>6. QED
        BY <3>1, <4>5, FS_Singleton
    <3>2. CASE q \notin in_queue
      <4>1. ASSUME NEW x \in Places(q) PROVE FALSE
        <5>1. /\ x[1] \in Levels /\ x[2] \in 1..N
              /\ x[2] <= Len(queue[x[1]]) /\ queue[x[1]][x[2]] = q
          BY DEF Places
        <5>2. x[2] \in 1..Len(queue[x[1]])
          BY <2>1, <5>1, LenProperties DEF Queues
        <5>3. QED
          BY <2>1, <3>2, <5>1, <5>2 DEF Held
      <4>2. Places(q) = {}
        BY <4>1
      <4>3. QED
        BY <3>2, <4>2, FS_EmptySet
    <3>3. QED
      BY <3>1, <3>2
  <2>4. QED
    BY <2>1, <2>2, <2>3 DEF MlfqQueuesRight
<1>2. QED
  BY <1>1, Invariance, PTL

-----------------------------------------------------------------------------
(* FIFO in the order of arrival: its timeline is the sorted array.         *)

FifoSlices ==
  alg = "FIFO" =>
    /\ pc = "sort" => timeline = <<>>
    /\ pc = "loop" => /\ Len(timeline) = i - 1
                      /\ \A a \in 1..(i - 1) : timeline[a].pid = Pid(p[a])

LEMMA FifoSlicesStep ==
  ASSUME Inv, FifoSlices, [Next]_vars
  PROVE  FifoSlices'
<1>1. CASE FifoSwap
  BY <1>1 DEF FifoSwap, FifoSlices
<1>2. CASE FifoSortNext
  <2>1. 1..(1 - 1) = {} /\ (timeline = <<>> => Len(timeline) = 1 - 1)
    OBVIOUS
  <2>2. pc = "sort" /\ alg = "FIFO" /\ timeline' = timeline /\ (pc' = "sort" \/ (pc' = "loop" /\ i' = 1))
    BY <1>2 DEF FifoSortNext
  <2>3. timeline = <<>>
    BY <2>2 DEF FifoSlices
  <2>4. QED
    BY <2>1, <2>2, <2>3 DEF FifoSlices
<1>3. CASE FifoRun
  <2>1. PICK t : NewSlice(p[i], t, Burst(p[i]))
    BY <1>3 DEF FifoRun
  <2>2. pc = "loop" /\ pc' = "loop" /\ alg = "FIFO" /\ i' = i + 1 /\ UNCHANGED <<p, processes>> /\ i \in Nat \ {0}
    BY <1>3 DEF FifoRun, Inv, TypeOK
  <2>3. Len(timeline) = i - 1 /\ \A a \in 1..(i - 1) : timeline[a].pid = Pid(p[a])
    BY <2>2 DEF FifoSlices
  <2> DEFINE new == [time |-> t, pid |-> Pid(p[i]), duration |-> Burst(p[i])]
             Any == {timeline[a] : a \in 1..Len(timeline)} \cup {new}
  <2>4. timeline \in Seq(Any)
    <3>1. timeline \in Seq([time : Nat, pid : Procs, duration : Nat])
      BY DEF Inv, TypeOK
    <3>2. \A a \in 1..Len(timeline) : timeline[a] \in Any
      OBVIOUS
    <3>3. Len(timeline) \in Nat /\ DOMAIN timeline = 1..Len(timeline) /\ timeline = [a \in 1..Len(timeline) |-> timeline[a]]
      BY <3>1, LenProperties
    <3>4. QED
      BY <3>2, <3>3, IsASeq
  <2>5. new \in Any /\ timeline' = Append(timeline, new)
    BY <2>1 DEF NewSlice
  <2> HIDE DEF Any, new
  <2>6. /\ Len(timeline') = Len(timeline) + 1 /\ timeline'[Len(timeline) + 1] = new
        /\ \A a \in 1..Len(timeline) : timeline'[a] = timeline[a]
    BY <2>4, <2>5, AppendProperties
  <2>7. Len(timeline') = i /\ timeline'[i].pid = Pid(p[i]) /\ \A a \in 1..(i - 1) : timeline'[a].pid = Pid(p[a])
    BY <2>2, <2>3, <2>6 DEF new
  <2>8. \A a \in 1..(i' - 1) : a \in 1..(i - 1) \/ a = i
    BY <2>2
  <2>9. \A a \in 1..(i' - 1) : timeline'[a].pid = Pid(p[a])'
    BY <2>2, <2>7, <2>8 DEF Pid
  <2>10. QED
    BY <2>2, <2>7, <2>9 DEF FifoSlices
<1>4. CASE NextAlgorithm
  <2>1. alg' # "FIFO"
    BY <1>4, EndedDone DEF NextAlgorithm, After
  <2>2. QED
    BY <2>1 DEF FifoSlices
<1>5. CASE alg # "FIFO" /\ alg' = alg
  BY <1>5 DEF FifoSlices
<1>6. CASE UNCHANGED vars
  BY <1>6 DEF FifoSlices, Pid
<1>7. QED
  <2>1. CASE SjfRun \/ SjfIdle \/ StcfRun \/ StcfIdle \/ RrVisit \/ RrPassEnds
    BY <1>5, <2>1 DEF SjfRun, SjfIdle, StcfRun, StcfIdle, RrVisit, RrPassEnds
  <2>2. CASE \/ MlfqArrive \/ MlfqArrived \/ MlfqBoost \/ MlfqBoosted \/ MlfqRun \/ MlfqIdle
    BY <1>5, <2>2 DEF MlfqArrive, MlfqArrived, MlfqBoost, MlfqBoosted, MlfqRun, MlfqIdle
  <2>3. QED
    BY <1>1, <1>2, <1>3, <1>4, <1>6, <2>1, <2>2 DEF Next

\* "Processes are ordered by arrival time", whatever the order of the file:
\* the exchange sort leaves the array in this order, and the loop follows it.
THEOREM FifoOrdered == Spec => []FifoInArrivalOrder
<1>1. Init => FifoSlices
  BY DEF Init, FifoSlices
<1>2. Inv /\ FifoSlices => FifoInArrivalOrder
  <2> SUFFICES ASSUME Inv, FifoSlices, alg = "FIFO", NEW q \in Procs, NEW r \in Procs,
                      NEW a \in SlicesOf(q), NEW b \in SlicesOf(r), Arrival(q) < Arrival(r)
               PROVE  a < b
    BY DEF FifoInArrivalOrder
  <2>1. /\ timeline \in Seq([time : Nat, pid : Procs, duration : Nat]) /\ processes \in Workloads
        /\ pc \in {"sort", "loop"} /\ Permutes(p) /\ N \in Nat
    BY SchedulerAssumption DEF Inv, TypeOK, FifoInv
  <2>2. DOMAIN timeline = 1..Len(timeline) /\ Len(timeline) \in Nat
    BY <2>1, LenProperties
  <2>3. pc = "loop"
    <3>1. CASE pc = "sort"
      <4>1. Len(timeline) = 0
        BY <3>1 DEF FifoSlices
      <4>2. QED
        BY <2>2, <4>1 DEF SlicesOf
    <3>2. QED
      BY <2>1, <3>1
  <2>4. Len(timeline) = i - 1 /\ i \in 1..(N + 1) /\ Ordered(p, N + 1, N + 1)
    BY <2>3 DEF FifoSlices, Inv, FifoInv
  <2>5. a \in Procs /\ b \in Procs /\ a \in Int /\ b \in Int
    <3>1. a \in 1..(i - 1) /\ b \in 1..(i - 1)
      BY <2>2, <2>4 DEF SlicesOf
    <3>2. i \in 1..(N + 1) /\ N \in Nat
      BY <2>1, <2>4
    <3>3. a \in 1..N /\ b \in 1..N
      BY <3>1, <3>2
    <3>4. QED
      BY <3>3 DEF Procs
  <2>6. Pid(p[a]) = Pid(q) /\ Pid(p[b]) = Pid(r)
    BY <2>2, <2>3, <2>4 DEF FifoSlices, SlicesOf
  <2>7. p[a] = q /\ p[b] = r
    BY <2>1, <2>5, <2>6 DEF Workloads, Pid, Permutes
  <2>8. \A c, d \in Procs : c < d => c < N + 1
    BY <2>1 DEF Procs
  <2>9. b < a => Arrival(r) <= Arrival(q)
    BY <2>4, <2>5, <2>7, <2>8 DEF Ordered
  <2>10. a # b
    BY <2>7, InvFacts DEF Inv
  <2>11. Arrival(q) \in Nat /\ Arrival(r) \in Nat
    BY InvFacts DEF Inv
  <2>12. QED
    BY <2>5, <2>9, <2>10, <2>11
<1>3. QED
  BY <1>1, <1>2, InitInv, NextInv, FifoSlicesStep, PTL DEF Spec
=============================================================================
