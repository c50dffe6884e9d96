----------------------------- MODULE TimelineProofs -----------------------------
(***************************************************************************)
(* What the simulator draws and reports, for any workload, quanta and      *)
(* number of queues: the timeline is the schedule, its first entries are   *)
(* the start times, round robin takes turns, MLFQ demotes by quanta used,  *)
(* and the arrays are as long as they have to be.  For all this a step of  *)
(* the simulator is one of four: somebody gets a slice, the last slice     *)
(* grows, the CPU is left alone, or the next algorithm starts.             *)
(***************************************************************************)
EXTENDS SchedulerProofs, DataLemmas

USE DEF copyVars, cpuVars, fifoVars, queueVars, vars

-----------------------------------------------------------------------------
(* The invariant, part by part.                                            *)

\* The slices do not overlap, and the last one has ended.
Apart ==
  /\ \A a \in DOMAIN timeline : SliceEnd(a) <= time
  /\ \A a, b \in DOMAIN timeline : a < b => SliceEnd(a) <= timeline[b].time

\* Nobody runs before he arrives, and what he has got is what he has used.
AfterArrival == \A q \in Procs : \A a \in SlicesOf(q) : timeline[a].time >= Arrival(q)

Accounted == \A q \in Procs : Used(q) = Burst(q) - remaining_time[q]

\* One of a finished process's slices ends at its completion time, none later.
EndsAtCompletion ==
  \A q \in Procs :
    remaining_time[q] = 0 /\ Burst(q) > 0 =>
      /\ \E a \in SlicesOf(q) : SliceEnd(a) = completion_time[q]
      /\ \A a \in SlicesOf(q) : SliceEnd(a) <= completion_time[q]

\* The slice that STCF extends is the last one, and it has not ended.
StcfLast ==
  last_pid # -1 =>
    /\ alg = "STCF" /\ timeline # <<>>
    /\ timeline[Len(timeline)].pid = last_pid /\ SliceEnd(Len(timeline)) = time

First(q, a) == a \in SlicesOf(q) /\ \A b \in SlicesOf(q) : a <= b

\* A start time that is not 0 is that of the first slice.
Starts ==
  \A q \in Procs :
    /\ SlicesOf(q) = {} => start_time[q] = 0
    /\ \A a \in SlicesOf(q) :
         First(q, a) /\ timeline[a].time > 0 => start_time[q] = timeline[a].time

\* Since the last visit to q the pass has come to r.
VisitedSince(q, r) == IF q < i THEN q < r /\ r < i ELSE q < r \/ r < i

\* Whoever the pass has come to since has had his turn, or needs none.
TurnTaken ==
  alg = "RR" =>
    \A q, r \in Procs : \A a \in SlicesOf(q) :
      /\ q # r /\ Arrival(r) <= SliceEnd(a) /\ VisitedSince(q, r)
      => remaining_time[r] = 0 \/ \E c \in SlicesOf(r) : c > a

Within == \A q \in Procs : remaining_time[q] <= Burst(q)

\* Who waits on a level of the queues Q, and who below the top.
OnLevel(Q, l) == {Q[l][a] : a \in 1..Len(Q[l])}
Below(Q)      == {q \in Procs : \E l \in Levels \ {0} : q \in OnLevel(Q, l)}

\* The quanta of the levels above l.
Above(l) == Sum(Quanta, 0..(l - 1))

Demotion ==
  \A l \in Levels : \A q \in OnLevel(queue, l) : Burst(q) - remaining_time[q] >= Above(l)

\* Who has been queued, or need not be any more.
Seen == in_queue \cup Done

\* What has been written into the arrays is paid for: a slice by the CPU time
\* executed, an entry of queue 0 by an arrival or by a slice, and one that a
\* boost moves to queue 0 by the demotion that brought it below.
Counted ==
  /\ Executed \in Nat
  /\ alg # "FIFO" => Len(timeline) <= Executed
  /\ alg = "MLFQ" =>
       /\ tail[0] + Cardinality(Below(queue)) <= Cardinality(Seen) + Executed
       /\ \A l \in Levels \ {0} : tail[l] <= Executed
  /\ alg # "MLFQ" => \A l \in Levels : tail[l] = 0
-----------------------------------------------------------------------------
(* The timeline.                                                           *)

Slices == [time : Nat, pid : Procs, duration : Nat]

LEMMA TimelineFacts ==
  ASSUME TypeOK
  PROVE  /\ DOMAIN timeline = 1..Len(timeline) /\ Len(timeline) \in Nat
         /\ \A a \in DOMAIN timeline :
              /\ timeline[a].time \in Nat /\ timeline[a].duration \in Nat
              /\ timeline[a].pid \in Procs /\ SliceEnd(a) \in Nat /\ a \in Nat
         /\ \A q \in Procs : IsFiniteSet(SlicesOf(q)) /\ SlicesOf(q) \subseteq DOMAIN timeline
         /\ \A q, r \in Procs : Pid(q) = Pid(r) => q = r
<1>1. timeline \in Seq(Slices)
  BY DEF TypeOK, Slices
<1>2. /\ DOMAIN timeline = 1..Len(timeline) /\ Len(timeline) \in Nat
      /\ \A a \in 1..Len(timeline) : timeline[a] \in Slices
  BY <1>1, LenProperties, ElementOfSeq
<1>3. ASSUME NEW a \in DOMAIN timeline
      PROVE  /\ timeline[a].time \in Nat /\ timeline[a].duration \in Nat
             /\ timeline[a].pid \in Procs /\ SliceEnd(a) \in Nat /\ a \in Nat
  <2>1. timeline[a] \in Slices /\ a \in Nat
    BY <1>2
  <2>2. timeline[a].time \in Nat /\ timeline[a].duration \in Nat /\ timeline[a].pid \in Procs
    BY <2>1 DEF Slices
  <2>3. QED
    BY <2>1, <2>2 DEF SliceEnd
<1>4. IsFiniteSet(DOMAIN timeline)
  BY <1>2, FS_Interval
<1>5. \A q \in Procs : SlicesOf(q) \subseteq DOMAIN timeline
  BY DEF SlicesOf
<1>6. \A q \in Procs : IsFiniteSet(SlicesOf(q))
  BY <1>4, <1>5, FS_Subset
<1>7. \A q, r \in Procs : Pid(q) = Pid(r) => q = r
  BY DEF TypeOK, Workloads, Pid
<1>8. QED
  BY <1>2, <1>3, <1>5, <1>6, <1>7

\* The four kinds of step.
GetsSlice(q, t, d) ==
  /\ Execute(q, t, d) /\ NewSlice(q, t, d)
  /\ time <= t /\ Arrival(q) <= t /\ d \in 0..remaining_time[q]
  /\ d = 0 => Burst(q) = 0 /\ alg = "FIFO"
  /\ \/ SlicesOf(q) = {} /\ start_time' = [start_time EXCEPT ![q] = t]
     \/ t = time /\ MarkStart(q)
  /\ UNCHANGED <<processes, alg>>

LastGrows(q) ==
  /\ Execute(q, time, 1) /\ MarkStart(q)
  /\ timeline' = [timeline EXCEPT ![Len(timeline)].duration = @ + 1]
  /\ remaining_time[q] > 0 /\ Arrival(q) <= time /\ last_pid = Pid(q)
  /\ UNCHANGED <<processes, alg>>

LeavesCpu == time' \in Nat /\ time' >= time /\ UNCHANGED <<processes, alg, copyVars, timeline>>

StartsAnew ==
  /\ remaining_time' = [q \in Procs |-> Burst(q)]
  /\ start_time' = [q \in Procs |-> 0] /\ completion_time' = [q \in Procs |-> 0]
  /\ time' = 0 /\ timeline' = <<>> /\ last_pid' = -1
  /\ queue' = [l \in Levels |-> <<>>] /\ tail' = [l \in Levels |-> 0]
  /\ i' = 1 /\ in_queue' = {} /\ alg' # "FIFO"
  /\ UNCHANGED processes

Step ==
  \/ \E q \in Procs : \E t \in Nat, d \in Nat : GetsSlice(q, t, d)
  \/ \E q \in Procs : LastGrows(q)
  \/ LeavesCpu
  \/ StartsAnew

\* FIFO gives each of the sorted processes its only slice.
LEMMA FifoSlice ==
  ASSUME Inv, FifoSlices, FifoRun
  PROVE  \E t \in Nat : GetsSlice(p[i], t, Burst(p[i])) /\ p[i] \in Procs /\ Burst(p[i]) \in Nat
<1> DEFINE q == p[i]
           t == IF time < Arrival(q) THEN Arrival(q) ELSE time
<1>1. /\ alg = "FIFO" /\ alg' = alg /\ pc = "loop" /\ i <= N
      /\ Execute(q, t, Burst(q)) /\ NewSlice(q, t, Burst(q))
      /\ start_time' = [start_time EXCEPT ![q] = t] /\ processes' = processes
  BY DEF FifoRun
<1>2. /\ Permutes(p) /\ i \in Procs /\ N \in Nat /\ TypeOK
      /\ \A a \in Procs : remaining_time[p[a]] = IF a < i THEN 0 ELSE Burst(p[a])
  BY <1>1, SchedulerAssumption DEF Inv, FifoInv, Procs
<1>3. q \in Procs
  BY <1>2 DEF Permutes
<1>4. Arrival(q) \in Nat /\ Burst(q) \in Nat /\ time \in Nat
  BY <1>2, <1>3, InvFacts DEF TypeOK
<1>5. remaining_time[q] = Burst(q)
  BY <1>2 DEF Procs
<1>6. SlicesOf(q) = {}
  <2> SUFFICES ASSUME NEW a \in SlicesOf(q) PROVE FALSE
    OBVIOUS
  <2>1. Len(timeline) = i - 1 /\ \A b \in 1..(i - 1) : timeline[b].pid = Pid(p[b])
    BY <1>1 DEF FifoSlices
  <2>2. a \in 1..(i - 1) /\ timeline[a].pid = Pid(q)
    BY <1>2, <2>1, TimelineFacts DEF SlicesOf
  <2>3. a \in Procs /\ a # i
    BY <1>2, <2>2 DEF Procs
  <2>4. p[a] \in Procs /\ Pid(p[a]) = Pid(q)
    BY <1>2, <2>1, <2>2, <2>3 DEF Permutes
  <2>5. p[a] = q
    BY <1>2, <1>3, <2>4, TimelineFacts
  <2>6. QED
    BY <1>2, <2>3, <2>5 DEF Permutes
<1> HIDE DEF q
<1>7. t \in Nat /\ time <= t /\ Arrival(q) <= t
  BY <1>4
<1> HIDE DEF t
<1>8. GetsSlice(q, t, Burst(q))
  BY <1>1, <1>4, <1>5, <1>6, <1>7 DEF GetsSlice
<1>9. QED
  BY <1>3, <1>4, <1>7, <1>8 DEF q

LEMMA ReadySlice ==
  ASSUME Inv, NEW q \in Ready, NEW d \in 1..remaining_time[q],
         Execute(q, time, d), NewSlice(q, time, d), MarkStart(q), UNCHANGED <<processes, alg>>
  PROVE  GetsSlice(q, time, d) /\ Step
<1>1. q \in Procs /\ Arrival(q) <= time /\ TypeOK
  BY DEF Ready, Inv
<1>2. time \in Nat /\ remaining_time[q] \in Nat
  BY <1>1 DEF TypeOK
<1>3. d \in Nat /\ d \in 0..remaining_time[q] /\ d # 0 /\ time <= time
  BY <1>2
<1>4. GetsSlice(q, time, d)
  BY <1>1, <1>3 DEF GetsSlice
<1>5. QED
  BY <1>1, <1>2, <1>3, <1>4 DEF Step

LEMMA RrSlice ==
  ASSUME Inv, RrVisit, i \in Ready
  PROVE  \E d \in 1..remaining_time[i] : GetsSlice(i, time, d) /\ Step
<1> DEFINE run == AtMost(remaining_time[i], Quantum)
<1>1. Execute(i, time, run) /\ NewSlice(i, time, run) /\ MarkStart(i) /\ UNCHANGED <<processes, alg>>
  BY DEF RrVisit
<1>2. remaining_time[i] > 0 /\ remaining_time[i] \in Nat
  BY DEF Ready, Inv, TypeOK
<1>3. run \in 1..remaining_time[i]
  BY <1>2, SchedulerAssumption DEF AtMost
<1> HIDE DEF run
<1>4. QED
  BY <1>1, <1>3, ReadySlice

\* MLFQ selects q on level l and gives it d units.
Selects(l, q, d) ==
  /\ queue[l] # <<>> /\ q = Head(queue[l]) /\ q \in in_queue
  /\ d = AtMost(remaining_time[q], Quanta[l]) /\ d \in 1..remaining_time[q]
  /\ LET out == [queue EXCEPT ![l] = Tail(@)]
     IN IF remaining_time[q] = d
          THEN queue' = out /\ in_queue' = in_queue \ {q} /\ UNCHANGED tail
          ELSE /\ queue' = [out EXCEPT ![Demoted(l)] = Append(@, q)]
               /\ tail' = [tail EXCEPT ![Demoted(l)] = @ + 1] /\ UNCHANGED in_queue

LEMMA MlfqSlice ==
  ASSUME Inv, MlfqRun
  PROVE  \E l \in Levels : \E q \in Procs : \E d \in Nat :
           Selects(l, q, d) /\ GetsSlice(q, time, d) /\ Step
<1>1. PICK l \in Levels :
        /\ queue[l] # <<>>
        /\ LET q   == Head(queue[l])
               run == AtMost(remaining_time[q], Quanta[l])
               out == [queue EXCEPT ![l] = Tail(@)]
           IN /\ Execute(q, time, run) /\ NewSlice(q, time, run) /\ MarkStart(q)
              /\ IF remaining_time[q] = run
                   THEN /\ queue' = out /\ in_queue' = in_queue \ {q}
                        /\ UNCHANGED tail
                   ELSE /\ queue' = [out EXCEPT ![Demoted(l)] = Append(@, q)]
                        /\ tail' = [tail EXCEPT ![Demoted(l)] = @ + 1]
                        /\ UNCHANGED in_queue
  BY DEF MlfqRun
<1> DEFINE q   == Head(queue[l])
           run == AtMost(remaining_time[q], Quanta[l])
<1>2. /\ MlfqInv /\ alg = "MLFQ" /\ UNCHANGED <<processes, alg>> /\ queue \in Queues
      /\ Distinct(queue) /\ in_queue = Held(queue)
      /\ \A r \in in_queue : remaining_time[r] > 0 /\ Arrival(r) <= time
  BY DEF MlfqRun, Inv, TypeOK, MlfqInv, Queues
<1>3. q \in in_queue /\ in_queue \subseteq Procs
  BY <1>1, <1>2, Dequeued DEF Inv, TypeOK
<1>4. q \in Ready
  BY <1>2, <1>3 DEF Ready
<1>5. run \in 1..remaining_time[q] /\ remaining_time[q] \in Nat
  <2>1. Quanta[l] \in Nat \ {0} /\ remaining_time[q] \in Nat /\ remaining_time[q] > 0
    BY <1>4, SchedulerAssumption DEF Ready, Inv, TypeOK
  <2> HIDE DEF q
  <2>2. QED
    BY <2>1 DEF AtMost
<1>6. Execute(q, time, run) /\ NewSlice(q, time, run) /\ MarkStart(q)
  BY <1>1
<1>7. Selects(l, q, run)
  BY <1>1, <1>3, <1>5 DEF Selects
<1> HIDE DEF q, run
<1>8. GetsSlice(q, time, run) /\ Step
  BY <1>2, <1>4, <1>5, <1>6, ReadySlice
<1>9. q \in Procs /\ run \in Nat
  BY <1>3, <1>5
<1>10. QED
  BY <1>7, <1>8, <1>9

LEMMA Kinds ==
  ASSUME Inv, FifoSlices, [Next]_vars
  PROVE  Step
<1>1. /\ time \in Nat /\ \A q \in Ready : q \in Procs /\ remaining_time[q] > 0 /\ remaining_time[q] \in Nat
  BY DEF Inv, TypeOK, Ready
<1>2. Tick /\ UNCHANGED <<processes, alg>> => Step
  BY <1>1 DEF Tick, Step, LeavesCpu
<1>3. UNCHANGED <<processes, alg, cpuVars>> => Step
  BY <1>1 DEF Step, LeavesCpu
<1>4. CASE FifoRun
  BY <1>4, FifoSlice DEF Step
<1>5. CASE SjfRun
  <2>1. PICK q \in Cheapest([r \in Procs |-> Burst(r)]) :
          Execute(q, time, Burst(q)) /\ NewSlice(q, time, Burst(q)) /\ MarkStart(q)
    BY <1>5 DEF SjfRun
  <2>2. q \in Ready /\ UNCHANGED <<processes, alg>> /\ alg = "SJF"
    BY <1>5, <2>1 DEF Cheapest, SjfRun
  <2>3. Burst(q) \in 1..remaining_time[q]
    <3>1. remaining_time[q] \in {0, Burst(q)} /\ Burst(q) \in Nat
      BY <1>1, <2>2, InvFacts DEF Inv, SjfInv
    <3>2. QED
      BY <1>1, <2>2, <3>1
  <2>4. QED
    BY <2>1, <2>2, <2>3, ReadySlice
<1>6. CASE StcfRun
  <2>1. PICK q \in Cheapest(remaining_time) :
          /\ Execute(q, time, 1) /\ MarkStart(q)
          /\ \/ last_pid # Pid(q) /\ NewSlice(q, time, 1)
             \/ last_pid = Pid(q)
                /\ timeline' = [timeline EXCEPT ![Len(timeline)].duration = @ + 1]
    BY <1>6 DEF StcfRun
  <2>2. q \in Ready /\ UNCHANGED <<processes, alg>>
    BY <1>6, <2>1 DEF Cheapest, StcfRun
  <2>3. 1 \in 1..remaining_time[q]
    BY <1>1, <2>2
  <2>4. NewSlice(q, time, 1) => Step
    BY <2>1, <2>2, <2>3, ReadySlice
  <2>5. q \in Procs /\ remaining_time[q] > 0 /\ Arrival(q) <= time
    BY <2>2 DEF Ready
  <2>6. CASE last_pid = Pid(q) /\ timeline' = [timeline EXCEPT ![Len(timeline)].duration = @ + 1]
    <3>1. LastGrows(q)
      BY <2>1, <2>2, <2>5, <2>6 DEF LastGrows
    <3>2. QED
      BY <2>5, <3>1 DEF Step
  <2>7. QED
    BY <2>1, <2>4, <2>6
<1>7. CASE RrVisit
  <2>1. CASE i \in Ready
    BY <1>7, <2>1, RrSlice
  <2>2. CASE i \notin Ready
    BY <1>3, <1>7, <2>2 DEF RrVisit
  <2>3. QED
    BY <2>1, <2>2
<1>8. CASE MlfqRun
  BY <1>8, MlfqSlice
<1>9. CASE NextAlgorithm
  <2>1. alg' # "FIFO"
    BY <1>9, EndedDone DEF NextAlgorithm, After
  <2>2. StartsAnew
    BY <1>9, <2>1 DEF NextAlgorithm, StartsAnew
  <2>3. QED
    BY <2>2 DEF Step
<1>10. CASE SjfIdle \/ StcfIdle \/ MlfqIdle
  BY <1>2, <1>10 DEF SjfIdle, StcfIdle, MlfqIdle
<1>11. CASE RrPassEnds
  BY <1>2, <1>3, <1>11 DEF RrPassEnds
<1>12. CASE FifoSwap \/ FifoSortNext \/ MlfqArrive \/ MlfqArrived \/ MlfqBoost \/ MlfqBoosted
  BY <1>3, <1>12 DEF FifoSwap, FifoSortNext, MlfqArrive, MlfqArrived, MlfqBoost, MlfqBoosted
<1>13. CASE UNCHANGED vars
  BY <1>3, <1>13
<1>14. QED
  BY <1>4, <1>5, <1>6, <1>7, <1>8, <1>9, <1>10, <1>11, <1>12, <1>13 DEF Next

\* A new slice is appended; whose it is and when the others end stays.
LEMMA SliceAdded ==
  ASSUME TypeOK, NEW q \in Procs, NEW t \in Nat, NEW d \in Nat, GetsSlice(q, t, d)
  PROVE  \E n \in Nat :
           /\ n \notin DOMAIN timeline /\ DOMAIN timeline' = DOMAIN timeline \cup {n}
           /\ n = Len(timeline) + 1 /\ Len(timeline') = n
           /\ \A a \in DOMAIN timeline : timeline'[a] = timeline[a] /\ SliceEnd(a)' = SliceEnd(a) /\ a < n
           /\ timeline'[n] = [time |-> t, pid |-> Pid(q), duration |-> d] /\ SliceEnd(n)' = t + d
           /\ \A r \in Procs : SlicesOf(r)' = IF r = q THEN SlicesOf(r) \cup {n} ELSE SlicesOf(r)
<1> DEFINE s == [time |-> t, pid |-> Pid(q), duration |-> d]
<1>0. PICK n : n = Len(timeline) + 1
  OBVIOUS
<1>1. timeline \in Seq(Slices) /\ s \in Slices
  BY InvFacts DEF TypeOK, Slices
<1>2. timeline' = Append(timeline, s) /\ processes' = processes
  BY DEF GetsSlice, NewSlice
<1> HIDE DEF s
<1>3. /\ timeline' \in Seq(Slices) /\ Len(timeline') = n /\ timeline'[n] = s
      /\ \A a \in 1..Len(timeline) : timeline'[a] = timeline[a]
  BY <1>0, <1>1, <1>2, AppendProperties
<1>4. DOMAIN timeline = 1..Len(timeline) /\ Len(timeline) \in Nat
  BY TimelineFacts
<1>5. DOMAIN timeline' = 1..n
  BY <1>3, LenProperties
<1>6. /\ n \in Nat /\ n \notin DOMAIN timeline /\ DOMAIN timeline' = DOMAIN timeline \cup {n}
      /\ \A a \in DOMAIN timeline : a < n
  BY <1>0, <1>4, <1>5
<1>7. \A a \in DOMAIN timeline : timeline'[a] = timeline[a] /\ SliceEnd(a)' = SliceEnd(a)
  BY <1>3, <1>4 DEF SliceEnd
<1>8. SliceEnd(n)' = t + d
  BY <1>3 DEF SliceEnd, s
<1>9. ASSUME NEW r \in Procs
      PROVE  SlicesOf(r)' = IF r = q THEN SlicesOf(r) \cup {n} ELSE SlicesOf(r)
  <2>1. Pid(r)' = Pid(r)
    BY <1>2, SameWorkload
  <2>2. Pid(r) = Pid(q) <=> r = q
    BY TimelineFacts
  <2>3. timeline'[n].pid = Pid(q)
    BY <1>3 DEF s
  <2>4. \A a \in DOMAIN timeline' : a \in SlicesOf(r)' <=> a \in SlicesOf(r) \/ (a = n /\ r = q)
    BY <1>6, <1>7, <2>1, <2>2, <2>3 DEF SlicesOf
  <2>5. SlicesOf(r)' \subseteq DOMAIN timeline' /\ SlicesOf(r) \subseteq DOMAIN timeline'
    BY <1>6 DEF SlicesOf
  <2>6. QED
    BY <1>6, <2>4, <2>5
<1>10. QED
  BY <1>0, <1>3, <1>6, <1>7, <1>8, <1>9 DEF s

\* The last slice is one unit longer.
LEMMA SliceGrown ==
  ASSUME TypeOK, NEW q \in Procs, LastGrows(q), timeline # <<>>, timeline[Len(timeline)].pid = last_pid
  PROVE  LET n == Len(timeline)
         IN  /\ n \in DOMAIN timeline /\ DOMAIN timeline' = DOMAIN timeline /\ Len(timeline') = n
             /\ \A a \in DOMAIN timeline :
                  /\ timeline'[a].time = timeline[a].time /\ a <= n
                  /\ timeline'[a].duration = timeline[a].duration + IF a = n THEN 1 ELSE 0
                  /\ SliceEnd(a)' = SliceEnd(a) + IF a = n THEN 1 ELSE 0
             /\ n \in SlicesOf(q) /\ \A r \in Procs : SlicesOf(r)' = SlicesOf(r)
<1> DEFINE n == Len(timeline)
           s == [timeline[n] EXCEPT !.duration = @ + 1]
<1>1. timeline \in Seq(Slices) /\ DOMAIN timeline = 1..n /\ n \in Nat
  BY TimelineFacts DEF TypeOK, Slices
<1>2. n \in 1..n
  BY <1>1, EmptySeq
<1>3. timeline[n] \in Slices
  BY <1>1, <1>2, ElementOfSeq
<1>4. /\ s \in Slices /\ s.time = timeline[n].time /\ s.pid = timeline[n].pid
      /\ s.duration = timeline[n].duration + 1 /\ timeline[n].time \in Nat /\ timeline[n].duration \in Nat
  BY <1>3 DEF Slices
<1>5. timeline' = [timeline EXCEPT ![n] = s] /\ processes' = processes
  BY DEF LastGrows
<1> HIDE DEF n, s
<1>6. /\ timeline' \in Seq(Slices) /\ Len(timeline') = n
      /\ \A a \in 1..n : timeline'[a] = IF a = n THEN s ELSE timeline[a]
  BY <1>1, <1>2, <1>4, <1>5, ExceptSeq DEF n
<1>7. DOMAIN timeline' = 1..n
  BY <1>6, LenProperties
<1>8. ASSUME NEW a \in DOMAIN timeline
      PROVE  /\ timeline'[a].time = timeline[a].time /\ timeline'[a].pid = timeline[a].pid /\ a <= n
             /\ timeline'[a].duration = timeline[a].duration + IF a = n THEN 1 ELSE 0
             /\ SliceEnd(a)' = SliceEnd(a) + IF a = n THEN 1 ELSE 0
  <2>0. a \in 1..n /\ timeline[a].time \in Nat /\ timeline[a].duration \in Nat
    BY <1>1, TimelineFacts
  <2>1. CASE a = n
    BY <1>4, <1>6, <2>0, <2>1 DEF SliceEnd
  <2>2. CASE a # n
    <3>1. timeline'[a] = timeline[a]
      BY <1>6, <2>0, <2>2
    <3>2. QED
      BY <1>1, <2>0, <2>2, <3>1 DEF SliceEnd
  <2>3. QED
    BY <2>1, <2>2
<1>9. \A r \in Procs : Pid(r)' = Pid(r)
  BY <1>5, SameWorkload
<1>10. ASSUME NEW r \in Procs PROVE SlicesOf(r)' = SlicesOf(r)
  BY <1>1, <1>7, <1>8, <1>9 DEF SlicesOf
<1>11. n \in SlicesOf(q)
  BY <1>1, <1>2 DEF SlicesOf, LastGrows, n
<1>12. QED
  BY <1>1, <1>2, <1>6, <1>7, <1>8, <1>10, <1>11 DEF n

-----------------------------------------------------------------------------
(* What the sums of CpuScheduler compute.                                  *)

UsedIn(T, S) == MapThenSumSet(LAMBDA a : T[a].duration, S)

LEMMA UsedIsSum ==
  ASSUME NEW T, NEW S, IsFiniteSet(S)
  PROVE  UsedIn(T, S) = Sum([a \in S |-> T[a].duration], S)
<1> DEFINE f == [a \in S |-> T[a].duration]
           E(g) == g = [s \in SUBSET S |-> IF s = {} THEN 0
                          ELSE T[CHOOSE x \in s : TRUE].duration + g[s \ {CHOOSE x \in s : TRUE}]]
           h == CHOOSE g : E(g)
<1>1. PICK g : Sums(g, S, f)
  BY SumsExist
<1>2. \A s \in SUBSET S : s # {} => /\ Pick(s) = CHOOSE x \in s : TRUE
                                    /\ f[Pick(s)] = T[CHOOSE x \in s : TRUE].duration
  BY PickIn DEF Pick
<1> HIDE DEF f
<1>3. E(g)
  BY <1>1, <1>2 DEF Sums
<1>4. E(h)
  <2> HIDE DEF E
  <2>1. QED
    BY <1>3
<1>5. UsedIn(T, S) = h[S]
  BY DEF UsedIn, MapThenSumSet, MapThenFoldSet
<1> HIDE DEF h
<1>6. Sums(h, S, f)
  BY <1>2, <1>4 DEF Sums
<1>7. QED
  BY <1>5, <1>6, SumIs DEF f

LEMMA UsedMore ==
  ASSUME NEW T, NEW U, NEW S, IsFiniteSet(S), NEW n, n \notin S, U[n].duration \in Int,
         \A a \in S : T[a].duration \in Int /\ U[a].duration = T[a].duration
  PROVE  UsedIn(U, S \cup {n}) = UsedIn(T, S) + U[n].duration
<1> DEFINE f == [a \in S |-> T[a].duration]
           g == [a \in S \cup {n} |-> U[a].duration]
<1>1. IsFiniteSet(S \cup {n})
  BY FS_AddElement
<1>2. UsedIn(T, S) = Sum(f, S) /\ UsedIn(U, S \cup {n}) = Sum(g, S \cup {n})
  BY <1>1, UsedIsSum
<1>3. (\A a \in S : g[a] = f[a]) /\ (\A a \in S \cup {n} : g[a] \in Int) /\ g[n] = U[n].duration
  OBVIOUS
<1> HIDE DEF f, g
<1>4. Sum(g, S) = Sum(f, S)
  BY <1>3, SumSame
<1>5. Sum(g, S \cup {n}) = Sum(g, S) + g[n]
  <2>1. IsFiniteSet(S) /\ n \notin S /\ \A a \in S \cup {n} : g[a] \in Int
    BY <1>3
  <2>2. QED
    BY <2>1, SumAdd
<1>6. QED
  BY <1>2, <1>3, <1>4, <1>5

LEMMA UsedChanged ==
  ASSUME NEW T, NEW U, NEW S, IsFiniteSet(S), NEW n \in S,
         \A a \in S : T[a].duration \in Int /\ U[a].duration = T[a].duration + IF a = n THEN 1 ELSE 0
  PROVE  UsedIn(U, S) = UsedIn(T, S) + 1
<1> DEFINE f == [a \in S |-> T[a].duration]
           g == [a \in S |-> U[a].duration]
<1>1. UsedIn(T, S) = Sum(f, S) /\ UsedIn(U, S) = Sum(g, S)
  BY UsedIsSum
<1>2. \A a \in S : f[a] \in Int /\ g[a] \in Int /\ (a # n => g[a] = f[a]) /\ (a = n => g[a] - f[a] = 1)
  OBVIOUS
<1> HIDE DEF f, g
<1>3. Sum(g, S) = Sum(f, S) + (g[n] - f[n])
  BY <1>2, SumChange
<1>4. QED
  BY <1>1, <1>2, <1>3

LEMMA UsedUnchanged ==
  ASSUME NEW T, NEW U, NEW S, IsFiniteSet(S), \A a \in S : U[a].duration = T[a].duration
  PROVE  UsedIn(U, S) = UsedIn(T, S)
<1> DEFINE f == [a \in S |-> T[a].duration]
           g == [a \in S |-> U[a].duration]
<1>1. UsedIn(T, S) = Sum(f, S) /\ UsedIn(U, S) = Sum(g, S)
  BY UsedIsSum
<1>2. \A a \in S : g[a] = f[a]
  OBVIOUS
<1> HIDE DEF f, g
<1>3. QED
  BY <1>1, <1>2, SumSame

LEMMA UsedOf ==
  /\ \A q \in Procs : Used(q) = UsedIn(timeline, SlicesOf(q))
  /\ \A q \in Procs : Used(q)' = UsedIn(timeline', SlicesOf(q)')
<1>1. \A q \in Procs : Used(q) = UsedIn(timeline, SlicesOf(q))
  BY DEF Used, UsedIn, MapThenSumSet, MapThenFoldSet
<1>2. \A q \in Procs : Used(q)' = UsedIn(timeline', SlicesOf(q)')
  BY DEF Used, UsedIn, MapThenSumSet, MapThenFoldSet
<1>3. QED
  BY <1>1, <1>2

\* Of the CPU time executed: the sum over a function of the processes.
RanIn(B, R) == MapThenSumSet(LAMBDA q : B[q].burst_time - R[q], Procs)
Ran(B, R)   == [q \in Procs |-> B[q].burst_time - R[q]]

LEMMA RanIsSum == ASSUME NEW B, NEW R PROVE RanIn(B, R) = Sum(Ran(B, R), Procs)
<1> DEFINE f == Ran(B, R)
           E(g) == g = [s \in SUBSET Procs |-> IF s = {} THEN 0
                          ELSE (B[CHOOSE x \in s : TRUE].burst_time - R[CHOOSE x \in s : TRUE])
                                  + g[s \ {CHOOSE x \in s : TRUE}]]
           h == CHOOSE g : E(g)
<1>0. IsFiniteSet(Procs)
  BY SchedulerAssumption, FS_Interval DEF Procs
<1>1. PICK g : Sums(g, Procs, f)
  BY <1>0, SumsExist
<1>2. \A s \in SUBSET Procs : s # {} =>
        /\ Pick(s) = CHOOSE x \in s : TRUE
        /\ f[Pick(s)] = B[CHOOSE x \in s : TRUE].burst_time - R[CHOOSE x \in s : TRUE]
  BY PickIn DEF Pick, Ran
<1> HIDE DEF f
<1>3. E(g)
  BY <1>1, <1>2 DEF Sums
<1>4. E(h)
  <2> HIDE DEF E
  <2>1. QED
    BY <1>3
<1>5. RanIn(B, R) = h[Procs]
  BY DEF RanIn, MapThenSumSet, MapThenFoldSet
<1> HIDE DEF h
<1>6. Sums(h, Procs, f)
  BY <1>2, <1>4 DEF Sums
<1>7. QED
  BY <1>0, <1>5, <1>6, SumIs DEF f

LEMMA ExecutedOf ==
  Executed = Sum(Ran(processes, remaining_time), Procs)
    /\ Executed' = Sum(Ran(processes', remaining_time'), Procs)
<1>1. Executed = RanIn(processes, remaining_time) /\ Executed' = RanIn(processes', remaining_time')
  BY DEF Executed, RanIn, Burst, MapThenSumSet, MapThenFoldSet
<1>2. QED
  BY <1>1, RanIsSum

\* Of the quanta of the levels above l.
LEMMA QuantaAbove ==
  ASSUME NEW l \in Nat, l < NumQueues
  PROVE  MapThenSumSet(LAMBDA h : Quanta[h], 0..(l - 1)) = Sum(Quanta, 0..(l - 1))
<1> DEFINE S == 0..(l - 1)
           E(g) == g = [s \in SUBSET S |-> IF s = {} THEN 0
                          ELSE Quanta[CHOOSE x \in s : TRUE] + g[s \ {CHOOSE x \in s : TRUE}]]
           h == CHOOSE g : E(g)
<1>0. IsFiniteSet(S)
  BY FS_Interval
<1>9. MapThenSumSet(LAMBDA m : Quanta[m], S) = h[S]
  BY DEF MapThenSumSet, MapThenFoldSet
<1> HIDE DEF S
<1>1. PICK g : Sums(g, S, Quanta)
  BY <1>0, SumsExist
<1>3. E(g)
  BY <1>1 DEF Sums, Pick
<1>4. E(h)
  <2> HIDE DEF E
  <2>1. QED
    BY <1>3
<1> HIDE DEF h
<1>6. Sums(h, S, Quanta)
  BY <1>4 DEF Sums, Pick
<1>7. QED
  BY <1>0, <1>9, <1>6, SumIs DEF S

-----------------------------------------------------------------------------
(* The timeline is the schedule.                                           *)

Timed == Apart /\ AfterArrival /\ Accounted /\ EndsAtCompletion

LEMMA TimedSlice ==
  ASSUME TypeOK, Timed, NEW q \in Procs, NEW t \in Nat, NEW d \in Nat, GetsSlice(q, t, d)
  PROVE  Timed'
<1>2. PICK n \in Nat :
      /\ DOMAIN timeline' = DOMAIN timeline \cup {n} /\ n \notin DOMAIN timeline
      /\ \A a \in DOMAIN timeline : timeline'[a] = timeline[a] /\ SliceEnd(a)' = SliceEnd(a) /\ a < n
      /\ timeline'[n] = [time |-> t, pid |-> Pid(q), duration |-> d] /\ SliceEnd(n)' = t + d
      /\ \A r \in Procs : SlicesOf(r)' = IF r = q THEN SlicesOf(r) \cup {n} ELSE SlicesOf(r)
  BY SliceAdded
<1>3. /\ Execute(q, t, d) /\ time <= t /\ Arrival(q) <= t /\ d \in 0..remaining_time[q]
      /\ UNCHANGED processes /\ (d = 0 => Burst(q) = 0)
  BY DEF GetsSlice
<1>4. /\ remaining_time' \in [Procs -> Nat] /\ time' = t + d
      /\ remaining_time'[q] = remaining_time[q] - d
      /\ \A r \in Procs : r # q => remaining_time'[r] = remaining_time[r]
  BY <1>3, ExecuteStep
<1>5. /\ completion_time \in [Procs -> Nat] /\ time \in Nat
      /\ \A r \in Procs : /\ remaining_time[r] \in Nat /\ Arrival(r) \in Nat /\ Burst(r) \in Nat
                          /\ Arrival(r)' = Arrival(r) /\ Burst(r)' = Burst(r)
  BY <1>3, InvFacts, SameWorkload DEF TypeOK
<1>6. completion_time' = IF remaining_time[q] = d THEN [completion_time EXCEPT ![q] = t + d]
                                                  ELSE completion_time
  BY <1>3 DEF Execute
<1>7. /\ \A a \in DOMAIN timeline :
           /\ timeline[a].time \in Nat /\ timeline[a].duration \in Nat /\ SliceEnd(a) \in Nat /\ a \in Nat
      /\ \A r \in Procs : IsFiniteSet(SlicesOf(r)) /\ SlicesOf(r) \subseteq DOMAIN timeline
  BY TimelineFacts
<1>8. timeline'[n].time = t /\ timeline'[n].duration = d
  BY <1>2
<1>9. Apart'
  <2>1. \A a \in DOMAIN timeline : SliceEnd(a) <= t
    BY <1>3, <1>5, <1>7 DEF Timed, Apart
  <2>2. \A a \in DOMAIN timeline' : SliceEnd(a)' <= time'
    BY <1>2, <1>4, <1>7, <2>1
  <2>3. ASSUME NEW a \in DOMAIN timeline', NEW b \in DOMAIN timeline', a < b
        PROVE  SliceEnd(a)' <= timeline'[b].time
    <3>1. a \in DOMAIN timeline
      BY <1>2, <1>7, <2>3
    <3>2. CASE b = n
      BY <1>2, <1>8, <2>1, <3>1, <3>2
    <3>3. CASE b \in DOMAIN timeline
      BY <1>2, <2>3, <3>1, <3>3 DEF Timed, Apart
    <3>4. QED
      BY <1>2, <3>2, <3>3
  <2>4. QED
    BY <2>2, <2>3 DEF Apart
<1>10. AfterArrival'
  <2>1. ASSUME NEW r \in Procs, NEW a \in SlicesOf(r)' PROVE timeline'[a].time >= Arrival(r)'
    <3>1. CASE a \in SlicesOf(r)
      BY <1>2, <1>5, <1>7, <3>1 DEF Timed, AfterArrival
    <3>2. CASE a = n /\ r = q
      BY <1>3, <1>5, <1>8, <3>2
    <3>3. QED
      BY <1>2, <2>1, <3>1, <3>2
  <2>2. QED
    BY <2>1 DEF AfterArrival
<1>11. Accounted'
  <2>1. ASSUME NEW r \in Procs PROVE Used(r)' = Burst(r)' - remaining_time'[r]
    <3>1. Used(r) = UsedIn(timeline, SlicesOf(r)) /\ Used(r)' = UsedIn(timeline', SlicesOf(r)')
      BY UsedOf
    <3>2. Used(r) = Burst(r) - remaining_time[r]
      BY DEF Timed, Accounted
    <3>3. /\ IsFiniteSet(SlicesOf(r)) /\ n \notin SlicesOf(r)
          /\ \A a \in SlicesOf(r) : timeline[a].duration \in Int /\ timeline'[a].duration = timeline[a].duration
      BY <1>2, <1>7
    <3>4. CASE r = q
      <4>1. UsedIn(timeline', SlicesOf(r) \cup {n}) = UsedIn(timeline, SlicesOf(r)) + timeline'[n].duration
        BY <1>8, <3>3, UsedMore
      <4>2. SlicesOf(r)' = SlicesOf(r) \cup {n}
        BY <1>2, <3>4
      <4>3. QED
        BY <1>4, <1>5, <1>8, <3>1, <3>2, <3>4, <4>1, <4>2
    <3>5. CASE r # q
      <4>1. SlicesOf(r)' = SlicesOf(r)
        BY <1>2, <3>5
      <4>2. UsedIn(timeline', SlicesOf(r)) = UsedIn(timeline, SlicesOf(r))
        BY <3>3, UsedUnchanged
      <4>3. QED
        BY <1>4, <1>5, <3>1, <3>2, <3>5, <4>1, <4>2
    <3>6. QED
      BY <3>4, <3>5
  <2>2. QED
    BY <2>1 DEF Accounted
<1>12. EndsAtCompletion'
  <2>1. ASSUME NEW r \in Procs, remaining_time'[r] = 0, Burst(r)' > 0
        PROVE  /\ \E a \in SlicesOf(r)' : SliceEnd(a)' = completion_time'[r]
               /\ \A a \in SlicesOf(r)' : SliceEnd(a)' <= completion_time'[r]
    <3>1. CASE r = q
      <4>1. d = remaining_time[q]
        BY <1>3, <1>4, <1>5, <2>1, <3>1
      <4>2. completion_time'[r] = t + d
        BY <1>5, <1>6, <3>1, <4>1
      <4>3. \A a \in DOMAIN timeline : SliceEnd(a) <= time
        BY DEF Timed, Apart
      <4>4. SlicesOf(r)' = SlicesOf(r) \cup {n}
        BY <1>2, <3>1
      <4>5. \A a \in SlicesOf(r) : SliceEnd(a)' <= t + d
        BY <1>2, <1>3, <1>5, <1>7, <4>3
      <4>6. QED
        BY <1>2, <4>2, <4>4, <4>5
    <3>2. CASE r # q
      <4>1. completion_time'[r] = completion_time[r] /\ SlicesOf(r)' = SlicesOf(r) /\ remaining_time[r] = 0
        BY <1>2, <1>4, <1>5, <1>6, <2>1, <3>2
      <4>2. /\ \E a \in SlicesOf(r) : SliceEnd(a) = completion_time[r]
            /\ \A a \in SlicesOf(r) : SliceEnd(a) <= completion_time[r]
        BY <1>5, <2>1, <4>1 DEF Timed, EndsAtCompletion
      <4>3. QED
        BY <1>2, <1>7, <4>1, <4>2
    <3>3. QED
      BY <3>1, <3>2
  <2>2. QED
    BY <2>1 DEF EndsAtCompletion
<1>13. QED
  BY <1>9, <1>10, <1>11, <1>12 DEF Timed

LEMMA TimedGrows ==
  ASSUME TypeOK, Timed, StcfLast, NEW q \in Procs, LastGrows(q)
  PROVE  Timed'
<1>0. last_pid # -1
  BY InvFacts, SchedulerAssumption DEF LastGrows, Procs
<1>1. /\ timeline # <<>> /\ timeline[Len(timeline)].pid = last_pid /\ SliceEnd(Len(timeline)) = time
  BY <1>0 DEF StcfLast
<1>2. PICK n : n = Len(timeline)
  OBVIOUS
<1>3. /\ n \in DOMAIN timeline /\ DOMAIN timeline' = DOMAIN timeline
      /\ \A a \in DOMAIN timeline :
           /\ timeline'[a].time = timeline[a].time /\ a <= n
           /\ timeline'[a].duration = timeline[a].duration + IF a = n THEN 1 ELSE 0
           /\ SliceEnd(a)' = SliceEnd(a) + IF a = n THEN 1 ELSE 0
      /\ n \in SlicesOf(q) /\ \A r \in Procs : SlicesOf(r)' = SlicesOf(r)
  BY <1>1, <1>2, SliceGrown
<1>4. Execute(q, time, 1) /\ UNCHANGED processes /\ remaining_time[q] > 0
  BY DEF LastGrows
<1>5. /\ completion_time \in [Procs -> Nat] /\ time \in Nat
      /\ \A r \in Procs : /\ remaining_time[r] \in Nat /\ Arrival(r) \in Nat /\ Burst(r) \in Nat
                          /\ Arrival(r)' = Arrival(r) /\ Burst(r)' = Burst(r)
  BY <1>4, InvFacts, SameWorkload DEF TypeOK
<1>6. 1 \in 0..remaining_time[q]
  BY <1>4, <1>5
<1>7. /\ remaining_time' \in [Procs -> Nat] /\ time' = time + 1
      /\ remaining_time'[q] = remaining_time[q] - 1
      /\ \A r \in Procs : r # q => remaining_time'[r] = remaining_time[r]
  BY <1>4, <1>5, <1>6, ExecuteStep
<1>8. completion_time' = IF remaining_time[q] = 1 THEN [completion_time EXCEPT ![q] = time + 1]
                                                  ELSE completion_time
  BY <1>4 DEF Execute
<1>9. /\ \A a \in DOMAIN timeline :
           /\ timeline[a].time \in Nat /\ timeline[a].duration \in Nat /\ SliceEnd(a) \in Nat /\ a \in Nat
      /\ \A r \in Procs : IsFiniteSet(SlicesOf(r)) /\ SlicesOf(r) \subseteq DOMAIN timeline
      /\ \A r \in Procs : Pid(r) = Pid(q) => r = q
  BY TimelineFacts
<1>10. \A r \in Procs : r # q => n \notin SlicesOf(r)
  BY <1>3, <1>9 DEF SlicesOf
<1>11. SliceEnd(n) = time
  BY <1>1, <1>2
<1>12. Apart'
  <2>1. \A a \in DOMAIN timeline' : SliceEnd(a)' <= time'
    BY <1>3, <1>5, <1>7, <1>9 DEF Timed, Apart
  <2>2. ASSUME NEW a \in DOMAIN timeline', NEW b \in DOMAIN timeline', a < b
        PROVE  SliceEnd(a)' <= timeline'[b].time
    <3>1. a # n
      BY <1>3, <1>9, <2>2
    <3>2. SliceEnd(a) <= timeline[b].time
      BY <1>3, <2>2 DEF Timed, Apart
    <3>3. QED
      BY <1>3, <1>9, <3>1, <3>2
  <2>3. QED
    BY <2>1, <2>2 DEF Apart
<1>13. AfterArrival'
  <2>1. ASSUME NEW r \in Procs, NEW a \in SlicesOf(r)' PROVE timeline'[a].time >= Arrival(r)'
    BY <1>3, <1>5, <1>9, <2>1 DEF Timed, AfterArrival
  <2>2. QED
    BY <2>1 DEF AfterArrival
<1>14. Accounted'
  <2>1. ASSUME NEW r \in Procs PROVE Used(r)' = Burst(r)' - remaining_time'[r]
    <3>1. Used(r) = UsedIn(timeline, SlicesOf(r)) /\ Used(r)' = UsedIn(timeline', SlicesOf(r)')
      BY UsedOf
    <3>2. Used(r) = Burst(r) - remaining_time[r] /\ SlicesOf(r)' = SlicesOf(r)
      BY <1>3 DEF Timed, Accounted
    <3>3. IsFiniteSet(SlicesOf(r)) /\ \A a \in SlicesOf(r) :
            timeline[a].duration \in Int /\ timeline'[a].duration = timeline[a].duration + IF a = n THEN 1 ELSE 0
      BY <1>3, <1>9
    <3>4. CASE r = q
      <4>1. UsedIn(timeline', SlicesOf(r)) = UsedIn(timeline, SlicesOf(r)) + 1
        BY <1>3, <3>3, <3>4, UsedChanged
      <4>2. Used(r)' = Used(r) + 1
        BY <3>1, <3>2, <4>1
      <4>3. remaining_time'[r] = remaining_time[r] - 1 /\ Burst(r)' = Burst(r)
        BY <1>5, <1>7, <3>4
      <4>4. QED
        BY <1>5, <3>2, <4>2, <4>3
    <3>5. CASE r # q
      <4>1. \A a \in SlicesOf(r) : timeline'[a].duration = timeline[a].duration
        <5>1. \A a \in SlicesOf(r) : a # n
          BY <1>10, <3>5
        <5>2. QED
          BY <3>3, <5>1
      <4>2. UsedIn(timeline', SlicesOf(r)) = UsedIn(timeline, SlicesOf(r))
        BY <3>3, <4>1, UsedUnchanged
      <4>3. QED
        BY <1>5, <1>7, <3>1, <3>2, <3>5, <4>2
    <3>6. QED
      BY <3>4, <3>5
  <2>2. QED
    BY <2>1 DEF Accounted
<1>15. EndsAtCompletion'
  <2>1. ASSUME NEW r \in Procs, remaining_time'[r] = 0, Burst(r)' > 0
        PROVE  /\ \E a \in SlicesOf(r)' : SliceEnd(a)' = completion_time'[r]
               /\ \A a \in SlicesOf(r)' : SliceEnd(a)' <= completion_time'[r]
    <3>1. CASE r = q
      <4>1. completion_time'[r] = time + 1
        BY <1>5, <1>7, <1>8, <2>1, <3>1
      <4>2. \A a \in DOMAIN timeline' : SliceEnd(a)' <= time + 1
        BY <1>7, <1>12 DEF Apart
      <4>3. SliceEnd(n)' = time + 1 /\ n \in SlicesOf(r)'
        BY <1>3, <1>11, <3>1
      <4>4. SlicesOf(r)' \subseteq DOMAIN timeline'
        BY <1>3, <1>9
      <4>5. QED
        BY <4>1, <4>2, <4>3, <4>4
    <3>2. CASE r # q
      <4>1. completion_time'[r] = completion_time[r] /\ SlicesOf(r)' = SlicesOf(r) /\ remaining_time[r] = 0
        BY <1>3, <1>5, <1>7, <1>8, <2>1, <3>2
      <4>2. /\ \E a \in SlicesOf(r) : SliceEnd(a) = completion_time[r]
            /\ \A a \in SlicesOf(r) : SliceEnd(a) <= completion_time[r]
        BY <1>5, <2>1, <4>1 DEF Timed, EndsAtCompletion
      <4>3. \A a \in SlicesOf(r) : SliceEnd(a)' = SliceEnd(a)
        BY <1>3, <1>9, <1>10, <3>2
      <4>4. QED
        BY <4>1, <4>2, <4>3
    <3>3. QED
      BY <3>1, <3>2
  <2>2. QED
    BY <2>1 DEF EndsAtCompletion
<1>16. QED
  BY <1>12, <1>13, <1>14, <1>15 DEF Timed

LEMMA NoSlices ==
  /\ timeline = <<>> => DOMAIN timeline = {} /\ \A q \in Procs : SlicesOf(q) = {} /\ Used(q) = 0
  /\ timeline' = <<>> => DOMAIN timeline' = {} /\ \A q \in Procs : SlicesOf(q)' = {} /\ Used(q)' = 0
<1>1. \A T : UsedIn(T, {}) = 0
  <2> SUFFICES ASSUME NEW T PROVE UsedIn(T, {}) = 0
    OBVIOUS
  <2>1. IsFiniteSet({})
    BY FS_EmptySet
  <2>2. UsedIn(T, {}) = Sum([a \in {} |-> T[a].duration], {})
    BY <2>1, UsedIsSum
  <2>3. QED
    BY <2>2, SumEmpty
<1>2. timeline = <<>> => DOMAIN timeline = {} /\ \A q \in Procs : SlicesOf(q) = {}
  BY DEF SlicesOf
<1>3. timeline' = <<>> => DOMAIN timeline' = {} /\ \A q \in Procs : SlicesOf(q)' = {}
  BY DEF SlicesOf
<1>4. QED
  BY <1>1, <1>2, <1>3, UsedOf

LEMMA TimedStep ==
  ASSUME TypeOK, Timed, StcfLast, Step
  PROVE  Timed'
<1>1. CASE \E q \in Procs : \E t \in Nat, d \in Nat : GetsSlice(q, t, d)
  BY <1>1, TimedSlice
<1>2. CASE \E q \in Procs : LastGrows(q)
  BY <1>2, TimedGrows
<1>3. CASE LeavesCpu
  <2>1. \A q \in Procs : /\ Arrival(q)' = Arrival(q) /\ Burst(q)' = Burst(q) /\ Used(q)' = Used(q)
                         /\ SlicesOf(q)' = SlicesOf(q)
    BY <1>3, SameWorkload, UsedOf DEF LeavesCpu, SlicesOf
  <2>2. \A a \in DOMAIN timeline : SliceEnd(a)' = SliceEnd(a)
    BY <1>3 DEF LeavesCpu, SliceEnd
  <2>3. \A q \in Procs : SlicesOf(q) \subseteq DOMAIN timeline
    BY TimelineFacts
  <2>4. time' >= time /\ time' \in Nat /\ time \in Nat /\ \A a \in DOMAIN timeline : SliceEnd(a) \in Nat
    <3>1. time \in Nat
      BY DEF TypeOK
    <3>2. QED
      BY <1>3, <3>1, TimelineFacts DEF LeavesCpu
  <2>5. Apart'
    BY <1>3, <2>2, <2>4 DEF LeavesCpu, Timed, Apart
  <2>6. AfterArrival' /\ Accounted'
    BY <1>3, <2>1 DEF LeavesCpu, Timed, AfterArrival, Accounted
  <2>7. EndsAtCompletion'
    BY <1>3, <2>1, <2>2, <2>3 DEF LeavesCpu, Timed, EndsAtCompletion
  <2>8. QED
    BY <2>5, <2>6, <2>7 DEF Timed
<1>4. CASE StartsAnew
  <2>1. /\ DOMAIN timeline' = {} /\ \A q \in Procs : SlicesOf(q)' = {} /\ Used(q)' = 0
    BY <1>4, NoSlices DEF StartsAnew
  <2>2. \A q \in Procs : Burst(q)' = Burst(q) /\ remaining_time'[q] = Burst(q) /\ Burst(q) \in Nat
    BY <1>4, SameWorkload, InvFacts DEF StartsAnew
  <2>3. Apart' /\ AfterArrival'
    BY <2>1 DEF Apart, AfterArrival
  <2>4. Accounted'
    BY <2>1, <2>2 DEF Accounted
  <2>5. EndsAtCompletion'
    BY <2>2 DEF EndsAtCompletion
  <2>6. QED
    BY <2>3, <2>4, <2>5 DEF Timed
<1>5. QED
  BY <1>1, <1>2, <1>3, <1>4 DEF Step

LEMMA AddedLast ==
  ASSUME TypeOK, NEW q \in Procs, NEW t \in Nat, NEW d \in Nat, GetsSlice(q, t, d)
  PROVE  /\ timeline' # <<>> /\ timeline'[Len(timeline')].pid = Pid(q)
         /\ SliceEnd(Len(timeline))' = t + d
<1>1. PICK n \in Nat :
        /\ n \notin DOMAIN timeline /\ DOMAIN timeline' = DOMAIN timeline \cup {n}
        /\ n = Len(timeline) + 1 /\ Len(timeline') = n
        /\ \A a \in DOMAIN timeline : timeline'[a] = timeline[a] /\ SliceEnd(a)' = SliceEnd(a) /\ a < n
        /\ timeline'[n] = [time |-> t, pid |-> Pid(q), duration |-> d] /\ SliceEnd(n)' = t + d
        /\ \A r \in Procs : SlicesOf(r)' = IF r = q THEN SlicesOf(r) \cup {n} ELSE SlicesOf(r)
  BY SliceAdded
<1>2. timeline' # <<>>
  BY <1>1
<1>3. timeline'[Len(timeline')].pid = Pid(q) /\ SliceEnd(Len(timeline))' = t + d
  BY <1>1 DEF SliceEnd
<1>4. QED
  BY <1>2, <1>3

LEMMA StcfLastStep ==
  ASSUME Inv, StcfLast, [Next]_vars
  PROVE  StcfLast'
<1>0. TypeOK
  BY DEF Inv
<1>1. CASE StcfRun
  <2>1. PICK q \in Cheapest(remaining_time) :
          /\ Execute(q, time, 1) /\ MarkStart(q)
          /\ \/ last_pid # Pid(q) /\ NewSlice(q, time, 1)
             \/ last_pid = Pid(q)
                /\ timeline' = [timeline EXCEPT ![Len(timeline)].duration = @ + 1]
          /\ last_pid' = Pid(q)
    BY <1>1 DEF StcfRun
  <2>2. /\ q \in Procs /\ remaining_time[q] > 0 /\ Arrival(q) <= time
        /\ UNCHANGED <<processes, alg>> /\ alg = "STCF"
    BY <1>1, <2>1 DEF Cheapest, Ready, StcfRun
  <2>3. time \in Nat /\ remaining_time[q] \in Nat /\ Pid(q) \in Procs /\ Pid(q)' = Pid(q)
    BY <1>0, <2>2, InvFacts, SameWorkload DEF TypeOK
  <2>4. 1 \in 0..remaining_time[q]
    BY <2>2, <2>3
  <2>5. time' = time + 1
    BY <1>0, <2>1, <2>2, <2>3, <2>4, ExecuteStep
  <2>6. CASE NewSlice(q, time, 1)
    <3>1. GetsSlice(q, time, 1)
      BY <2>1, <2>2, <2>3, <2>4, <2>6 DEF GetsSlice
    <3>2. 1 \in Nat
      OBVIOUS
    <3>3. timeline' # <<>> /\ timeline'[Len(timeline')].pid = Pid(q) /\ SliceEnd(Len(timeline))' = time + 1
      BY <1>0, <2>2, <2>3, <3>1, <3>2, AddedLast
    <3>4. QED
      BY <2>1, <2>2, <2>3, <2>5, <3>3 DEF StcfLast
  <2>7. CASE /\ last_pid = Pid(q)
             /\ timeline' = [timeline EXCEPT ![Len(timeline)].duration = @ + 1]
    <3>1. LastGrows(q)
      BY <2>1, <2>2, <2>7 DEF LastGrows
    <3>2. /\ timeline # <<>> /\ timeline[Len(timeline)].pid = last_pid /\ SliceEnd(Len(timeline)) = time
      <4>1. last_pid # -1
        BY <2>3, <2>7, SchedulerAssumption DEF Procs
      <4>2. QED
        BY <4>1 DEF StcfLast
    <3>3. PICK n : n = Len(timeline)
      OBVIOUS
    <3>4. /\ n \in DOMAIN timeline /\ DOMAIN timeline' = DOMAIN timeline /\ Len(timeline') = n
          /\ \A a \in DOMAIN timeline : SliceEnd(a)' = SliceEnd(a) + IF a = n THEN 1 ELSE 0
          /\ n \in SlicesOf(q) /\ SlicesOf(q)' = SlicesOf(q)
      BY <1>0, <2>2, <3>1, <3>2, <3>3, SliceGrown
    <3>5. timeline'[n].pid = Pid(q) /\ SliceEnd(n)' = time + 1
      BY <2>3, <3>2, <3>3, <3>4 DEF SlicesOf
    <3>6. timeline'[Len(timeline')].pid = Pid(q) /\ SliceEnd(Len(timeline))' = time + 1
      BY <3>4, <3>5 DEF SliceEnd
    <3>7. timeline' # <<>>
      BY <3>4
    <3>8. QED
      BY <2>1, <2>2, <2>3, <2>5, <3>6, <3>7 DEF StcfLast
  <2>8. QED
    BY <2>1, <2>6, <2>7
<1>2. CASE StcfIdle
  BY <1>2 DEF StcfIdle, StcfLast
<1>3. CASE NextAlgorithm
  BY <1>3 DEF NextAlgorithm, StcfLast
<1>4. ASSUME alg # "STCF", UNCHANGED last_pid PROVE StcfLast'
  BY <1>4 DEF StcfLast
<1>5. CASE FifoSwap \/ FifoSortNext \/ FifoRun \/ SjfRun \/ SjfIdle \/ RrVisit \/ RrPassEnds
  BY <1>4, <1>5 DEF FifoSwap, FifoSortNext, FifoRun, SjfRun, SjfIdle, RrVisit, RrPassEnds
<1>6. CASE \/ MlfqArrive \/ MlfqArrived \/ MlfqBoost \/ MlfqBoosted \/ MlfqRun \/ MlfqIdle
  BY <1>4, <1>6 DEF MlfqArrive, MlfqArrived, MlfqBoost, MlfqBoosted, MlfqRun, MlfqIdle
<1>7. CASE UNCHANGED vars
  BY <1>7 DEF StcfLast, SliceEnd
<1>8. QED
  BY <1>1, <1>2, <1>3, <1>5, <1>6, <1>7 DEF Next

-----------------------------------------------------------------------------
(* The start times.                                                        *)

LEMMA MarkedStart ==
  ASSUME TypeOK, Starts, NEW q \in Procs, SlicesOf(q) # {}, MarkStart(q)
  PROVE  \A r \in Procs : \A a \in SlicesOf(r) :
           First(r, a) /\ timeline[a].time > 0 => start_time'[r] = timeline[a].time
<1> SUFFICES ASSUME NEW r \in Procs, NEW a \in SlicesOf(r), First(r, a), timeline[a].time > 0
             PROVE  start_time'[r] = timeline[a].time
  OBVIOUS
<1>1. start_time[r] = timeline[a].time
  BY DEF Starts
<1>2. start_time \in [Procs -> Nat]
  BY DEF TypeOK
<1>3. CASE r = q
  BY <1>1, <1>2, <1>3 DEF MarkStart
<1>4. CASE r # q
  BY <1>1, <1>2, <1>4 DEF MarkStart
<1>5. QED
  BY <1>3, <1>4

LEMMA StartsSlice ==
  ASSUME TypeOK, Starts, NEW q \in Procs, NEW t \in Nat, NEW d \in Nat, GetsSlice(q, t, d)
  PROVE  Starts'
<1>0. /\ start_time \in [Procs -> Nat] /\ time \in Nat
      /\ \A r \in Procs : SlicesOf(r) \subseteq DOMAIN timeline
      /\ \A a \in DOMAIN timeline : timeline[a].time \in Nat /\ a \in Nat
  BY TimelineFacts DEF TypeOK
<1>1. PICK n \in Nat :
        /\ n \notin DOMAIN timeline /\ DOMAIN timeline' = DOMAIN timeline \cup {n}
        /\ \A a \in DOMAIN timeline : timeline'[a] = timeline[a] /\ SliceEnd(a)' = SliceEnd(a) /\ a < n
        /\ timeline'[n] = [time |-> t, pid |-> Pid(q), duration |-> d]
        /\ \A r \in Procs : SlicesOf(r)' = IF r = q THEN SlicesOf(r) \cup {n} ELSE SlicesOf(r)
  BY SliceAdded
<1>2. \/ SlicesOf(q) = {} /\ start_time' = [start_time EXCEPT ![q] = t]
      \/ t = time /\ MarkStart(q)
  BY DEF GetsSlice
<1>3. SlicesOf(q) = {} => start_time' = [start_time EXCEPT ![q] = t]
  BY <1>0, <1>2 DEF Starts, MarkStart
<1>4. \A r \in Procs : r # q => start_time'[r] = start_time[r]
  BY <1>0, <1>2 DEF MarkStart
<1>5. ASSUME NEW r \in Procs, SlicesOf(r)' = {} PROVE start_time'[r] = 0
  <2>1. r # q /\ SlicesOf(r) = {}
    BY <1>1, <1>5
  <2>2. QED
    BY <1>4, <2>1 DEF Starts
<1>6. ASSUME NEW r \in Procs, NEW a \in SlicesOf(r)', First(r, a)', timeline'[a].time > 0
      PROVE  start_time'[r] = timeline'[a].time
  <2>0. \A b \in SlicesOf(r)' : a <= b
    BY <1>6 DEF First
  <2>1. CASE r # q
    <3>1. SlicesOf(r)' = SlicesOf(r)
      BY <1>1, <2>1
    <3>2. First(r, a) /\ a \in SlicesOf(r) /\ timeline'[a] = timeline[a]
      BY <1>0, <1>1, <1>6, <2>0, <3>1 DEF First
    <3>3. QED
      BY <1>4, <1>6, <2>1, <3>2 DEF Starts
  <2>2. CASE r = q /\ SlicesOf(q) = {}
    <3>1. a = n
      BY <1>1, <1>6, <2>2
    <3>2. QED
      BY <1>0, <1>1, <1>3, <2>2, <3>1
  <2>3. CASE r = q /\ SlicesOf(q) # {}
    <3>1. SlicesOf(r)' = SlicesOf(r) \cup {n}
      BY <1>1, <2>3
    <3>2. a # n
      <4>1. PICK b \in SlicesOf(r) : TRUE
        BY <2>3
      <4>2. b \in Nat /\ b < n /\ a <= b
        BY <1>0, <1>1, <2>0, <3>1, <4>1
      <4>3. QED
        BY <4>2
    <3>3. First(r, a) /\ a \in SlicesOf(r) /\ timeline'[a] = timeline[a]
      BY <1>0, <1>1, <1>6, <2>0, <3>1, <3>2 DEF First
    <3>4. MarkStart(q)
      BY <1>2, <2>3
    <3>5. start_time'[r] = timeline[a].time
      BY <1>6, <2>3, <3>3, <3>4, MarkedStart
    <3>6. QED
      BY <3>3, <3>5
  <2>4. QED
    BY <2>1, <2>2, <2>3
<1>7. QED
  BY <1>5, <1>6 DEF Starts

LEMMA StartsStep ==
  ASSUME TypeOK, Starts, StcfLast, Step
  PROVE  Starts'
<1>0. /\ start_time \in [Procs -> Nat] /\ time \in Nat
      /\ \A q \in Procs : SlicesOf(q) \subseteq DOMAIN timeline
      /\ \A a \in DOMAIN timeline : timeline[a].time \in Nat /\ a \in Nat
  BY TimelineFacts DEF TypeOK
<1>1. ASSUME NEW q \in Procs, NEW t \in Nat, NEW d \in Nat, GetsSlice(q, t, d) PROVE Starts'
  BY <1>1, StartsSlice
<1>2. ASSUME NEW q \in Procs, LastGrows(q) PROVE Starts'
  <2>1. last_pid # -1
    BY <1>2, InvFacts, SchedulerAssumption DEF LastGrows, Procs
  <2>2. /\ timeline # <<>> /\ timeline[Len(timeline)].pid = last_pid
    BY <2>1 DEF StcfLast
  <2>3. /\ \A a \in DOMAIN timeline : timeline'[a].time = timeline[a].time
        /\ SlicesOf(q) # {} /\ \A r \in Procs : SlicesOf(r)' = SlicesOf(r)
    BY <1>2, <2>2, SliceGrown
  <2>4. MarkStart(q)
    BY <1>2 DEF LastGrows
  <2>5. \A r \in Procs : \A a \in SlicesOf(r) : First(r, a)' => First(r, a)
    BY <2>3 DEF First
  <2>6. \A r \in Procs : SlicesOf(r)' = {} => start_time'[r] = 0
    BY <1>0, <2>3, <2>4 DEF MarkStart, Starts
  <2>7. \A r \in Procs : \A a \in SlicesOf(r)' :
          First(r, a)' /\ timeline'[a].time > 0 => start_time'[r] = timeline'[a].time
    BY <1>0, <2>3, <2>4, <2>5, MarkedStart
  <2>8. QED
    BY <2>6, <2>7 DEF Starts
<1>3. CASE LeavesCpu
  <2>1. \A q \in Procs : SlicesOf(q)' = SlicesOf(q)
    BY <1>3, SameWorkload DEF LeavesCpu, SlicesOf
  <2>2. \A q \in Procs : \A a \in SlicesOf(q) : First(q, a)' => First(q, a)
    BY <2>1 DEF First
  <2>3. QED
    BY <1>3, <2>1, <2>2 DEF LeavesCpu, Starts
<1>4. CASE StartsAnew
  <2>1. \A q \in Procs : SlicesOf(q)' = {}
    BY <1>4, NoSlices DEF StartsAnew
  <2>2. QED
    BY <1>4, <2>1 DEF StartsAnew, Starts
<1>5. QED
  BY <1>1, <1>2, <1>3, <1>4 DEF Step

-----------------------------------------------------------------------------
(* Round robin.                                                            *)

LEMMA RemainingStep ==
  ASSUME TypeOK, NEW q \in Procs, NEW t \in Nat, NEW d \in Nat, GetsSlice(q, t, d)
  PROVE  /\ remaining_time'[q] = remaining_time[q] - d /\ time' = t + d /\ d <= remaining_time[q]
         /\ \A r \in Procs : /\ remaining_time[r] \in Nat /\ remaining_time'[r] \in Nat
                             /\ r # q => remaining_time'[r] = remaining_time[r]
                             /\ remaining_time'[r] <= remaining_time[r]
<1>1. Execute(q, t, d) /\ d \in 0..remaining_time[q]
  BY DEF GetsSlice
<1>2. /\ remaining_time \in [Procs -> Nat] /\ remaining_time' \in [Procs -> Nat] /\ time' = t + d
      /\ remaining_time'[q] = remaining_time[q] - d
      /\ \A r \in Procs : r # q => remaining_time'[r] = remaining_time[r]
  BY <1>1, ExecuteStep DEF TypeOK
<1>3. remaining_time[q] \in Nat /\ d <= remaining_time[q]
  BY <1>1, <1>2
<1>4. QED
  BY <1>1, <1>2, <1>3

LEMMA TurnStep ==
  ASSUME Inv, Apart, TurnTaken, RoundRobinFair, RrVisit, i \in Ready
  PROVE  TurnTaken' /\ RoundRobinFair'
<1>1. PICK d \in 1..remaining_time[i] : GetsSlice(i, time, d)
  BY RrSlice
<1>2. /\ TypeOK /\ i \in Procs /\ time \in Nat /\ remaining_time[i] \in Nat /\ N \in Nat
      /\ UNCHANGED <<processes, alg>> /\ alg = "RR" /\ i' = i + 1
  BY SchedulerAssumption DEF Inv, TypeOK, Ready, RrVisit
<1>3. d \in Nat
  BY <1>2
<1>4. PICK n \in Nat :
      /\ DOMAIN timeline' = DOMAIN timeline \cup {n} /\ n \notin DOMAIN timeline
      /\ \A a \in DOMAIN timeline : timeline'[a] = timeline[a] /\ SliceEnd(a)' = SliceEnd(a) /\ a < n
      /\ \A r \in Procs : SlicesOf(r)' = IF r = i THEN SlicesOf(r) \cup {n} ELSE SlicesOf(r)
  BY <1>1, <1>2, <1>3, SliceAdded
<1>5. /\ \A r \in Procs : /\ remaining_time[r] \in Nat /\ remaining_time'[r] \in Nat
                          /\ remaining_time'[r] <= remaining_time[r]
                          /\ Arrival(r) \in Nat /\ Arrival(r)' = Arrival(r)
      /\ remaining_time[i] > 0
  BY <1>1, <1>2, <1>3, RemainingStep, InvFacts, SameWorkload DEF Ready
<1>6. /\ \A r \in Procs : SlicesOf(r) \subseteq DOMAIN timeline
      /\ \A a \in DOMAIN timeline : a \in Nat /\ SliceEnd(a) \in Nat
  BY <1>2, TimelineFacts
<1>7. TurnTaken'
  <2>1. ASSUME NEW q \in Procs, NEW r \in Procs, NEW a \in SlicesOf(q)', q # r,
               Arrival(r)' <= SliceEnd(a)', VisitedSince(q, r)'
        PROVE  remaining_time'[r] = 0 \/ \E c \in SlicesOf(r)' : c > a
    <3>0. q \in Int /\ r \in Int /\ i \in Int
      BY <1>2 DEF Procs
    <3>1. q # i
      <4>1. IF q < i + 1 THEN q < r /\ r < i + 1 ELSE q < r \/ r < i + 1
        BY <1>2, <2>1 DEF VisitedSince
      <4>2. QED
        BY <3>0, <4>1
    <3>2. a \in SlicesOf(q) /\ SliceEnd(a)' = SliceEnd(a) /\ a < n /\ a \in Nat /\ SliceEnd(a) \in Nat
      BY <1>4, <1>6, <2>1, <3>1
    <3>3. CASE r = i
      <4>1. n \in SlicesOf(r)' /\ n > a
        BY <1>4, <3>2, <3>3
      <4>2. QED
        BY <4>1
    <3>4. CASE r # i
      <4>1. VisitedSince(q, r)
        BY <1>2, <2>1, <3>0, <3>1, <3>4 DEF VisitedSince
      <4>2. remaining_time[r] = 0 \/ \E c \in SlicesOf(r) : c > a
        BY <1>2, <1>5, <2>1, <3>2, <4>1 DEF TurnTaken
      <4>3. QED
        BY <1>4, <1>5, <3>4, <4>2
    <3>5. QED
      BY <3>3, <3>4
  <2>2. QED
    BY <2>1 DEF TurnTaken
<1>8. RoundRobinFair'
  <2>1. ASSUME NEW q \in Procs, NEW r \in Procs, NEW a \in SlicesOf(q)', NEW b \in SlicesOf(q)',
               a < b, q # r, Arrival(r)' <= SliceEnd(a)',
               remaining_time'[r] > 0 \/ \E c \in SlicesOf(r)' : c > a
        PROVE  \E c \in SlicesOf(r)' : c \in a..b
    <3>1. a \in SlicesOf(q) /\ SliceEnd(a)' = SliceEnd(a) /\ a \in Nat /\ a \in DOMAIN timeline
      <4>1. b \in DOMAIN timeline' /\ a \in DOMAIN timeline'
        BY <1>4, <1>6
      <4>2. a # n
        BY <1>4, <1>6, <2>1, <4>1
      <4>3. QED
        BY <1>4, <1>6, <4>1, <4>2
    <3>2. remaining_time[r] > 0 \/ \E c \in SlicesOf(r) : c > a
      BY <1>4, <1>5, <2>1
    <3>3. Arrival(r) <= SliceEnd(a)
      BY <1>5, <2>1, <3>1
    <3>4. CASE b \in SlicesOf(q)
      <4>1. \E c \in SlicesOf(r) : c \in a..b
        BY <1>2, <2>1, <3>1, <3>2, <3>3, <3>4 DEF RoundRobinFair
      <4>2. QED
        BY <1>4, <4>1
    <3>5. CASE b \notin SlicesOf(q)
      <4>1. b = n /\ q = i
        BY <1>4, <3>5
      <4>2. VisitedSince(q, r)
        <5>1. q \in Int /\ r \in Int /\ i \in Int
          BY <1>2 DEF Procs
        <5>2. QED
          BY <2>1, <4>1, <5>1 DEF VisitedSince
      <4>3. remaining_time[r] = 0 \/ \E c \in SlicesOf(r) : c > a
        BY <1>2, <2>1, <3>1, <3>3, <4>2 DEF TurnTaken
      <4>4. PICK c \in SlicesOf(r) : c > a
        BY <3>2, <4>3
      <4>5. c \in a..b /\ c \in SlicesOf(r)'
        BY <1>4, <1>6, <3>1, <4>1, <4>4
      <4>6. QED
        BY <4>5
    <3>6. QED
      BY <3>4, <3>5
  <2>2. QED
    BY <2>1 DEF RoundRobinFair
<1>9. QED
  BY <1>7, <1>8

LEMMA TurnsStep ==
  ASSUME Inv, Apart, TurnTaken, RoundRobinFair, [Next]_vars
  PROVE  TurnTaken' /\ RoundRobinFair'
<1>0. TypeOK /\ N \in Nat
  BY SchedulerAssumption DEF Inv
<1>1. ASSUME UNCHANGED <<processes, timeline>>
      PROVE  /\ \A q \in Procs : SlicesOf(q)' = SlicesOf(q) /\ Arrival(q)' = Arrival(q)
             /\ \A a : SliceEnd(a)' = SliceEnd(a)
  BY <1>1, SameWorkload DEF SlicesOf, SliceEnd
<1>2. ASSUME UNCHANGED <<processes, timeline, remaining_time, alg>> PROVE RoundRobinFair'
  BY <1>1, <1>2 DEF RoundRobinFair
<1>3. CASE RrVisit
  <2>1. CASE i \in Ready
    BY <1>3, <2>1, TurnStep
  <2>2. CASE i \notin Ready
    <3>1. /\ UNCHANGED <<processes, timeline, remaining_time, alg, time>> /\ alg = "RR" /\ i' = i + 1
          /\ i \in Procs
      BY <1>0, <1>3, <2>2 DEF RrVisit, TypeOK, Procs
    <3>2. ASSUME NEW q \in Procs, NEW r \in Procs, NEW a \in SlicesOf(q), q # r,
                 Arrival(r) <= SliceEnd(a), VisitedSince(q, r)'
          PROVE  remaining_time[r] = 0 \/ \E c \in SlicesOf(r) : c > a
      <4>0. q \in Int /\ r \in Int /\ i \in Int
        BY <1>0, <3>1 DEF Procs
      <4>1. CASE r = i
        <5>1. SliceEnd(a) <= time /\ SliceEnd(a) \in Nat /\ time \in Nat /\ Arrival(r) \in Nat
          BY <1>0, TimelineFacts, InvFacts DEF Apart, TypeOK
        <5>2. remaining_time[r] \in Nat /\ ~(remaining_time[r] > 0)
          BY <1>0, <2>2, <3>1, <3>2, <4>1, <5>1 DEF Ready, TypeOK
        <5>3. QED
          BY <5>2
      <4>2. CASE r # i
        <5>1. VisitedSince(q, r)' = IF q < i + 1 THEN q < r /\ r < i + 1 ELSE q < r \/ r < i + 1
          BY <3>1 DEF VisitedSince
        <5>2. VisitedSince(q, r)
          BY <3>2, <4>0, <4>2, <5>1 DEF VisitedSince
        <5>3. QED
          BY <3>1, <3>2, <5>2 DEF TurnTaken
      <4>3. QED
        BY <4>1, <4>2
    <3>3. TurnTaken'
      BY <1>1, <3>1, <3>2 DEF TurnTaken
    <3>4. QED
      BY <1>2, <3>1, <3>3
  <2>3. QED
    BY <2>1, <2>2
<1>4. CASE RrPassEnds
  <2>1. UNCHANGED <<processes, timeline, remaining_time, alg>> /\ i' = 1 /\ i = N + 1 /\ alg = "RR"
    BY <1>0, <1>4 DEF RrPassEnds, Tick, Inv, RrInv
  <2>2. \A q, r \in Procs : VisitedSince(q, r)' => VisitedSince(q, r)
    BY <1>0, <2>1 DEF VisitedSince, Procs
  <2>3. TurnTaken'
    BY <1>1, <2>1, <2>2 DEF TurnTaken
  <2>4. QED
    BY <1>2, <2>1, <2>3
<1>5. CASE NextAlgorithm
  <2>1. \A q \in Procs : SlicesOf(q)' = {}
    BY <1>5, NoSlices DEF NextAlgorithm
  <2>2. QED
    BY <2>1 DEF TurnTaken, RoundRobinFair
<1>6. ASSUME alg' = alg, alg # "RR" PROVE TurnTaken' /\ RoundRobinFair'
  BY <1>6 DEF TurnTaken, RoundRobinFair
<1>7. CASE FifoSwap \/ FifoSortNext \/ FifoRun \/ SjfRun \/ SjfIdle \/ StcfRun \/ StcfIdle
  BY <1>6, <1>7 DEF FifoSwap, FifoSortNext, FifoRun, SjfRun, SjfIdle, StcfRun, StcfIdle
<1>8. CASE \/ MlfqArrive \/ MlfqArrived \/ MlfqBoost \/ MlfqBoosted \/ MlfqRun \/ MlfqIdle
  BY <1>6, <1>8 DEF MlfqArrive, MlfqArrived, MlfqBoost, MlfqBoosted, MlfqRun, MlfqIdle
<1>9. CASE UNCHANGED vars
  <2>1. \A q, r \in Procs : VisitedSince(q, r)' = VisitedSince(q, r)
    BY <1>9 DEF VisitedSince
  <2>2. TurnTaken'
    BY <1>1, <1>9, <2>1 DEF TurnTaken
  <2>3. QED
    BY <1>2, <1>9, <2>2
<1>10. QED
  BY <1>3, <1>4, <1>5, <1>7, <1>8, <1>9 DEF Next

-----------------------------------------------------------------------------
(* The levels of MLFQ.                                                     *)

Enqueue(Q, l, x) == [Q EXCEPT ![l] = Append(@, x)]

LEMMA OnLevelQueued ==
  ASSUME NEW Q \in Queues, NEW l \in Levels, NEW x \in Procs
  PROVE  /\ Enqueue(Q, l, x) \in Queues
         /\ \A m \in Levels : OnLevel(Enqueue(Q, l, x), m) =
              IF m = l THEN OnLevel(Q, m) \cup {x} ELSE OnLevel(Q, m)
<1> DEFINE R == [Q EXCEPT ![l] = Append(@, x)]
<1>1. /\ Q[l] \in Seq(Procs) /\ Len(Q[l]) \in Nat
      /\ R[l] = Append(Q[l], x) /\ \A m \in Levels : m # l => R[m] = Q[m]
  BY DEF Queues
<1>2. /\ R[l] \in Seq(Procs) /\ Len(R[l]) = Len(Q[l]) + 1
      /\ R[l][Len(Q[l]) + 1] = x /\ \A a \in 1..Len(Q[l]) : R[l][a] = Q[l][a]
  BY <1>1, AppendProperties
<1>3. R \in Queues
  BY <1>1, <1>2 DEF Queues
<1>4. OnLevel(R, l) = OnLevel(Q, l) \cup {x}
  <2>1. 1..Len(R[l]) = 1..Len(Q[l]) \cup {Len(Q[l]) + 1}
    BY <1>1, <1>2
  <2> HIDE DEF R
  <2>2. OnLevel(R, l) \subseteq OnLevel(Q, l) \cup {x}
    BY <1>2, <2>1 DEF OnLevel
  <2>3. OnLevel(Q, l) \cup {x} \subseteq OnLevel(R, l)
    BY <1>2, <2>1 DEF OnLevel
  <2>4. QED
    BY <2>2, <2>3
<1>5. \A m \in Levels : m # l => OnLevel(R, m) = OnLevel(Q, m)
  BY <1>1 DEF OnLevel
<1>6. QED
  BY <1>3, <1>4, <1>5 DEF Enqueue

LEMMA OnLevelTaken ==
  ASSUME NEW Q \in Queues, Distinct(Q), NEW l \in Levels, Q[l] # <<>>
  PROVE  LET R == [Q EXCEPT ![l] = Tail(@)]
             x == Head(Q[l])
         IN  /\ R \in Queues /\ x \in Procs /\ x \in OnLevel(Q, l)
             /\ \A m \in Levels : OnLevel(R, m) = OnLevel(Q, m) \ {x}
<1> DEFINE R == [Q EXCEPT ![l] = Tail(@)]
           x == Head(Q[l])
           s == Q[l]
<1>1. /\ s \in Seq(Procs) /\ R[l] = Tail(s) /\ \A m \in Levels : m # l => R[m] = Q[m]
      /\ s # <<>> /\ Len(s) \in Nat
  BY DEF Queues
<1>2. R \in Queues /\ x \in Procs
  BY Dequeued DEF Held
<1> HIDE DEF R, s
<1>3. /\ s[1] = Head(s) /\ Len(Tail(s)) = Len(s) - 1 /\ Len(s) \in Nat \ {0}
      /\ \A a \in 1..Len(Tail(s)) : Tail(s)[a] = s[a + 1]
  BY <1>1, HeadTailProperties, EmptySeq
<1>4. x = Head(s) /\ x = s[1] /\ 1 \in 1..Len(s)
  BY <1>3 DEF s
<1> HIDE DEF x
<1>5. OnLevel(Q, l) = {s[a] : a \in 1..Len(s)} /\ OnLevel(R, l) = {Tail(s)[a] : a \in 1..Len(Tail(s))}
  BY <1>1 DEF OnLevel, s
<1>6. \A m \in Levels : \A a \in 1..Len(Q[m]) : Q[m][a] = x => m = l /\ a = 1
  BY <1>4 DEF Distinct, s
<1>7. ASSUME NEW y \in OnLevel(R, l) PROVE y \in OnLevel(Q, l) \ {x}
  <2>1. PICK a \in 1..Len(Tail(s)) : y = Tail(s)[a]
    BY <1>5
  <2>2. a + 1 \in 1..Len(s) /\ y = s[a + 1] /\ a + 1 # 1
    BY <1>3, <2>1
  <2>3. y # x
    BY <1>6, <2>2 DEF s
  <2>4. QED
    BY <1>5, <2>2, <2>3
<1>8. ASSUME NEW y \in OnLevel(Q, l), y # x PROVE y \in OnLevel(R, l)
  <2>1. PICK a \in 1..Len(s) : y = s[a]
    BY <1>5
  <2>2. a # 1 /\ a \in Nat
    BY <1>4, <1>8, <2>1
  <2>3. a - 1 \in 1..Len(Tail(s)) /\ (a - 1) + 1 = a
    BY <1>3, <2>1, <2>2
  <2>4. Tail(s)[a - 1] = y
    BY <1>3, <2>1, <2>3
  <2>5. QED
    BY <1>5, <2>3, <2>4
<1>9. ASSUME NEW m \in Levels, m # l PROVE OnLevel(R, m) = OnLevel(Q, m) \ {x}
  BY <1>1, <1>6, <1>9 DEF OnLevel
<1>10. OnLevel(R, l) = OnLevel(Q, l) \ {x}
  BY <1>7, <1>8
<1>11. x \in OnLevel(Q, l)
  BY <1>4, <1>5
<1>12. QED
  BY <1>2, <1>9, <1>10, <1>11 DEF x, R

\* What the steps of MLFQ do to the levels.
LEMMA Arrives ==
  ASSUME Inv, MlfqArrive, i \in Ready \ in_queue
  PROVE  /\ queue' \in Queues /\ tail' = [tail EXCEPT ![0] = @ + 1] /\ in_queue' = in_queue \cup {i}
         /\ 0 \in Levels /\ i \in Procs
         /\ \A m \in Levels : OnLevel(queue', m) = IF m = 0 THEN OnLevel(queue, m) \cup {i}
                                                           ELSE OnLevel(queue, m)
<1>1. /\ queue' = Enqueue(queue, 0, i) /\ tail' = [tail EXCEPT ![0] = @ + 1]
      /\ in_queue' = in_queue \cup {i}
  BY DEF MlfqArrive, Enqueue
<1>2. queue \in Queues /\ 0 \in Levels /\ i \in Procs
  BY SchedulerAssumption DEF Inv, TypeOK, Queues, Levels, Ready
<1>3. QED
  BY <1>1, <1>2, OnLevelQueued

LEMMA Boosts ==
  ASSUME Inv, MlfqBoost, queue[i] # <<>>
  PROVE  /\ queue' \in Queues /\ tail' = [tail EXCEPT ![0] = @ + 1] /\ i \in Levels \ {0} /\ 0 \in Levels
         /\ \E x \in Procs : /\ x \in OnLevel(queue, i)
              /\ \A m \in Levels : OnLevel(queue', m) = IF m = 0 THEN OnLevel(queue, m) \cup {x}
                                                                ELSE OnLevel(queue, m) \ {x}
<1>1. /\ queue \in Queues /\ Distinct(queue) /\ 0 \in Levels /\ i \in Levels \ {0}
  BY SchedulerAssumption DEF Inv, TypeOK, MlfqInv, MlfqBoost, Queues, Levels
<1>2. /\ queue' = [queue EXCEPT ![0] = Append(@, Head(queue[i])), ![i] = Tail(@)]
      /\ tail' = [tail EXCEPT ![0] = @ + 1]
  BY DEF MlfqBoost
<1> DEFINE x   == Head(queue[i])
           out == [queue EXCEPT ![i] = Tail(@)]
<1>3. queue' = Enqueue(out, 0, x)
  BY <1>1, <1>2 DEF Queues, Enqueue
<1>4. /\ out \in Queues /\ x \in Procs /\ x \in OnLevel(queue, i)
      /\ \A m \in Levels : OnLevel(out, m) = OnLevel(queue, m) \ {x}
  BY <1>1, OnLevelTaken
<1> HIDE DEF x, out
<1>5. /\ queue' \in Queues
      /\ \A m \in Levels : OnLevel(queue', m) = IF m = 0 THEN OnLevel(out, m) \cup {x} ELSE OnLevel(out, m)
  BY <1>1, <1>3, <1>4, OnLevelQueued
<1>6. \A m \in Levels : OnLevel(queue', m) = IF m = 0 THEN OnLevel(queue, m) \cup {x}
                                                      ELSE OnLevel(queue, m) \ {x}
  BY <1>4, <1>5
<1>7. QED
  BY <1>1, <1>2, <1>4, <1>5, <1>6

LEMMA Selected ==
  ASSUME Inv, alg = "MLFQ", NEW l \in Levels, NEW q \in Procs, NEW d \in Nat, Selects(l, q, d)
  PROVE  /\ queue' \in Queues /\ q \in OnLevel(queue, l) /\ Demoted(l) \in Levels
         /\ \A m \in Levels : OnLevel(queue', m) =
              IF remaining_time[q] # d /\ m = Demoted(l) THEN OnLevel(queue, m) \cup {q}
                                                         ELSE OnLevel(queue, m) \ {q}
<1> DEFINE out == [queue EXCEPT ![l] = Tail(@)]
<1>1. /\ queue \in Queues /\ Distinct(queue) /\ queue[l] # <<>> /\ q = Head(queue[l])
  BY DEF Inv, TypeOK, MlfqInv, Queues, Selects
<1>2. Demoted(l) \in Levels
  BY SchedulerAssumption DEF Demoted, AtMost, Levels
<1>3. queue' = IF remaining_time[q] = d THEN out ELSE Enqueue(out, Demoted(l), q)
  BY DEF Selects, Enqueue
<1>4. /\ out \in Queues /\ q \in OnLevel(queue, l)
      /\ \A m \in Levels : OnLevel(out, m) = OnLevel(queue, m) \ {q}
  BY <1>1, OnLevelTaken
<1> HIDE DEF out
<1>5. CASE remaining_time[q] = d
  BY <1>2, <1>3, <1>4, <1>5
<1>6. CASE remaining_time[q] # d
  <2>1. /\ queue' \in Queues
        /\ \A m \in Levels : OnLevel(queue', m) = IF m = Demoted(l) THEN OnLevel(out, m) \cup {q}
                                                                    ELSE OnLevel(out, m)
    BY <1>2, <1>3, <1>4, <1>6, OnLevelQueued
  <2>2. \A m \in Levels : OnLevel(queue', m) = IF m = Demoted(l) THEN OnLevel(queue, m) \cup {q}
                                                                 ELSE OnLevel(queue, m) \ {q}
    BY <1>4, <2>1
  <2>3. QED
    BY <1>2, <1>4, <1>6, <2>1, <2>2
<1>7. QED
  BY <1>5, <1>6

LEMMA WithinStep ==
  ASSUME TypeOK, Within, Step
  PROVE  Within'
<1>1. ASSUME UNCHANGED processes
      PROVE  \A q \in Procs : Burst(q)' = Burst(q) /\ Burst(q) \in Nat /\ remaining_time[q] \in Nat
  BY <1>1, SameWorkload, InvFacts DEF TypeOK
<1>2. ASSUME NEW q \in Procs, NEW t \in Nat, NEW d \in Nat, GetsSlice(q, t, d) PROVE Within'
  <2>1. \A r \in Procs : remaining_time'[r] \in Nat /\ remaining_time'[r] <= remaining_time[r]
    BY <1>2, RemainingStep
  <2>2. UNCHANGED processes
    BY <1>2 DEF GetsSlice
  <2>3. QED
    BY <1>1, <2>1, <2>2 DEF Within
<1>3. ASSUME NEW q \in Procs, LastGrows(q) PROVE Within'
  <2>1. Execute(q, time, 1) /\ UNCHANGED processes
    BY <1>3 DEF LastGrows
  <2>2. \A r \in Procs : remaining_time'[r] = IF r = q THEN remaining_time[r] - 1 ELSE remaining_time[r]
    BY <2>1 DEF Execute, TypeOK
  <2>3. QED
    BY <1>1, <2>1, <2>2 DEF Within
<1>4. CASE LeavesCpu
  BY <1>1, <1>4 DEF LeavesCpu, Within
<1>5. CASE StartsAnew
  BY <1>1, <1>5 DEF StartsAnew, Within
<1>6. QED
  BY <1>2, <1>3, <1>4, <1>5 DEF Step

\* Whoever goes down a level has used one quantum more.
LEMMA AboveNext ==
  /\ 0 \in Levels /\ Above(0) = 0
  /\ \A l \in Levels : Above(l) \in Int /\ (l + 1 \in Levels => Above(l + 1) = Above(l) + Quanta[l])
<1>1. 0 \in Levels /\ \A l \in Levels : l \in Nat /\ Quanta[l] \in Nat /\ 0..(l - 1) \subseteq Levels
  BY SchedulerAssumption DEF Levels
<1>2. Above(0) = 0
  <2>1. 0..(0 - 1) = {}
    OBVIOUS
  <2>2. QED
    BY <2>1, SumEmpty DEF Above
<1>3. ASSUME NEW l \in Levels
      PROVE  Above(l) \in Int /\ (l + 1 \in Levels => Above(l + 1) = Above(l) + Quanta[l])
  <2> DEFINE S == 0..(l - 1)
  <2>1. IsFiniteSet(S) /\ l \notin S /\ \A x \in S \cup {l} : Quanta[x] \in Int
    <3>1. IsFiniteSet(S)
      BY <1>1, FS_Interval
    <3>2. QED
      BY <1>1, <3>1
  <2>2. 0..((l + 1) - 1) = S \cup {l}
    BY <1>1
  <2>3. Above(l) = Sum(Quanta, S)
    BY DEF Above
  <2> HIDE DEF S
  <2>4. Sum(Quanta, S) \in Int
    BY <2>1, SumInt
  <2>5. Sum(Quanta, S \cup {l}) = Sum(Quanta, S) + Quanta[l]
    BY <2>1, SumAdd
  <2>6. QED
    BY <2>2, <2>3, <2>4, <2>5 DEF Above
<1>4. QED
  BY <1>1, <1>2, <1>3

LEMMA OnLevelProcs ==
  ASSUME TypeOK
  PROVE  \A l \in Levels : OnLevel(queue, l) \subseteq Procs
<1>1. \A l \in Levels : queue[l] \in Seq(Procs)
  BY DEF TypeOK
<1>2. QED
  BY <1>1, ElementOfSeq DEF OnLevel

LEMMA DemotionKept ==
  ASSUME TypeOK, Demotion, Step, UNCHANGED queue
  PROVE  Demotion'
<1>1. ASSUME UNCHANGED processes
      PROVE  \A q \in Procs : Burst(q)' = Burst(q) /\ Burst(q) \in Nat /\ remaining_time[q] \in Nat
  BY <1>1, SameWorkload, InvFacts DEF TypeOK
<1>2. ASSUME UNCHANGED processes,
             \A r \in Procs : remaining_time'[r] \in Nat /\ remaining_time'[r] <= remaining_time[r]
      PROVE  Demotion'
  BY <1>1, <1>2, OnLevelProcs, AboveNext DEF Demotion
<1>3. ASSUME NEW q \in Procs, NEW t \in Nat, NEW d \in Nat, GetsSlice(q, t, d) PROVE Demotion'
  BY <1>2, <1>3, RemainingStep DEF GetsSlice
<1>4. ASSUME NEW q \in Procs, LastGrows(q) PROVE Demotion'
  <2>1. Execute(q, time, 1) /\ UNCHANGED processes /\ remaining_time[q] > 0
    BY <1>4 DEF LastGrows
  <2>2. \A r \in Procs : remaining_time'[r] = IF r = q THEN remaining_time[r] - 1 ELSE remaining_time[r]
    BY <2>1 DEF Execute, TypeOK
  <2>3. QED
    BY <1>1, <1>2, <2>1, <2>2
<1>5. CASE LeavesCpu
  BY <1>1, <1>2, <1>5 DEF LeavesCpu
<1>6. CASE StartsAnew
  BY <1>6 DEF StartsAnew, Demotion, OnLevel
<1>7. QED
  BY <1>3, <1>4, <1>5, <1>6 DEF Step

LEMMA DemotionStep ==
  ASSUME Inv, FifoSlices, Within, Demotion, [Next]_vars
  PROVE  Demotion'
<1>0. /\ TypeOK /\ Step
      /\ \A q \in Procs : Burst(q) \in Nat /\ remaining_time[q] \in Nat /\ remaining_time[q] <= Burst(q)
      /\ \A l \in Levels : OnLevel(queue, l) \subseteq Procs /\ Above(l) \in Int
      /\ Above(0) = 0 /\ 0 \in Levels
  BY Kinds, InvFacts, OnLevelProcs, AboveNext DEF Inv, TypeOK, Within
<1>1. CASE MlfqArrive
  <2>1. CASE i \in Ready \ in_queue
    <3>1. \A m \in Levels : OnLevel(queue', m) \subseteq OnLevel(queue, m) \cup {i} /\ i \in Procs
      BY <1>1, <2>1, Arrives
    <3>2. \A m \in Levels : m # 0 => OnLevel(queue', m) = OnLevel(queue, m)
      BY <1>1, <2>1, Arrives
    <3>3. UNCHANGED <<processes, remaining_time>>
      BY <1>1 DEF MlfqArrive
    <3>4. QED
      BY <1>0, <3>1, <3>2, <3>3, SameWorkload DEF Demotion
  <2>2. CASE i \notin Ready \ in_queue
    BY <1>0, <1>1, <2>2, DemotionKept DEF MlfqArrive
  <2>3. QED
    BY <2>1, <2>2
<1>2. CASE MlfqBoost
  <2>1. CASE queue[i] # <<>>
    <3>1. PICK x \in Procs :
            \A m \in Levels : OnLevel(queue', m) = IF m = 0 THEN OnLevel(queue, m) \cup {x}
                                                            ELSE OnLevel(queue, m) \ {x}
      BY <1>2, <2>1, Boosts
    <3>2. UNCHANGED <<processes, remaining_time>>
      BY <1>2 DEF MlfqBoost
    <3>3. QED
      BY <1>0, <3>1, <3>2, SameWorkload DEF Demotion
  <2>2. CASE queue[i] = <<>>
    BY <1>0, <1>2, <2>2, DemotionKept DEF MlfqBoost
  <2>3. QED
    BY <2>1, <2>2
<1>3. CASE MlfqRun
  <2>1. PICK l \in Levels, q \in Procs, d \in Nat : Selects(l, q, d) /\ GetsSlice(q, time, d)
    BY <1>3, MlfqSlice
  <2>2. /\ q \in OnLevel(queue, l) /\ Demoted(l) \in Levels
        /\ \A m \in Levels : OnLevel(queue', m) =
             IF remaining_time[q] # d /\ m = Demoted(l) THEN OnLevel(queue, m) \cup {q}
                                                        ELSE OnLevel(queue, m) \ {q}
    BY <1>3, <2>1, Selected DEF MlfqRun
  <2>3. /\ remaining_time'[q] = remaining_time[q] - d /\ time \in Nat
        /\ \A r \in Procs : remaining_time'[r] \in Nat /\ remaining_time'[r] <= remaining_time[r]
    BY <1>0, <2>1, RemainingStep DEF TypeOK
  <2>4. \A r \in Procs : Burst(r)' = Burst(r)
    BY <2>1, SameWorkload DEF GetsSlice
  <2>5. remaining_time[q] # d => Burst(q) - remaining_time'[q] >= Above(Demoted(l))
    <3>1. SUFFICES ASSUME remaining_time[q] # d PROVE Burst(q) - remaining_time'[q] >= Above(Demoted(l))
      OBVIOUS
    <3>2. Quanta[l] \in Nat /\ l \in Nat /\ NumQueues \in Nat
      BY SchedulerAssumption DEF Levels
    <3>3. d = Quanta[l]
      BY <1>0, <2>1, <3>1, <3>2 DEF Selects, AtMost
    <3>4. Burst(q) - remaining_time[q] >= Above(l)
      BY <2>2 DEF Demotion
    <3>5. Demoted(l) = l \/ Demoted(l) = l + 1
      BY <2>2, <3>2 DEF Demoted, AtMost, Levels
    <3>6. Above(Demoted(l)) <= Above(l) + Quanta[l]
      BY <1>0, <2>2, <3>2, <3>5, AboveNext
    <3>7. /\ Burst(q) \in Int /\ remaining_time[q] \in Int /\ Quanta[l] \in Int
          /\ Above(l) \in Int /\ Above(Demoted(l)) \in Int
      <4>1. Above(l) \in Int /\ Above(Demoted(l)) \in Int
        BY <2>2, AboveNext
      <4>2. QED
        BY <1>0, <3>2, <4>1
    <3>8. remaining_time'[q] = remaining_time[q] - Quanta[l]
      BY <2>3, <3>3
    <3>9. QED
      BY <3>4, <3>6, <3>7, <3>8
  <2>6. ASSUME NEW m \in Levels, NEW r \in OnLevel(queue', m)
        PROVE  Burst(r) - remaining_time'[r] >= Above(m)
    <3>1. CASE r = q /\ m = Demoted(l) /\ remaining_time[q] # d
      BY <2>5, <3>1
    <3>2. CASE ~(r = q /\ m = Demoted(l) /\ remaining_time[q] # d)
      <4>1. r \in OnLevel(queue, m)
        BY <2>2, <2>6, <3>2
      <4>2. Burst(r) - remaining_time[r] >= Above(m) /\ r \in Procs
        BY <1>0, <4>1 DEF Demotion
      <4>3. QED
        BY <1>0, <2>3, <4>2
    <3>3. QED
      BY <3>1, <3>2
  <2>7. \A m \in Levels : OnLevel(queue', m) \subseteq Procs
    BY <1>0, <2>2
  <2>8. QED
    BY <2>4, <2>6, <2>7 DEF Demotion
<1>4. CASE NextAlgorithm
  BY <1>4 DEF NextAlgorithm, Demotion, OnLevel
<1>5. CASE FifoSwap \/ FifoSortNext \/ FifoRun \/ SjfRun \/ SjfIdle \/ StcfRun \/ StcfIdle \/ RrVisit \/ RrPassEnds
  BY <1>0, <1>5, DemotionKept
     DEF FifoSwap, FifoSortNext, FifoRun, SjfRun, SjfIdle, StcfRun, StcfIdle, RrVisit, RrPassEnds
<1>6. CASE MlfqArrived \/ MlfqBoosted \/ MlfqIdle \/ UNCHANGED vars
  BY <1>0, <1>6, DemotionKept DEF MlfqArrived, MlfqBoosted, MlfqIdle
<1>7. QED
  BY <1>1, <1>2, <1>3, <1>4, <1>5, <1>6 DEF Next

LEMMA Demotions ==
  ASSUME TypeOK, Demotion
  PROVE  DemotedByQuanta
<1> SUFFICES ASSUME NEW l \in Levels, NEW n \in DOMAIN queue[l]
             PROVE  Burst(queue[l][n]) - remaining_time[queue[l][n]] >=
                      MapThenSumSet(LAMBDA h : Quanta[h], 0..(l - 1))
  BY DEF DemotedByQuanta
<1>1. l \in Nat /\ l < NumQueues
  BY SchedulerAssumption DEF Levels
<1>2. n \in 1..Len(queue[l])
  BY LenProperties DEF TypeOK
<1>3. queue[l][n] \in OnLevel(queue, l)
  BY <1>2 DEF OnLevel
<1>4. Burst(queue[l][n]) - remaining_time[queue[l][n]] >= Above(l)
  BY <1>3 DEF Demotion
<1>5. MapThenSumSet(LAMBDA h : Quanta[h], 0..(l - 1)) = Above(l)
  BY <1>1, QuantaAbove DEF Above
<1>6. QED
  BY <1>4, <1>5

-----------------------------------------------------------------------------
(* The lengths of the arrays.                                              *)

LEMMA RanInt ==
  ASSUME TypeOK
  PROVE  /\ IsFiniteSet(Procs)
         /\ \A q \in Procs : Ran(processes, remaining_time)[q] = Burst(q) - remaining_time[q]
                               /\ Burst(q) \in Nat /\ remaining_time[q] \in Nat
<1>1. IsFiniteSet(Procs)
  BY SchedulerAssumption, FS_Interval DEF Procs
<1>2. QED
  BY <1>1, InvFacts DEF Ran, Burst, TypeOK

LEMMA RanMore ==
  ASSUME NEW f, NEW g, NEW q \in Procs, NEW d \in Nat,
         \A r \in Procs : f[r] \in Int /\ g[r] = f[r] + IF r = q THEN d ELSE 0
  PROVE  Sum(g, Procs) = Sum(f, Procs) + d
<1>1. IsFiniteSet(Procs)
  BY SchedulerAssumption, FS_Interval DEF Procs
<1>2. \A r \in Procs : f[r] \in Int /\ g[r] \in Int /\ (r # q => g[r] = f[r])
  OBVIOUS
<1>3. Sum(g, Procs) = Sum(f, Procs) + (g[q] - f[q])
  BY <1>1, <1>2, SumChange
<1>4. g[q] - f[q] = d
  OBVIOUS
<1>5. QED
  BY <1>3, <1>4

LEMMA ExecutedMore ==
  ASSUME TypeOK, NEW q \in Procs, NEW d \in Nat, UNCHANGED processes,
         \A r \in Procs : remaining_time'[r] = remaining_time[r] - IF r = q THEN d ELSE 0
  PROVE  Executed' = Executed + d
<1> DEFINE f == Ran(processes, remaining_time)
           g == Ran(processes', remaining_time')
<1>1. \A r \in Procs : f[r] \in Int /\ g[r] = f[r] + IF r = q THEN d ELSE 0
  <2>1. \A r \in Procs : g[r] = Burst(r) - remaining_time'[r]
    BY DEF Ran, Burst
  <2>2. QED
    BY <2>1, RanInt
<1>2. Executed = Sum(f, Procs) /\ Executed' = Sum(g, Procs)
  BY ExecutedOf
<1> HIDE DEF f, g
<1>3. QED
  BY <1>1, <1>2, RanMore

LEMMA ExecutedNone ==
  /\ (\A q \in Procs : remaining_time[q] = Burst(q) /\ Burst(q) \in Nat) => Executed = 0
  /\ (\A q \in Procs : remaining_time'[q] = Burst(q)' /\ Burst(q)' \in Nat) => Executed' = 0
<1>1. IsFiniteSet(Procs)
  BY SchedulerAssumption, FS_Interval DEF Procs
<1>2. ASSUME \A q \in Procs : remaining_time[q] = Burst(q) /\ Burst(q) \in Nat PROVE Executed = 0
  <2> DEFINE f == Ran(processes, remaining_time)
  <2>1. \A q \in Procs : f[q] = 0
    BY <1>2 DEF Ran, Burst
  <2>2. Executed = Sum(f, Procs)
    BY ExecutedOf
  <2> HIDE DEF f
  <2>3. QED
    BY <1>1, <2>1, <2>2, ZeroSum
<1>3. ASSUME \A q \in Procs : remaining_time'[q] = Burst(q)' /\ Burst(q)' \in Nat PROVE Executed' = 0
  <2> DEFINE f == Ran(processes', remaining_time')
  <2>1. \A q \in Procs : f[q] = 0
    BY <1>3 DEF Ran, Burst
  <2>2. Executed' = Sum(f, Procs)
    BY ExecutedOf
  <2> HIDE DEF f
  <2>3. QED
    BY <1>1, <2>1, <2>2, ZeroSum
<1>4. QED
  BY <1>2, <1>3

LEMMA ExecutedStep ==
  ASSUME TypeOK, Executed \in Nat, Step
  PROVE  /\ Executed' \in Nat
         /\ \A q \in Procs : \A t \in Nat, d \in Nat : GetsSlice(q, t, d) => Executed' = Executed + d
         /\ \A q \in Procs : LastGrows(q) => Executed' = Executed + 1
         /\ LeavesCpu => Executed' = Executed
<1>1. ASSUME NEW q \in Procs, NEW t \in Nat, NEW d \in Nat, GetsSlice(q, t, d)
      PROVE  Executed' = Executed + d
  <2>1. \A r \in Procs : remaining_time'[r] = remaining_time[r] - IF r = q THEN d ELSE 0
    <3>1. /\ remaining_time'[q] = remaining_time[q] - d
          /\ \A r \in Procs : remaining_time[r] \in Nat /\ (r # q => remaining_time'[r] = remaining_time[r])
      BY <1>1, RemainingStep
    <3>2. QED
      BY <3>1
  <2>2. UNCHANGED processes
    BY <1>1 DEF GetsSlice
  <2>3. QED
    BY <2>1, <2>2, ExecutedMore
<1>2. ASSUME NEW q \in Procs, LastGrows(q) PROVE Executed' = Executed + 1
  <2>1. Execute(q, time, 1) /\ UNCHANGED processes
    BY <1>2 DEF LastGrows
  <2>2. \A r \in Procs : remaining_time'[r] = remaining_time[r] - IF r = q THEN 1 ELSE 0
    BY <2>1 DEF Execute, TypeOK
  <2>3. QED
    BY <2>1, <2>2, ExecutedMore
<1>3. LeavesCpu => Executed' = Executed
  BY ExecutedOf DEF LeavesCpu
<1>4. StartsAnew => Executed' = 0
  <2>1. StartsAnew => \A q \in Procs : remaining_time'[q] = Burst(q)' /\ Burst(q)' \in Nat
    BY SameWorkload, InvFacts DEF StartsAnew
  <2>2. QED
    BY <2>1, ExecutedNone
<1>5. QED
  BY <1>1, <1>2, <1>3, <1>4 DEF Step

LEMMA ProcsCard ==
  /\ IsFiniteSet(Procs) /\ Cardinality(Procs) = N
  /\ \A S : S \subseteq Procs => IsFiniteSet(S) /\ Cardinality(S) \in Nat /\ Cardinality(S) <= N
  /\ \A S, T : T \subseteq Procs /\ S \subseteq T => Cardinality(S) <= Cardinality(T)
<1>1. IsFiniteSet(Procs) /\ Cardinality(Procs) = N
  BY SchedulerAssumption, FS_Interval DEF Procs
<1>2. \A S : S \subseteq Procs => IsFiniteSet(S) /\ Cardinality(S) \in Nat /\ Cardinality(S) <= N
  BY <1>1, FS_Subset, FS_CardinalityType
<1>3. \A S, T : T \subseteq Procs /\ S \subseteq T => Cardinality(S) <= Cardinality(T)
  BY <1>2, FS_Subset
<1>4. QED
  BY <1>1, <1>2, <1>3

\* The timeline has at most one entry for each unit executed, except that a
\* process without a burst gets one from FIFO.
LEMMA LengthStep ==
  ASSUME Inv, FifoSlices, Executed \in Nat, StcfLast, alg # "FIFO" => Len(timeline) <= Executed,
         [Next]_vars
  PROVE  alg' # "FIFO" => Len(timeline') <= Executed'
<1>0. TypeOK /\ Step /\ Len(timeline) \in Nat
  BY Kinds, TimelineFacts DEF Inv
<1>1. ASSUME NEW q \in Procs, NEW t \in Nat, NEW d \in Nat, GetsSlice(q, t, d), alg' # "FIFO"
      PROVE  Len(timeline') <= Executed'
  <2>1. alg # "FIFO" /\ d # 0
    BY <1>1 DEF GetsSlice
  <2>2. Len(timeline') = Len(timeline) + 1
    BY <1>0, <1>1, SliceAdded
  <2>3. Executed' = Executed + d
    BY <1>0, <1>1, ExecutedStep
  <2>4. QED
    BY <1>0, <2>1, <2>2, <2>3
<1>2. ASSUME NEW q \in Procs, LastGrows(q), alg' # "FIFO" PROVE Len(timeline') <= Executed'
  <2>1. alg # "FIFO"
    BY <1>2 DEF LastGrows
  <2>2. last_pid # -1
    BY <1>0, <1>2, InvFacts, SchedulerAssumption DEF LastGrows, Procs
  <2>3. Len(timeline') = Len(timeline)
    BY <1>0, <1>2, <2>2, SliceGrown DEF StcfLast
  <2>4. Executed' = Executed + 1
    BY <1>0, <1>2, ExecutedStep
  <2>5. QED
    BY <1>0, <2>1, <2>3, <2>4
<1>3. CASE LeavesCpu
  BY <1>0, <1>3, ExecutedStep DEF LeavesCpu
<1>4. CASE StartsAnew
  <2>1. Len(timeline') = 0 /\ Executed' \in Nat
    BY <1>0, <1>4, ExecutedStep DEF StartsAnew
  <2>2. QED
    BY <2>1
<1>5. QED
  BY <1>0, <1>1, <1>2, <1>3, <1>4 DEF Step

\* What MLFQ has written into its queues.
Tails ==
  /\ tail[0] + Cardinality(Below(queue)) <= Cardinality(Seen) + Executed
  /\ \A l \in Levels \ {0} : tail[l] <= Executed

LEMMA TailsKept ==
  ASSUME TypeOK, Tails, Executed \in Nat, Step, alg = "MLFQ", UNCHANGED <<queueVars, alg>>,
         UNCHANGED remaining_time
  PROVE  Tails'
<1>1. UNCHANGED processes /\ Executed' = Executed
  BY ExecutedOf DEF Step, GetsSlice, LastGrows, LeavesCpu, StartsAnew
<1>2. Below(queue)' = Below(queue) /\ Seen' = Seen
  BY DEF Below, OnLevel, Seen, Done
<1>3. QED
  BY <1>1, <1>2 DEF Tails

LEMMA TailsStep ==
  ASSUME Inv, FifoSlices, Executed \in Nat, Tails, alg = "MLFQ", alg' = "MLFQ", [Next]_vars
  PROVE  Tails'
<1>0. /\ TypeOK /\ Step /\ 0 \in Levels /\ tail \in [Levels -> Nat]
      /\ in_queue \subseteq Procs /\ Done \subseteq Procs /\ Seen \subseteq Procs /\ Below(queue) \subseteq Procs
  BY Kinds, AboveNext DEF Inv, TypeOK, Done, Seen, Below
<1>1. /\ Cardinality(Seen) \in Nat /\ Cardinality(Below(queue)) \in Nat
      /\ IsFiniteSet(Seen) /\ IsFiniteSet(Below(queue))
  BY <1>0, ProcsCard
<1>2. CASE MlfqArrive
  <2>1. CASE i \in Ready \ in_queue
    <3>1. /\ tail' = [tail EXCEPT ![0] = @ + 1] /\ in_queue' = in_queue \cup {i} /\ i \in Procs
          /\ \A m \in Levels : OnLevel(queue', m) = IF m = 0 THEN OnLevel(queue, m) \cup {i}
                                                             ELSE OnLevel(queue, m)
      BY <1>2, <2>1, Arrives
    <3>2. UNCHANGED <<processes, remaining_time>>
      BY <1>2 DEF MlfqArrive
    <3>3. Executed' = Executed
      BY <3>2, ExecutedOf
    <3>4. Below(queue') = Below(queue)
      BY <3>1 DEF Below
    <3>5. Seen' = Seen \cup {i} /\ i \notin Seen
      BY <2>1, <3>1, <3>2 DEF Seen, Done, Ready
    <3>6. Cardinality(Seen') = Cardinality(Seen) + 1
      BY <1>1, <3>5, FS_AddElement
    <3>7. tail'[0] = tail[0] + 1 /\ tail[0] \in Nat /\ \A l \in Levels \ {0} : tail'[l] = tail[l]
      BY <1>0, <3>1
    <3>8. tail'[0] + Cardinality(Below(queue')) <= Cardinality(Seen') + Executed'
      BY <1>1, <3>3, <3>4, <3>6, <3>7 DEF Tails
    <3>9. QED
      BY <3>3, <3>7, <3>8 DEF Tails
  <2>2. CASE i \notin Ready \ in_queue
    BY <1>0, <1>2, <2>2, TailsKept DEF MlfqArrive
  <2>3. QED
    BY <2>1, <2>2
<1>3. CASE MlfqBoost
  <2>0. UNCHANGED <<processes, remaining_time, in_queue>>
    BY <1>3 DEF MlfqBoost
  <2>1. Executed' = Executed /\ Seen' = Seen
    BY <2>0, ExecutedOf DEF Seen, Done
  <2>2. CASE queue[i] # <<>>
    <3>1. PICK x \in Procs :
            /\ x \in OnLevel(queue, i)
            /\ \A m \in Levels : OnLevel(queue', m) = IF m = 0 THEN OnLevel(queue, m) \cup {x}
                                                               ELSE OnLevel(queue, m) \ {x}
      BY <1>3, <2>2, Boosts
    <3>2. tail' = [tail EXCEPT ![0] = @ + 1] /\ i \in Levels \ {0}
      BY <1>3, <2>2, Boosts
    <3>3. Below(queue') = Below(queue) \ {x} /\ x \in Below(queue)
      BY <3>1, <3>2 DEF Below
    <3>4. Cardinality(Below(queue')) = Cardinality(Below(queue)) - 1
      BY <1>1, <3>3, FS_RemoveElement
    <3>5. tail'[0] = tail[0] + 1 /\ tail[0] \in Nat /\ \A l \in Levels \ {0} : tail'[l] = tail[l]
      BY <1>0, <3>2
    <3>6. tail'[0] + Cardinality(Below(queue')) <= Cardinality(Seen') + Executed'
      BY <1>1, <2>1, <3>4, <3>5 DEF Tails
    <3>7. QED
      BY <2>1, <3>5, <3>6 DEF Tails
  <2>3. CASE queue[i] = <<>>
    <3>1. tail' = [tail EXCEPT ![i] = 0] /\ UNCHANGED queue /\ i # 0
      BY <1>0, <1>3, <2>3 DEF MlfqBoost, TypeOK
    <3>2. tail'[0] = tail[0] /\ \A l \in Levels \ {0} : tail'[l] \in {0, tail[l]}
      BY <1>0, <3>1
    <3>3. Below(queue)' = Below(queue)
      BY <3>1 DEF Below, OnLevel
    <3>4. \A l \in Levels \ {0} : tail'[l] <= Executed
      BY <3>2 DEF Tails
    <3>5. QED
      BY <2>1, <3>2, <3>3, <3>4 DEF Tails
  <2>4. QED
    BY <2>2, <2>3
<1>4. CASE MlfqRun
  <2>1. PICK l \in Levels, q \in Procs, d \in Nat : Selects(l, q, d) /\ GetsSlice(q, time, d)
    BY <1>4, MlfqSlice
  <2>2. /\ q \in OnLevel(queue, l) /\ Demoted(l) \in Levels
        /\ \A m \in Levels : OnLevel(queue', m) =
             IF remaining_time[q] # d /\ m = Demoted(l) THEN OnLevel(queue, m) \cup {q}
                                                        ELSE OnLevel(queue, m) \ {q}
    BY <2>1, Selected
  <2>3. time \in Nat
    BY <1>0 DEF TypeOK
  <2>4. Executed' = Executed + d /\ d >= 1
    BY <1>0, <2>1, <2>3, ExecutedStep DEF Selects
  <2>5. /\ remaining_time'[q] = remaining_time[q] - d /\ remaining_time[q] \in Nat
        /\ \A r \in Procs : r # q => remaining_time'[r] = remaining_time[r]
    BY <1>0, <2>1, <2>3, RemainingStep
  <2>6. q \in in_queue
    BY <2>1 DEF Selects
  <2>7. Seen' = Seen
    <3>1. CASE remaining_time[q] = d
      <4>1. in_queue' = in_queue \ {q}
        BY <2>1, <3>1 DEF Selects
      <4>2. Done' = Done \cup {q}
        BY <2>5, <3>1 DEF Done
      <4>3. QED
        BY <2>6, <4>1, <4>2 DEF Seen
    <3>2. CASE remaining_time[q] # d
      <4>1. in_queue' = in_queue
        BY <2>1, <3>2 DEF Selects
      <4>2. Done' \cup in_queue = Done \cup in_queue
        BY <2>5, <2>6, <3>2 DEF Done
      <4>3. QED
        BY <4>1, <4>2 DEF Seen
    <3>3. QED
      BY <3>1, <3>2
  <2>8. CASE remaining_time[q] = d
    <3>1. tail' = tail /\ Below(queue') \subseteq Below(queue)
      BY <2>1, <2>2, <2>8 DEF Selects, Below
    <3>2. Cardinality(Below(queue')) <= Cardinality(Below(queue)) /\ Cardinality(Below(queue')) \in Nat
      BY <1>0, <3>1, ProcsCard
    <3>3. tail'[0] + Cardinality(Below(queue')) <= Cardinality(Seen') + Executed'
      BY <1>0, <1>1, <2>4, <2>7, <3>1, <3>2 DEF Tails
    <3>4. \A m \in Levels \ {0} : tail'[m] <= Executed'
      BY <1>0, <2>4, <3>1 DEF Tails
    <3>5. QED
      BY <3>3, <3>4 DEF Tails
  <2>9. CASE remaining_time[q] # d
    <3>1. tail' = [tail EXCEPT ![Demoted(l)] = @ + 1]
      BY <2>1, <2>9 DEF Selects
    <3>2. \A m \in Levels : tail'[m] = tail[m] + (IF m = Demoted(l) THEN 1 ELSE 0) /\ tail[m] \in Nat
      BY <1>0, <3>1
    <3>3. \A m \in Levels \ {0} : tail'[m] <= Executed'
      BY <2>4, <3>2 DEF Tails
    <3>4. CASE Demoted(l) = 0
      <4>1. Levels \ {0} = {}
        BY <3>4, SchedulerAssumption DEF Demoted, AtMost, Levels
      <4>2. Below(queue') = {} /\ Below(queue) = {}
        BY <4>1 DEF Below
      <4>3. tail'[0] + Cardinality(Below(queue')) <= Cardinality(Seen') + Executed'
        BY <1>0, <1>1, <2>4, <2>7, <3>2, <3>4, <4>2 DEF Tails
      <4>4. QED
        BY <3>3, <4>3 DEF Tails
    <3>5. CASE Demoted(l) # 0
      <4>1. Below(queue') \subseteq Below(queue) \cup {q} /\ Below(queue) \cup {q} \subseteq Procs
        BY <1>0, <2>2 DEF Below
      <4>2. Cardinality(Below(queue) \cup {q}) <= Cardinality(Below(queue)) + 1
        <5> DEFINE B == Below(queue)
        <5>1. IsFiniteSet(B) /\ Cardinality(B) \in Nat
          BY <1>1
        <5> HIDE DEF B
        <5>2. Cardinality(B \cup {q}) = IF q \in B THEN Cardinality(B) ELSE Cardinality(B) + 1
          BY <5>1, FS_AddElement
        <5>3. Cardinality(B \cup {q}) <= Cardinality(B) + 1
          BY <5>1, <5>2
        <5>4. QED
          BY <5>3 DEF B
      <4>3. /\ Cardinality(Below(queue')) <= Cardinality(Below(queue) \cup {q})
            /\ Cardinality(Below(queue')) \in Nat /\ Cardinality(Below(queue) \cup {q}) \in Nat
        BY <4>1, ProcsCard
      <4>4. tail'[0] = tail[0] /\ tail[0] \in Nat
        BY <1>0, <3>2, <3>5
      <4>5. tail'[0] + Cardinality(Below(queue')) <= Cardinality(Seen') + Executed'
        BY <1>1, <2>4, <2>7, <4>2, <4>3, <4>4 DEF Tails
      <4>6. QED
        BY <3>3, <4>5 DEF Tails
    <3>6. QED
      BY <3>4, <3>5
  <2>10. QED
    BY <2>8, <2>9
<1>5. CASE MlfqArrived \/ MlfqBoosted \/ MlfqIdle \/ UNCHANGED vars
  BY <1>0, <1>5, TailsKept DEF MlfqArrived, MlfqBoosted, MlfqIdle, Tick
<1>6. CASE NextAlgorithm
  BY <1>6 DEF NextAlgorithm, After
<1>7. CASE FifoSwap \/ FifoSortNext \/ FifoRun \/ SjfRun \/ SjfIdle \/ StcfRun \/ StcfIdle \/ RrVisit \/ RrPassEnds
  BY <1>7 DEF FifoSwap, FifoSortNext, FifoRun, SjfRun, SjfIdle, StcfRun, StcfIdle, RrVisit, RrPassEnds
<1>8. QED
  BY <1>2, <1>3, <1>4, <1>5, <1>6, <1>7 DEF Next

LEMMA CountedStep ==
  ASSUME Inv, FifoSlices, StcfLast, Counted, [Next]_vars
  PROVE  Counted'
<1>0. TypeOK /\ Step /\ Executed \in Nat
  BY Kinds DEF Inv, Counted
<1>1. Executed' \in Nat
  BY <1>0, ExecutedStep
<1>2. alg' # "FIFO" => Len(timeline') <= Executed'
  BY LengthStep DEF Counted
<1>3. alg = "MLFQ" /\ alg' = "MLFQ" => Tails'
  BY TailsStep DEF Counted, Tails
<1>4. CASE NextAlgorithm
  <2>1. /\ queue' = [l \in Levels |-> <<>>] /\ tail' = [l \in Levels |-> 0] /\ 0 \in Levels
    BY <1>4, AboveNext DEF NextAlgorithm
  <2>2. Below(queue') = {} /\ tail'[0] = 0 /\ \A l \in Levels \ {0} : tail'[l] = 0
    BY <2>1 DEF Below, OnLevel
  <2>3. Cardinality(Below(queue')) = 0
    BY <2>2, FS_EmptySet
  <2>4. remaining_time' = [q \in Procs |-> Burst(q)]
    BY <1>4 DEF NextAlgorithm
  <2>5. in_queue' \cup Done' \subseteq Procs
    BY <1>4 DEF NextAlgorithm, Done
  <2>6. Cardinality(Seen') \in Nat
    BY <2>5, ProcsCard DEF Seen
  <2>7. Tails'
    BY <1>1, <2>2, <2>3, <2>6 DEF Tails
  <2>8. \A l \in Levels : tail'[l] = 0
    BY <2>1
  <2>9. QED
    BY <1>1, <1>2, <2>7, <2>8 DEF Counted, Tails
<1>5. ASSUME alg' = alg, alg # "MLFQ", UNCHANGED tail PROVE Counted'
  BY <1>1, <1>2, <1>5 DEF Counted
<1>6. ASSUME alg' = alg, alg = "MLFQ" PROVE Counted'
  BY <1>1, <1>2, <1>3, <1>6 DEF Counted, Tails
<1>7. CASE FifoSwap \/ FifoSortNext \/ FifoRun \/ SjfRun \/ SjfIdle \/ StcfRun \/ StcfIdle \/ RrVisit \/ RrPassEnds
  BY <1>5, <1>7 DEF FifoSwap, FifoSortNext, FifoRun, SjfRun, SjfIdle, StcfRun, StcfIdle, RrVisit, RrPassEnds
<1>8. CASE \/ MlfqArrive \/ MlfqArrived \/ MlfqBoost \/ MlfqBoosted \/ MlfqRun \/ MlfqIdle
  BY <1>6, <1>8 DEF MlfqArrive, MlfqArrived, MlfqBoost, MlfqBoosted, MlfqRun, MlfqIdle
<1>9. CASE UNCHANGED vars
  BY <1>5, <1>6, <1>9
<1>10. QED
  BY <1>4, <1>7, <1>8, <1>9 DEF Next

-----------------------------------------------------------------------------
(* All of it together.                                                     *)

TimelineInv ==
  /\ Inv /\ FifoSlices
  /\ Timed /\ StcfLast /\ Starts
  /\ TurnTaken /\ RoundRobinFair
  /\ Within /\ Demotion /\ Counted

LEMMA TimelineInit == Init => TimelineInv
<1> SUFFICES ASSUME Init PROVE TimelineInv
  OBVIOUS
<1>1. Inv /\ TypeOK
  BY InitInv DEF Inv
<1>2. /\ alg = "FIFO" /\ timeline = <<>> /\ last_pid = -1 /\ time = 0 /\ pc = "sort"
      /\ remaining_time = [q \in Procs |-> Burst(q)] /\ start_time = [q \in Procs |-> 0]
      /\ queue = [l \in Levels |-> <<>>] /\ tail = [l \in Levels |-> 0]
  BY DEF Init
<1>3. \A q \in Procs : remaining_time[q] = Burst(q) /\ Burst(q) \in Nat
  BY <1>1, <1>2, InvFacts
<1>4. DOMAIN timeline = {} /\ \A q \in Procs : SlicesOf(q) = {} /\ Used(q) = 0
  BY <1>2, NoSlices
<1>5. FifoSlices
  BY <1>2 DEF FifoSlices
<1>6. Timed
  <2>1. Apart /\ AfterArrival
    BY <1>4 DEF Apart, AfterArrival
  <2>2. Accounted
    BY <1>3, <1>4 DEF Accounted
  <2>3. EndsAtCompletion
    BY <1>3 DEF EndsAtCompletion
  <2>4. QED
    BY <2>1, <2>2, <2>3 DEF Timed
<1>7. StcfLast /\ Starts
  BY <1>2, <1>4 DEF StcfLast, Starts
<1>8. TurnTaken /\ RoundRobinFair
  BY <1>2 DEF TurnTaken, RoundRobinFair
<1>9. Within
  BY <1>3 DEF Within
<1>10. Demotion
  BY <1>2 DEF Demotion, OnLevel
<1>11. Counted
  <2>1. Executed = 0
    BY <1>3, ExecutedNone
  <2>2. QED
    BY <1>2, <2>1 DEF Counted
<1>12. QED
  BY <1>1, <1>5, <1>6, <1>7, <1>8, <1>9, <1>10, <1>11 DEF TimelineInv

LEMMA TimelineNext == TimelineInv /\ [Next]_vars => TimelineInv'
<1> SUFFICES ASSUME TimelineInv, [Next]_vars PROVE TimelineInv'
  OBVIOUS
<1>1. /\ Inv /\ FifoSlices /\ Timed /\ StcfLast /\ Starts /\ TurnTaken /\ RoundRobinFair
      /\ Within /\ Demotion /\ Counted /\ TypeOK /\ Apart
  BY DEF TimelineInv, Inv, Timed
<1>2. Step
  BY <1>1, Kinds
<1>3. Inv'
  BY <1>1, NextInv
<1>4. FifoSlices'
  BY <1>1, FifoSlicesStep
<1>5. Timed'
  BY <1>1, <1>2, TimedStep
<1>6. StcfLast'
  BY <1>1, StcfLastStep
<1>7. Starts'
  BY <1>1, <1>2, StartsStep
<1>8. TurnTaken' /\ RoundRobinFair'
  BY <1>1, TurnsStep
<1>9. Within'
  BY <1>1, <1>2, WithinStep
<1>10. Demotion'
  BY <1>1, DemotionStep
<1>11. Counted'
  BY <1>1, CountedStep
<1>12. QED
  BY <1>3, <1>4, <1>5, <1>6, <1>7, <1>8, <1>9, <1>10, <1>11 DEF TimelineInv

LEMMA TimelineInvariance == Spec => []TimelineInv
BY TimelineInit, TimelineNext, PTL DEF Spec

LEMMA MaxIs ==
  ASSUME NEW S, S \subseteq Int, NEW m \in S, \A y \in S : y <= m
  PROVE  Max(S) = m
<1>1. m \in S /\ \A y \in S : m >= y
  OBVIOUS
<1>2. Max(S) \in S /\ \A y \in S : Max(S) >= y
  BY <1>1 DEF Max
<1>3. Max(S) >= m /\ m >= Max(S) /\ m \in Int /\ Max(S) \in Int
  BY <1>1, <1>2
<1>4. QED
  BY <1>3

\* "timeline_event_t tracks when each PID runs and for how long", on any
\* workload and under each algorithm: the slices do not overlap, nobody runs
\* before he arrives, what he has got adds up to what he has used, and his
\* last slice ends at his completion time.
THEOREM ScheduleDrawn == Spec => []TimelineIsTheSchedule
<1>1. TimelineInv => TimelineIsTheSchedule
  <2> SUFFICES ASSUME TimelineInv PROVE TimelineIsTheSchedule
    OBVIOUS
  <2>1. TypeOK /\ Apart /\ AfterArrival /\ Accounted /\ EndsAtCompletion
    BY DEF TimelineInv, Inv, Timed
  <2>2. /\ DOMAIN timeline = 1..Len(timeline) /\ Len(timeline) \in Nat
        /\ \A a \in DOMAIN timeline : SliceEnd(a) \in Nat
        /\ \A q \in Procs : SlicesOf(q) \subseteq DOMAIN timeline
    BY <2>1, TimelineFacts
  <2>3. ASSUME NEW a \in DOMAIN timeline
        PROVE  SliceEnd(a) <= IF a = Len(timeline) THEN time ELSE timeline[a + 1].time
    <3>1. CASE a = Len(timeline)
      BY <2>1, <3>1 DEF Apart
    <3>2. CASE a # Len(timeline)
      <4>1. a + 1 \in DOMAIN timeline /\ a < a + 1
        BY <2>2, <3>2
      <4>2. SliceEnd(a) <= timeline[a + 1].time
        BY <2>1, <4>1 DEF Apart
      <4>3. QED
        BY <3>2, <4>2
    <3>3. QED
      BY <3>1, <3>2
  <2>4. ASSUME NEW q \in Procs, remaining_time[q] = 0, Burst(q) > 0
        PROVE  completion_time[q] = Max({SliceEnd(a) : a \in SlicesOf(q)})
    <3> DEFINE S == {SliceEnd(a) : a \in SlicesOf(q)}
    <3>1. S \subseteq Int
      BY <2>2
    <3>2. completion_time[q] \in S /\ \A y \in S : y <= completion_time[q]
      BY <2>1, <2>4 DEF EndsAtCompletion
    <3> HIDE DEF S
    <3>3. Max(S) = completion_time[q]
      BY <3>1, <3>2, MaxIs
    <3>4. QED
      BY <3>3 DEF S
  <2>5. QED
    BY <2>1, <2>3, <2>4 DEF TimelineIsTheSchedule, AfterArrival, Accounted
<1>2. QED
  BY <1>1, TimelineInvariance, PTL

\* start_time is the "first time scheduled", under each algorithm and on any
\* workload, for everybody whose first slice is not at time 0: whatever preempts
\* him later, it stays the start of that slice.
THEOREM StartTimesRight == Spec => []LateStartIsFirstSlice
<1>1. TimelineInv => LateStartIsFirstSlice
  <2> SUFFICES ASSUME TimelineInv, NEW q \in Procs, SlicesOf(q) # {},
                      timeline[Min(SlicesOf(q))].time > 0
               PROVE  start_time[q] = timeline[Min(SlicesOf(q))].time
    BY DEF LateStartIsFirstSlice
  <2>1. TypeOK /\ Starts
    BY DEF TimelineInv, Inv
  <2>2. SlicesOf(q) \in SUBSET Nat
    BY <2>1, TimelineFacts
  <2>3. Min(SlicesOf(q)) \in SlicesOf(q) /\ \A y \in SlicesOf(q) : Min(SlicesOf(q)) <= y
    BY <2>2, LeastElement
  <2>4. First(q, Min(SlicesOf(q)))
    BY <2>3 DEF First
  <2>5. QED
    BY <2>1, <2>3, <2>4 DEF Starts
<1>2. QED
  BY <1>1, TimelineInvariance, PTL

\* "Good for ... fairness", for any number of processes and any quantum: no
\* process gets a second slice before everybody else who was there has got one.
THEOREM TurnsAreTaken == Spec => []RoundRobinFair
<1>1. TimelineInv => RoundRobinFair
  BY DEF TimelineInv
<1>2. QED
  BY <1>1, TimelineInvariance, PTL

\* Only who "uses its full quantum" (ALGORITHMS.md:36) is demoted, for any number
\* of queues, any quanta and any boosts: nobody waits on a level without having
\* used the quanta of all levels above it.
THEOREM DemotionEarned == Spec => []DemotedByQuanta
<1>1. TimelineInv => DemotedByQuanta
  BY Demotions DEF TimelineInv, Inv
<1>2. QED
  BY <1>1, TimelineInvariance, PTL

\* What is written into a queue array of MLFQ or into the timeline is at most the
\* number of processes plus the CPU time executed.
ArraysBounded ==
  /\ \A l \in Levels : tail[l] <= N + Executed
  /\ Len(timeline) <= N + Executed

LEMMA WrittenAtMost == ASSUME TimelineInv PROVE ArraysBounded
<1>1. TypeOK /\ FifoInv /\ FifoSlices /\ Counted /\ N \in Nat /\ Executed \in Nat /\ 0 \in Levels
  BY SchedulerAssumption, AboveNext DEF TimelineInv, Inv, Counted
<1>2. Len(timeline) \in Nat /\ tail \in [Levels -> Nat]
  BY <1>1, TimelineFacts DEF TypeOK
<1>3. Len(timeline) <= N + Executed
  <2>1. CASE alg = "FIFO"
    <3>1. CASE pc = "sort"
      <4>1. timeline = <<>>
        BY <1>1, <2>1, <3>1 DEF FifoSlices
      <4>2. QED
        BY <1>1, <1>2, <4>1
    <3>2. CASE pc = "loop"
      <4>1. Len(timeline) = i - 1 /\ i \in 1..(N + 1)
        BY <1>1, <2>1, <3>2 DEF FifoSlices, FifoInv
      <4>2. QED
        BY <1>1, <4>1
    <3>3. QED
      BY <1>1, <2>1, <3>1, <3>2 DEF FifoInv
  <2>2. CASE alg # "FIFO"
    BY <1>1, <1>2, <2>2 DEF Counted
  <2>3. QED
    BY <2>1, <2>2
<1>4. ASSUME NEW l \in Levels PROVE tail[l] <= N + Executed
  <2>1. CASE alg # "MLFQ"
    BY <1>1, <2>1 DEF Counted
  <2>2. CASE alg = "MLFQ" /\ l # 0
    BY <1>1, <1>2, <2>2 DEF Counted
  <2>3. CASE alg = "MLFQ" /\ l = 0
    <3>1. Seen \subseteq Procs /\ Below(queue) \subseteq Procs
      BY <1>1 DEF TypeOK, Seen, Done, Below
    <3>2. /\ Cardinality(Seen) \in Nat /\ Cardinality(Seen) <= N
          /\ Cardinality(Below(queue)) \in Nat
      BY <3>1, ProcsCard
    <3>3. tail[0] + Cardinality(Below(queue)) <= Cardinality(Seen) + Executed
      BY <1>1, <2>3 DEF Counted
    <3>4. QED
      BY <1>1, <1>2, <2>3, <3>2, <3>3
  <2>4. QED
    BY <2>1, <2>2, <2>3
<1>5. QED
  BY <1>3, <1>4 DEF ArraysBounded

\* Of the CPU time a workload asks for: the sum of its bursts.
BurstsIn(B) == MapThenSumSet(LAMBDA q : B[q].burst_time, Procs)

LEMMA BurstsSum == ASSUME NEW B PROVE BurstsIn(B) = Sum([q \in Procs |-> B[q].burst_time], Procs)
<1> DEFINE f == [q \in Procs |-> B[q].burst_time]
           E(g) == g = [s \in SUBSET Procs |-> IF s = {} THEN 0
                          ELSE B[CHOOSE x \in s : TRUE].burst_time
                                  + g[s \ {CHOOSE x \in s : TRUE}]]
           h == CHOOSE g : E(g)
<1>0. IsFiniteSet(Procs)
  BY SchedulerAssumption, FS_Interval DEF Procs
<1>1. PICK g : Sums(g, Procs, f)
  BY <1>0, SumsExist
<1>2. \A s \in SUBSET Procs : s # {} =>
        /\ Pick(s) = CHOOSE x \in s : TRUE
        /\ f[Pick(s)] = B[CHOOSE x \in s : TRUE].burst_time
  BY PickIn DEF Pick
<1> HIDE DEF f
<1>3. E(g)
  BY <1>1, <1>2 DEF Sums
<1>4. E(h)
  <2> HIDE DEF E
  <2>1. QED
    BY <1>3
<1>5. BurstsIn(B) = h[Procs]
  BY DEF BurstsIn, MapThenSumSet, MapThenFoldSet
<1> HIDE DEF h
<1>6. Sums(h, Procs, f)
  BY <1>2, <1>4 DEF Sums
<1>7. QED
  BY <1>0, <1>5, <1>6, SumIs DEF f

\* Nobody gets more than his burst.
LEMMA ExecutedAtMost ==
  ASSUME TypeOK
  PROVE  Executed \in Int /\ TotalBurst \in Int /\ Executed <= TotalBurst
<1> DEFINE f == Ran(processes, remaining_time)
           e == [q \in Procs |-> processes[q].burst_time]
<1>1. Executed = Sum(f, Procs)
  BY ExecutedOf
<1>2. TotalBurst = BurstsIn(processes)
  BY DEF TotalBurst, BurstsIn, Burst, MapThenSumSet, MapThenFoldSet
<1>3. TotalBurst = Sum(e, Procs)
  BY <1>2, BurstsSum
<1>4. \A q \in Procs : e[q] = Burst(q)
  BY DEF Burst
<1>5. \A q \in Procs : f[q] = Burst(q) - remaining_time[q] /\ Burst(q) \in Nat
                        /\ remaining_time[q] \in Nat
  BY RanInt
<1>6. IsFiniteSet(Procs)
  BY RanInt
<1> HIDE DEF f, e
<1>7. \A q \in Procs : f[q] \in Int /\ e[q] \in Int /\ f[q] <= e[q]
  BY <1>4, <1>5
<1>8. Sum(f, Procs) \in Int /\ Sum(e, Procs) \in Int /\ Sum(f, Procs) <= Sum(e, Procs)
  BY <1>6, <1>7, SumInt, SumGrows
<1>9. QED
  BY <1>1, <1>3, <1>8

\* algorithms.c writes into arrays of n * 10 and of MAX_TIMELINE_EVENTS entries and
\* tests neither capacity: for any number of processes and queues, any quanta and
\* any boosts it stays within them on every workload whose bursts add up to no more
\* than nine times its processes (and fit, with these, into the timeline).
THEOREM ArraysLongEnough == Spec => []SmallWorkloadsFit
<1>1. TimelineInv => SmallWorkloadsFit
  <2> SUFFICES ASSUME TimelineInv, N + TotalBurst <= N * 10,
                      N + TotalBurst <= MAX_TIMELINE_EVENTS
               PROVE  WithinArrays
    BY DEF SmallWorkloadsFit
  <2>1. ArraysBounded
    BY WrittenAtMost
  <2>2. TypeOK
    BY DEF TimelineInv, Inv
  <2>3. Executed \in Int /\ TotalBurst \in Int /\ Executed <= TotalBurst
    BY <2>2, ExecutedAtMost
  <2>4. N \in Nat /\ MAX_TIMELINE_EVENTS \in Nat /\ Len(timeline) \in Nat
          /\ \A l \in Levels : tail[l] \in Nat
    BY <2>2, SchedulerAssumption, TimelineFacts DEF TypeOK
  <2>5. ASSUME NEW l \in Levels PROVE tail[l] <= N * 10
    <3>1. tail[l] <= N + Executed /\ tail[l] \in Nat
      BY <2>1, <2>4 DEF ArraysBounded
    <3>2. QED
      BY <2>3, <2>4, <3>1
  <2>6. Len(timeline) <= MAX_TIMELINE_EVENTS
    <3>1. Len(timeline) <= N + Executed
      BY <2>1 DEF ArraysBounded
    <3>2. QED
      BY <2>3, <2>4, <3>1
  <2>7. QED
    BY <2>5, <2>6 DEF WithinArrays
<1>2. QED
  BY <1>1, TimelineInvariance, PTL
=============================================================================
