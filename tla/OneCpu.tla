--------------------------------- MODULE OneCpu ---------------------------------
(***************************************************************************)
(* What every scheduling algorithm of the simulator promises: there is one *)
(* CPU; it runs nobody before his arrival and is idle only while nobody    *)
(* who has arrived is unfinished; everybody gets exactly his burst, and    *)
(* his completion time is the clock at that moment.  Which process runs,   *)
(* and for how long, is left open.                                         *)
(***************************************************************************)
EXTENDS Integers

CONSTANT Procs

VARIABLES arrival, burst,   (* the workload, never changed                  *)
          clock,
          left,             (* CPU time each process still needs            *)
          finish            (* when it got the last of it                   *)

vars == <<arrival, burst, clock, left, finish>>

Ready(t) == {q \in Procs : arrival[q] <= t /\ left[q] > 0}

Fresh ==
  /\ clock = 0
  /\ left = burst
  /\ finish = [q \in Procs |-> 0]

Init ==
  /\ arrival \in [Procs -> Nat] /\ burst \in [Procs -> Nat]
  /\ Fresh

\* Nobody can use the CPU before t.
IdleUntil(t) == t >= clock /\ \A s \in clock..(t - 1) : Ready(s) = {}

Idle(t) ==
  /\ IdleUntil(t)
  /\ clock' = t
  /\ UNCHANGED <<arrival, burst, left, finish>>

Run(q, t, d) ==
  /\ IdleUntil(t) /\ arrival[q] <= t
  /\ clock' = t + d
  /\ left' = [left EXCEPT ![q] = @ - d]
  /\ finish' = IF d = left[q] THEN [finish EXCEPT ![q] = t + d] ELSE finish
  /\ UNCHANGED <<arrival, burst>>

\* The next algorithm gets the same workload, when everybody is finished.
Restart ==
  /\ \A q \in Procs : left[q] = 0
  /\ clock' = 0
  /\ left' = burst
  /\ finish' = [q \in Procs |-> 0]
  /\ UNCHANGED <<arrival, burst>>

Next ==
  \/ \E t \in clock..clock' : Idle(t)
  \/ \E q \in Procs : \E t \in clock..clock', d \in 0..left[q] : Run(q, t, d)
  \/ Restart

Spec == Init /\ [][Next]_vars
=============================================================================
