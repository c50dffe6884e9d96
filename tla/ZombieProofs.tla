------------------------------ MODULE ZombieProofs ------------------------------
(***************************************************************************)
(* ZombiePrograms for any number of processes and children and any size of *)
(* the detector's array: the types with the mutex, the counters of the     *)
(* library, what strategy 1 leaves behind, and what the detector reports.  *)
(***************************************************************************)
EXTENDS ZombiePrograms, SequenceTheorems, FiniteSetTheorems, TLAPS

USE DEF kernelVars, mainVars, libVars, scanVars, vars, Pids

-----------------------------------------------------------------------------
(* The types, and which program may be where.                              *)

\* Where a program may be, how far its loop of forks has come, and that the
\* mutex, its functions and the handler's belong to the library alone.
Places ==
  /\ prog = "daemon" => n = 0
  /\ pc = "test" => prog = "daemon"
  /\ pc \in {"fork", "lock", "locked"} => n < Children
  /\ pc \in {"lock", "locked", "getlock", "getlocked"} => prog = "lib"
  /\ handler \in {"lock", "count"} => prog = "lib"
  /\ handler = "count" => pc \notin {"locked", "getlocked"}
  /\ pc = "getchar" => prog = "creator"
  /\ pc = "waitall" => prog \in {"creator", "explicit"}
  /\ pc = "ignore" => prog = "ignore"
  /\ disposition = "ignore" => prog = "ignore"

\* How far the scan is, when the parent analysis begins.
Scanned ==
  /\ count <= scan
  /\ scan > 0 => count < scan
  /\ scan <= NumPids => look = 1

TypeInv == TypeOK /\ Places /\ Scanned

LEMMA AfterForksFacts ==
  ASSUME prog \in Programs
  PROVE  /\ AfterForks[prog] \in {"getchar", "waitall", "sleep", "ignore"}
         /\ AfterForks[prog] = "waitall" <=> prog = "explicit"
         /\ AfterForks[prog] = "getchar" <=> prog = "creator"
         /\ AfterForks[prog] = "ignore" <=> prog = "ignore"
BY ZombieAssumption DEF AfterForks

LEMMA ContinueFacts ==
  ASSUME prog \in Programs, NEW k \in Nat
  PROVE  /\ Continue(k) \in {"fork", "getchar", "waitall", "sleep", "ignore"}
         /\ Continue(k) = "fork" => k < Children /\ prog # "daemon"
         /\ Continue(k) = "waitall" => prog = "explicit" /\ k >= Children
         /\ Continue(k) = "getchar" => prog = "creator"
         /\ Continue(k) = "ignore" => prog = "ignore"
         /\ Continue(k) = "sleep" => prog # "explicit"
BY AfterForksFacts, ZombieAssumption DEF Continue, AfterForks

LEMMA InitTypes == Init => TypeInv
<1> SUFFICES ASSUME Init PROVE TypeInv
  OBVIOUS
<1> USE ZombieAssumption DEF Init
<1>1. found \in Seq(Pids) /\ Len(found) = 0
  OBVIOUS
<1>2. /\ sigchld \in BOOLEAN /\ woken \in BOOLEAN /\ daemon_running \in BOOLEAN
      /\ proc \in [Pids -> {"free", "running", "zombie", "gone"}]
  OBVIOUS
<1>3. g_stats \in Stats /\ report \in Stats
  BY DEF Stats
<1>4. /\ n \in 0..Children /\ scan \in 0..(NumPids + 1) /\ count \in 0..NumPids
      /\ look \in 1..(Len(found) + 1) /\ parent_count \in 0..(look - 1)
      /\ steady \subseteq seen /\ seen \subseteq Pids
  BY <1>1
<1>5. /\ pc \in {"fork", "test"} /\ handler = "off" /\ stats_mutex = "nobody"
      /\ disposition \in {"default", "handler"} /\ prog \in Programs
      /\ pc = "test" => prog = "daemon"
  OBVIOUS
<1>6. TypeOK
  BY <1>1, <1>2, <1>3, <1>4, <1>5 DEF TypeOK
<1> QED
  BY <1>5, <1>6 DEF TypeInv, Places, Scanned

\* What the history does to its types.
LEMMA ObserveTypes ==
  ASSUME Observe, steady \subseteq seen, seen \subseteq Pids
  PROVE  /\ steady' \subseteq seen' /\ seen' \subseteq Pids
         /\ steady' \subseteq steady /\ seen \subseteq seen'
         /\ \A q \in steady' : proc'[q] = "zombie"
BY DEF Observe

LEMMA HandlerTypes == ASSUME TypeInv, Handler PROVE TypeInv'
<1> USE ZombieAssumption DEF TypeInv, Stats
<1>1. CASE SigchldArrives
  <2>1. sigchld' \in BOOLEAN
    BY <1>1 DEF SigchldArrives
  <2> QED
    BY <1>1, <2>1 DEF SigchldArrives, TypeOK, Places, Scanned
<1>2. CASE HandlerReaps
  <2>1. PICK q \in Pids : Reap(q)
    BY <1>2 DEF HandlerReaps
  <2>2. proc' \in [Pids -> {"free", "running", "zombie", "gone"}]
    BY <2>1 DEF Reap, TypeOK
  <2>3. steady' \subseteq seen' /\ seen' \subseteq Pids
    BY <2>1, ObserveTypes DEF Reap, TypeOK
  <2> QED
    BY <1>2, <2>1, <2>2, <2>3 DEF HandlerReaps, Reap, TypeOK, Places, Scanned
<1>3. CASE HandlerLocks
  BY <1>3 DEF HandlerLocks, TypeOK, Places, Scanned
<1>4. CASE HandlerCounts
  <2>1. g_stats' \in Stats
    <3>1. g_stats \in Stats /\ 0 \in Nat /\ g_stats.reaped + 1 \in Nat
      BY DEF TypeOK
    <3>2. (IF g_stats.active > 0 THEN g_stats.active - 1 ELSE 0) \in Nat
      BY DEF TypeOK
    <3>3. g_stats' = [g_stats EXCEPT !.reaped = g_stats.reaped + 1,
                        !.active = IF g_stats.active > 0 THEN g_stats.active - 1 ELSE 0]
      BY <1>4 DEF HandlerCounts
    <3> QED
      BY <3>1, <3>2, <3>3
  <2> QED
    BY <1>4, <2>1, SMTT(30) DEF HandlerCounts, TypeOK, Places, Scanned
<1>5. CASE HandlerReturns
  <2>1. woken' \in BOOLEAN
    BY <1>5 DEF HandlerReturns
  <2> QED
    BY <1>5, <2>1 DEF HandlerReturns, TypeOK, Places, Scanned
<1> QED
  BY <1>1, <1>2, <1>3, <1>4, <1>5 DEF Handler

LEMMA MainTypes == ASSUME TypeInv, Main PROVE TypeInv'
<1> USE ZombieAssumption DEF TypeInv, Stats, Goto
<1>0. /\ n \in Nat /\ prog \in Programs
      /\ \A k \in Nat : Continue(k) \in {"fork", "getchar", "waitall", "sleep", "ignore"}
      /\ \A k \in Nat : Continue(k) = "fork" => k < Children /\ prog # "daemon"
      /\ \A k \in Nat : Continue(k) = "waitall" => prog = "explicit"
      /\ \A k \in Nat : Continue(k) = "getchar" => prog = "creator"
      /\ \A k \in Nat : Continue(k) = "ignore" => prog = "ignore"
  BY ContinueFacts DEF TypeOK
<1>1. CASE Fork
  <2>1. PICK q \in Pids : Forked(q)
    BY <1>1 DEF Fork
  <2>2. proc' \in [Pids -> {"free", "running", "zombie", "gone"}]
    BY <2>1 DEF Forked, TypeOK
  <2>3. steady' \subseteq seen' /\ seen' \subseteq Pids
    BY <2>1, ObserveTypes DEF Forked, TypeOK
  <2>4. /\ n' \in 0..Children /\ (prog = "daemon" => n' = 0)
        /\ pc' \in {"fork", "lock", "getchar", "waitall", "sleep", "ignore"}
        /\ pc' \in {"fork", "lock"} => n' < Children
        /\ pc' = "lock" => prog = "lib"
        /\ pc' = "getchar" => prog = "creator"
        /\ pc' = "waitall" => prog = "explicit"
        /\ pc' = "ignore" => prog = "ignore"
    <3>1. n \in 0..Children /\ n < Children /\ n + 1 \in 0..Children /\ n + 1 \in Nat
      BY <1>1 DEF Fork, TypeOK
    <3>2. CASE prog = "lib"
      BY <1>1, <3>1, <3>2 DEF Fork
    <3>3. CASE prog # "lib"
      <4>1. pc' = Continue(n + 1) /\ n' = IF prog = "daemon" THEN n ELSE n + 1
        BY <1>1, <3>3 DEF Fork
      <4>2. /\ Continue(n + 1) \in {"fork", "getchar", "waitall", "sleep", "ignore"}
            /\ Continue(n + 1) = "fork" => n + 1 < Children /\ prog # "daemon"
            /\ Continue(n + 1) = "getchar" => prog = "creator"
            /\ Continue(n + 1) = "waitall" => prog = "explicit"
            /\ Continue(n + 1) = "ignore" => prog = "ignore"
        BY <1>0, <3>1
      <4>3. prog = "daemon" => n = 0
        BY DEF Places
      <4> QED
        BY <3>1, <4>1, <4>2, <4>3
    <3> QED
      BY <3>2, <3>3
  <2>5. woken' \in BOOLEAN
    BY <1>1 DEF Fork
  <2> QED
    BY <1>1, <2>1, <2>2, <2>3, <2>4, <2>5, SMTT(30)
       DEF Fork, Forked, InMain, TypeOK, Places, Scanned
<1>2. CASE ForkFails
  <2>1. /\ n' \in 0..Children /\ (prog = "daemon" => n' = 0)
        /\ pc' \in {"fork", "getchar", "waitall", "sleep", "ignore", "exited"}
        /\ pc' \in {"fork"} => n' < Children
        /\ pc' = "getchar" => prog = "creator"
        /\ pc' = "waitall" => prog = "explicit"
        /\ pc' = "ignore" => prog = "ignore"
    <3>1. n \in 0..Children /\ n < Children /\ n + 1 \in 0..Children /\ n + 1 \in Nat
      <4>1. pc = "fork"
        BY <1>2 DEF ForkFails
      <4>2. n < Children
        BY <4>1 DEF Places
      <4>3. n \in 0..Children
        BY DEF TypeOK
      <4> QED
        BY <4>2, <4>3
    <3>2. CASE prog = "lib"
      <4>1. pc' = Continue(n + 1) /\ n' = n + 1
        BY <1>2, <3>2 DEF ForkFails
      <4> QED
        BY <1>0, <3>1, <3>2, <4>1
    <3>3. CASE prog # "lib"
      <4>1. pc' \in {"sleep", "exited"} /\ n' = n
        BY <1>2, <3>3 DEF ForkFails
      <4> QED
        BY <3>1, <4>1 DEF Places
    <3> QED
      BY <3>2, <3>3
  <2>2. woken' \in BOOLEAN
    <3>1. CASE prog = "daemon"
      BY <1>2, <3>1 DEF ForkFails
    <3>2. CASE prog = "lib"
      BY <1>2, <3>2 DEF ForkFails
    <3>3. CASE prog \notin {"daemon", "lib"}
      BY <1>2, <3>3 DEF ForkFails
    <3> QED
      BY <3>1, <3>2, <3>3
  <2>3. /\ handler = "off" /\ pc = "fork"
        /\ UNCHANGED <<prog, kernelVars, daemon_running, handler, report, libVars, scanVars,
                       seen, steady>>
    BY <1>2 DEF ForkFails, InMain
  <2> QED
    BY <2>1, <2>2, <2>3 DEF InMain, TypeOK, Places, Scanned
<1>3. CASE Lock
  BY <1>3 DEF Lock, InMain, TypeOK, Places, Scanned
<1>4. CASE CountChild
  <2>1. g_stats' \in Stats
    <3>1. g_stats \in Stats /\ g_stats.created + 1 \in Nat /\ g_stats.active + 1 \in Nat
      BY DEF TypeOK
    <3> QED
      BY <1>4, <3>1 DEF CountChild
  <2>2. /\ n' \in 0..Children /\ prog = "lib"
        /\ pc' \in {"fork", "getchar", "waitall", "sleep", "ignore"}
        /\ pc' \in {"fork"} => n' < Children
        /\ pc' = "getchar" => prog = "creator"
        /\ pc' = "waitall" => prog = "explicit"
        /\ pc' = "ignore" => prog = "ignore"
    <3>1. n + 1 \in 0..Children /\ n + 1 \in Nat /\ prog = "lib"
      <4>1. pc = "locked"
        BY <1>4 DEF CountChild
      <4>2. n < Children /\ prog = "lib"
        BY <4>1 DEF Places
      <4>3. n \in 0..Children
        BY DEF TypeOK
      <4> QED
        BY <4>2, <4>3
    <3>2. pc' = Continue(n + 1) /\ n' = n + 1
      BY <1>4 DEF CountChild
    <3> QED
      BY <1>0, <3>1, <3>2
  <2>3. woken' \in BOOLEAN
    BY <1>4 DEF CountChild
  <2> QED
    BY <1>4, <2>1, <2>2, <2>3 DEF CountChild, InMain, TypeOK, Places, Scanned
<1>5. CASE GetStats
  BY <1>5 DEF GetStats, InMain, TypeOK, Places, Scanned
<1>6. CASE SetIgnore
  BY <1>6 DEF SetIgnore, InMain, TypeOK, Places, Scanned
<1>7. CASE WaitAll
  <2>1. CASE \E q \in Pids : Reap(q) /\ UNCHANGED <<pc, woken>>
    <3>1. PICK q \in Pids : Reap(q) /\ UNCHANGED <<pc, woken>>
      BY <2>1
    <3>2. proc' \in [Pids -> {"free", "running", "zombie", "gone"}]
      BY <3>1 DEF Reap, TypeOK
    <3>3. steady' \subseteq seen' /\ seen' \subseteq Pids
      BY <3>1, ObserveTypes DEF Reap, TypeOK
    <3> QED
      BY <1>7, <3>1, <3>2, <3>3 DEF WaitAll, Reap, TypeOK, Places, Scanned
  <2>2. CASE UNCHANGED <<kernelVars, seen, steady>>
    BY <1>7, <2>2 DEF WaitAll, InMain, TypeOK, Places, Scanned
  <2> QED
    BY <1>7, <2>1, <2>2 DEF WaitAll
<1>8. CASE Sleep
  BY <1>8 DEF Sleep, InMain, TypeOK, Places, Scanned
<1>9. CASE ShowZombies
  BY <1>9 DEF ShowZombies, InMain, TypeOK, Places, Scanned
<1>10. CASE DaemonTest
  <2>1. pc' \in {"fork", "exited"} /\ n < Children
    BY <1>10, 0 < Children DEF DaemonTest, Places
  <2>2. woken' \in BOOLEAN
    BY <1>10 DEF DaemonTest
  <2> QED
    BY <1>10, <2>1, <2>2 DEF DaemonTest, InMain, TypeOK, Places, Scanned
<1> QED
  BY <1>1, <1>2, <1>3, <1>4, <1>5, <1>6, <1>7, <1>8, <1>9, <1>10 DEF Main

LEMMA OtherTypes ==
  ASSUME TypeInv,
         PressEnter \/ Sigterm \/ (\E q \in Pids : ChildExits(q))
           \/ OpenProc \/ ReadEntry \/ AnalyseParent
  PROVE  TypeInv'
<1> USE ZombieAssumption DEF TypeInv, Stats
<1>1. CASE PressEnter
  BY <1>1 DEF PressEnter, Goto, InMain, TypeOK, Places, Scanned
<1>2. CASE Sigterm
  <2>1. woken' \in BOOLEAN
    BY <1>2 DEF Sigterm
  <2> QED
    BY <1>2, <2>1 DEF Sigterm, TypeOK, Places, Scanned
<1>3. ASSUME NEW q \in Pids, ChildExits(q) PROVE TypeInv'
  <2>1. proc' \in [Pids -> {"free", "running", "zombie", "gone"}]
    BY <1>3 DEF ChildExits, TypeOK
  <2>2. steady' \subseteq seen' /\ seen' \subseteq Pids
    BY <1>3, ObserveTypes DEF ChildExits, TypeOK
  <2>3. sigchld' \in BOOLEAN
    BY <1>3 DEF ChildExits
  <2> QED
    BY <1>3, <2>1, <2>2, <2>3 DEF ChildExits, TypeOK, Places, Scanned
<1>4. CASE OpenProc
  <2>1. seen' = steady' /\ seen' \subseteq Pids
    BY <1>4 DEF OpenProc, Are
  <2> QED
    BY <1>4, <2>1 DEF OpenProc, TypeOK, Places, Scanned
<1>5. CASE ReadEntry
  <2>1. found' \in Seq(Pids) /\ Len(found') \in Nat
    <3>1. found \in Seq(Pids) /\ scan \in Pids
      BY <1>5 DEF ReadEntry, TypeOK
    <3>2. Append(found, scan) \in Seq(Pids)
      BY <3>1, AppendProperties
    <3>3. found' = found \/ found' = Append(found, scan)
      BY <1>5 DEF ReadEntry
    <3> QED
      BY <3>1, <3>2, <3>3
  <2>2. /\ scan' \in 0..(NumPids + 1) /\ count' \in 0..NumPids
        /\ count' < scan' /\ look' = 1 /\ parent_count' = 0
    BY <1>5 DEF ReadEntry, TypeOK, Scanned
  <2>3. look' \in 1..(Len(found') + 1) /\ parent_count' \in 0..(look' - 1)
    BY <2>1, <2>2
  <2> QED
    BY <1>5, <2>1, <2>2, <2>3 DEF ReadEntry, TypeOK, Places, Scanned
<1>6. CASE AnalyseParent
  <2>1. look' \in 1..(Len(found) + 1) /\ parent_count' \in 0..(look' - 1)
    BY <1>6 DEF AnalyseParent, TypeOK
  <2> QED
    BY <1>6, <2>1, SMTT(30) DEF AnalyseParent, TypeOK, Places, Scanned
<1> QED
  BY <1>1, <1>2, <1>3, <1>4, <1>5, <1>6

LEMMA TypeInductive == TypeInv /\ [Next]_vars => TypeInv'
<1> SUFFICES ASSUME TypeInv, [Next]_vars PROVE TypeInv'
  OBVIOUS
<1>1. CASE UNCHANGED vars
  BY <1>1 DEF TypeInv, TypeOK, Places, Scanned
<1>2. CASE Next
  BY <1>2, HandlerTypes, MainTypes, OtherTypes DEF Next
<1> QED
  BY <1>1, <1>2

LEMMA TypesHold == Spec => []TypeInv
BY InitTypes, TypeInductive, PTL DEF Spec

\* Every reachable state has the declared types, and the mutex of zombie.c
\* is held by nobody but the one function that is between its two calls.
THEOREM TypeCorrect == Spec => []TypeOK
BY TypesHold, PTL DEF TypeInv

-----------------------------------------------------------------------------
(* What the steps do to the kernel's processes.                            *)

LEMMA ReapedSets ==
  ASSUME TypeOK, NEW q \in Pids, Reap(q)
  PROVE  /\ Are("free")' = Are("free") /\ Are("running")' = Are("running")
         /\ Are("zombie")' = Are("zombie") \ {q}
         /\ Are("gone")' = Are("gone") \cup {q}
         /\ q \in Are("zombie") /\ q \notin Are("gone")
<1>1. /\ proc[q] = "zombie" /\ proc' = [proc EXCEPT ![q] = "gone"]
      /\ proc \in [Pids -> {"free", "running", "zombie", "gone"}]
  BY DEF Reap, TypeOK
<1>2. \A p \in Pids : proc'[p] = IF p = q THEN "gone" ELSE proc[p]
  BY <1>1
<1> QED
  BY <1>1, <1>2 DEF Are

LEMMA ForkedSets ==
  ASSUME TypeOK, prog # "daemon", NEW q \in Pids, Forked(q)
  PROVE  /\ Pids \ Are("free")' = (Pids \ Are("free")) \cup {q}
         /\ q \in Are("free")
         /\ Are("gone")' = Are("gone")
<1>1. /\ proc[q] = "free" /\ proc' = [proc EXCEPT ![q] = "running"]
      /\ proc \in [Pids -> {"free", "running", "zombie", "gone"}]
  BY DEF Forked, TypeOK
<1>2. \A p \in Pids : proc'[p] = IF p = q THEN "running" ELSE proc[p]
  BY <1>1
<1> QED
  BY <1>1, <1>2 DEF Are

LEMMA ExitedSets ==
  ASSUME TypeOK, disposition # "ignore", NEW q \in Pids, ChildExits(q)
  PROVE  Are("free")' = Are("free") /\ Are("gone")' = Are("gone")
<1>1. /\ proc[q] = "running" /\ proc' = [proc EXCEPT ![q] = "zombie"]
      /\ proc \in [Pids -> {"free", "running", "zombie", "gone"}]
  BY DEF ChildExits, TypeOK
<1>2. \A p \in Pids : proc'[p] = IF p = q THEN "zombie" ELSE proc[p]
  BY <1>1
<1> QED
  BY <1>1, <1>2 DEF Are

LEMMA SubsetsCount ==
  ASSUME NEW S, S \subseteq Pids
  PROVE  /\ IsFiniteSet(S) /\ Cardinality(S) \in Nat
         /\ \A T \in SUBSET S : Cardinality(T) <= Cardinality(S)
         /\ \A q : Cardinality(S \cup {q}) = Cardinality(S) + (IF q \in S THEN 0 ELSE 1)
<1>1. IsFiniteSet(Pids)
  BY FS_Interval, ZombieAssumption
<1>2. IsFiniteSet(S) /\ Cardinality(S) \in Nat
  BY <1>1, FS_Subset, FS_CardinalityType
<1>3. \A T \in SUBSET S : Cardinality(T) <= Cardinality(S)
  BY <1>2, FS_Subset
<1>4. ASSUME NEW q
      PROVE  Cardinality(S \cup {q}) = Cardinality(S) + (IF q \in S THEN 0 ELSE 1)
  BY <1>2, FS_AddElement
<1> QED
  BY <1>2, <1>3, <1>4

-----------------------------------------------------------------------------
(* Strategy 1 of zombie_reaper.                                            *)

\* Once main() has got ECHILD nobody is left, and nobody comes after.
ExplicitInv ==
  prog = "explicit" =>
    /\ pc \in {"waitall", "sleep", "ps"} => n = Children
    /\ pc \in {"sleep", "ps"} => Are("running") = {} /\ Are("zombie") = {}

LEMMA ExplicitInductive ==
  TypeInv /\ ExplicitInv /\ [Next]_vars => ExplicitInv'
<1> SUFFICES ASSUME TypeInv, ExplicitInv, [Next]_vars, prog' = "explicit"
             PROVE  /\ pc' \in {"waitall", "sleep", "ps"} => n' = Children
                    /\ pc' \in {"sleep", "ps"} => Are("running")' = {} /\ Are("zombie")' = {}
  BY DEF ExplicitInv
<1> USE DEF Goto
<1>1. ASSUME UNCHANGED <<prog, proc, pc, n>>
      PROVE  /\ pc' \in {"waitall", "sleep", "ps"} => n' = Children
             /\ pc' \in {"sleep", "ps"} => Are("running")' = {} /\ Are("zombie")' = {}
  BY <1>1 DEF ExplicitInv, Are
<1>2. ASSUME NEW q \in Pids, Reap(q), UNCHANGED <<prog, pc, n>>
      PROVE  /\ pc' \in {"waitall", "sleep", "ps"} => n' = Children
             /\ pc' \in {"sleep", "ps"} => Are("running")' = {} /\ Are("zombie")' = {}
  BY <1>2, ReapedSets DEF ExplicitInv, TypeInv
<1>3. CASE UNCHANGED vars
  BY <1>1, <1>3
<1>4. CASE Handler
  <2>1. CASE HandlerReaps
    BY <1>2, <2>1 DEF HandlerReaps
  <2>2. CASE SigchldArrives \/ HandlerLocks \/ HandlerCounts \/ HandlerReturns
    BY <1>1, <2>2 DEF SigchldArrives, HandlerLocks, HandlerCounts, HandlerReturns
  <2> QED
    BY <1>4, <2>1, <2>2 DEF Handler
<1>5. CASE Main
  <2>1. CASE Fork
    <3>1. prog = "explicit" /\ n \in 0..Children /\ n < Children
      BY <2>1 DEF Fork, TypeInv, TypeOK
    <3>2. pc' = Continue(n + 1) /\ n' = n + 1
      BY <2>1, <3>1 DEF Fork
    <3>3. Continue(n + 1) = "waitall" => n + 1 >= Children
      BY <3>1, ContinueFacts, ZombieAssumption DEF TypeInv, TypeOK
    <3>4. Continue(n + 1) \in {"fork", "waitall"}
      BY <3>1 DEF Continue, AfterForks
    <3> QED
      BY <3>1, <3>2, <3>3, <3>4, ZombieAssumption
  <2>2. CASE ForkFails
    BY <2>2 DEF ForkFails
  <2>3. CASE Lock \/ CountChild \/ GetStats \/ SetIgnore \/ DaemonTest
    BY <2>3 DEF Lock, CountChild, GetStats, SetIgnore, DaemonTest, TypeInv, Places
  <2>4. CASE WaitAll
    <3>1. CASE \E q \in Pids : Reap(q) /\ UNCHANGED <<pc, woken>>
      BY <1>2, <2>4, <3>1 DEF WaitAll
    <3>2. CASE Are("running") \cup Are("zombie") = {} /\ UNCHANGED <<kernelVars, seen, steady>>
      BY <2>4, <3>2 DEF WaitAll, ExplicitInv, Are
    <3> QED
      BY <2>4, <3>1, <3>2 DEF WaitAll
  <2>5. CASE Sleep
    BY <2>5 DEF Sleep, ExplicitInv, Are
  <2>6. CASE ShowZombies
    BY <2>6 DEF ShowZombies
  <2> QED
    BY <1>5, <2>1, <2>2, <2>3, <2>4, <2>5, <2>6 DEF Main
<1>6. CASE PressEnter
  BY <1>6 DEF PressEnter, TypeInv, Places
<1>7. CASE Sigterm \/ OpenProc \/ ReadEntry \/ AnalyseParent
  BY <1>1, <1>7 DEF Sigterm, OpenProc, ReadEntry, AnalyseParent
<1>8. ASSUME NEW q \in Pids, ChildExits(q)
      PROVE  /\ pc' \in {"waitall", "sleep", "ps"} => n' = Children
             /\ pc' \in {"sleep", "ps"} => Are("running")' = {} /\ Are("zombie")' = {}
  BY <1>8 DEF ChildExits, ExplicitInv, Are
<1> QED
  BY <1>3, <1>4, <1>5, <1>6, <1>7, <1>8 DEF Next

\* When zombie_reaper shows the effect of strategy 1, every child has been
\* forked and is neither running nor a zombie, whoever of waitpid() in main()
\* and the SIGCHLD handler got it.
THEOREM ExplicitStrategyWorks == Spec => []ExplicitLeavesNone
<1>1. Init => ExplicitInv
  BY DEF Init, ExplicitInv
<1>2. ExplicitInv => ExplicitLeavesNone
  BY DEF ExplicitInv, ExplicitLeavesNone
<1> QED
  BY <1>1, <1>2, ExplicitInductive, TypesHold, PTL DEF Spec

-----------------------------------------------------------------------------
(* The counters of zombie.c.                                               *)

Born == Cardinality(Pids \ Are("free"))
Dead == Cardinality(Are("gone"))

LEMMA CountTypes ==
  ASSUME TypeOK
  PROVE  /\ Born \in Nat /\ Dead \in Nat
         /\ g_stats.created \in Nat /\ g_stats.reaped \in Nat /\ g_stats.active \in Nat
BY SubsetsCount DEF Born, Dead, Are, TypeOK, Stats

\* Nobody has gone who was not born.
LEMMA DeadWereBorn ==
  ASSUME TypeOK
  PROVE  Dead <= Born
<1>1. Are("gone") \subseteq Pids \ Are("free")
  BY DEF Are
<1>2. IsFiniteSet(Pids \ Are("free"))
  BY SubsetsCount
<1> QED
  BY <1>1, <1>2, FS_Subset DEF Born, Dead

\* A step that moves neither the counters nor the numbers they follow.
LEMMA CountsStutter ==
  ASSUME CountsFollowKernel, prog' = "lib",
         UNCHANGED <<prog, g_stats>>, Are("free")' = Are("free"), Are("gone")' = Are("gone"),
         pc' \in {"lock", "locked"} <=> pc \in {"lock", "locked"},
         handler' \in {"lock", "count"} <=> handler \in {"lock", "count"}
  PROVE  CountsFollowKernel'
BY DEF CountsFollowKernel

LEMMA CountsInductive ==
  TypeInv /\ CountsFollowKernel /\ [Next]_vars => CountsFollowKernel'
<1> SUFFICES ASSUME TypeInv, CountsFollowKernel, [Next]_vars, prog' = "lib"
             PROVE  CountsFollowKernel'
  BY DEF CountsFollowKernel
<1> USE DEF Goto
<1>0. TypeOK /\ Places
  BY DEF TypeInv
<1>1. CASE UNCHANGED <<prog, proc, pc, handler, g_stats>>
  BY <1>1, CountsStutter DEF Are
<1>2. CASE Handler
  <2>1. CASE HandlerReaps
    <3>1. PICK q \in Pids : Reap(q)
      BY <2>1 DEF HandlerReaps
    <3>2. /\ prog = "lib" /\ handler = "reap" /\ handler' = "lock"
          /\ pc' = pc /\ g_stats' = g_stats
      BY <2>1 DEF HandlerReaps
    <3>3. /\ Cardinality(Pids \ Are("free")') = Born
          /\ Cardinality(Are("gone")') = Dead + 1
      BY <1>0, <3>1, ReapedSets, SubsetsCount DEF Born, Dead, Are
    <3> QED
      BY <1>0, <3>2, <3>3, CountTypes DEF CountsFollowKernel, Born, Dead
  <2>2. CASE SigchldArrives \/ HandlerReturns
    BY <2>2, CountsStutter DEF SigchldArrives, HandlerReturns, Are
  <2>3. CASE HandlerLocks
    BY <2>3, CountsStutter DEF HandlerLocks, Are
  <2>4. CASE HandlerCounts
    <3>1. /\ prog = "lib" /\ handler = "count" /\ handler' = "reap" /\ pc' = pc
          /\ Are("free")' = Are("free") /\ Are("gone")' = Are("gone")
      BY <2>4 DEF HandlerCounts, Are
    <3>2. g_stats \in Stats
      BY <1>0 DEF TypeOK
    <3>3. g_stats' = [g_stats EXCEPT !.reaped = g_stats.reaped + 1,
                        !.active = IF g_stats.active > 0 THEN g_stats.active - 1 ELSE 0]
      BY <2>4 DEF HandlerCounts
    <3>4. /\ g_stats'.created = g_stats.created
          /\ g_stats'.reaped = g_stats.reaped + 1
          /\ g_stats'.active = IF g_stats.active > 0 THEN g_stats.active - 1 ELSE 0
      BY <3>2, <3>3 DEF Stats
    <3>5. /\ g_stats.created = Born - (IF pc \in {"lock", "locked"} THEN 1 ELSE 0)
          /\ g_stats.reaped = Dead - 1
          /\ g_stats.created - g_stats.reaped <= g_stats.active
          /\ g_stats.active <= g_stats.created - g_stats.reaped + 1
      BY <3>1 DEF CountsFollowKernel, Born, Dead
    <3>6. /\ g_stats'.reaped = Dead - 0
          /\ g_stats'.created - g_stats'.reaped <= g_stats'.active
      BY <1>0, <3>4, <3>5, CountTypes
    <3>7. g_stats'.active <= g_stats'.created - g_stats'.reaped + 1
      BY <1>0, <3>4, <3>5, CountTypes, DeadWereBorn
    <3> QED
      BY <3>1, <3>4, <3>5, <3>6, <3>7 DEF CountsFollowKernel, Born, Dead
  <2> QED
    BY <1>2, <2>1, <2>2, <2>3, <2>4 DEF Handler
<1>3. CASE Main
  <2>1. CASE Fork
    <3>1. PICK q \in Pids : Forked(q)
      BY <2>1 DEF Fork
    <3>2. /\ prog = "lib" /\ pc = "fork" /\ pc' = "lock"
          /\ handler' = handler /\ g_stats' = g_stats
      BY <2>1 DEF Fork
    <3>3. /\ Cardinality(Pids \ Are("free")') = Born + 1
          /\ Cardinality(Are("gone")') = Dead
      BY <1>0, <3>1, <3>2, ForkedSets, SubsetsCount DEF Born, Dead, Are
    <3> QED
      BY <1>0, <3>2, <3>3, CountTypes DEF CountsFollowKernel, Born, Dead
  <2>2. CASE ForkFails
    <3>1. prog = "lib" /\ pc = "fork" /\ pc' = Continue(n + 1) /\ n \in 0..Children
      BY <1>0, <2>2 DEF ForkFails, TypeOK
    <3>2. Continue(n + 1) \notin {"lock", "locked"}
      BY <1>0, <3>1, ContinueFacts, ZombieAssumption DEF TypeOK
    <3>3. UNCHANGED <<prog, proc, handler, g_stats>>
      BY <2>2 DEF ForkFails
    <3> QED
      BY <3>1, <3>2, <3>3, CountsStutter DEF Are
  <2>3. CASE Lock
    BY <2>3, CountsStutter DEF Lock, Are
  <2>4. CASE CountChild
    <3>1. /\ prog = "lib" /\ pc = "locked" /\ pc' = Continue(n + 1) /\ n \in 0..Children
          /\ handler' = handler
          /\ Are("free")' = Are("free") /\ Are("gone")' = Are("gone")
      BY <1>0, <2>4 DEF CountChild, TypeOK, Are
    <3>2. Continue(n + 1) \notin {"lock", "locked"}
      BY <1>0, <3>1, ContinueFacts, ZombieAssumption DEF TypeOK
    <3>3. g_stats \in Stats
      BY <1>0 DEF TypeOK
    <3>4. g_stats' = [g_stats EXCEPT !.created = g_stats.created + 1, !.active = g_stats.active + 1]
      BY <2>4 DEF CountChild
    <3>5. /\ g_stats'.created = g_stats.created + 1
          /\ g_stats'.reaped = g_stats.reaped
          /\ g_stats'.active = g_stats.active + 1
      BY <3>3, <3>4 DEF Stats
    <3>6. /\ g_stats.created = Born - 1
          /\ g_stats.reaped = Dead - (IF handler \in {"lock", "count"} THEN 1 ELSE 0)
          /\ g_stats.created - g_stats.reaped <= g_stats.active
          /\ g_stats.active <= g_stats.created - g_stats.reaped + 1
      BY <2>4, <3>1 DEF CountChild, CountsFollowKernel, Born, Dead
    <3>7. /\ g_stats'.created - g_stats'.reaped <= g_stats'.active
          /\ g_stats'.active <= g_stats'.created - g_stats'.reaped + 1
          /\ g_stats'.created = Born
          /\ g_stats'.reaped = Dead - (IF handler \in {"lock", "count"} THEN 1 ELSE 0)
      BY <1>0, <3>5, <3>6, CountTypes
    <3>8. pc' \notin {"lock", "locked"}
      BY <3>1, <3>2
    <3>9. g_stats'.created = Born - 0
      BY <1>0, <3>7, CountTypes
    <3> QED
      BY <3>1, <3>7, <3>8, <3>9 DEF CountsFollowKernel, Born, Dead
  <2>5. CASE GetStats
    BY <2>5, CountsStutter DEF GetStats, Are
  <2>6. CASE SetIgnore
    BY <2>6, CountsStutter DEF SetIgnore, Are
  <2>7. CASE WaitAll
    BY <1>0, <2>7 DEF WaitAll, Places
  <2>8. CASE Sleep
    <3>1. pc = "sleep" /\ pc' \in {"test", "getlock", "ps"}
      BY <2>8 DEF Sleep
    <3>2. UNCHANGED <<prog, proc, handler, g_stats>>
      BY <2>8 DEF Sleep
    <3> QED
      BY <3>1, <3>2, CountsStutter DEF Are
  <2>9. CASE ShowZombies
    BY <2>9, CountsStutter DEF ShowZombies, Are
  <2>10. CASE DaemonTest
    BY <2>10, CountsStutter DEF DaemonTest, Are
  <2> QED
    BY <1>3, <2>1, <2>2, <2>3, <2>4, <2>5, <2>6, <2>7, <2>8, <2>9, <2>10 DEF Main
<1>4. CASE PressEnter
  BY <1>4, CountsStutter DEF PressEnter, Are
<1>5. CASE Sigterm \/ OpenProc \/ ReadEntry \/ AnalyseParent
  BY <1>1, <1>5 DEF Sigterm, OpenProc, ReadEntry, AnalyseParent
<1>6. ASSUME NEW q \in Pids, ChildExits(q)
      PROVE  CountsFollowKernel'
  <2>1. disposition # "ignore" /\ UNCHANGED <<prog, pc, handler, g_stats>>
    BY <1>0, <1>6 DEF ChildExits, Places
  <2> QED
    BY <1>0, <1>6, <2>1, ExitedSets, CountsStutter
<1>7. CASE UNCHANGED vars
  BY <1>1, <1>7
<1> QED
  BY <1>2, <1>3, <1>4, <1>5, <1>6, <1>7 DEF Next

\* The statistics of zombie.c count every child once when it is forked and
\* once when it is reaped, wherever SIGCHLD hits zombie_safe_fork() and
\* zombie_get_stats(), and active is what is left of them or one too many.
THEOREM CountersFollowKernel == Spec => []CountsFollowKernel
<1>1. Init => CountsFollowKernel
  <2> SUFFICES ASSUME Init PROVE CountsFollowKernel
    OBVIOUS
  <2>1. Pids \ Are("free") = {} /\ Are("gone") = {}
    BY DEF Init, Are
  <2>2. Cardinality({}) = 0
    BY FS_EmptySet
  <2>3. /\ g_stats.created = 0 /\ g_stats.reaped = 0 /\ g_stats.active = 0
        /\ pc \in {"fork", "test"} /\ handler = "off"
    BY DEF Init
  <2> QED
    BY <2>1, <2>2, <2>3 DEF CountsFollowKernel
<1> QED
  BY <1>1, CountsInductive, TypesHold, PTL DEF Spec

-----------------------------------------------------------------------------
(* The detector next to them.                                              *)

LEMMA MinOfTwo ==
  ASSUME NEW a \in Int, NEW b \in Int
  PROVE  Min({a, b}) = IF a <= b THEN a ELSE b
BY DEF Min

LEMMA RangeOfAppend ==
  ASSUME NEW s \in Seq(Pids), NEW q \in Pids
  PROVE  Range(Append(s, q)) = Range(s) \cup {q} /\ Len(Append(s, q)) = Len(s) + 1
<1>1. /\ Len(Append(s, q)) = Len(s) + 1 /\ DOMAIN Append(s, q) = 1..(Len(s) + 1)
      /\ \A i \in 1..Len(s) : Append(s, q)[i] = s[i]
      /\ Append(s, q)[Len(s) + 1] = q
      /\ DOMAIN s = 1..Len(s) /\ Len(s) \in Nat
  BY AppendProperties
<1>2. \A i \in 1..(Len(s) + 1) : i \in 1..Len(s) \/ i = Len(s) + 1
  BY <1>1
<1>3. 1..Len(s) \subseteq 1..(Len(s) + 1) /\ Len(s) + 1 \in 1..(Len(s) + 1)
  BY <1>1
<1> QED
  BY <1>1, <1>2, <1>3 DEF Range

\* The entries the parent analysis has been through.
Analysed == {found[i] : i \in 1..(look - 1)}

\* The zombies the detector has to count, and those it may count.
Due       == steady \ Named("blank")
Countable == (seen \ Named("blank")) \cup Named("mimics")

\* C are the processes the scan has counted.
Tallied(C) ==
  /\ C \subseteq Countable /\ (\A q \in C : q < scan) /\ Cardinality(C) = count
  /\ \A q \in Due : q < scan => q \in C
  /\ Range(found) \subseteq C
  /\ count <= MaxZombies => C \subseteq Range(found)

DetectorInv ==
  /\ \A q \in steady : proc[q] = "zombie"
  /\ scan \in Pids => Are("zombie") \subseteq seen
  /\ scan = 0 => found = <<>>
  /\ Len(found) = IF count <= MaxZombies THEN count ELSE MaxZombies
  /\ \E C \in SUBSET Pids : Tallied(C)
  /\ Cardinality(Due \cap Analysed) <= parent_count

LEMMA DetectorFacts ==
  ASSUME TypeInv
  PROVE  /\ seen \subseteq Pids /\ steady \subseteq Pids /\ found \in Seq(Pids)
         /\ scan \in Nat /\ count \in Nat /\ look \in Nat \ {0} /\ parent_count \in Nat
         /\ Len(found) \in Nat /\ look <= Len(found) + 1 /\ DOMAIN found = 1..Len(found)
         /\ \A i \in 1..Len(found) : found[i] \in Pids
         /\ Analysed \subseteq Range(found) /\ Range(found) \subseteq Pids
         /\ Due \subseteq steady /\ Countable \subseteq Pids
<1>1. /\ seen \subseteq Pids /\ steady \subseteq Pids /\ found \in Seq(Pids)
      /\ scan \in Nat /\ count \in Nat
      /\ look \in 1..(Len(found) + 1) /\ parent_count \in 0..(look - 1)
  BY ZombieAssumption DEF TypeInv, TypeOK
<1>2. /\ Len(found) \in Nat /\ DOMAIN found = 1..Len(found)
  BY <1>1
<1>2a. \A i \in 1..Len(found) : found[i] \in Pids
  BY <1>1, <1>2, ElementOfSeq
<1>3. /\ look \in Nat \ {0} /\ look <= Len(found) + 1 /\ parent_count \in Nat
      /\ 1..(look - 1) \subseteq 1..Len(found)
  BY <1>1, <1>2
<1> QED
  BY <1>1, <1>2, <1>2a, <1>3 DEF Analysed, Range, Due, Countable, Named

\* A step of the programs, which moves the history and not the detector.
LEMMA DetectorObserves ==
  ASSUME TypeInv, DetectorInv, Observe, UNCHANGED scanVars
  PROVE  DetectorInv'
<1>1. /\ seen \subseteq seen' /\ steady' \subseteq steady /\ steady \subseteq seen
      /\ \A q \in steady' : proc'[q] = "zombie"
  BY ObserveTypes DEF TypeInv, TypeOK
<1>1a. Countable \subseteq Countable' /\ Due' \subseteq Due
  BY <1>1 DEF Due, Countable, Named
<1>2. scan' \in Pids => Are("zombie")' \subseteq seen'
  BY DEF Observe, Are
<1>3. PICK C \in SUBSET Pids : Tallied(C)
  BY DEF DetectorInv
<1>4. Tallied(C)'
  BY <1>1a, <1>3 DEF Tallied
<1>5. Cardinality(Due' \cap Analysed) <= parent_count
  <2>1. Due \cap Analysed \subseteq Pids /\ Due' \cap Analysed \subseteq Due \cap Analysed
    BY <1>1a, DetectorFacts
  <2>2. /\ Cardinality(Due' \cap Analysed) <= Cardinality(Due \cap Analysed)
        /\ Cardinality(Due' \cap Analysed) \in Nat
        /\ Cardinality(Due \cap Analysed) \in Nat
    BY <2>1, SubsetsCount
  <2>3. Cardinality(Due \cap Analysed) <= parent_count
    BY DEF DetectorInv
  <2> QED
    BY <2>2, <2>3, DetectorFacts
<1>6. Analysed' = Analysed
  BY DEF Analysed
<1> QED
  BY <1>1, <1>2, <1>4, <1>5, <1>6 DEF DetectorInv

LEMMA DetectorReads == ASSUME TypeInv, DetectorInv, ReadEntry PROVE DetectorInv'
<1>1. /\ scan \in Pids /\ scan' = scan + 1 /\ look = 1 /\ look' = 1
      /\ UNCHANGED <<proc, parent_count, seen, steady>>
  BY DEF ReadEntry, TypeInv, Scanned
<1>2. PICK C \in SUBSET Pids : Tallied(C)
  BY DEF DetectorInv
<1>3. \A q \in Pids : q < scan' <=> q < scan \/ q = scan
  BY <1>1
<1>4. Due \subseteq Pids /\ C \subseteq Pids /\ Due' = Due /\ Countable' = Countable
  BY <1>1, <1>2, DetectorFacts DEF Due, Countable, Named
<1>4a. /\ scan \in Due => LooksZombie(scan)
       /\ LooksZombie(scan) => scan \in Countable
  BY <1>1, ZombieAssumption DEF DetectorInv, Due, Countable, Named, Are, LooksZombie, Parses, Exists
<1>5. /\ Len(found') = IF count' <= MaxZombies THEN count' ELSE MaxZombies
      /\ \E D \in SUBSET Pids : Tallied(D)'
  <2>1. CASE ~LooksZombie(scan)
    <3>1. UNCHANGED <<found, count>>
      BY <2>1 DEF ReadEntry
    <3>2. scan \notin Due
      BY <1>4a, <2>1
    <3>3. Tallied(C)'
      BY <1>1, <1>2, <1>3, <1>4, <3>1, <3>2 DEF Tallied
    <3> QED
      BY <1>2, <3>1, <3>3 DEF DetectorInv
  <2>2. CASE LooksZombie(scan)
    <3>1. scan \in Countable
      BY <1>4a, <2>2
    <3>2. scan \notin C
      BY <1>1, <1>2 DEF Tallied
    <3>3. Cardinality(C \cup {scan}) = count + 1
      BY <1>2, <3>2, SubsetsCount, DetectorFacts DEF Tallied
    <3>4. count' = count + 1
      BY <2>2 DEF ReadEntry
    <3>7. ASSUME Range(found') \subseteq C \cup {scan},
                 count' <= MaxZombies => C \cup {scan} \subseteq Range(found')
          PROVE  \E D \in SUBSET Pids : Tallied(D)'
      <4>1. C \cup {scan} \in SUBSET Pids
        BY <1>1, <1>4
      <4>2. C \cup {scan} \subseteq Countable'
        BY <1>2, <1>4, <3>1 DEF Tallied
      <4>3. \A q \in C \cup {scan} : q < scan'
        BY <1>1, <1>2, <1>3, <1>4 DEF Tallied
      <4>4. Cardinality(C \cup {scan}) = count'
        BY <3>3, <3>4
      <4>5. \A q \in Due' : q < scan' => q \in C \cup {scan}
        BY <1>1, <1>2, <1>3, <1>4 DEF Tallied
      <4>6. PICK D \in SUBSET Pids : D = C \cup {scan}
        BY <4>1
      <4>7. Tallied(D)'
        BY <3>7, <4>2, <4>3, <4>4, <4>5, <4>6 DEF Tallied
      <4> QED
        BY <4>7
    <3>5. CASE count < MaxZombies
      <4>1. found' = Append(found, scan)
        BY <2>2, <3>5 DEF ReadEntry
      <4>2. Range(found') = Range(found) \cup {scan} /\ Len(found') = Len(found) + 1
        BY <1>1, <4>1, RangeOfAppend, DetectorFacts
      <4>3. count <= MaxZombies /\ count + 1 <= MaxZombies
        BY <3>5, DetectorFacts, ZombieAssumption
      <4>4. Len(found') = count + 1
        BY <4>2, <4>3 DEF DetectorInv
      <4>5. /\ Range(found') \subseteq C \cup {scan}
            /\ C \cup {scan} \subseteq Range(found')
        BY <1>2, <4>2, <4>3 DEF Tallied
      <4>6. Len(found') = IF count' <= MaxZombies THEN count' ELSE MaxZombies
        BY <3>4, <4>3, <4>4
      <4> QED
        BY <3>7, <4>5, <4>6
    <3>6. CASE ~(count < MaxZombies)
      <4>1. found' = found
        BY <2>2, <3>6 DEF ReadEntry
      <4>2. ~(count' <= MaxZombies) /\ Len(found) = MaxZombies
        BY <3>4, <3>6, DetectorFacts, ZombieAssumption DEF DetectorInv
      <4>3. Range(found') \subseteq C \cup {scan}
        BY <1>2, <4>1 DEF Tallied
      <4>4. Len(found') = IF count' <= MaxZombies THEN count' ELSE MaxZombies
        BY <4>1, <4>2
      <4> QED
        BY <3>7, <4>2, <4>3, <4>4
    <3> QED
      BY <3>5, <3>6
  <2> QED
    BY <2>1, <2>2
<1>6. Cardinality((Due \cap Analysed)') <= parent_count'
  <2>1. 1..(look' - 1) = {}
    BY <1>1
  <2>2. (Due \cap Analysed)' = {}
    BY <2>1 DEF Analysed
  <2>3. parent_count' \in Nat /\ Cardinality({}) = 0
    BY <1>1, FS_EmptySet, DetectorFacts
  <2> QED
    BY <2>2, <2>3
<1>7. scan' # 0
  BY <1>1
<1>8. /\ \A q \in steady' : proc'[q] = "zombie"
      /\ scan' \in Pids => Are("zombie")' \subseteq seen'
  BY <1>1 DEF DetectorInv, Are
<1> QED
  BY <1>5, <1>6, <1>7, <1>8 DEF DetectorInv

LEMMA DetectorAnalyses == ASSUME TypeInv, DetectorInv, AnalyseParent PROVE DetectorInv'
<1>1. /\ look <= Len(found) /\ look' = look + 1
      /\ UNCHANGED <<proc, scan, found, count, seen, steady>>
  BY DEF AnalyseParent
<1>2. PICK C \in SUBSET Pids : Tallied(C)
  BY DEF DetectorInv
<1>3. Tallied(C)'
  BY <1>1, <1>2 DEF Tallied, Due, Countable, Named
<1>4. Analysed' = Analysed \cup {found[look]}
  <2>1. 1..(look' - 1) = 1..(look - 1) \cup {look}
    BY <1>1, DetectorFacts
  <2> QED
    BY <1>1, <2>1 DEF Analysed
<1>4a. Due' = Due
  BY <1>1 DEF Due, Named
<1>5. Cardinality(Due' \cap Analysed') <= parent_count'
  <2>0. /\ Due \cap Analysed \subseteq Pids
        /\ Cardinality(Due \cap Analysed) <= parent_count
        /\ Cardinality(Due \cap Analysed) \in Nat
    BY DetectorFacts, SubsetsCount DEF DetectorInv
  <2>1. CASE found[look] \in Due
    <3>1. parent_count' = parent_count + 1
      <4>1. Parses(found[look])
        BY <2>1, DetectorFacts DEF DetectorInv, Due, Named, Parses, Exists
      <4> QED
        BY <4>1 DEF AnalyseParent
    <3>2. Due' \cap Analysed' = (Due \cap Analysed) \cup {found[look]}
      BY <1>4, <1>4a, <2>1
    <3>3. Cardinality(Due' \cap Analysed') <= Cardinality(Due \cap Analysed) + 1
      <4>1. Cardinality(Due' \cap Analysed') = Cardinality(Due \cap Analysed)
              + (IF found[look] \in Due \cap Analysed THEN 0 ELSE 1)
        BY <2>0, <3>2, SubsetsCount
      <4> QED
        BY <2>0, <4>1
    <3>4. Cardinality(Due' \cap Analysed') \in Nat
      BY <2>0, <3>2, SubsetsCount
    <3> QED
      BY <2>0, <3>1, <3>3, <3>4, DetectorFacts
  <2>2. CASE found[look] \notin Due
    <3>1. Due' \cap Analysed' = Due \cap Analysed
      BY <1>4, <1>4a, <2>2
    <3>2. parent_count' >= parent_count
      BY DetectorFacts DEF AnalyseParent
    <3>3. parent_count' \in Nat
      BY DetectorFacts DEF AnalyseParent
    <3>4. Cardinality(Due' \cap Analysed') = Cardinality(Due \cap Analysed)
      BY <3>1
    <3>5. parent_count \in Nat
      BY DetectorFacts
    <3> QED
      BY <2>0, <3>2, <3>3, <3>4, <3>5
  <2> QED
    BY <2>1, <2>2
<1> QED
  BY <1>1, <1>2, <1>3, <1>5 DEF DetectorInv, Are

LEMMA DetectorInductive ==
  TypeInv /\ DetectorInv /\ [Next]_vars => DetectorInv'
<1> SUFFICES ASSUME TypeInv, DetectorInv, [Next]_vars PROVE DetectorInv'
  OBVIOUS
<1>1. ASSUME UNCHANGED <<proc, scanVars, seen, steady>> PROVE DetectorInv'
  BY <1>1 DEF DetectorInv, Tallied, Analysed, Are, Due, Countable, Named
<1>2. CASE UNCHANGED vars
  BY <1>1, <1>2
<1>3. CASE Handler
  <2>1. CASE HandlerReaps
    BY <2>1, DetectorObserves DEF HandlerReaps, Reap
  <2>2. CASE SigchldArrives \/ HandlerLocks \/ HandlerCounts \/ HandlerReturns
    BY <1>1, <2>2 DEF SigchldArrives, HandlerLocks, HandlerCounts, HandlerReturns
  <2> QED
    BY <1>3, <2>1, <2>2 DEF Handler
<1>4. CASE Main
  <2>1. CASE Fork
    BY <2>1, DetectorObserves DEF Fork, Forked
  <2>2. CASE WaitAll
    <3>1. CASE \E q \in Pids : Reap(q)
      BY <2>2, <3>1, DetectorObserves DEF WaitAll, Reap
    <3>2. CASE UNCHANGED <<kernelVars, seen, steady>>
      BY <1>1, <2>2, <3>2 DEF WaitAll
    <3> QED
      BY <2>2, <3>1, <3>2 DEF WaitAll
  <2>3. CASE ForkFails \/ Lock \/ CountChild \/ GetStats \/ SetIgnore
    BY <1>1, <2>3 DEF ForkFails, Lock, CountChild, GetStats, SetIgnore
  <2>4. CASE Sleep \/ ShowZombies \/ DaemonTest
    BY <1>1, <2>4 DEF Sleep, ShowZombies, DaemonTest
  <2> QED
    BY <1>4, <2>1, <2>2, <2>3, <2>4 DEF Main
<1>5. CASE PressEnter \/ Sigterm
  BY <1>1, <1>5 DEF PressEnter, Sigterm
<1>6. ASSUME NEW q \in Pids, ChildExits(q) PROVE DetectorInv'
  BY <1>6, DetectorObserves DEF ChildExits
<1>7. CASE OpenProc
  <2>1. /\ scan = 0 /\ scan' = 1 /\ seen' = Are("zombie") /\ steady' = Are("zombie")
        /\ UNCHANGED <<proc, found, count, look, parent_count>>
    BY <1>7 DEF OpenProc
  <2>2. found = <<>> /\ count = 0 /\ look = 1 /\ Range(found) = {}
    <3>1. found = <<>> /\ count = 0
      BY <2>1, DetectorFacts DEF DetectorInv, TypeInv, Scanned
    <3>2. look = 1
      BY <2>1, ZombieAssumption DEF TypeInv, Scanned
    <3> QED
      BY <3>1, <3>2 DEF Range
  <2>3. Tallied({})'
    <3>1. \A q \in Pids : ~(q < 1)
      BY ZombieAssumption
    <3>2. Due' \subseteq Pids
      BY <2>1 DEF Are, Due
    <3> QED
      BY <2>1, <2>2, <3>1, <3>2, FS_EmptySet DEF Tallied
  <2>4. Analysed' = {}
    BY <2>1, <2>2 DEF Analysed
  <2>5. Cardinality(Due' \cap Analysed') <= parent_count'
    BY <2>1, <2>4, FS_EmptySet, DetectorFacts
  <2>6. Len(found') = IF count' <= MaxZombies THEN count' ELSE MaxZombies
    BY <2>1 DEF DetectorInv
  <2>7. /\ \A q \in steady' : proc'[q] = "zombie"
        /\ Are("zombie")' \subseteq seen' /\ scan' # 0
    BY <2>1 DEF Are
  <2> QED
    BY <2>3, <2>5, <2>6, <2>7 DEF DetectorInv
<1> QED
  BY <1>2, <1>3, <1>4, <1>5, <1>6, <1>7, DetectorReads, DetectorAnalyses DEF Next

\* What zombie_detector reports, while children end, are reaped and their
\* ids come back behind its back: nobody who was a zombie throughout is missed
\* but for a blank in his name, nobody who never was one is counted but for a
\* name that mimics one, and the array never overflows.
THEOREM DetectorIsSound == Spec => []DetectorSound
<1>1. Init => DetectorInv
  <2> SUFFICES ASSUME Init PROVE DetectorInv
    OBVIOUS
  <2>1. /\ scan = 0 /\ found = <<>> /\ count = 0 /\ look = 1 /\ parent_count = 0
        /\ seen = {} /\ steady = {} /\ scan \notin Pids
    BY ZombieAssumption DEF Init
  <2>2. Range(found) = {} /\ Analysed = {} /\ Len(found) = 0
    BY <2>1 DEF Range, Analysed
  <2>3. Tallied({})
    BY <2>1, <2>2, FS_EmptySet DEF Tallied, Due
  <2> QED
    BY <2>1, <2>2, <2>3, FS_EmptySet, ZombieAssumption DEF DetectorInv
<1>2. TypeInv /\ DetectorInv => DetectorSound
  <2> SUFFICES ASSUME TypeInv, DetectorInv, scan > NumPids PROVE
         /\ Cardinality(Due) <= count /\ count <= Cardinality(Countable)
         /\ Len(found) = Min({count, MaxZombies})
         /\ Range(found) \subseteq Countable
         /\ count <= MaxZombies => Due \subseteq Range(found)
         /\ look > Len(found) => Cardinality(Due \cap Range(found)) <= parent_count
    BY DEF DetectorSound, Due, Countable
  <2>1. PICK C \in SUBSET Pids : Tallied(C)
    BY DEF DetectorInv
  <2>2. \A q \in Pids : q < scan
    BY DetectorFacts, ZombieAssumption
  <2>3. Due \subseteq C /\ C \subseteq Countable /\ Cardinality(C) = count
    BY <2>1, <2>2, DetectorFacts DEF Tallied
  <2>4. Cardinality(Due) <= count /\ count <= Cardinality(Countable)
    BY <2>1, <2>3, SubsetsCount, DetectorFacts
  <2>5. Len(found) = Min({count, MaxZombies})
    BY MinOfTwo, DetectorFacts, ZombieAssumption DEF DetectorInv
  <2>6. ASSUME look > Len(found)
        PROVE  Cardinality(Due \cap Range(found)) <= parent_count
    <3>1. look - 1 = Len(found)
      BY <2>6, DetectorFacts
    <3>2. Analysed = Range(found)
      BY <3>1, DetectorFacts DEF Analysed, Range
    <3> QED
      BY <3>2 DEF DetectorInv
  <2> QED
    BY <2>1, <2>3, <2>4, <2>5, <2>6 DEF Tallied
<1> QED
  BY <1>1, <1>2, DetectorInductive, TypesHold, PTL DEF Spec

================================================================================
