----------------------------- MODULE ZombiePrograms -----------------------------
(***************************************************************************)
(* The programs of homework2.  Each of them forks children and differs in  *)
(* how it gets rid of the zombies:                                         *)
(*   "creator"            zombie_creator: waitpid() after Enter            *)
(*   "explicit", "handler", "ignore"    zombie_reaper, strategies 1, 2, 3  *)
(*   "daemon"             process_daemon: SIGCHLD handler, until SIGTERM   *)
(*   "lib"                test_lib: the library zombie.c with its counters *)
(* Next to them runs zombie_detector, which reads /proc.                   *)
(* A handler interrupts the main program between any two steps.            *)
(***************************************************************************)
EXTENDS Integers, Sequences, FiniteSetsExt, Functions

CONSTANTS NumPids,        (* /proc has the entries 1..NumPids               *)
          Comm,           (* their names: "word", "blank" (one with a blank *)
                          (* in it), or "mimics" (like "a Z 1 b")           *)
          Children,       (* how many children a program forks              *)
          Programs,
          ForksFail,      (* may fork() fail?                               *)
          MaxZombies      (* room in the array of the detector              *)

Pids == 1..NumPids
Named(form) == {q \in Pids : Comm[q] = form}

ASSUME ZombieAssumption ==
  /\ Comm \in [Pids -> {"word", "blank", "mimics"}]
  /\ NumPids \in Nat /\ Children \in Nat \ {0} /\ MaxZombies \in Nat
  /\ Programs \subseteq {"creator", "explicit", "handler", "ignore", "daemon", "lib"}
  /\ ForksFail \in BOOLEAN

VARIABLES prog,           (* the program                                    *)
          proc,           (* kernel: "free", "running", "zombie", "gone"    *)
          sigchld,        (* kernel: is SIGCHLD pending?                    *)
          disposition,    (* kernel: of SIGCHLD                             *)
          pc,             (* where the main program is                      *)
          n,              (* its loop counter                               *)
          woken,          (* has a handler interrupted its sleep()?         *)
          daemon_running,
          handler,        (* where the SIGCHLD handler is, or "off"         *)
          stats_mutex,    (* who holds it: "nobody", "main" or "handler"    *)
          g_stats,
          report,         (* what zombie_get_stats() returned               *)
          scan,           (* zombie_detector: the next entry of /proc       *)
          found, count,   (* zombie_pids and the number of zombies          *)
          look,           (* the next of zombie_pids to be looked at again  *)
          parent_count,   (* the zombies its parent analysis attributes     *)
          seen, steady    (* history: the zombies there have been since the *)
                          (* scan began, and those there all the time       *)

kernelVars == <<proc, sigchld, disposition>>
mainVars   == <<pc, n, woken, report>>
libVars    == <<stats_mutex, g_stats>>
scanVars   == <<scan, found, count, look, parent_count>>
vars == <<prog, kernelVars, mainVars, daemon_running, handler, libVars,
          scanVars, seen, steady>>

Are(state) == {q \in Pids : proc[q] = state}
Exited     == pc = "exited"
InMain     == handler = "off" /\ ~Exited
AfterForks == [creator |-> "getchar", explicit |-> "waitall", handler |-> "sleep",
               ignore |-> "ignore", daemon |-> "sleep", lib |-> "sleep"]

Init ==
  /\ prog \in Programs
  /\ proc = [q \in Pids |-> "free"] /\ sigchld = FALSE
  /\ disposition = IF prog = "creator" THEN "default" ELSE "handler"
  /\ pc = IF prog = "daemon" THEN "test" ELSE "fork"
  /\ n = 0 /\ woken = FALSE /\ daemon_running = TRUE /\ handler = "off"
  /\ stats_mutex = "nobody"
  /\ g_stats = [created |-> 0, reaped |-> 0, active |-> 0] /\ report = g_stats
  /\ scan = 0 /\ found = <<>> /\ count = 0 /\ look = 1 /\ parent_count = 0
  /\ seen = {} /\ steady = {}

-----------------------------------------------------------------------------
(* The kernel and the children.  The history variables follow it.          *)

Observe ==
  /\ seen' = IF scan \in Pids THEN seen \cup {q \in Pids : proc'[q] = "zombie"} ELSE seen
  /\ steady' = steady \cap {q \in Pids : proc'[q] = "zombie"}

\* Without a program that ignores SIGCHLD a child that ends is a zombie.
ChildExits(q) ==
  /\ ~Exited /\ proc[q] = "running"
  /\ proc' = [proc EXCEPT ![q] = IF disposition = "ignore" THEN "gone" ELSE "zombie"]
  /\ sigchld' = (disposition = "handler")
  /\ Observe
  /\ UNCHANGED <<prog, disposition, mainVars, daemon_running, handler, libVars, scanVars>>

\* waitpid() returns q.
Reap(q) ==
  /\ proc[q] = "zombie"
  /\ proc' = [proc EXCEPT ![q] = "gone"]
  /\ Observe
  /\ UNCHANGED <<sigchld, disposition>>

Forked(q) ==
  /\ proc[q] \in (IF prog = "daemon" THEN {"free", "gone"} ELSE {"free"})
  /\ proc' = [proc EXCEPT ![q] = "running"]
  /\ Observe
  /\ UNCHANGED <<sigchld, disposition>>

-----------------------------------------------------------------------------
(* The SIGCHLD handlers: a loop of waitpid(WNOHANG).                       *)

SigchldArrives ==
  /\ ~Exited /\ sigchld /\ handler = "off"
  /\ sigchld' = FALSE /\ handler' = "reap"
  /\ UNCHANGED <<prog, proc, disposition, mainVars, daemon_running, libVars,
                 scanVars, seen, steady>>

\* Mutant: "if" for "while", one child per signal.
HandlerReapsOnce ==
  /\ ~Exited /\ handler = "reap"
  /\ \E q \in Pids : Reap(q)
  /\ handler' = IF prog = "lib" THEN "lock" ELSE "off"
  /\ UNCHANGED <<prog, mainVars, daemon_running, libVars, scanVars>>

HandlerReaps ==
  /\ ~Exited /\ handler = "reap"
  /\ \E q \in Pids : Reap(q)
  /\ handler' = IF prog = "lib" THEN "lock" ELSE "reap"
  /\ UNCHANGED <<prog, mainVars, daemon_running, libVars, scanVars>>

\* Mutant: the handler does not wait for the mutex.
HandlerLocksAnyway ==
  /\ ~Exited /\ handler = "lock"
  /\ stats_mutex' = "handler" /\ handler' = "count"
  /\ UNCHANGED <<prog, kernelVars, mainVars, daemon_running, g_stats, scanVars,
                 seen, steady>>

\* The handler of the library waits for the mutex, whoever has it.
HandlerLocks ==
  /\ ~Exited /\ handler = "lock" /\ stats_mutex = "nobody"
  /\ stats_mutex' = "handler" /\ handler' = "count"
  /\ UNCHANGED <<prog, kernelVars, mainVars, daemon_running, g_stats, scanVars,
                 seen, steady>>

HandlerCounts ==
  /\ ~Exited /\ handler = "count"
  /\ g_stats' = [g_stats EXCEPT !.reaped = @ + 1,
                                !.active = IF @ > 0 THEN @ - 1 ELSE 0]
  /\ stats_mutex' = "nobody" /\ handler' = "reap"
  /\ UNCHANGED <<prog, kernelVars, mainVars, daemon_running, scanVars, seen, steady>>

HandlerReturns ==
  /\ ~Exited /\ handler = "reap" /\ Are("zombie") = {}
  /\ handler' = "off"
  /\ woken' = (pc = "sleep")
  /\ UNCHANGED <<prog, kernelVars, pc, n, daemon_running, report, libVars,
                 scanVars, seen, steady>>

-----------------------------------------------------------------------------
(* The main programs.                                                      *)

Goto(place) ==
  /\ pc' = place
  /\ woken' = FALSE

\* Where a program goes on after its n'th fork().
Continue(k) == IF k < Children /\ prog # "daemon" THEN "fork" ELSE AfterForks[prog]

Fork ==
  /\ InMain /\ pc = "fork" /\ n < Children
  /\ \E q \in Pids : Forked(q)
  /\ IF prog = "lib" THEN Goto("lock") /\ UNCHANGED n
     ELSE /\ Goto(Continue(n + 1))
          /\ n' = IF prog = "daemon" THEN n ELSE n + 1
  /\ UNCHANGED <<prog, daemon_running, handler, report, libVars, scanVars>>

\* Mutant: the library counts a fork that failed.
ForkFailsCounted ==
  /\ InMain /\ pc = "fork" /\ ForksFail
  /\ CASE prog = "daemon" -> Goto("sleep")
       [] prog = "lib"    -> Goto("lock")
       [] OTHER           -> Goto("exited")
  /\ UNCHANGED <<prog, kernelVars, n, daemon_running, handler, report, libVars, scanVars,
                 seen, steady>>

\* The daemon sleeps, the library goes on, the others give up.
ForkFails ==
  /\ InMain /\ pc = "fork" /\ ForksFail
  /\ CASE prog = "daemon" -> Goto("sleep") /\ UNCHANGED n
       [] prog = "lib"    -> Goto(Continue(n + 1)) /\ n' = n + 1
       [] OTHER           -> Goto("exited") /\ UNCHANGED n
  /\ UNCHANGED <<prog, kernelVars, daemon_running, handler, report, libVars, scanVars,
                 seen, steady>>

\* pthread_mutex_lock() in zombie_safe_fork() and in zombie_get_stats().
Lock ==
  /\ InMain /\ pc \in {"lock", "getlock"} /\ stats_mutex = "nobody"
  /\ stats_mutex' = "main"
  /\ Goto(IF pc = "lock" THEN "locked" ELSE "getlocked")
  /\ UNCHANGED <<prog, kernelVars, n, daemon_running, handler, report, g_stats,
                 scanVars, seen, steady>>

CountChild ==
  /\ InMain /\ pc = "locked"
  /\ g_stats' = [g_stats EXCEPT !.created = @ + 1, !.active = @ + 1]
  /\ stats_mutex' = "nobody"
  /\ n' = n + 1 /\ Goto(Continue(n + 1))
  /\ UNCHANGED <<prog, kernelVars, daemon_running, handler, report, scanVars, seen, steady>>

GetStats ==
  /\ InMain /\ pc = "getlocked"
  /\ report' = g_stats
  /\ stats_mutex' = "nobody"
  /\ Goto("exited")
  /\ UNCHANGED <<prog, kernelVars, n, daemon_running, handler, g_stats, scanVars,
                 seen, steady>>

\* setup_ignore_reaper(): a pending SIGCHLD is dropped, zombies stay.
SetIgnore ==
  /\ InMain /\ pc = "ignore"
  /\ disposition' = "ignore" /\ sigchld' = FALSE
  /\ Goto("sleep")
  /\ UNCHANGED <<prog, proc, n, daemon_running, handler, report, libVars, scanVars,
                 seen, steady>>

\* The user of zombie_creator presses Enter.
PressEnter ==
  /\ InMain /\ pc = "getchar"
  /\ Goto("waitall")
  /\ UNCHANGED <<prog, kernelVars, n, daemon_running, handler, report, libVars,
                 scanVars, seen, steady>>

\* Mutant: waitpid() does not block (WNOHANG).
WaitAllNoHang ==
  /\ InMain /\ pc = "waitall"
  /\ \/ (\E q \in Pids : Reap(q)) /\ UNCHANGED <<pc, woken>>
     \/ /\ Are("zombie") = {}
        /\ Goto(IF prog = "creator" THEN "exited" ELSE "sleep")
        /\ UNCHANGED <<kernelVars, seen, steady>>
  /\ UNCHANGED <<prog, n, daemon_running, handler, report, libVars, scanVars>>

\* Mutant: waitpid() is repeated until it has reaped every child itself.
WaitAllInsists ==
  /\ InMain /\ pc = "waitall"
  /\ (\E q \in Pids : Reap(q)) /\ UNCHANGED <<pc, woken>>
  /\ UNCHANGED <<prog, n, daemon_running, handler, report, libVars, scanVars>>

\* waitpid(-1, &status, 0) until ECHILD: it blocks while a child runs.
WaitAll ==
  /\ InMain /\ pc = "waitall"
  /\ \/ (\E q \in Pids : Reap(q)) /\ UNCHANGED <<pc, woken>>
     \/ /\ Are("running") \cup Are("zombie") = {}
        /\ Goto(IF prog = "creator" THEN "exited" ELSE "sleep")
        /\ UNCHANGED <<kernelVars, seen, steady>>
  /\ UNCHANGED <<prog, n, daemon_running, handler, report, libVars, scanVars>>

\* sleep() is not restarted after a handler; its time is longer than a child
\* of zombie_reaper and test_lib lives.
Sleep ==
  /\ InMain /\ pc = "sleep"
  /\ woken \/ prog = "daemon" \/ Are("running") = {}
  /\ Goto(CASE prog = "daemon" -> "test" [] prog = "lib" -> "getlock" [] OTHER -> "ps")
  /\ UNCHANGED <<prog, kernelVars, n, daemon_running, handler, report, libVars,
                 scanVars, seen, steady>>

\* system("ps ..."), and the end of zombie_reaper.
ShowZombies ==
  /\ InMain /\ pc = "ps"
  /\ Goto("exited")
  /\ UNCHANGED <<prog, kernelVars, n, daemon_running, handler, report, libVars,
                 scanVars, seen, steady>>

\* while (daemon_running)
DaemonTest ==
  /\ InMain /\ pc = "test"
  /\ Goto(IF daemon_running THEN "fork" ELSE "exited")
  /\ UNCHANGED <<prog, kernelVars, n, daemon_running, handler, report, libVars,
                 scanVars, seen, steady>>

\* daemon_sigterm_handler() may interrupt the other handler, too.
Sigterm ==
  /\ prog = "daemon" /\ ~Exited /\ daemon_running
  /\ daemon_running' = FALSE
  /\ woken' = (pc = "sleep")
  /\ UNCHANGED <<prog, kernelVars, pc, n, handler, report, libVars, scanVars, seen,
                 steady>>

-----------------------------------------------------------------------------
(* zombie_detector: find_zombies(), and main().                            *)

OpenProc ==
  /\ scan = 0 /\ ~Exited
  /\ scan' = 1
  /\ seen' = Are("zombie") /\ steady' = Are("zombie")
  /\ UNCHANGED <<prog, kernelVars, mainVars, daemon_running, handler, libVars,
                 found, count, look, parent_count>>

\* fscanf() of "%d %255s %c %d" in /proc/q/stat: a blank in the name ends %s,
\* so %c and %d read the next word of the name, which mostly is no number.
Exists(q)      == proc[q] \in {"running", "zombie"}
Parses(q)      == Exists(q) /\ Comm[q] # "blank"
LooksZombie(q) == Parses(q) /\ (Comm[q] = "mimics" \/ proc[q] = "zombie")

\* Mutant: max_zombies is not looked at.
ReadEntryUnbounded ==
  /\ scan \in Pids /\ ~Exited
  /\ IF LooksZombie(scan)
       THEN count' = count + 1 /\ found' = Append(found, scan)
       ELSE UNCHANGED <<found, count>>
  /\ scan' = scan + 1
  /\ UNCHANGED <<prog, kernelVars, mainVars, daemon_running, handler, libVars,
                 look, parent_count, seen, steady>>

ReadEntry ==
  /\ scan \in Pids /\ ~Exited
  /\ IF LooksZombie(scan)
       THEN /\ count' = count + 1
            /\ found' = IF count < MaxZombies THEN Append(found, scan) ELSE found
       ELSE UNCHANGED <<found, count>>
  /\ scan' = scan + 1
  /\ UNCHANGED <<prog, kernelVars, mainVars, daemon_running, handler, libVars,
                 look, parent_count, seen, steady>>

\* The parent analysis reads /proc/<pid>/stat again; the zombie may be gone,
\* and its id may belong to a child that runs.
AnalyseParent ==
  /\ scan > NumPids /\ look <= Len(found) /\ ~Exited
  /\ parent_count' = IF Parses(found[look]) THEN parent_count + 1 ELSE parent_count
  /\ look' = look + 1
  /\ UNCHANGED <<prog, kernelVars, mainVars, daemon_running, handler, libVars,
                 scan, found, count, seen, steady>>

-----------------------------------------------------------------------------
Handler ==
  SigchldArrives \/ HandlerReaps \/ HandlerLocks \/ HandlerCounts \/ HandlerReturns

Main ==
  \/ Fork \/ ForkFails \/ Lock \/ CountChild \/ GetStats \/ SetIgnore \/ WaitAll
  \/ Sleep \/ ShowZombies \/ DaemonTest

Next ==
  \/ Handler \/ Main \/ PressEnter \/ Sigterm
  \/ \E q \in Pids : ChildExits(q)
  \/ OpenProc \/ ReadEntry \/ AnalyseParent

Spec == Init /\ [][Next]_vars

\* Programs and handlers run on and every child ends; nobody need press
\* Enter, send SIGTERM or start the detector.
FairSpec ==
  /\ Spec /\ WF_vars(Main) /\ WF_vars(Handler)
  /\ \A q \in Pids : WF_vars(ChildExits(q))
-----------------------------------------------------------------------------
Stats == [created : Nat, reaped : Nat, active : Nat]

TypeOK ==
  /\ prog \in Programs
  /\ proc \in [Pids -> {"free", "running", "zombie", "gone"}]
  /\ sigchld \in BOOLEAN /\ disposition \in {"default", "handler", "ignore"}
  /\ pc \in {"fork", "lock", "locked", "getlock", "getlocked", "getchar",
             "waitall", "ignore", "sleep", "ps", "test", "exited"}
  /\ n \in 0..Children /\ woken \in BOOLEAN /\ daemon_running \in BOOLEAN
  /\ handler \in {"off", "reap", "lock", "count"}
  /\ stats_mutex = IF handler = "count" THEN "handler"
                   ELSE IF pc \in {"locked", "getlocked"} THEN "main" ELSE "nobody"
  /\ g_stats \in Stats /\ report \in Stats
  /\ scan \in 0..(NumPids + 1) /\ found \in Seq(Pids) /\ count \in 0..NumPids
  /\ look \in 1..(Len(found) + 1) /\ parent_count \in 0..(look - 1)
  /\ steady \subseteq seen /\ seen \subseteq Pids

\* The mutex is taken twice by the same thread: zombie.c waits for itself.
SelfDeadlock == handler = "lock" /\ stats_mutex = "main"

\* zombie_stats_t follows the kernel: every fork and every reaped child is
\* counted once, when its count is not just being made.  active is what is
\* left, or one too many: a child that ends before it is counted finds active
\* at 0, where the handler leaves it, and is then counted as active for ever.
\* That error is never made twice.
CountsFollowKernel ==
  prog = "lib" =>
    /\ g_stats.created = Cardinality(Pids \ Are("free"))
                           - (IF pc \in {"lock", "locked"} THEN 1 ELSE 0)
    /\ g_stats.reaped = Cardinality(Are("gone"))
                           - (IF handler \in {"lock", "count"} THEN 1 ELSE 0)
    /\ g_stats.created - g_stats.reaped <= g_stats.active
    /\ g_stats.active <= g_stats.created - g_stats.reaped + 1

\* "ps output should show no defunct processes" after strategy 1: no child is
\* left, whoever of waitpid() and the handler got it.
ExplicitLeavesNone ==
  prog = "explicit" /\ pc = "ps" =>
    Are("zombie") = {} /\ Are("running") = {} /\ n = Children

\* What zombie_detector may print: everybody who is a zombie during the whole
\* scan is counted, unless his name has a blank, and nobody who was none in the
\* meantime, unless his name mimics one; the array has the first MaxZombies of
\* them, and the parent analysis counts everybody in it who still is one.
DetectorSound ==
  LET Due       == steady \ Named("blank")
      Countable == (seen \ Named("blank")) \cup Named("mimics")
  IN  scan > NumPids =>
        /\ Cardinality(Due) <= count /\ count <= Cardinality(Countable)
        /\ Len(found) = Min({count, MaxZombies})
        /\ Range(found) \subseteq Countable
        /\ count <= MaxZombies => Due \subseteq Range(found)
        /\ look > Len(found) => Cardinality(Due \cap Range(found)) <= parent_count

\* "Zombie prevention": a zombie is reaped while its parent runs, if that has
\* a handler or waits for everybody, and unless zombie.c waits for itself.
ZombiesReaped ==
  \A q \in Pids :
    /\ proc[q] = "zombie" /\ prog \in {"explicit", "handler", "daemon", "lib"}
         ~> proc[q] # "zombie" \/ Exited \/ SelfDeadlock
    /\ proc[q] = "zombie" /\ pc = "waitall" ~> proc[q] # "zombie"

\* zombie.h: "Fork with automatic zombie prevention".
LibraryReaps ==
  \A q \in Pids : prog = "lib" /\ proc[q] = "zombie" ~> proc[q] # "zombie" \/ Exited

\* "killall process_daemon": after SIGTERM the loop of the daemon ends,
\* wherever it was hit; and zombie_reaper comes to its end.
ProgramsEnd ==
  /\ ~daemon_running ~> Exited
  /\ prog \in {"explicit", "handler", "ignore"} ~> Exited
=============================================================================
