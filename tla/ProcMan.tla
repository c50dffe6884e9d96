-------------------------------- MODULE ProcMan --------------------------------
(***************************************************************************)
(* procman.c: a shell that creates children and keeps a table of them.     *)
(* The main program is interrupted by its own SIGCHLD and SIGINT handlers  *)
(* wherever the signal mask allows; every step below is a stretch of code  *)
(* in which an interruption makes no difference.  The kernel's process     *)
(* table is part of the state, and so is what it does with process ids.    *)
(***************************************************************************)
EXTENDS Integers, Sequences

CONSTANTS Pids,           (* process ids                                    *)
          NoPid,
          MAX_PROCESSES,
          MaxCmds,        (* bound: commands given to the shell             *)
          Recycling,      (* whom may the kernel give a reaped child's id?  *)
                          (* some of "other" (a stranger), "free" (a child) *)
          Obedient,       (* does SIGTERM end every child?                  *)
          Interrupts,     (* may SIGINT arrive?                             *)
          ChecksStatus    (* does anybody call check_process_status()?      *)

ASSUME ProcManAssumption ==
  /\ NoPid \notin Pids
  /\ MAX_PROCESSES \in Nat \ {0} /\ MaxCmds \in Nat
  /\ Recycling \subseteq {"other", "free"}
  /\ {Obedient, Interrupts, ChecksStatus} \subseteq BOOLEAN

VARIABLES proc,           (* kernel: "free", "running", "zombie", "gone"    *)
                          (* (reaped) or "other" (somebody else's process)  *)
          doomed,         (* kernel: children a signal is going to end      *)
          sigchld,        (* kernel: is SIGCHLD pending?                    *)
          process_table,
          process_count,
          stack,          (* the functions on the stack: main and handlers  *)
          pc,             (* where the main program is                      *)
          target,         (* its pid variable                               *)
          i, j,           (* its loop counters                              *)
          remaining,      (* wait_all_processes(): did it see a running one *)
          got,            (* sigchld_handler(): the child just reaped       *)
          missed,         (* history: children reaped there before          *)
                          (* create_process() entered them                  *)
          k,              (* sigint_handler(): its loop counter             *)
          kpc,            (* and where it is                                *)
          ncmds           (* environment: commands given so far             *)

kernelVars == <<proc, doomed, sigchld>>
tableVars  == <<process_table, process_count>>
mainVars   == <<pc, target, i, j, remaining>>
chldVars   == <<got, missed>>
intVars    == <<k, kpc>>
vars       == <<kernelVars, tableVars, stack, mainVars, chldVars, intVars, ncmds>>

Slots == 1..MAX_PROCESSES
Top   == stack[Len(stack)]
InMain     == Top = "main"
On(f)      == \E n \in DOMAIN stack : stack[n] = f
Exited     == pc = "exited"
ShuttingDown == On("int") /\ kpc = "wait"   \* waitpid(-1) in sigint_handler()
Masked     == pc = "compact"   \* SIGCHLD is blocked

Entry(n)   == process_table[n]
Tracked    == {Entry(n).pid : n \in 1..process_count}

\* Mutant: the last entry is never looked at.
FirstEntryButLast(n, p) ==
  /\ n \in 1..(process_count - 1) /\ Entry(n).pid = p
  /\ \A m \in 1..(n - 1) : Entry(m).pid # p

\* find_process_index(): the first entry with this pid.
FirstEntry(n, p) ==
  /\ n \in 1..process_count /\ Entry(n).pid = p
  /\ \A m \in 1..(n - 1) : Entry(m).pid # p

Init ==
  /\ proc = [p \in Pids |-> "free"] /\ doomed = {} /\ sigchld = FALSE
  /\ process_table = [n \in Slots |-> [pid |-> NoPid, status |-> -1]]
  /\ process_count = 0
  /\ stack = <<"main">> /\ pc = "shell" /\ target = NoPid
  /\ i = 1 /\ j = 1 /\ remaining = FALSE
  /\ got = NoPid /\ missed = {} /\ k = 1 /\ kpc = "test"
  /\ ncmds = 0

-----------------------------------------------------------------------------
(* The system calls.                                                       *)

\* waitpid() returns p: the child disappears from the kernel's table.
Reap(p) ==
  /\ proc[p] = "zombie"
  /\ proc' = [proc EXCEPT ![p] = "gone"]
  /\ UNCHANGED <<doomed, sigchld>>

\* kill(p, sig): a running child dies of SIGKILL, and of SIGTERM if it does
\* not ignore it.
Signal(p, force) ==
  /\ \/ proc[p] = "running" /\ doomed' = doomed \cup {p}
     \/ proc[p] = "running" /\ ~force /\ ~Obedient /\ UNCHANGED doomed
     \/ proc[p] # "running" /\ UNCHANGED doomed
  /\ UNCHANGED <<proc, sigchld>>

\* The table entry of p, if it has one, is marked as terminated.
MarkTerminated(p) ==
  /\ process_table' = [n \in Slots |-> IF FirstEntry(n, p)
                                         THEN [Entry(n) EXCEPT !.status = 1]
                                         ELSE Entry(n)]
  /\ UNCHANGED process_count

-----------------------------------------------------------------------------
(* interactive_shell() and the commands it runs.                           *)

Command(place) ==
  /\ InMain /\ pc = "shell" /\ ncmds < MaxCmds
  /\ pc' = place
  /\ ncmds' = ncmds + 1
  /\ UNCHANGED <<stack, chldVars, intVars>>

\* Mutant: create without its test for a full table.
ForkUnchecked(p) ==
  /\ proc[p] = "free"
  /\ Command("forked")
  /\ proc' = [proc EXCEPT ![p] = "running"]
  /\ target' = p
  /\ UNCHANGED <<doomed, sigchld, tableVars, i, j, remaining>>

\* create: fork().  The mask is not set yet.
Fork(p) ==
  /\ process_count < MAX_PROCESSES /\ proc[p] = "free"
  /\ Command("forked")
  /\ proc' = [proc EXCEPT ![p] = "running"]
  /\ target' = p
  /\ UNCHANGED <<doomed, sigchld, tableVars, i, j, remaining>>

\* add_process_to_table(), SIGCHLD blocked.
AddProcess ==
  /\ InMain /\ pc = "forked"
  /\ IF process_count < MAX_PROCESSES
       THEN /\ process_table' = [process_table EXCEPT ![process_count + 1] =
                                   [pid |-> target, status |-> 0]]
            /\ process_count' = process_count + 1
       ELSE UNCHANGED tableVars
  /\ pc' = "shell"
  /\ UNCHANGED <<kernelVars, stack, target, i, j, remaining, chldVars, intVars, ncmds>>

\* kill: terminate_process() of whatever pid the user typed.
Terminate(p, force) ==
  /\ proc[p] \in {"running", "zombie", "other"}
  /\ Command("waitpid")
  /\ Signal(p, force)
  /\ target' = p
  /\ UNCHANGED <<tableVars, i, j, remaining>>

\* Mutant: waitpid() is repeated on every error, not only on EINTR.
WaitTargetInsists ==
  /\ InMain /\ pc = "waitpid"
  /\ Reap(target) /\ pc' = "record"
  /\ UNCHANGED <<tableVars, stack, target, i, j, remaining, chldVars, intVars, ncmds>>

\* Its waitpid(pid, &status, 0): the child, or ECHILD; else it blocks.
WaitTarget ==
  /\ InMain /\ pc = "waitpid"
  /\ \/ Reap(target) /\ pc' = "record"
     \/ /\ proc[target] \in {"gone", "other", "free"} /\ pc' = "shell"
        /\ UNCHANGED kernelVars
  /\ UNCHANGED <<tableVars, stack, target, i, j, remaining, chldVars, intVars, ncmds>>

\* check_process_status(), which procman.h offers although no command of
\* the shell calls it: waitpid(pid, &status, WNOHANG) finds a zombie.
CheckStatus(p) ==
  /\ ChecksStatus
  /\ Command("record")
  /\ Reap(p)
  /\ target' = p
  /\ UNCHANGED <<tableVars, i, j, remaining>>

Record ==
  /\ InMain /\ pc = "record"
  /\ MarkTerminated(target)
  /\ pc' = "shell"
  /\ UNCHANGED <<kernelVars, stack, target, i, j, remaining, chldVars, intVars, ncmds>>

\* wait: wait_all_processes() polls every running entry, unmasked.
StartWaitAll ==
  /\ Command("waitall")
  /\ i' = 1 /\ remaining' = FALSE
  /\ UNCHANGED <<kernelVars, tableVars, target, j>>

\* Mutant: the pass takes ECHILD for "still running".
WaitEntryMiscounts ==
  /\ InMain /\ pc = "waitall" /\ i <= process_count
  /\ \/ /\ Entry(i).status = 0 /\ proc[Entry(i).pid] \in {"running", "gone", "other", "free"}
        /\ remaining' = TRUE /\ i' = i + 1
        /\ UNCHANGED <<kernelVars, pc>>
     \/ /\ Entry(i).status = 0 /\ Reap(Entry(i).pid)
        /\ pc' = "recordwait"
        /\ UNCHANGED <<i, remaining>>
     \/ /\ Entry(i).status # 0
        /\ i' = i + 1
        /\ UNCHANGED <<kernelVars, pc, remaining>>
  /\ UNCHANGED <<tableVars, stack, target, j, chldVars, intVars, ncmds>>

WaitEntry ==
  /\ InMain /\ pc = "waitall" /\ i <= process_count
  /\ \/ /\ Entry(i).status = 0 /\ proc[Entry(i).pid] = "running"
        /\ remaining' = TRUE /\ i' = i + 1
        /\ UNCHANGED <<kernelVars, pc>>
     \/ /\ Entry(i).status = 0 /\ Reap(Entry(i).pid)
        /\ pc' = "recordwait"
        /\ UNCHANGED <<i, remaining>>
     \/ /\ Entry(i).status # 0 \/ proc[Entry(i).pid] \in {"gone", "other", "free"}
        /\ i' = i + 1
        /\ UNCHANGED <<kernelVars, pc, remaining>>
  /\ UNCHANGED <<tableVars, stack, target, j, chldVars, intVars, ncmds>>

RecordWait ==
  /\ InMain /\ pc = "recordwait"
  /\ process_table' = [process_table EXCEPT ![i].status = 1]
  /\ pc' = "waitall" /\ i' = i + 1
  /\ UNCHANGED <<kernelVars, process_count, stack, target, j, remaining, chldVars, intVars, ncmds>>

\* Sleep and look again, or compact the table.
WaitPassEnds ==
  /\ InMain /\ pc = "waitall" /\ i > process_count
  /\ i' = 1 /\ j' = 1 /\ remaining' = FALSE
  /\ pc' = IF remaining THEN "waitall" ELSE "compact"
  /\ UNCHANGED <<kernelVars, tableVars, stack, target, chldVars, intVars, ncmds>>

\* remove_terminated_from_table(), SIGCHLD blocked.
CompactEntry ==
  /\ InMain /\ pc = "compact" /\ i <= process_count
  /\ IF Entry(i).status = 0
       THEN /\ process_table' = [process_table EXCEPT ![j] = Entry(i)]
            /\ j' = j + 1
       ELSE UNCHANGED <<process_table, j>>
  /\ i' = i + 1
  /\ UNCHANGED <<kernelVars, process_count, stack, pc, target, remaining, chldVars, intVars, ncmds>>

CompactEnds ==
  /\ InMain /\ pc = "compact" /\ i > process_count
  /\ process_count' = j - 1
  /\ pc' = "shell"
  /\ UNCHANGED <<kernelVars, process_table, stack, target, i, j, remaining, chldVars, intVars, ncmds>>

\* quit, exit or end of file; main() then signals the running entries.
Quit ==
  /\ InMain /\ pc = "shell"
  /\ pc' = "quit" /\ i' = 1
  /\ UNCHANGED <<kernelVars, tableVars, stack, target, j, remaining, chldVars, intVars, ncmds>>

QuitTest ==
  /\ InMain /\ pc = "quit" /\ i <= process_count
  /\ IF Entry(i).status = 0 THEN pc' = "quitkill" /\ i' = i
                            ELSE pc' = "quit"     /\ i' = i + 1
  /\ UNCHANGED <<kernelVars, tableVars, stack, target, j, remaining, chldVars, intVars, ncmds>>

QuitKill ==
  /\ InMain /\ pc = "quitkill"
  /\ Signal(Entry(i).pid, FALSE)
  /\ pc' = "quit" /\ i' = i + 1
  /\ UNCHANGED <<tableVars, stack, target, j, remaining, chldVars, intVars, ncmds>>

Exit ==
  /\ InMain /\ pc = "quit" /\ i > process_count
  /\ pc' = "exited"
  /\ UNCHANGED <<kernelVars, tableVars, stack, target, i, j, remaining, chldVars, intVars, ncmds>>

-----------------------------------------------------------------------------
(* sigchld_handler().  SIGCHLD stays blocked while it is on the stack.     *)

\* Mutant: installed with SA_NODEFER, the handler interrupts itself.
SigchldArrivesNested ==
  /\ sigchld /\ ~Exited /\ ~Masked
  /\ sigchld' = FALSE
  /\ stack' = Append(stack, "chld")
  /\ UNCHANGED <<proc, doomed, tableVars, mainVars, chldVars, intVars, ncmds>>

SigchldArrives ==
  /\ sigchld /\ ~Exited /\ ~Masked /\ ~On("chld")
  /\ sigchld' = FALSE
  /\ stack' = Append(stack, "chld")
  /\ UNCHANGED <<proc, doomed, tableVars, mainVars, chldVars, intVars, ncmds>>

SigchldReap ==
  /\ Top = "chld" /\ ~Exited /\ got = NoPid
  /\ \E p \in Pids :
       /\ Reap(p) /\ got' = p
       /\ missed' = IF pc = "forked" /\ target = p THEN missed \cup {p} ELSE missed
  /\ UNCHANGED <<tableVars, stack, mainVars, intVars, ncmds>>

\* Mutant: "if" for "while", one child per signal.
SigchldRecordOnce ==
  /\ Top = "chld" /\ ~Exited /\ got # NoPid
  /\ MarkTerminated(got)
  /\ got' = NoPid
  /\ stack' = SubSeq(stack, 1, Len(stack) - 1)
  /\ UNCHANGED <<kernelVars, mainVars, missed, intVars, ncmds>>

SigchldRecord ==
  /\ Top = "chld" /\ ~Exited /\ got # NoPid
  /\ MarkTerminated(got)
  /\ got' = NoPid
  /\ UNCHANGED <<kernelVars, stack, mainVars, missed, intVars, ncmds>>

SigchldReturn ==
  /\ Top = "chld" /\ ~Exited /\ got = NoPid
  /\ \A p \in Pids : proc[p] # "zombie"
  /\ stack' = SubSeq(stack, 1, Len(stack) - 1)
  /\ UNCHANGED <<kernelVars, tableVars, mainVars, chldVars, intVars, ncmds>>

-----------------------------------------------------------------------------
(* sigint_handler() never returns.                                         *)

SigintArrives ==
  /\ Interrupts /\ ~Exited /\ ~On("int")
  /\ stack' = Append(stack, "int")
  /\ k' = 1 /\ kpc' = "test"
  /\ UNCHANGED <<kernelVars, tableVars, mainVars, chldVars, ncmds>>

\* Mutant: the loop stops one entry short.
SigintTestStopsShort ==
  /\ Top = "int" /\ ~Exited /\ kpc = "test"
  /\ IF k >= process_count
       THEN kpc' = "wait" /\ k' = k
       ELSE IF Entry(k).status = 0 THEN kpc' = "kill" /\ k' = k
                                   ELSE kpc' = "test" /\ k' = k + 1
  /\ UNCHANGED <<kernelVars, tableVars, stack, mainVars, chldVars, ncmds>>

SigintTest ==
  /\ Top = "int" /\ ~Exited /\ kpc = "test"
  /\ IF k > process_count
       THEN kpc' = "wait" /\ k' = k
       ELSE IF Entry(k).status = 0 THEN kpc' = "kill" /\ k' = k
                                   ELSE kpc' = "test" /\ k' = k + 1
  /\ UNCHANGED <<kernelVars, tableVars, stack, mainVars, chldVars, ncmds>>

SigintKill ==
  /\ Top = "int" /\ ~Exited /\ kpc = "kill"
  /\ Signal(Entry(k).pid, FALSE)
  /\ kpc' = "test" /\ k' = k + 1
  /\ UNCHANGED <<tableVars, stack, mainVars, chldVars, ncmds>>

\* waitpid(-1, &status, 0) until there is no child left.
SigintWait ==
  /\ Top = "int" /\ ~Exited /\ kpc = "wait"
  /\ \/ (\E p \in Pids : Reap(p)) /\ UNCHANGED pc
     \/ /\ \A p \in Pids : proc[p] \notin {"running", "zombie"}
        /\ pc' = "exited"
        /\ UNCHANGED kernelVars
  /\ UNCHANGED <<tableVars, stack, target, i, j, remaining, chldVars, intVars, ncmds>>

-----------------------------------------------------------------------------
(* The kernel and the children.                                            *)

ChildExits(p) ==
  /\ ~Exited /\ proc[p] = "running"
  /\ proc' = [proc EXCEPT ![p] = "zombie"]
  /\ sigchld' = TRUE
  /\ UNCHANGED <<doomed, tableVars, stack, mainVars, chldVars, intVars, ncmds>>

Recycle(p) ==
  /\ ~Exited /\ proc[p] = "gone"
  /\ \E whose \in Recycling : proc' = [proc EXCEPT ![p] = whose]
  /\ UNCHANGED <<doomed, sigchld, tableVars, stack, mainVars, chldVars, intVars, ncmds>>

Shell ==
  \/ StartWaitAll \/ Quit
  \/ \E p \in Pids : Fork(p) \/ CheckStatus(p)
  \/ \E p \in Pids, force \in BOOLEAN : Terminate(p, force)

Main ==
  \/ AddProcess \/ WaitTarget \/ Record \/ WaitEntry \/ RecordWait \/ WaitPassEnds
  \/ CompactEntry \/ CompactEnds \/ QuitTest \/ QuitKill \/ Exit

Handlers ==
  \/ SigchldArrives \/ SigchldReap \/ SigchldRecord \/ SigchldReturn
  \/ SigintTest \/ SigintKill \/ SigintWait

Next ==
  \/ Shell \/ Main \/ Handlers \/ SigintArrives
  \/ \E p \in Pids : ChildExits(p) \/ Recycle(p)

Spec == Init /\ [][Next]_vars

\* The program runs on, and a child that got a deadly signal dies; the user
\* need not type, and a child need not end by itself.
FairSpec ==
  /\ Spec /\ WF_vars(Main) /\ WF_vars(Handlers)
  /\ \A p \in Pids : WF_vars(p \in doomed /\ ChildExits(p))

\* Every child ends, like the "sleep" of the test scripts, but not in time for
\* a user who has pressed Ctrl-C: from then on only a signal ends it.
FiniteChildrenSpec ==
  FairSpec /\ \A p \in Pids : WF_vars(~On("int") /\ ChildExits(p))
-----------------------------------------------------------------------------
TypeOK ==
  /\ proc \in [Pids -> {"free", "running", "zombie", "gone", "other"}]
  /\ doomed \subseteq Pids /\ sigchld \in BOOLEAN
  /\ process_table \in [Slots -> [pid : Pids \cup {NoPid}, status : {-1, 0, 1}]]
  /\ process_count \in 0..MAX_PROCESSES
  /\ stack \in {<<"main">>, <<"main", "chld">>, <<"main", "int">>,
                <<"main", "chld", "int">>, <<"main", "int", "chld">>}
  /\ pc \in {"shell", "forked", "waitpid", "record", "waitall", "recordwait",
             "compact", "quit", "quitkill", "exited"}
  /\ target \in Pids \cup {NoPid}
  /\ i \in 1..(MAX_PROCESSES + 1) /\ j \in 1..(MAX_PROCESSES + 1)
  /\ remaining \in BOOLEAN /\ got \in Pids \cup {NoPid} /\ missed \subseteq Pids
  /\ k \in 1..(MAX_PROCESSES + 1) /\ kpc \in {"test", "kill", "wait"}
  /\ ncmds \in Nat

\* Reaped by somebody who is about to write that into the table.
BeingRecorded(p) ==
  \/ p = got
  \/ pc = "record" /\ p = target
  \/ pc = "recordwait" /\ p = Entry(i).pid

\* Entry n says running: its child has not been reaped, or its end is being
\* recorded.  sigint_handler() is exempt once it only waits: it records nothing.
SaysTruth(n) ==
  Entry(n).status = 0 /\ ~ShuttingDown =>
    proc[Entry(n).pid] \in {"running", "zombie"} \/ BeingRecorded(Entry(n).pid)

\* The comment at procman.c:19, "mask used to block SIGCHLD while modifying the
\* table": whatever main() and the handlers do to it, an entry that says
\* running is right.
RunningMeansRunning == \A n \in 1..process_count : SaysTruth(n)

\* Only one kind of entry is wrong for ever: that of a child that ended, and was
\* reaped by sigchld_handler(), between fork() and add_process_to_table().
RunningUnlessMissed ==
  \A n \in 1..process_count : Entry(n).pid \notin missed => SaysTruth(n)

\* No child is lost: whatever the table is going through, every child, alive or
\* not yet reaped, has an entry, apart from the one create_process() is about
\* to enter.
NoChildLost ==
  \A p \in Pids : proc[p] \in {"running", "zombie"}
                    => p \in Tracked \/ (pc = "forked" /\ p = target)

\* When sigint_handler() starts to wait, every child that had an entry has
\* been sent SIGTERM, although the signal may have come in the middle of
\* wait_all_processes(), of the compaction, or of sigchld_handler().
EntriesSignalled ==
  ShuttingDown => \A p \in Tracked : proc[p] = "running" => p \in doomed

\* "Reap all terminated children": no child stays a zombie, though SIGCHLDs
\* merge and main() and the handlers compete for waitpid().
ZombiesReaped ==
  \A p \in Pids : proc[p] = "zombie" ~> proc[p] # "zombie" \/ Exited

\* wait_all_processes() comes to its end when the children do, also if the
\* handler takes every one of them away.
WaitReturns == pc = "waitall" ~> pc \in {"shell", "exited"}

\* terminate_process() comes back once the child dies of the signal, whoever
\* reaps it.
KillReturns == pc = "waitpid" ~> pc # "waitpid"

\* "Send SIGTERM to all running children ... Wait for all children to exit":
\* SIGINT ends the program wherever it comes, in a handler, a compaction or a
\* blocked waitpid(); save between fork() and add_process_to_table(), where
\* nobody signals the child that sigint_handler() then waits for.
GracefulShutdown == On("int") /\ pc # "forked" ~> Exited
=============================================================================
