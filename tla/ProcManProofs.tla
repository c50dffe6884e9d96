------------------------------ MODULE ProcManProofs ------------------------------
(***************************************************************************)
(* ProcMan for any number of process ids, any size of the table and any    *)
(* number of commands: the types, and what the table promises about the    *)
(* kernel's processes whatever the two handlers interrupt.                 *)
(***************************************************************************)
EXTENDS ProcMan, SequenceTheorems, TLAPS

USE DEF kernelVars, tableVars, mainVars, chldVars, intVars, vars

-----------------------------------------------------------------------------
(* The stack of interrupted functions.                                     *)

Functions == {"main", "chld", "int"}
Stacks == {<<"main">>, <<"main", "chld">>, <<"main", "int">>,
           <<"main", "chld", "int">>, <<"main", "int", "chld">>}

LEMMA StackFacts ==
  ASSUME stack \in Stacks
  PROVE  /\ stack \in Seq({"main", "chld", "int"})
         /\ InMain <=> stack = <<"main">>
         /\ On("int") <=> stack \in {<<"main", "int">>, <<"main", "chld", "int">>, <<"main", "int", "chld">>}
         /\ On("chld") <=> stack \in {<<"main", "chld">>, <<"main", "chld", "int">>, <<"main", "int", "chld">>}
         /\ Top = "int" <=> stack \in {<<"main", "int">>, <<"main", "chld", "int">>}
         /\ Top = "chld" <=> stack \in {<<"main", "chld">>, <<"main", "int", "chld">>}
         /\ InMain => ~On("int") /\ ~On("chld")
         /\ Top = "int" => On("int")
         /\ Top = "chld" => On("chld")
<1>1. CASE stack = <<"main">>
  BY <1>1 DEF InMain, On, Top
<1>2. CASE stack = <<"main", "chld">>
  BY <1>2 DEF InMain, On, Top
<1>3. CASE stack = <<"main", "int">>
  BY <1>3 DEF InMain, On, Top
<1>4. CASE stack = <<"main", "chld", "int">>
  BY <1>4 DEF InMain, On, Top
<1>5. CASE stack = <<"main", "int", "chld">>
  BY <1>5 DEF InMain, On, Top
<1> QED BY <1>1, <1>2, <1>3, <1>4, <1>5 DEF Stacks

\* A handler is called: it goes on top.
LEMMA Pushes ==
  /\ Append(<<"main">>, "chld") = <<"main", "chld">>
  /\ Append(<<"main">>, "int") = <<"main", "int">>
  /\ Append(<<"main", "chld">>, "int") = <<"main", "chld", "int">>
  /\ Append(<<"main", "int">>, "chld") = <<"main", "int", "chld">>
<1>1. ASSUME NEW s \in Seq(Functions), NEW t \in Seq(Functions), NEW f \in Functions,
             Len(t) = Len(s) + 1, t[Len(t)] = f, \A m \in 1..Len(s) : t[m] = s[m]
      PROVE  Append(s, f) = t
  <2>1. /\ Append(s, f) \in Seq(Functions) /\ Len(Append(s, f)) = Len(t)
        /\ \A m \in 1..Len(t) : Append(s, f)[m] = t[m]
    BY <1>1, AppendProperties
  <2>2. QED
    BY <2>1, SeqEqual
<1>2. Append(<<"main">>, "chld") = <<"main", "chld">>
  <2>1. <<"main">> \in Seq(Functions) /\ <<"main", "chld">> \in Seq(Functions)
    BY DEF Functions
  <2>2. /\ Len(<<"main", "chld">>) = Len(<<"main">>) + 1 /\ <<"main", "chld">>[Len(<<"main", "chld">>)] = "chld"
        /\ \A m \in 1..Len(<<"main">>) : <<"main", "chld">>[m] = <<"main">>[m]
    OBVIOUS
  <2>3. "chld" \in Functions
    BY DEF Functions
  <2> QED
    BY <1>1, <2>1, <2>2, <2>3
<1>3. Append(<<"main">>, "int") = <<"main", "int">>
  <2>1. <<"main">> \in Seq(Functions) /\ <<"main", "int">> \in Seq(Functions)
    BY DEF Functions
  <2>2. /\ Len(<<"main", "int">>) = Len(<<"main">>) + 1 /\ <<"main", "int">>[Len(<<"main", "int">>)] = "int"
        /\ \A m \in 1..Len(<<"main">>) : <<"main", "int">>[m] = <<"main">>[m]
    OBVIOUS
  <2>3. "int" \in Functions
    BY DEF Functions
  <2> QED
    BY <1>1, <2>1, <2>2, <2>3
<1>4. Append(<<"main", "chld">>, "int") = <<"main", "chld", "int">>
  <2>1. <<"main", "chld">> \in Seq(Functions) /\ <<"main", "chld", "int">> \in Seq(Functions)
    BY DEF Functions
  <2>2. /\ Len(<<"main", "chld", "int">>) = Len(<<"main", "chld">>) + 1 /\ <<"main", "chld", "int">>[Len(<<"main", "chld", "int">>)] = "int"
        /\ \A m \in 1..Len(<<"main", "chld">>) : <<"main", "chld", "int">>[m] = <<"main", "chld">>[m]
    OBVIOUS
  <2>3. "int" \in Functions
    BY DEF Functions
  <2> QED
    BY <1>1, <2>1, <2>2, <2>3
<1>5. Append(<<"main", "int">>, "chld") = <<"main", "int", "chld">>
  <2>1. <<"main", "int">> \in Seq(Functions) /\ <<"main", "int", "chld">> \in Seq(Functions)
    BY DEF Functions
  <2>2. /\ Len(<<"main", "int", "chld">>) = Len(<<"main", "int">>) + 1 /\ <<"main", "int", "chld">>[Len(<<"main", "int", "chld">>)] = "chld"
        /\ \A m \in 1..Len(<<"main", "int">>) : <<"main", "int", "chld">>[m] = <<"main", "int">>[m]
    OBVIOUS
  <2>3. "chld" \in Functions
    BY DEF Functions
  <2> QED
    BY <1>1, <2>1, <2>2, <2>3
<1> QED
  BY <1>2, <1>3, <1>4, <1>5

LEMMA Pops ==
  /\ SubSeq(<<"main", "chld">>, 1, 1) = <<"main">>
  /\ SubSeq(<<"main", "int", "chld">>, 1, 2) = <<"main", "int">>
<1>1. ASSUME NEW s \in Seq(Functions), NEW t \in Seq(Functions), Len(s) = Len(t) + 1,
             \A m \in 1..Len(t) : t[m] = s[m]
      PROVE  SubSeq(s, 1, Len(t)) = t
  <2>1. Len(t) \in Nat /\ Len(s) \in Nat
    BY LenProperties
  <2>2. \A m \in 1..Len(t) : s[m] \in Functions
    BY <1>1, <2>1, ElementOfSeq
  <2>3. /\ SubSeq(s, 1, Len(t)) \in Seq(Functions) /\ Len(SubSeq(s, 1, Len(t))) = Len(t)
        /\ \A m \in 1..Len(t) : SubSeq(s, 1, Len(t))[m] = s[m]
    BY <2>1, <2>2, SubSeqProperties
  <2>4. QED
    BY <1>1, <2>3, SeqEqual
<1>2. SubSeq(<<"main", "chld">>, 1, 1) = <<"main">>
  <2>1. <<"main", "chld">> \in Seq(Functions) /\ <<"main">> \in Seq(Functions)
    BY DEF Functions
  <2>2. /\ Len(<<"main", "chld">>) = Len(<<"main">>) + 1 /\ Len(<<"main">>) = 1
        /\ \A m \in 1..Len(<<"main">>) : <<"main">>[m] = <<"main", "chld">>[m]
    OBVIOUS
  <2>3. SubSeq(<<"main", "chld">>, 1, Len(<<"main">>)) = <<"main">>
    BY <1>1, <2>1, <2>2
  <2> QED
    BY <2>2, <2>3
<1>3. SubSeq(<<"main", "int", "chld">>, 1, 2) = <<"main", "int">>
  <2>1. <<"main", "int", "chld">> \in Seq(Functions) /\ <<"main", "int">> \in Seq(Functions)
    BY DEF Functions
  <2>2. /\ Len(<<"main", "int", "chld">>) = Len(<<"main", "int">>) + 1 /\ Len(<<"main", "int">>) = 2
        /\ \A m \in 1..Len(<<"main", "int">>) : <<"main", "int">>[m] = <<"main", "int", "chld">>[m]
    OBVIOUS
  <2>3. SubSeq(<<"main", "int", "chld">>, 1, Len(<<"main", "int">>)) = <<"main", "int">>
    BY <1>1, <2>1, <2>2
  <2> QED
    BY <2>2, <2>3
<1> QED
  BY <1>2, <1>3


-----------------------------------------------------------------------------
(* Types.  The counters stay in bounds because nothing changes the table   *)
(* between the test of a counter and its use: the main program stands      *)
(* still while a handler runs.                                             *)

Counters ==
  /\ pc \in {"quitkill", "recordwait"} => i <= process_count
  /\ pc = "compact" => j <= i /\ i <= process_count + 1
  /\ ~On("int") => kpc = "test"
  /\ kpc = "kill" => k <= process_count

\* What is killed or waited for is a child.
TableOK ==
  /\ \A n \in 1..process_count : process_table[n].pid \in Pids
  /\ pc = "forked" => target \in Pids

Core    == TypeOK /\ Counters
TypeInv == Core /\ TableOK

LEMMA TypeInit == Init => TypeInv
<1> SUFFICES ASSUME Init PROVE TypeInv
  OBVIOUS
<1>1. /\ process_table \in [Slots -> [pid : Pids \cup {NoPid}, status : {-1, 0, 1}]]
      /\ 1 \in 1..(MAX_PROCESSES + 1) /\ 0 \in 0..MAX_PROCESSES
  BY ProcManAssumption DEF Init
<1>2. TypeOK
  BY <1>1 DEF Init, TypeOK
<1>3. QED
  BY <1>2 DEF Init, TypeInv, Core, Counters, TableOK

LEMMA MarkTypes ==
  ASSUME TypeOK, NEW p, MarkTerminated(p)
  PROVE  /\ process_table' \in [Slots -> [pid : Pids \cup {NoPid}, status : {-1, 0, 1}]]
         /\ process_count' = process_count
         /\ \A n \in Slots : Entry(n)'.pid = Entry(n).pid
         /\ \A n \in Slots : Entry(n)'.status # Entry(n).status
                             => FirstEntry(n, p) /\ Entry(n)'.status = 1
BY DEF TypeOK, MarkTerminated, Entry

LEMMA InMainFacts ==
  ASSUME TypeInv, InMain, UNCHANGED <<stack, intVars, got>>
  PROVE  /\ ~On("int") /\ ~On("chld") /\ kpc = "test"
         /\ ~On("int")' /\ kpc' = "test"
<1>1. ~On("int") /\ ~On("chld")
  <2>1. stack \in Stacks
    BY DEF TypeInv, Core, TypeOK, Stacks
  <2>2. QED
    BY <2>1, StackFacts
<1>2. QED
  BY <1>1 DEF TypeInv, Core, Counters, On

LEMMA ShellTypes == ASSUME TypeInv, Shell PROVE Core'
<1> USE DEF TypeInv, Core, TypeOK
<1>1. InMain /\ UNCHANGED <<stack, intVars, got>>
  BY DEF Shell, StartWaitAll, Quit, Fork, CheckStatus, Terminate, Command
<1>2. ~On("int")' /\ kpc' = "test"
  BY <1>1, InMainFacts
<1>3. CASE StartWaitAll
  <2>0. remaining' \in BOOLEAN
    BY <1>3 DEF StartWaitAll
  <2>1. TypeOK'
    BY <1>3, <2>0, ProcManAssumption DEF StartWaitAll, Command
  <2>2. Counters'
    BY <1>2, <1>3 DEF StartWaitAll, Command, Counters
  <2>3. QED
    BY <2>1, <2>2
<1>4. CASE Quit
  BY <1>2, <1>4, ProcManAssumption DEF Quit, Counters
<1>5. ASSUME NEW p \in Pids, Fork(p) PROVE Core'
  BY <1>2, <1>5 DEF Fork, Command, Counters
<1>6. ASSUME NEW p \in Pids, CheckStatus(p) PROVE Core'
  BY <1>2, <1>6 DEF CheckStatus, Command, Reap, Counters
<1>7. ASSUME NEW p \in Pids, NEW force \in BOOLEAN, Terminate(p, force) PROVE Core'
  BY <1>2, <1>7 DEF Terminate, Command, Signal, Counters
<1>8. QED
  BY <1>3, <1>4, <1>5, <1>6, <1>7 DEF Shell

LEMMA MainTypes == ASSUME TypeInv, Main PROVE Core'
<1> USE ProcManAssumption DEF TypeInv, Core, TypeOK
<1>1. InMain /\ UNCHANGED <<stack, intVars, got>>
  BY DEF Main, AddProcess, WaitTarget, Record, WaitEntry, RecordWait, WaitPassEnds,
         CompactEntry, CompactEnds, QuitTest, QuitKill, Exit
<1>2. ~On("int")' /\ kpc' = "test"
  BY <1>1, InMainFacts
<1>3. CASE AddProcess
  BY <1>2, <1>3, SMTT(30) DEF AddProcess, Counters, Slots
<1>4. CASE WaitTarget
  BY <1>2, <1>4 DEF WaitTarget, Reap, Counters
<1>5. CASE Record
  BY <1>2, <1>5, MarkTypes DEF Record, Counters
<1>6. CASE WaitEntry
  <2>1. remaining' \in BOOLEAN
    BY <1>6 DEF WaitEntry
  <2>2. i' \in 1..(MAX_PROCESSES + 1) /\ pc' \in {"waitall", "recordwait"}
    BY <1>6 DEF WaitEntry
  <2>3. proc' \in [Pids -> {"free", "running", "zombie", "gone", "other"}]
        /\ UNCHANGED <<doomed, sigchld>>
    BY <1>6 DEF WaitEntry, Reap
  <2>4. pc' = "recordwait" => i' <= process_count
    BY <1>6 DEF WaitEntry
  <2>5. QED
    BY <1>2, <1>6, <2>1, <2>2, <2>3, <2>4 DEF WaitEntry, Counters
<1>7. CASE RecordWait
  <2>1. i' \in 1..(MAX_PROCESSES + 1)
    BY <1>7 DEF RecordWait, Counters
  <2>2. process_table' \in [Slots -> [pid : Pids \cup {NoPid}, status : {-1, 0, 1}]]
    <3> DEFINE R == [pid : Pids \cup {NoPid}, status : {-1, 0, 1}]
    <3>1. i \in Slots
      BY <1>7 DEF RecordWait, Counters, Slots
    <3>2. process_table[i] \in R
      BY <3>1
    <3>3. [process_table[i] EXCEPT !.status = 1] \in R
      BY <3>2
    <3>4. process_table' = [process_table EXCEPT ![i] = [process_table[i] EXCEPT !.status = 1]]
      BY <1>7 DEF RecordWait
    <3>5. process_table \in [Slots -> R]
      OBVIOUS
    <3> HIDE DEF R
    <3>6. process_table' \in [Slots -> R]
      BY <3>3, <3>4, <3>5
    <3>7. QED
      BY <3>6 DEF R
  <2>3. QED
    BY <1>2, <1>7, <2>1, <2>2 DEF RecordWait, Counters
<1>8. CASE WaitPassEnds
  <2>1. remaining' \in BOOLEAN
    BY <1>8 DEF WaitPassEnds
  <2>2. pc' \in {"waitall", "compact"}
    BY <1>8 DEF WaitPassEnds
  <2>3. QED
    BY <1>2, <1>8, <2>1, <2>2 DEF WaitPassEnds, Counters
<1>9. CASE CompactEntry
  <2>1. i \in Slots /\ j \in Slots /\ j <= i
    BY <1>9 DEF CompactEntry, Counters, Slots
  <2>2. i' = i + 1 /\ j' \in {j, j + 1} /\ process_count' = process_count /\ pc' = "compact"
    BY <1>9 DEF CompactEntry
  <2>3. process_table' \in [Slots -> [pid : Pids \cup {NoPid}, status : {-1, 0, 1}]]
    BY <1>9, <2>1 DEF CompactEntry, Entry
  <2>4. QED
    BY <1>2, <1>9, <2>1, <2>2, <2>3 DEF CompactEntry, Counters, Slots
<1>10. CASE CompactEnds
  BY <1>2, <1>10 DEF CompactEnds, Counters
<1>11. CASE QuitTest
  BY <1>2, <1>11 DEF QuitTest, Counters
<1>12. CASE QuitKill
  <2>1. doomed' \subseteq Pids /\ UNCHANGED <<proc, sigchld>>
    BY <1>12 DEF QuitKill, Signal, TableOK, Entry, Counters
  <2>2. QED
    BY <1>2, <1>12, <2>1 DEF QuitKill, Counters
<1>13. CASE Exit
  BY <1>2, <1>13 DEF Exit, Counters
<1>14. QED
  BY <1>3, <1>4, <1>5, <1>6, <1>7, <1>8, <1>9, <1>10, <1>11, <1>12, <1>13 DEF Main

\* Which handlers may be on the stack after a step of theirs.
LEMMA StackStep ==
  ASSUME TypeInv, Handlers \/ SigintArrives
  PROVE  /\ stack' \in Stacks
         /\ On("int") => On("int")'
         /\ On("int")' => On("int") \/ SigintArrives
         /\ On("chld") => On("chld")' \/ SigchldReturn
<1> USE DEF TypeInv, Core, TypeOK, Stacks
<1>1. CASE SigchldArrives
  <2>1. stack \in {<<"main">>, <<"main", "int">>}
    BY <1>1, StackFacts DEF SigchldArrives
  <2>2. CASE stack = <<"main">>
    <3>1. stack' = <<"main", "chld">>
      BY <1>1, <2>2, Pushes DEF SigchldArrives
    <3>2. ~On("int") /\ ~On("int")' /\ ~On("chld")
      BY <2>2, <3>1 DEF On
    <3>3. QED
      BY <3>1, <3>2
  <2>3. CASE stack = <<"main", "int">>
    <3>1. stack' = <<"main", "int", "chld">>
      BY <1>1, <2>3, Pushes DEF SigchldArrives
    <3>2. On("int") /\ On("int")' /\ ~On("chld")
      BY <2>3, <3>1 DEF On
    <3>3. QED
      BY <3>1, <3>2
  <2>4. QED
    BY <2>1, <2>2, <2>3
<1>2. CASE SigchldReturn
  <2>1. stack \in {<<"main", "chld">>, <<"main", "int", "chld">>}
    BY <1>2, StackFacts DEF SigchldReturn
  <2>2. CASE stack = <<"main", "chld">>
    <3>1. Len(stack) - 1 = 1
      BY <2>2
    <3>2. stack' = <<"main">>
      BY <1>2, <2>2, <3>1, Pops DEF SigchldReturn
    <3>3. ~On("int") /\ ~On("int")'
      BY <2>2, <3>2 DEF On
    <3>4. QED
      BY <1>2, <3>2, <3>3
  <2>3. CASE stack = <<"main", "int", "chld">>
    <3>1. Len(stack) - 1 = 2
      BY <2>3
    <3>2. stack' = <<"main", "int">>
      BY <1>2, <2>3, <3>1, Pops DEF SigchldReturn
    <3>3. On("int") /\ On("int")'
      BY <2>3, <3>2 DEF On
    <3>4. QED
      BY <1>2, <3>2, <3>3
  <2>4. QED
    BY <2>1, <2>2, <2>3
<1>3. CASE SigintArrives
  <2>1. stack \in {<<"main">>, <<"main", "chld">>}
    BY <1>3, StackFacts DEF SigintArrives
  <2>3. CASE stack = <<"main">>
    <3>1. stack' = <<"main", "int">> /\ ~On("chld")
      BY <1>3, <2>3, Pushes DEF SigintArrives, On
    <3>2. QED
      BY <1>3, <3>1 DEF SigintArrives
  <2>4. CASE stack = <<"main", "chld">>
    <3>1. stack' = <<"main", "chld", "int">> /\ On("chld")
      BY <1>3, <2>4, Pushes DEF SigintArrives, On
    <3>2. On("chld")'
      BY <3>1 DEF On
    <3>3. QED
      BY <1>3, <3>1, <3>2 DEF SigintArrives
  <2>5. QED
    BY <2>1, <2>3, <2>4
<1>4. CASE SigchldReap \/ SigchldRecord \/ SigintTest \/ SigintKill \/ SigintWait
  <2>1. UNCHANGED stack
    BY <1>4 DEF SigchldReap, SigchldRecord, SigintTest, SigintKill, SigintWait
  <2>2. QED
    BY <2>1 DEF On
<1>5. QED
  BY <1>1, <1>2, <1>3, <1>4 DEF Handlers

LEMMA HandlerTypes == ASSUME TypeInv, Handlers \/ SigintArrives PROVE Core'
<1> USE ProcManAssumption DEF TypeInv, Core, TypeOK
<1>1. stack' \in Stacks /\ (On("int") => On("int")')
  BY StackStep
<1>2. Top = "int" => On("int") /\ On("int")'
  BY <1>1, StackFacts DEF Stacks
<1>3. CASE SigchldArrives
  <2>1. /\ sigchld' = FALSE
        /\ UNCHANGED <<proc, doomed, tableVars, mainVars, chldVars, intVars, ncmds>>
    BY <1>3 DEF SigchldArrives
  <2>2. TypeOK'
    BY <1>1, <2>1 DEF Stacks
  <2>3. Counters'
    BY <1>1, <2>1 DEF Counters
  <2>4. QED
    BY <2>2, <2>3
<1>4. CASE SigchldReap
  BY <1>1, <1>4 DEF SigchldReap, Reap, Counters, Stacks
<1>5. CASE SigchldRecord
  BY <1>1, <1>5, MarkTypes DEF SigchldRecord, Counters, Stacks
<1>6. CASE SigchldReturn
  BY <1>1, <1>6 DEF SigchldReturn, Counters, Stacks
<1>7. CASE SigintTest
  BY <1>1, <1>2, <1>7 DEF SigintTest, Counters, Stacks
<1>8. CASE SigintKill
  <2>1. doomed' \subseteq Pids /\ UNCHANGED <<proc, sigchld>>
    BY <1>8 DEF SigintKill, Signal, TableOK, Entry, Counters
  <2>2. QED
    BY <1>1, <1>2, <1>8, <2>1 DEF SigintKill, Counters, Stacks
<1>9. CASE SigintWait
  BY <1>1, <1>2, <1>9 DEF SigintWait, Reap, Counters, Stacks
<1>10. CASE SigintArrives
  BY <1>1, <1>10 DEF SigintArrives, Counters, Stacks
<1>11. QED
  BY <1>3, <1>4, <1>5, <1>6, <1>7, <1>8, <1>9, <1>10 DEF Handlers

LEMMA KernelTypes ==
  ASSUME TypeInv, NEW p \in Pids, ChildExits(p) \/ Recycle(p)
  PROVE  Core'
<1> USE ProcManAssumption DEF TypeInv, Core, TypeOK
<1>1. proc' \in [Pids -> {"free", "running", "zombie", "gone", "other"}] /\ sigchld' \in BOOLEAN
  BY DEF ChildExits, Recycle
<1>2. UNCHANGED <<doomed, tableVars, stack, mainVars, chldVars, intVars, ncmds>>
  BY DEF ChildExits, Recycle
<1>3. QED
  BY <1>1, <1>2 DEF Counters, On

LEMMA TableStep == ASSUME TypeInv, [Next]_vars PROVE TableOK'
<1> USE ProcManAssumption DEF TypeInv, Core, TypeOK, TableOK
<1>1. CASE UNCHANGED tableVars /\ UNCHANGED <<pc, target>>
  BY <1>1
<1>2. CASE UNCHANGED tableVars /\ pc' # "forked"
  BY <1>2
<1>3. ASSUME NEW p \in Pids, Fork(p) PROVE TableOK'
  BY <1>3 DEF Fork
<1>4. CASE AddProcess
  BY <1>4 DEF AddProcess, Slots
<1>5. CASE Record \/ SigchldRecord
  <2>1. \A n \in Slots : Entry(n)'.pid = Entry(n).pid
    BY <1>5, MarkTypes DEF Record, SigchldRecord
  <2>2. QED
    BY <1>5, <2>1 DEF Record, SigchldRecord, MarkTerminated, Entry, Slots
<1>6. CASE RecordWait
  BY <1>6 DEF RecordWait, Counters, Slots
<1>7. CASE CompactEntry
  <2>1. i \in 1..process_count /\ j \in Slots /\ process_count' = process_count /\ pc' = "compact"
    BY <1>7 DEF CompactEntry, Counters, Slots
  <2>2. \A n \in Slots : process_table'[n] \in {process_table[n], process_table[i]}
    BY <1>7, <2>1 DEF CompactEntry, Entry, Slots
  <2>3. QED
    BY <2>1, <2>2 DEF Slots
<1>8. CASE CompactEnds
  BY <1>8 DEF CompactEnds, Counters
<1>9. CASE Shell /\ ~(\E p \in Pids : Fork(p))
  <2>1. UNCHANGED tableVars /\ pc' # "forked"
    BY <1>9 DEF Shell, StartWaitAll, Quit, CheckStatus, Terminate, Command
  <2>2. QED
    BY <1>2, <2>1
<1>10. CASE WaitTarget \/ WaitEntry \/ WaitPassEnds \/ QuitTest \/ QuitKill \/ Exit \/ SigintWait
  <2>1. UNCHANGED tableVars /\ (pc' # "forked" \/ UNCHANGED <<pc, target>>)
    BY <1>10 DEF WaitTarget, WaitEntry, WaitPassEnds, QuitTest, QuitKill, Exit, SigintWait
  <2>2. QED
    BY <1>1, <1>2, <2>1
<1>11. CASE \/ SigchldArrives \/ SigchldReap \/ SigchldReturn \/ SigintTest \/ SigintKill
            \/ SigintArrives \/ \E p \in Pids : ChildExits(p) \/ Recycle(p)
  BY <1>1, <1>11 DEF SigchldArrives, SigchldReap, SigchldReturn, SigintTest, SigintKill,
                     SigintArrives, ChildExits, Recycle
<1>12. QED
  BY <1>1, <1>3, <1>4, <1>5, <1>6, <1>7, <1>8, <1>9, <1>10, <1>11 DEF Next, Main, Handlers

LEMMA TypeStep == ASSUME TypeInv, [Next]_vars PROVE TypeInv'
<1>1. Core'
  <2>1. CASE Shell \/ Main
    BY <2>1, ShellTypes, MainTypes
  <2>2. CASE Handlers \/ SigintArrives
    BY <2>2, HandlerTypes
  <2>3. ASSUME NEW p \in Pids, ChildExits(p) \/ Recycle(p) PROVE Core'
    BY <2>3, KernelTypes
  <2>4. CASE UNCHANGED vars
    BY <2>4 DEF TypeInv, Core, TypeOK, Counters, On
  <2>5. QED
    BY <2>1, <2>2, <2>3, <2>4 DEF Next
<1>2. QED
  BY <1>1, TableStep DEF TypeInv

LEMMA TypeInductive == Spec => []TypeInv
BY TypeInit, TypeStep, PTL DEF Spec

\* Every reachable state has the declared types.
THEOREM TypeCorrect == Spec => []TypeOK
<1>1. TypeInv => TypeOK
  BY DEF TypeInv, Core
<1>2. QED
  BY <1>1, TypeInductive, PTL

-----------------------------------------------------------------------------
(* No child is lost.  NoChildLost is not inductive: while the table is     *)
(* compacted only the entries moved so far and those still to be looked at *)
(* count, and a child must have one of them that says it runs.             *)

Alive == {"running", "zombie"}   \* in the kernel's table as a child of ours

USE DEF Alive

Live == IF pc = "compact" THEN 1..(j - 1) \cup i..process_count ELSE 1..process_count

HasEntry(p) == \E n \in Live : process_table[n].pid = p /\ process_table[n].status = 0

NobodyLost ==
  /\ \A p \in Pids : proc[p] \in Alive => HasEntry(p) \/ (pc = "forked" /\ p = target)
  /\ pc = "forked" => process_count < MAX_PROCESSES
  /\ \A p \in Pids : BeingRecorded(p) => proc[p] \notin Alive
  /\ ~On("chld") => got = NoPid

LostInv == TypeInv /\ NobodyLost

LEMMA MainStands ==
  ASSUME LostInv, InMain
  PROVE  got = NoPid /\ ~On("int") /\ ~On("chld")
<1>1. stack \in Stacks
  BY DEF LostInv, TypeInv, Core, TypeOK, Stacks
<1>2. QED
  BY <1>1, StackFacts DEF LostInv, NobodyLost

\* A step that leaves the table and the program counters alone, and makes
\* nobody run.
LEMMA QuietStep ==
  ASSUME LostInv, UNCHANGED <<tableVars, i, j, pc, target>>,
         \A p \in Pids : proc'[p] \in Alive => proc[p] \in Alive,
         got' = got \/ got' = NoPid \/ (got' \in Pids /\ proc'[got'] \notin Alive),
         ~On("chld")' => got' = NoPid
  PROVE  NobodyLost'
BY ProcManAssumption DEF LostInv, NobodyLost, HasEntry, Live, BeingRecorded, Entry

\* The same, with the main program going from one place to another.
LEMMA MainStep ==
  ASSUME LostInv, InMain, UNCHANGED <<tableVars, stack, got>>,
         pc \notin {"forked", "compact"}, pc' \notin {"forked", "compact"},
         \A p \in Pids : proc'[p] \in Alive => proc[p] \in Alive,
         pc' = "record" => target' \in Pids /\ proc'[target'] \notin Alive,
         pc' = "recordwait" => proc'[process_table[i'].pid] \notin Alive
  PROVE  NobodyLost'
<1>1. got = NoPid
  BY MainStands
<1>2. Live' = Live
  BY DEF Live
<1>3. \A p \in Pids : HasEntry(p)' = HasEntry(p)
  BY <1>2 DEF HasEntry
<1>4. got' = NoPid
  BY <1>1
<1>5. \A p \in Pids : ~BeingRecorded(p)' \/ proc'[p] \notin Alive
  BY <1>4, ProcManAssumption DEF BeingRecorded, Entry
<1>6. QED
  BY <1>3, <1>4, <1>5 DEF LostInv, NobodyLost

LEMMA ShellLoses == ASSUME LostInv, Shell PROVE NobodyLost'
<1> USE ProcManAssumption DEF TypeInv, Core, TypeOK
<1>1. InMain /\ pc = "shell" /\ UNCHANGED <<tableVars, stack, got>>
  BY DEF Shell, StartWaitAll, Quit, Fork, CheckStatus, Terminate, Command
<1>2. CASE StartWaitAll \/ Quit
  BY <1>1, <1>2, MainStep DEF StartWaitAll, Quit, Command
<1>3. ASSUME NEW p \in Pids, CheckStatus(p) PROVE NobodyLost'
  <2>1. proc' = [proc EXCEPT ![p] = "gone"] /\ pc' = "record" /\ target' = p
    BY <1>3 DEF CheckStatus, Command, Reap
  <2>2. QED
    BY <1>1, <2>1, MainStep DEF LostInv
<1>4. ASSUME NEW p \in Pids, NEW force \in BOOLEAN, Terminate(p, force) PROVE NobodyLost'
  <2>1. UNCHANGED proc /\ pc' = "waitpid"
    BY <1>4 DEF Terminate, Command, Signal
  <2>2. QED
    BY <1>1, <2>1, MainStep
<1>5. ASSUME NEW p \in Pids, Fork(p) PROVE NobodyLost'
  <2>1. /\ proc' = [proc EXCEPT ![p] = "running"] /\ pc' = "forked" /\ target' = p
        /\ process_count < MAX_PROCESSES
    BY <1>5 DEF Fork, Command
  <2>2. got' = NoPid
    BY <1>1, MainStands
  <2>3. Live' = Live
    BY <1>1, <2>1 DEF Live
  <2>4. \A q \in Pids : HasEntry(q)' = HasEntry(q)
    BY <1>1, <2>3 DEF HasEntry
  <2>5. \A q \in Pids : ~BeingRecorded(q)'
    BY <2>1, <2>2 DEF BeingRecorded
  <2>6. QED
    BY <1>1, <2>1, <2>2, <2>4, <2>5 DEF LostInv, NobodyLost
<1>6. QED
  BY <1>2, <1>3, <1>4, <1>5 DEF Shell

\* What an index that is still to be looked at, or moved already, is after a
\* step of the compaction.
LEMMA IndexStays ==
  ASSUME NEW a \in Int, NEW b \in Int, NEW c \in Int, NEW n \in 1..(b - 1) \cup a..c,
         n # a, NEW d \in {b, b + 1}
  PROVE  n \in 1..(d - 1) \cup (a + 1)..c
OBVIOUS

LEMMA MainLoses == ASSUME LostInv, Main PROVE NobodyLost'
<1> USE ProcManAssumption DEF TypeInv, Core, TypeOK
<1>1. InMain /\ UNCHANGED <<stack, got>>
  BY DEF Main, AddProcess, WaitTarget, Record, WaitEntry, RecordWait, WaitPassEnds,
         CompactEntry, CompactEnds, QuitTest, QuitKill, Exit
<1>2. got = NoPid /\ got' = NoPid
  BY <1>1, MainStands
<1>3. CASE AddProcess
  <2>1. /\ process_count' = process_count + 1 /\ process_count + 1 \in Slots
        /\ process_table' = [process_table EXCEPT ![process_count + 1] = [pid |-> target, status |-> 0]]
        /\ pc = "forked" /\ pc' = "shell" /\ UNCHANGED proc
    BY <1>3 DEF AddProcess, LostInv, NobodyLost, Slots
  <2>2. \A q \in Pids : HasEntry(q) => HasEntry(q)'
    BY <2>1 DEF HasEntry, Live, LostInv, Slots
  <2>3. HasEntry(target)'
    <3>1. process_count + 1 \in Live'
      BY <2>1 DEF Live, LostInv, Slots
    <3>2. process_table'[process_count + 1] = [pid |-> target, status |-> 0]
      BY <2>1 DEF LostInv
    <3>3. QED
      BY <3>1, <3>2, <1>3 DEF HasEntry, AddProcess
  <2>4. \A q \in Pids : ~BeingRecorded(q)'
    BY <1>2, <2>1 DEF BeingRecorded
  <2>5. QED
    BY <1>2, <1>3, <2>1, <2>2, <2>3, <2>4 DEF LostInv, NobodyLost, AddProcess
<1>4. CASE WaitTarget
  <2>1. /\ proc' = proc \/ proc' = [proc EXCEPT ![target] = "gone"]
        /\ pc = "waitpid" /\ pc' = "record" => proc[target] = "zombie"
        /\ pc' \in {"record", "shell"} /\ UNCHANGED <<tableVars, target>>
        /\ pc' = "record" => proc' = [proc EXCEPT ![target] = "gone"]
    BY <1>4 DEF WaitTarget, Reap
  <2>2. pc' = "record" /\ target \in Pids => proc'[target] \notin Alive
    BY <2>1 DEF LostInv
  <2>3. \A p \in Pids : ~BeingRecorded(p)' \/ proc'[p] \notin Alive
    BY <1>2, <2>1, <2>2 DEF BeingRecorded
  <2>4. \A p \in Pids : HasEntry(p)' = HasEntry(p)
    BY <1>4, <2>1 DEF HasEntry, Live, WaitTarget
  <2>5. QED
    BY <1>2, <1>4, <2>1, <2>3, <2>4 DEF LostInv, NobodyLost, WaitTarget
<1>5. CASE Record
  <2>1. /\ MarkTerminated(target) /\ pc = "record" /\ pc' = "shell"
        /\ UNCHANGED <<proc, target>>
    BY <1>5 DEF Record
  <2>2. \A q \in Pids : proc[q] \in Alive => q # target
    BY <2>1 DEF LostInv, NobodyLost, BeingRecorded
  <2>3. \A q \in Pids : HasEntry(q) /\ q # target => HasEntry(q)'
    BY <2>1, MarkTypes DEF HasEntry, Live, LostInv, Entry, FirstEntry, Slots
  <2>4. \A q \in Pids : ~BeingRecorded(q)'
    BY <1>2, <2>1 DEF BeingRecorded
  <2>5. QED
    BY <1>2, <2>1, <2>2, <2>3, <2>4 DEF LostInv, NobodyLost
<1>6. CASE WaitEntry
  <2>1. process_table[i].pid \in Pids
    BY <1>6 DEF WaitEntry, LostInv, TableOK
  <2>2. /\ pc = "waitall" /\ UNCHANGED tableVars
        /\ \/ pc' = "waitall" /\ UNCHANGED proc
           \/ /\ pc' = "recordwait" /\ i' = i
              /\ proc' = [proc EXCEPT ![process_table[i].pid] = "gone"]
    BY <1>6 DEF WaitEntry, Reap, Entry
  <2>3. QED
    BY <1>1, <2>1, <2>2, MainStep DEF LostInv
<1>7. CASE RecordWait
  <2>1. /\ process_table' = [process_table EXCEPT ![i].status = 1]
        /\ pc = "recordwait" /\ pc' = "waitall" /\ UNCHANGED <<proc, process_count>>
        /\ i \in Slots /\ i <= process_count
    BY <1>7 DEF RecordWait, LostInv, Counters, Slots
  <2>2. \A q \in Pids : proc[q] \in Alive => q # process_table[i].pid
    BY <2>1 DEF LostInv, NobodyLost, BeingRecorded, Entry
  <2>3. \A q \in Pids : HasEntry(q) /\ q # process_table[i].pid => HasEntry(q)'
    BY <2>1 DEF HasEntry, Live, LostInv, Slots
  <2>4. \A q \in Pids : ~BeingRecorded(q)'
    BY <1>2, <2>1 DEF BeingRecorded
  <2>5. QED
    BY <1>2, <2>1, <2>2, <2>3, <2>4 DEF LostInv, NobodyLost
<1>8. CASE WaitPassEnds
  <2>1. /\ pc = "waitall" /\ pc' \in {"waitall", "compact"} /\ i' = 1 /\ j' = 1
        /\ UNCHANGED <<proc, tableVars>>
    BY <1>8 DEF WaitPassEnds
  <2>2. Live' = Live
    BY <2>1 DEF Live, LostInv
  <2>3. \A q \in Pids : HasEntry(q)' = HasEntry(q)
    BY <2>1, <2>2 DEF HasEntry
  <2>4. \A q \in Pids : ~BeingRecorded(q)'
    BY <1>2, <2>1 DEF BeingRecorded
  <2>5. QED
    BY <1>2, <2>1, <2>3, <2>4 DEF LostInv, NobodyLost
<1>9. CASE CompactEntry
  <2>1. /\ pc = "compact" /\ pc' = "compact" /\ i \in 1..process_count /\ j \in 1..i
        /\ i' = i + 1 /\ UNCHANGED <<proc, process_count>>
    BY <1>9 DEF CompactEntry, LostInv, Counters
  <2>2. ASSUME NEW q \in Pids, HasEntry(q) PROVE HasEntry(q)'
    <3>1. PICK n \in Live : process_table[n].pid = q /\ process_table[n].status = 0
      BY <2>2 DEF HasEntry
    <3>2. n \in 1..(j - 1) \/ n \in i..process_count
      BY <2>1, <3>1 DEF Live
    <3>3. CASE n = i
      <4>1. process_table' = [process_table EXCEPT ![j] = process_table[i]] /\ j' = j + 1
        BY <1>9, <3>1, <3>3 DEF CompactEntry, Entry
      <4>2. process_table'[j] = process_table[i] /\ j \in Live'
        BY <2>1, <4>1 DEF Live, LostInv, Slots
      <4>3. QED
        BY <3>1, <3>3, <4>2 DEF HasEntry
    <3>4. CASE n # i
      <4>1. n # j
        BY <2>1, <3>2, <3>4 DEF LostInv
      <4>2. \/ process_table' = [process_table EXCEPT ![j] = Entry(i)] /\ j' = j + 1
            \/ process_table' = process_table /\ j' = j
        BY <1>9 DEF CompactEntry
      <4>3. process_table'[n] = process_table[n]
        <5>1. n \in Slots /\ DOMAIN process_table = Slots
          BY <2>1, <3>2 DEF LostInv, Slots
        <5>2. QED
          BY <4>1, <4>2, <5>1
      <4>4. i \in Int /\ n \in Int /\ process_count \in Int /\ j \in Int /\ j' \in {j, j + 1}
        BY <2>1, <3>2, <4>2 DEF LostInv
      <4>5. n \in 1..(j' - 1) \cup (i + 1)..process_count
        BY <2>1, <3>2, <3>4, <4>4, IndexStays
      <4>6. n \in Live'
        BY <2>1, <4>5 DEF Live
      <4>7. QED
        BY <3>1, <4>3, <4>6 DEF HasEntry
    <3>5. QED
      BY <3>3, <3>4
  <2>3. \A q \in Pids : ~BeingRecorded(q)'
    BY <1>2, <2>1 DEF BeingRecorded
  <2>4. QED
    BY <1>2, <2>1, <2>2, <2>3 DEF LostInv, NobodyLost
<1>10. CASE CompactEnds
  <2>1. /\ pc = "compact" /\ pc' = "shell" /\ process_count' = j - 1 /\ i > process_count
        /\ UNCHANGED <<proc, process_table>>
    BY <1>10 DEF CompactEnds
  <2>2. Live' = Live
    BY <2>1 DEF Live, LostInv
  <2>3. \A q \in Pids : HasEntry(q)' = HasEntry(q)
    BY <2>1, <2>2 DEF HasEntry
  <2>4. \A q \in Pids : ~BeingRecorded(q)'
    BY <1>2, <2>1 DEF BeingRecorded
  <2>5. QED
    BY <1>2, <2>1, <2>3, <2>4 DEF LostInv, NobodyLost
<1>11. CASE QuitTest \/ QuitKill \/ Exit
  <2>1. /\ pc \in {"quit", "quitkill"} /\ pc' \in {"quit", "quitkill", "exited"}
        /\ UNCHANGED <<proc, tableVars>>
    BY <1>11 DEF QuitTest, QuitKill, Exit, Signal
  <2>2. QED
    BY <1>1, <2>1, MainStep
<1>12. QED
  BY <1>3, <1>4, <1>5, <1>6, <1>7, <1>8, <1>9, <1>10, <1>11 DEF Main

LEMMA HandlersLose == ASSUME LostInv, Handlers \/ SigintArrives PROVE NobodyLost'
<1> USE ProcManAssumption DEF TypeInv, Core, TypeOK
<1>1. /\ stack \in Stacks /\ (On("chld") => On("chld")' \/ SigchldReturn)
      /\ Top = "chld" => On("chld")
  <2>1. stack \in Stacks
    BY DEF LostInv, Stacks
  <2>2. QED
    BY <2>1, StackStep, StackFacts DEF LostInv
<1>2. CASE SigchldArrives \/ SigchldReturn \/ SigintTest \/ SigintKill \/ SigintArrives
  <2>1. /\ UNCHANGED <<proc, tableVars, i, j, pc, target, got>>
        /\ SigchldReturn => got = NoPid
    BY <1>2 DEF SigchldArrives, SigchldReturn, SigintTest, SigintKill, SigintArrives, Signal
  <2>2. QED
    BY <1>1, <2>1, QuietStep DEF LostInv, NobodyLost
<1>3. CASE SigchldReap
  <2>1. /\ UNCHANGED <<tableVars, i, j, pc, target, stack>>
        /\ \E p \in Pids : proc' = [proc EXCEPT ![p] = "gone"] /\ got' = p
        /\ Top = "chld"
    BY <1>3 DEF SigchldReap, Reap
  <2>2. On("chld")'
    BY <1>1, <2>1 DEF On
  <2>3. QED
    BY <2>1, <2>2, QuietStep DEF LostInv
<1>4. CASE SigchldRecord
  <2>1. /\ MarkTerminated(got) /\ got \in Pids /\ got' = NoPid
        /\ UNCHANGED <<proc, i, j, pc, target>>
    BY <1>4 DEF SigchldRecord, LostInv
  <2>2. \A q \in Pids : proc[q] \in Alive => q # got
    BY <2>1 DEF LostInv, NobodyLost, BeingRecorded
  <2>3. process_count' = process_count /\ Live' = Live
    BY <2>1 DEF MarkTerminated, Live
  <2>4. \A q \in Pids : HasEntry(q) /\ q # got => HasEntry(q)'
    BY <2>1, <2>3, MarkTypes, SMTT(30)
       DEF HasEntry, Live, LostInv, Entry, FirstEntry, Slots, Counters
  <2>5. \A q \in Pids : BeingRecorded(q)' => BeingRecorded(q)
    <3>1. pc = "recordwait" => i \in Slots
      BY DEF LostInv, Counters, Slots
    <3>2. QED
      BY <2>1, <3>1, MarkTypes DEF BeingRecorded, LostInv, Entry
  <2>6. QED
    BY <2>1, <2>2, <2>3, <2>4, <2>5 DEF LostInv, NobodyLost
<1>5. CASE SigintWait
  <2>1. CASE pc' = pc
    BY <1>1, <1>5, <2>1, QuietStep DEF SigintWait, Reap, On, LostInv, NobodyLost
  <2>2. CASE pc' # pc
    <3>1. \A p \in Pids : proc'[p] \notin Alive
      BY <1>5, <2>2 DEF SigintWait
    <3>2. QED
      BY <1>5, <2>2, <3>1 DEF SigintWait, LostInv, NobodyLost, On
  <2>3. QED
    BY <2>1, <2>2
<1>6. QED
  BY <1>2, <1>3, <1>4, <1>5 DEF Handlers

LEMMA LostStep == ASSUME LostInv, [Next]_vars PROVE LostInv'
<1>1. TypeInv'
  BY TypeStep DEF LostInv
<1>2. CASE Shell \/ Main \/ Handlers \/ SigintArrives
  BY <1>1, <1>2, ShellLoses, MainLoses, HandlersLose DEF LostInv
<1>3. ASSUME NEW p \in Pids, ChildExits(p) \/ Recycle(p) PROVE NobodyLost'
  <2>1. /\ UNCHANGED <<tableVars, i, j, pc, target, got, stack>>
        /\ \A q \in Pids : proc'[q] \in Alive => proc[q] \in Alive
    BY <1>3, ProcManAssumption DEF ChildExits, Recycle, LostInv, TypeInv, Core, TypeOK
  <2>2. QED
    BY <2>1, QuietStep DEF LostInv, NobodyLost, On
<1>4. ASSUME UNCHANGED vars PROVE NobodyLost'
  <2>1. UNCHANGED <<proc, tableVars, i, j, pc, target, got, stack>>
    BY <1>4 DEF vars, kernelVars, mainVars
  <2>2. ~On("chld")' => got' = NoPid
    BY <2>1 DEF LostInv, NobodyLost, On
  <2>3. QED
    BY <2>1, <2>2, QuietStep
<1>5. QED
  BY <1>1, <1>2, <1>3, <1>4 DEF Next, LostInv

LEMMA LostInductive == Spec => []LostInv
<1>1. Init => LostInv
  BY TypeInit DEF LostInv, NobodyLost, Init, BeingRecorded
<1>2. QED
  BY <1>1, LostStep, PTL DEF Spec

\* Whatever the handlers interrupt, a child that runs or is a zombie has an
\* entry, or is the one create_process() is about to enter.
THEOREM NoChildIsLost == Spec => []NoChildLost
<1>1. LostInv => NoChildLost
  <2> SUFFICES ASSUME LostInv, NEW p \in Pids, HasEntry(p) PROVE p \in Tracked
    BY DEF LostInv, NobodyLost, NoChildLost
  <2>1. Live \subseteq 1..process_count
    BY ProcManAssumption DEF Live, LostInv, TypeInv, Core, TypeOK, Counters
  <2>2. QED
    BY <2>1 DEF HasEntry, Tracked, Entry
<1>2. QED
  BY <1>1, LostInductive, PTL

-----------------------------------------------------------------------------
(* SIGINT misses no entry.  This needs more of the kernel and of the       *)
(* children than what precedes: an id is not given to a second child, and  *)
(* SIGTERM ends a child.  A loop invariant of sigint_handler() says so of  *)
(* the entries it has passed.                                              *)

\* The entry at n is that of an old entry, or the one just added.
LEMMA PidsStay ==
  ASSUME LostInv, [Next]_vars
  PROVE  \A n \in 1..process_count' :
           \/ \E m \in 1..process_count : process_table'[n].pid = process_table[m].pid
           \/ AddProcess /\ process_table'[n].pid = target
<1> USE ProcManAssumption DEF LostInv, TypeInv, Core, TypeOK
<1>1. CASE UNCHANGED tableVars
  BY <1>1
<1>2. CASE AddProcess
  BY <1>2 DEF AddProcess, Slots
<1>3. CASE Record \/ SigchldRecord
  <2>1. process_count' = process_count /\ \A n \in Slots : process_table'[n].pid = process_table[n].pid
    BY <1>3, MarkTypes DEF Record, SigchldRecord, Entry
  <2>2. QED
    BY <2>1 DEF Slots
<1>4. CASE RecordWait
  <2>1. process_count' = process_count /\ \A n \in Slots : process_table'[n].pid = process_table[n].pid
    BY <1>4 DEF RecordWait
  <2>2. QED
    BY <2>1 DEF Slots
<1>5. CASE CompactEntry
  <2>1. /\ process_count' = process_count /\ i \in 1..process_count
        /\ \A n \in Slots : process_table'[n] \in {process_table[n], process_table[i]}
    BY <1>5 DEF CompactEntry, Entry, Counters
  <2>2. QED
    BY <2>1 DEF Slots
<1>6. CASE CompactEnds
  <2>1. UNCHANGED process_table /\ process_count' <= process_count /\ process_count' \in Int
    BY <1>6 DEF CompactEnds, Counters
  <2>2. QED
    BY <2>1
<1>7. CASE Shell \/ WaitTarget \/ WaitEntry \/ WaitPassEnds \/ QuitTest \/ QuitKill \/ Exit
  BY <1>1, <1>7 DEF Shell, StartWaitAll, Quit, Fork, CheckStatus, Terminate,
                    WaitTarget, WaitEntry, WaitPassEnds, QuitTest, QuitKill, Exit
<1>8. CASE \/ SigchldArrives \/ SigchldReap \/ SigchldReturn \/ SigintTest \/ SigintKill
           \/ SigintWait \/ SigintArrives \/ \E p \in Pids : ChildExits(p) \/ Recycle(p)
  BY <1>1, <1>8 DEF SigchldArrives, SigchldReap, SigchldReturn, SigintTest, SigintKill,
                    SigintWait, SigintArrives, ChildExits, Recycle
<1>9. QED
  BY <1>1, <1>2, <1>3, <1>4, <1>5, <1>6, <1>7, <1>8 DEF Next, Main, Handlers

\* What a step does to the kernel's processes.
LEMMA ProcStep ==
  ASSUME TypeInv, [Next]_vars, "free" \notin Recycling, NEW q \in Pids
  PROVE  /\ proc'[q] = "free" => proc[q] = "free"
         /\ proc'[q] = "running" => proc[q] = "running" \/ Fork(q)
<1> USE ProcManAssumption DEF TypeInv, Core, TypeOK
<1>1. CASE UNCHANGED proc
  BY <1>1
<1>2. ASSUME NEW p \in Pids, Reap(p) PROVE proc'[q] # "free" \/ proc[q] = "free"
  BY <1>2 DEF Reap
<1>3. ASSUME NEW p \in Pids, Reap(p) PROVE proc'[q] = "running" => proc[q] = "running"
  BY <1>3 DEF Reap
<1>4. CASE Shell
  <2>1. CASE StartWaitAll \/ Quit
    BY <1>1, <2>1 DEF StartWaitAll, Quit
  <2>2. ASSUME NEW p \in Pids, Fork(p)
        PROVE  /\ proc'[q] = "free" => proc[q] = "free"
               /\ proc'[q] = "running" => proc[q] = "running" \/ Fork(q)
    <3>1. proc' = [proc EXCEPT ![p] = "running"]
      BY <2>2 DEF Fork
    <3>2. QED
      BY <2>2, <3>1
  <2>3. CASE \E p \in Pids : CheckStatus(p)
    BY <1>2, <1>3, <2>3 DEF CheckStatus
  <2>4. CASE \E p \in Pids, force \in BOOLEAN : Terminate(p, force)
    BY <1>1, <2>4 DEF Terminate, Signal
  <2>5. QED
    BY <1>4, <2>1, <2>2, <2>3, <2>4 DEF Shell
<1>5. CASE WaitTarget \/ WaitEntry
  <2>1. CASE WaitTarget
    <3>1. UNCHANGED proc \/ Reap(target)
      BY <2>1 DEF WaitTarget
    <3>2. QED
      BY <3>1 DEF Reap
  <2>2. CASE WaitEntry
    <3>1. UNCHANGED proc \/ Reap(Entry(i).pid)
      BY <2>2 DEF WaitEntry
    <3>2. QED
      BY <3>1 DEF Reap
  <2>3. QED
    BY <1>5, <2>1, <2>2
<1>6. CASE SigchldReap \/ SigintWait
  BY <1>1, <1>2, <1>3, <1>6 DEF SigchldReap, SigintWait
<1>7. ASSUME NEW p \in Pids, ChildExits(p) \/ Recycle(p)
      PROVE  /\ proc'[q] = "free" => proc[q] = "free"
             /\ proc'[q] = "running" => proc[q] = "running"
  <2>1. proc' = [proc EXCEPT ![p] = "zombie"] \/ proc' = [proc EXCEPT ![p] = "other"]
    BY <1>7 DEF ChildExits, Recycle
  <2>2. QED
    BY <2>1
<1>8. CASE \/ AddProcess \/ Record \/ RecordWait \/ WaitPassEnds \/ CompactEntry \/ CompactEnds
           \/ QuitTest \/ QuitKill \/ Exit \/ SigchldArrives \/ SigchldRecord \/ SigchldReturn
           \/ SigintTest \/ SigintKill \/ SigintArrives
  BY <1>1, <1>8 DEF AddProcess, Record, RecordWait, WaitPassEnds, CompactEntry, CompactEnds,
                    QuitTest, QuitKill, Exit, SigchldArrives, SigchldRecord, SigchldReturn,
                    SigintTest, SigintKill, SigintArrives, Signal
<1>9. QED
  BY <1>1, <1>4, <1>5, <1>6, <1>7, <1>8 DEF Next, Main, Handlers

Fresh ==
  /\ \A n \in 1..process_count : proc[process_table[n].pid] # "free"
  /\ pc = "forked" => /\ proc[target] # "free"
                      /\ \A n \in 1..process_count : process_table[n].pid # target

LEMMA FreshStep ==
  ASSUME LostInv, Fresh, [Next]_vars, "free" \notin Recycling
  PROVE  Fresh'
<1> USE DEF LostInv, TypeInv
<1>1. \A n \in 1..process_count : process_table[n].pid \in Pids
  BY DEF TableOK
<1>2. pc = "forked" => target \in Pids
  BY DEF TableOK
<1>3. \A q \in Pids : proc'[q] = "free" => proc[q] = "free"
  BY ProcStep
<1>4. AddProcess => pc = "forked"
  BY DEF AddProcess
<1>5. \A n \in 1..process_count' : proc'[process_table'[n].pid] # "free"
  BY <1>1, <1>2, <1>3, <1>4, PidsStay DEF Fresh
<1>6. ASSUME pc' = "forked"
      PROVE  proc'[target'] # "free" /\ \A n \in 1..process_count' : process_table'[n].pid # target'
  <2>1. ASSUME NEW p \in Pids, Fork(p)
        PROVE  proc'[target'] # "free" /\ \A n \in 1..process_count' : process_table'[n].pid # target'
    <3>1. /\ proc[p] = "free" /\ target' = p /\ proc' = [proc EXCEPT ![p] = "running"]
          /\ UNCHANGED tableVars
      BY <2>1 DEF Fork
    <3>2. QED
      BY <3>1 DEF Fresh, Core, TypeOK
  <2>2. CASE pc = "forked" /\ UNCHANGED target /\ ~AddProcess
    BY <1>2, <1>3, <2>2, PidsStay DEF Fresh
  <2>3. (\E p \in Pids : Fork(p)) \/ (pc = "forked" /\ UNCHANGED target /\ ~AddProcess)
    <3>1. CASE Shell \/ Main
      BY <1>6, <3>1 DEF Shell, StartWaitAll, Quit, CheckStatus, Terminate, Command, Main,
         AddProcess, WaitTarget, Record, WaitEntry, RecordWait, WaitPassEnds,
         CompactEntry, CompactEnds, QuitTest, QuitKill, Exit
    <3>2. CASE UNCHANGED <<pc, target>>
      BY <1>6, <3>2 DEF AddProcess
    <3>3. CASE Handlers \/ SigintArrives
      BY <1>6, <3>2, <3>3 DEF Handlers, SigchldArrives, SigchldReap, SigchldRecord, SigchldReturn,
         SigintTest, SigintKill, SigintWait, SigintArrives
    <3>4. CASE \E p \in Pids : ChildExits(p) \/ Recycle(p)
      BY <3>2, <3>4 DEF ChildExits, Recycle
    <3>5. QED
      BY <3>1, <3>2, <3>3, <3>4 DEF Next
  <2>4. QED
    BY <2>1, <2>2, <2>3
<1>7. QED
  BY <1>5, <1>6 DEF Fresh

\* sigint_handler() has been at entry n.
Passed(n) == On("int") /\ (n < k \/ kpc = "wait")

Signalled ==
  \A n \in 1..process_count :
    Passed(n) /\ process_table[n].status = 0 /\ proc[process_table[n].pid] = "running"
      => process_table[n].pid \in doomed

LEMMA SignalledStep ==
  ASSUME LostInv, Signalled, [Next]_vars, Obedient, "free" \notin Recycling
  PROVE  Signalled'
<1> USE DEF LostInv, TypeInv
<1>1. CASE ~On("int")'
  BY <1>1 DEF Signalled, Passed
<1>2. CASE SigintArrives
  <2>1. k' = 1 /\ kpc' = "test"
    BY <1>2 DEF SigintArrives
  <2>2. process_count' \in Int
    BY <1>2 DEF SigintArrives, Core, TypeOK
  <2>3. QED
    BY <2>1, <2>2 DEF Signalled, Passed
<1>3. CASE On("int") /\ On("int")' /\ ~SigintArrives
  <2>1. ~InMain
    BY <1>3, MainStands
  <2>2. ~Shell /\ ~Main
    BY <2>1 DEF Shell, StartWaitAll, Quit, Fork, CheckStatus, Terminate, Command, Main,
       AddProcess, WaitTarget, Record, WaitEntry, RecordWait, WaitPassEnds,
       CompactEntry, CompactEnds, QuitTest, QuitKill, Exit
  <2>3. \A q \in Pids : proc'[q] = "running" => proc[q] = "running"
    BY <2>2, ProcStep DEF Shell
  <2>4. \A n \in 1..process_count : process_table[n].pid \in Pids
    BY DEF TableOK
  <2>5. CASE UNCHANGED <<tableVars, doomed, k, kpc>>
    BY <1>3, <2>3, <2>4, <2>5 DEF Signalled, Passed
  <2>6. CASE SigchldRecord
    <3>1. /\ process_count' = process_count /\ UNCHANGED <<doomed, k, kpc, proc>>
          /\ \A n \in Slots : process_table'[n].pid = process_table[n].pid
          /\ \A n \in Slots : process_table'[n].status = 0 => process_table[n].status = 0
      BY <2>6, MarkTypes DEF SigchldRecord, Entry, Core
    <3>2. 1..process_count \subseteq Slots
      BY ProcManAssumption DEF Core, TypeOK, Slots
    <3>3. QED
      BY <1>3, <3>1, <3>2 DEF Signalled, Passed
  <2>7. CASE SigintTest
    <3>1. /\ UNCHANGED <<proc, doomed, tableVars>> /\ kpc = "test"
          /\ \/ k > process_count /\ kpc' = "wait"
             \/ process_table[k].status = 0 /\ k' = k /\ kpc' = "kill"
             \/ process_table[k].status # 0 /\ k' = k + 1 /\ kpc' = "test"
      BY <2>7 DEF SigintTest, Entry
    <3>2. k \in Int /\ process_count \in Int
      BY DEF Core, TypeOK
    <3>3. \A n \in 1..process_count : Passed(n)' => Passed(n) \/ (n = k /\ process_table[k].status # 0)
      BY <1>3, <3>1, <3>2 DEF Passed
    <3>4. QED
      BY <3>1, <3>3 DEF Signalled
  <2>8. CASE SigintKill
    <3>1. /\ UNCHANGED <<proc, tableVars>> /\ kpc = "kill" /\ k' = k + 1 /\ kpc' = "test"
          /\ proc[process_table[k].pid] = "running" => process_table[k].pid \in doomed'
          /\ doomed \subseteq doomed'
      BY <2>8 DEF SigintKill, Signal, Entry
    <3>2. k \in Int
      BY DEF Core, TypeOK
    <3>3. \A n \in 1..process_count : Passed(n)' => Passed(n) \/ n = k
      BY <1>3, <3>1, <3>2 DEF Passed
    <3>4. QED
      BY <3>1, <3>3 DEF Signalled
  <2>9. CASE UNCHANGED vars
    BY <2>5, <2>9
  <2>10. CASE \/ SigchldArrives \/ SigchldReap \/ SigchldReturn \/ SigintWait
              \/ \E p \in Pids : ChildExits(p) \/ Recycle(p)
    BY <2>5, <2>10 DEF SigchldArrives, SigchldReap, SigchldReturn, SigintWait, Reap,
                       ChildExits, Recycle
  <2>11. QED
    BY <1>3, <2>2, <2>6, <2>7, <2>8, <2>9, <2>10 DEF Next, Handlers
<1>4. CASE ~On("int") /\ On("int")' /\ ~SigintArrives
  <2>1. ~Handlers
    BY <1>4, StackStep
  <2>2. UNCHANGED stack
    BY <1>4, <2>1 DEF Next, Shell, StartWaitAll, Quit, Fork, CheckStatus, Terminate, Command, Main,
       AddProcess, WaitTarget, Record, WaitEntry, RecordWait, WaitPassEnds,
       CompactEntry, CompactEnds, QuitTest, QuitKill, Exit, ChildExits, Recycle
  <2>3. QED
    BY <1>4, <2>2 DEF On
<1>5. QED
  BY <1>1, <1>2, <1>3, <1>4

\* When sigint_handler() starts to wait it has signalled every child that has
\* an entry, wherever SIGINT came: in the middle of wait_all_processes(), of
\* the compaction, or of sigchld_handler().
THEOREM NoEntryMissed ==
  ASSUME Obedient, "free" \notin Recycling
  PROVE  Spec => []EntriesSignalled
<1> DEFINE Inv == LostInv /\ Fresh /\ Signalled
<1>1. Init => Inv
  BY TypeInit DEF Init, LostInv, NobodyLost, BeingRecorded, Fresh, Signalled
<1>2. Inv /\ [Next]_vars => Inv'
  BY LostStep, FreshStep, SignalledStep
<1>3. Inv => EntriesSignalled
  <2> SUFFICES ASSUME Inv, ShuttingDown, NEW p \in Tracked, proc[p] = "running" PROVE p \in doomed
    BY DEF EntriesSignalled
  <2>1. p \in Pids
    BY DEF Tracked, Entry, LostInv, TypeInv, TableOK
  <2>2. ~(pc = "forked" /\ p = target)
    BY DEF Tracked, Entry, Fresh
  <2>3. PICK n \in Live : process_table[n].pid = p /\ process_table[n].status = 0
    BY <2>1, <2>2 DEF LostInv, NobodyLost, HasEntry
  <2>4. n \in 1..process_count
    BY <2>3, ProcManAssumption DEF Live, LostInv, TypeInv, Core, TypeOK, Counters
  <2>5. QED
    BY <2>3, <2>4 DEF Signalled, Passed, ShuttingDown
<1>4. QED
  BY <1>1, <1>2, <1>3, PTL DEF Spec

-----------------------------------------------------------------------------
(* An entry that says running is a child.  The two facts it rests on: a    *)
(* process id has one entry (but for what the compaction leaves behind),   *)
(* so that to mark the first is to mark all; and no SIGCHLD comes during   *)
(* the compaction.                                                         *)

Once ==
  /\ ~Exited => \A m, n \in Live : process_table[m].pid = process_table[n].pid => m = n
  /\ pc = "compact" => ~On("chld")

\* Only two steps move entries.
LEMMA LiveStep ==
  ASSUME LostInv, [Next]_vars, ~AddProcess, ~CompactEntry, pc' # "exited"
  PROVE  Live' = Live /\ \A n \in Live : process_table'[n].pid = process_table[n].pid
<1> USE ProcManAssumption DEF LostInv, TypeInv, Core, TypeOK
<1>1. Live \subseteq Slots
  BY DEF Live, Slots, Counters
<1>2. CASE UNCHANGED <<tableVars, i, j, pc>>
  BY <1>2 DEF Live
<1>3. CASE Record \/ SigchldRecord
  <2>1. /\ process_count' = process_count /\ \A n \in Slots : process_table'[n].pid = process_table[n].pid
        /\ Live' = Live
    BY <1>3, MarkTypes DEF Record, SigchldRecord, Entry, Live
  <2>2. QED
    BY <1>1, <2>1
<1>4. CASE RecordWait
  <2>1. Live' = Live /\ \A n \in Slots : process_table'[n].pid = process_table[n].pid
    BY <1>4 DEF RecordWait, Live
  <2>2. QED
    BY <1>1, <2>1
<1>5. CASE UNCHANGED tableVars /\ pc # "compact" /\ pc' # "compact"
  BY <1>5 DEF Live
<1>6. CASE WaitPassEnds
  BY <1>6 DEF WaitPassEnds, Live
<1>7. CASE CompactEnds
  BY <1>7 DEF CompactEnds, Live
<1>8. CASE Shell
  BY <1>5, <1>8 DEF Shell, StartWaitAll, Quit, Fork, CheckStatus, Terminate, Command
<1>9. CASE WaitTarget \/ WaitEntry \/ QuitTest \/ QuitKill \/ Exit
  <2>1. UNCHANGED tableVars /\ pc # "compact" /\ pc' # "compact"
    BY <1>9 DEF WaitTarget, WaitEntry, QuitTest, QuitKill, Exit
  <2>2. QED
    BY <1>5, <2>1
<1>10. CASE \/ SigchldArrives \/ SigchldReap \/ SigchldReturn \/ SigintTest \/ SigintKill
            \/ SigintWait \/ SigintArrives \/ \E p \in Pids : ChildExits(p) \/ Recycle(p)
  BY <1>2, <1>10 DEF SigchldArrives, SigchldReap, SigchldReturn, SigintTest, SigintKill,
                     SigintWait, SigintArrives, ChildExits, Recycle
<1>11. CASE UNCHANGED vars
  BY <1>2, <1>11
<1>12. QED
  BY <1>3, <1>4, <1>6, <1>7, <1>8, <1>9, <1>10, <1>11 DEF Next, Main, Handlers

LEMMA OnceStep ==
  ASSUME LostInv, Fresh, Once, [Next]_vars
  PROVE  Once'
<1> USE ProcManAssumption DEF LostInv, TypeInv, Core, TypeOK
<1>1. ASSUME pc' # "exited"
      PROVE  \A m, n \in Live' : process_table'[m].pid = process_table'[n].pid => m = n
  <2>1. ~Exited
    BY <1>1 DEF Exited, Next, Shell, StartWaitAll, Quit, Fork, CheckStatus, Terminate, Command, Main,
       AddProcess, WaitTarget, Record, WaitEntry, RecordWait, WaitPassEnds,
       CompactEntry, CompactEnds, QuitTest, QuitKill, Exit, Handlers,
       SigchldArrives, SigchldReap, SigchldRecord, SigchldReturn,
       SigintTest, SigintKill, SigintWait, SigintArrives, ChildExits, Recycle
  <2>2. \A m, n \in Live : process_table[m].pid = process_table[n].pid => m = n
    BY <2>1 DEF Once
  <2>3. CASE AddProcess
    <3>1. /\ process_table' = [process_table EXCEPT ![process_count + 1] = [pid |-> target, status |-> 0]]
          /\ process_count' = process_count + 1 /\ process_count + 1 \in Slots
          /\ pc = "forked" /\ pc' = "shell"
      BY <2>3 DEF AddProcess, NobodyLost, Slots
    <3>2. Live = 1..process_count /\ Live' = 1..(process_count + 1)
      BY <3>1 DEF Live
    <3>3. \A n \in Live : process_table'[n] = process_table[n] /\ process_table[n].pid # target
      BY <3>1, <3>2 DEF Fresh, Slots
    <3>4. process_table'[process_count + 1].pid = target
      BY <3>1
    <3>5. \A n \in Live' : n \in Live \/ n = process_count + 1
      BY <3>2
    <3>6. QED
      BY <2>2, <3>3, <3>4, <3>5
  <2>4. CASE CompactEntry
    <3>1. /\ pc = "compact" /\ pc' = "compact" /\ i \in 1..process_count /\ j \in 1..i
          /\ i' = i + 1 /\ process_count' = process_count
      BY <2>4 DEF CompactEntry, Counters
    <3>2. Live = 1..(j - 1) \cup i..process_count
      BY <3>1 DEF Live
    <3>3. Live' = 1..(j' - 1) \cup (i + 1)..process_count
      BY <3>1 DEF Live
    <3>4. CASE process_table' = process_table /\ j' = j
      <4>1. Live' \subseteq Live
        BY <3>1, <3>2, <3>3, <3>4
      <4>2. QED
        BY <2>2, <3>4, <4>1
    <3>5. CASE process_table' = [process_table EXCEPT ![j] = Entry(i)] /\ j' = j + 1
      <4>1. \A n \in Live' : n = j \/ (n \in Live /\ n # i /\ n # j)
        BY <3>1, <3>2, <3>3, <3>5
      <4>2. Live \subseteq Slots /\ i \in Live /\ j \in Slots
        BY <3>1, <3>2 DEF Slots
      <4>3. \A n \in Live : n # j => process_table'[n] = process_table[n]
        BY <3>5, <4>2
      <4>4. process_table'[j] = process_table[i]
        BY <3>5, <4>2 DEF Entry
      <4>5. \A n \in Live' : n # j => process_table'[n] = process_table[n]
        BY <4>1, <4>3
      <4>6. \A n \in Live' : n # j => process_table'[n].pid # process_table'[j].pid
        BY <2>2, <4>1, <4>2, <4>4, <4>5
      <4>7. \A m, n \in Live' : m # j /\ n # j => (process_table'[m].pid = process_table'[n].pid => m = n)
        BY <2>2, <4>1, <4>5
      <4>8. QED
        BY <4>6, <4>7
    <3>6. QED
      BY <2>4, <3>4, <3>5 DEF CompactEntry
  <2>5. CASE ~AddProcess /\ ~CompactEntry
    BY <1>1, <2>2, <2>5, LiveStep
  <2>6. QED
    BY <2>3, <2>4, <2>5
<1>2. ASSUME pc' = "compact" PROVE ~On("chld")'
  <2>1. CASE UNCHANGED stack
    <3>1. CASE InMain
      BY <2>1, <3>1, MainStands DEF On
    <3>2. CASE UNCHANGED pc
      BY <1>2, <2>1, <3>2 DEF Once, On
    <3>3. InMain \/ UNCHANGED pc
      BY <1>2 DEF Next, Shell, StartWaitAll, Quit, Fork, CheckStatus, Terminate, Command, Main,
       AddProcess, WaitTarget, Record, WaitEntry, RecordWait, WaitPassEnds,
       CompactEntry, CompactEnds, QuitTest, QuitKill, Exit, Handlers,
       SigchldArrives, SigchldReap, SigchldRecord, SigchldReturn,
       SigintTest, SigintKill, SigintWait, SigintArrives, ChildExits, Recycle
    <3>4. QED
      BY <3>1, <3>2, <3>3
  <2>2. CASE SigchldArrives \/ SigchldReturn \/ SigintArrives
    <3>1. UNCHANGED pc /\ ~SigchldArrives
      BY <1>2, <2>2 DEF SigchldArrives, SigchldReturn, SigintArrives, Masked
    <3>2. ~On("chld")
      BY <1>2, <3>1 DEF Once
    <3>3. stack \in {<<"main">>, <<"main", "int">>}
      BY <3>2, StackFacts DEF Stacks
    <3>4. SigintArrives
      BY <2>2, <3>1, <3>3, StackFacts DEF SigchldReturn, Stacks
    <3>5. stack = <<"main">>
      BY <3>3, <3>4, StackFacts DEF Stacks, SigintArrives
    <3>6. stack' = <<"main", "int">>
      BY <3>4, <3>5, Pushes DEF SigintArrives
    <3>7. QED
      BY <3>6 DEF On
  <2>3. UNCHANGED stack \/ SigchldArrives \/ SigchldReturn \/ SigintArrives
    BY DEF Next, Shell, StartWaitAll, Quit, Fork, CheckStatus, Terminate, Command, Main,
       AddProcess, WaitTarget, Record, WaitEntry, RecordWait, WaitPassEnds,
       CompactEntry, CompactEnds, QuitTest, QuitKill, Exit, Handlers,
       SigchldReap, SigchldRecord, SigintTest, SigintKill, SigintWait, ChildExits, Recycle
  <2>4. QED
    BY <2>1, <2>2, <2>3
<1>3. QED
  BY <1>1, <1>2 DEF Once, Exited

LEMMA MarksAll ==
  ASSUME TypeInv, Once, ~Exited, pc # "compact", NEW p, MarkTerminated(p)
  PROVE  \A n \in 1..process_count : process_table[n].pid = p => process_table'[n].status = 1
<1> SUFFICES ASSUME NEW n \in 1..process_count, process_table[n].pid = p
             PROVE  process_table'[n].status = 1
  OBVIOUS
<1>1. process_count \in 0..MAX_PROCESSES /\ n \in Slots
  BY ProcManAssumption DEF TypeInv, Core, TypeOK, Slots
<1>2. \A m \in 1..(n - 1) : process_table[m].pid # p
  BY <1>1 DEF Once, Live
<1>3. FirstEntry(n, p)
  BY <1>2 DEF FirstEntry, Entry
<1>4. process_table'[n] = [process_table[n] EXCEPT !.status = 1]
  BY <1>1, <1>3 DEF MarkTerminated, Entry
<1>5. process_table[n] \in [pid : Pids \cup {NoPid}, status : {-1, 0, 1}]
  BY <1>1 DEF TypeInv, Core, TypeOK
<1>6. QED
  BY <1>4, <1>5

\* The child create_process() is about to enter is there, or has been missed.
Known(p) == proc[p] \in Alive \/ p \in missed \/ ShuttingDown

Truthful == (pc = "forked" => Known(target)) /\ RunningUnlessMissed

LEMMA TruthStep ==
  ASSUME LostInv, Fresh, Once, Truthful, [Next]_vars, "free" \notin Recycling
  PROVE  Truthful'
<1> USE ProcManAssumption DEF LostInv, TypeInv, Core, TypeOK
<1> DEFINE Holds(n) == process_table[n].status = 0 =>
                         \/ process_table[n].pid \in missed
                         \/ proc[process_table[n].pid] \in {"running", "zombie"}
                         \/ BeingRecorded(process_table[n].pid)
           Good == \A n \in 1..process_count : Holds(n)
<1>1. \A n \in 1..process_count : process_table[n].pid \in Pids
  BY DEF TableOK
<1>2. ~ShuttingDown => Good
  BY DEF Truthful, RunningUnlessMissed, SaysTruth, Entry
<1>3. SUFFICES (pc' = "forked" => Known(target)') /\ (~ShuttingDown' => Good')
  BY DEF Truthful, RunningUnlessMissed, SaysTruth, Entry
<1>4. InMain => /\ got = NoPid /\ ~ShuttingDown
                /\ pc \notin {"record", "recordwait"} =>
                     \A n \in 1..process_count :
                       process_table[n].status = 0 =>
                         process_table[n].pid \in missed \/ proc[process_table[n].pid] \in {"running", "zombie"}
  <2>1. InMain => got = NoPid /\ ~ShuttingDown
    BY MainStands DEF ShuttingDown
  <2>2. QED
    BY <1>1, <1>2, <2>1 DEF BeingRecorded
<1>5. CASE Shell
  <2>1. InMain /\ pc = "shell" /\ UNCHANGED <<tableVars, missed>>
    BY <1>5 DEF Shell, StartWaitAll, Quit, Fork, CheckStatus, Terminate, Command
  <2>2. CASE StartWaitAll \/ Quit
    <3>1. UNCHANGED proc /\ pc' # "forked"
      BY <2>2 DEF StartWaitAll, Quit, Command
    <3>2. QED
      BY <1>4, <2>1, <3>1
  <2>3. ASSUME NEW p \in Pids, Fork(p)
        PROVE  (pc' = "forked" => Known(target)') /\ (~ShuttingDown' => Good')
    <3>1. proc' = [proc EXCEPT ![p] = "running"] /\ target' = p
      BY <2>3 DEF Fork
    <3>2. QED
      BY <1>1, <1>4, <2>1, <3>1 DEF Known
  <2>4. ASSUME NEW p \in Pids, CheckStatus(p)
        PROVE  (pc' = "forked" => Known(target)') /\ (~ShuttingDown' => Good')
    <3>1. proc' = [proc EXCEPT ![p] = "gone"] /\ target' = p /\ pc' = "record"
      BY <2>4 DEF CheckStatus, Reap, Command
    <3>2. \A n \in 1..process_count : process_table[n].pid = p => BeingRecorded(process_table[n].pid)'
      BY <2>1, <3>1 DEF BeingRecorded
    <3>3. QED
      BY <1>1, <1>4, <2>1, <3>1, <3>2 DEF BeingRecorded
  <2>5. ASSUME NEW p \in Pids, NEW force \in BOOLEAN, Terminate(p, force)
        PROVE  (pc' = "forked" => Known(target)') /\ (~ShuttingDown' => Good')
    <3>1. UNCHANGED proc /\ pc' = "waitpid"
      BY <2>5 DEF Terminate, Signal, Command
    <3>2. QED
      BY <1>4, <2>1, <3>1
  <2>6. QED
    BY <1>5, <2>2, <2>3, <2>4, <2>5 DEF Shell
<1>6. CASE Main
  <2>1. InMain /\ pc' # "forked" /\ pc # "shell" /\ UNCHANGED missed
    BY <1>6 DEF Main, AddProcess, WaitTarget, Record, WaitEntry, RecordWait, WaitPassEnds,
       CompactEntry, CompactEnds, QuitTest, QuitKill, Exit
  <2>2. CASE AddProcess
    <3>1. /\ process_table' = [process_table EXCEPT ![process_count + 1] = [pid |-> target, status |-> 0]]
          /\ process_count' = process_count + 1 /\ process_count + 1 \in Slots
          /\ pc = "forked" /\ proc' = proc
      BY <2>2 DEF AddProcess, NobodyLost, Slots
    <3>2. \A n \in 1..process_count : process_table'[n] = process_table[n]
      BY <3>1 DEF Slots
    <3>3. process_table'[process_count + 1].pid = target
      BY <3>1
    <3>4. \A n \in 1..process_count' : n \in 1..process_count \/ n = process_count + 1
      BY <3>1
    <3>5. proc[target] \in Alive \/ target \in missed
      BY <1>4, <2>1, <3>1 DEF Truthful, Known
    <3>6. Good'
      BY <1>4, <2>1, <3>1, <3>2, <3>3, <3>4, <3>5
    <3>7. QED
      BY <2>1, <3>6
  <2>3. CASE WaitTarget
    <3>1. /\ pc = "waitpid" /\ UNCHANGED <<tableVars, target>>
          /\ \/ UNCHANGED proc
             \/ pc' = "record" /\ proc' = [proc EXCEPT ![target] = "gone"]
      BY <2>3 DEF WaitTarget, Reap
    <3>2. CASE UNCHANGED proc
      BY <1>4, <2>1, <3>1, <3>2
    <3>3. CASE pc' = "record" /\ proc' = [proc EXCEPT ![target] = "gone"]
      <4>1. \A n \in 1..process_count : process_table[n].pid = target => BeingRecorded(process_table[n].pid)'
        BY <3>1, <3>3 DEF BeingRecorded
      <4>2. QED
        BY <1>1, <1>4, <2>1, <3>1, <3>3, <4>1
    <3>4. QED
      BY <3>1, <3>2, <3>3
  <2>4. CASE Record
    <3>1. /\ pc = "record" /\ MarkTerminated(target) /\ UNCHANGED proc
      BY <2>4 DEF Record
    <3>2. \A n \in 1..process_count : process_table[n].pid = target => process_table'[n].status = 1
      BY <3>1, MarksAll DEF Exited
    <3>3. /\ process_count' = process_count
          /\ \A n \in 1..process_count : /\ process_table'[n].pid = process_table[n].pid
                                         /\ process_table'[n].status = 0 => process_table[n].status = 0
      BY <3>1, MarkTypes DEF Entry, Slots
    <3>4. \A n \in 1..process_count : process_table[n].status = 0 /\ process_table[n].pid # target
                                       => \/ process_table[n].pid \in missed
                                          \/ proc[process_table[n].pid] \in {"running", "zombie"}
      BY <1>1, <1>2, <1>4, <2>1, <3>1 DEF BeingRecorded
    <3>5. QED
      BY <2>1, <3>1, <3>2, <3>3, <3>4
  <2>5. CASE WaitEntry
    <3>1. /\ pc = "waitall" /\ UNCHANGED tableVars
          /\ \/ UNCHANGED proc
             \/ /\ pc' = "recordwait" /\ i' = i
                /\ proc' = [proc EXCEPT ![process_table[i].pid] = "gone"]
      BY <2>5 DEF WaitEntry, Reap, Entry
    <3>2. CASE UNCHANGED proc
      BY <1>4, <2>1, <3>1, <3>2
    <3>3. CASE pc' = "recordwait" /\ i' = i /\ proc' = [proc EXCEPT ![process_table[i].pid] = "gone"]
      <4>1. \A n \in 1..process_count : process_table[n].pid = process_table[i].pid
                                         => BeingRecorded(process_table[n].pid)'
        BY <3>1, <3>3 DEF BeingRecorded, Entry
      <4>2. QED
        BY <1>1, <1>4, <2>1, <3>1, <3>3, <4>1
    <3>4. QED
      BY <3>1, <3>2, <3>3
  <2>6. CASE RecordWait
    <3>1. /\ pc = "recordwait" /\ UNCHANGED <<proc, process_count>> /\ i \in 1..process_count
          /\ process_table' = [process_table EXCEPT ![i].status = 1]
      BY <2>6 DEF RecordWait, Counters
    <3>2. \A n \in 1..process_count : n # i => process_table[n].pid # process_table[i].pid
      BY <3>1 DEF Once, Live, Exited
    <3>3. \A n \in 1..process_count : process_table[n].status = 0 /\ n # i
                                       => \/ process_table[n].pid \in missed
                                          \/ proc[process_table[n].pid] \in {"running", "zombie"}
      BY <1>1, <1>2, <1>4, <2>1, <3>1, <3>2 DEF BeingRecorded, Entry
    <3>4. \A n \in 1..process_count : IF n = i THEN process_table'[n].status = 1
                                               ELSE process_table'[n] = process_table[n]
      BY <3>1 DEF Slots
    <3>5. QED
      BY <2>1, <3>1, <3>3, <3>4
  <2>7. CASE CompactEntry
    <3>1. /\ i \in 1..process_count /\ j \in Slots /\ pc = "compact" /\ UNCHANGED <<process_count, proc>>
          /\ \A n \in Slots : process_table'[n] \in {process_table[n], process_table[i]}
      BY <2>7 DEF CompactEntry, Counters, Entry, Slots
    <3>2. 1..process_count \subseteq Slots
      BY DEF Slots
    <3>3. QED
      BY <1>4, <2>1, <3>1, <3>2
  <2>8. CASE CompactEnds
    <3>1. UNCHANGED <<proc, process_table>> /\ 1..process_count' \subseteq 1..process_count /\ pc = "compact"
      BY <2>8 DEF CompactEnds, Counters
    <3>2. QED
      BY <1>4, <2>1, <3>1
  <2>9. CASE WaitPassEnds \/ QuitTest \/ QuitKill \/ Exit
    <3>1. UNCHANGED <<proc, tableVars>> /\ pc \notin {"record", "recordwait"}
      BY <2>9 DEF WaitPassEnds, QuitTest, QuitKill, Exit, Signal
    <3>2. QED
      BY <1>4, <2>1, <3>1
  <2>10. QED
    BY <1>6, <2>2, <2>3, <2>4, <2>5, <2>6, <2>7, <2>8, <2>9 DEF Main
<1>7. CASE Handlers \/ SigintArrives
  <2>1. ShuttingDown => ShuttingDown'
    <3>1. On("int") => On("int")' /\ ~SigintArrives
      BY <1>7, StackStep DEF SigintArrives
    <3>2. QED
      BY <1>7, <3>1 DEF ShuttingDown, Handlers, SigchldArrives, SigchldReap, SigchldRecord,
         SigchldReturn, SigintTest, SigintKill, SigintWait
  <2>2. CASE SigchldArrives \/ SigchldReturn \/ SigintTest \/ SigintKill \/ SigintArrives
    <3>1. UNCHANGED <<proc, tableVars, pc, target, i, got, missed>>
      BY <2>2 DEF SigchldArrives, SigchldReturn, SigintTest, SigintKill, SigintArrives, Signal
    <3>2. QED
      BY <1>2, <2>1, <3>1 DEF Truthful, Known, BeingRecorded, Entry
  <2>3. CASE SigchldReap
    <3>1. PICK p \in Pids : proc[p] = "zombie" /\ proc' = [proc EXCEPT ![p] = "gone"] /\ got' = p
      BY <2>3 DEF SigchldReap, Reap
    <3>2. UNCHANGED <<tableVars, pc, target, i>> /\ got = NoPid /\ missed \subseteq missed'
      BY <2>3 DEF SigchldReap
    <3>3. \A q \in Pids : BeingRecorded(q) => BeingRecorded(q)'
      BY <3>2 DEF BeingRecorded, Entry
    <3>4. BeingRecorded(p)'
      BY <3>1 DEF BeingRecorded
    <3>5. Good \/ ShuttingDown'
      BY <1>2, <2>1
    <3>6. pc = "forked" /\ target = p => p \in missed'
      BY <2>3, <3>1 DEF SigchldReap
    <3>7. QED
      BY <1>1, <2>1, <3>1, <3>2, <3>3, <3>4, <3>5, <3>6 DEF Truthful, Known, TableOK
  <2>4. CASE SigchldRecord
    <3>1. MarkTerminated(got) /\ UNCHANGED <<proc, pc, target, i, missed>> /\ ~Exited /\ Top = "chld"
      BY <2>4 DEF SigchldRecord
    <3>2. pc # "compact"
      BY <3>1, StackFacts DEF Once, Stacks
    <3>3. \A n \in 1..process_count : process_table[n].pid = got => process_table'[n].status = 1
      BY <3>1, <3>2, MarksAll DEF Exited
    <3>4. /\ process_count' = process_count
          /\ \A n \in Slots : /\ process_table'[n].pid = process_table[n].pid
                              /\ process_table'[n].status = 0 => process_table[n].status = 0
      BY <3>1, MarkTypes DEF Entry
    <3>5. pc = "recordwait" => i \in Slots
      BY DEF Counters, Slots
    <3>6. \A q \in Pids : q # got /\ BeingRecorded(q) => BeingRecorded(q)'
      BY <3>1, <3>4, <3>5 DEF BeingRecorded, Entry
    <3>7. 1..process_count \subseteq Slots
      BY DEF Slots
    <3>8. Good \/ ShuttingDown'
      BY <1>2, <2>1
    <3>9. QED
      BY <1>1, <2>1, <3>1, <3>3, <3>4, <3>6, <3>7, <3>8 DEF Truthful, Known
  <2>5. CASE SigintWait
    <3>1. ShuttingDown'
      BY <2>1, <2>5, StackFacts DEF SigintWait, ShuttingDown, Stacks
    <3>2. QED
      BY <3>1 DEF Known
  <2>6. QED
    BY <1>7, <2>2, <2>3, <2>4, <2>5 DEF Handlers
<1>8. ASSUME NEW p \in Pids, ChildExits(p) \/ Recycle(p)
      PROVE  (pc' = "forked" => Known(target)') /\ (~ShuttingDown' => Good')
  <2>1. UNCHANGED <<tableVars, stack, pc, target, i, got, missed, k, kpc>>
    BY <1>8 DEF ChildExits, Recycle
  <2>2. \/ proc[p] = "running" /\ proc' = [proc EXCEPT ![p] = "zombie"]
        \/ proc[p] = "gone" /\ proc' = [proc EXCEPT ![p] = "other"]
    BY <1>8 DEF ChildExits, Recycle
  <2>3. \A q \in Pids : proc[q] \in {"running", "zombie"} => proc'[q] \in {"running", "zombie"}
    BY <2>2
  <2>4. \A q \in Pids : BeingRecorded(q)' = BeingRecorded(q)
    BY <2>1 DEF BeingRecorded, Entry
  <2>5. ShuttingDown' = ShuttingDown
    BY <2>1 DEF ShuttingDown, On
  <2>6. QED
    BY <1>1, <1>2, <2>1, <2>2, <2>3, <2>4, <2>5 DEF Truthful, Known, TableOK
<1>9. CASE UNCHANGED vars
  BY <1>2, <1>9 DEF Truthful, Known, ShuttingDown, On, BeingRecorded, Entry
<1>10. QED
  BY <1>5, <1>6, <1>7, <1>8, <1>9 DEF Next

\* Whatever the two handlers interrupt, and whoever reaps whom, an entry that
\* says running is a child that has not been reaped, or whose end is being
\* written down, save for a child that ended, and was reaped, between fork() and
\* add_process_to_table(): main() and the handlers write the same table, and
\* none of them undoes what another one wrote.
THEOREM TableTellsTheTruth ==
  ASSUME "free" \notin Recycling
  PROVE  Spec => []RunningUnlessMissed
<1> DEFINE Inv == LostInv /\ Fresh /\ Once /\ Truthful
<1>1. Init => Inv
  BY TypeInit DEF Init, LostInv, NobodyLost, BeingRecorded, Fresh, Once, Truthful,
                  RunningUnlessMissed, SaysTruth, Live
<1>2. Inv /\ [Next]_vars => Inv'
  BY LostStep, FreshStep, OnceStep, TruthStep
<1>3. Inv => RunningUnlessMissed
  BY DEF Truthful
<1>4. QED
  BY <1>1, <1>2, <1>3, PTL DEF Spec
=============================================================================
