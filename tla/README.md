# Verification of JoksanSistemasOperativos2

TLA+ models, TLC runs and TLAPS proofs for the C programs of the repository:
a chat over UNIX sockets (`src/homework4`), a process manager
(`src/homework1`), a zombie reaping library with its demonstrations
(`src/homework2`) and a CPU scheduling simulator (`src/homework3`).
`Lab1.4Completo` holds documents only.

## Inventory

### Chat server (`homework4/chat_server.c`)

- State: the flag `running`, the linked list `client_list` (descriptor and
  user name, newest first), `stats` (active users, messages), the set `readfds`
  that `select()` filled, and in the kernel the listening socket with its
  backlog, one descriptor and two byte streams per client.
- Operations: accept; the handlers of JOIN, BROADCAST, PRIVATE, LIST_USERS and
  LEAVE; removal at end of file or error; the operator's `/list /stats /kick
  /broadcast /shutdown` and end of input; `sigint_handler`; `cleanup`.
- Hard behaviour: the process is single-threaded, but reads and writes block,
  descriptor numbers are used again as soon as they are closed, `readfds` is
  a snapshot that is used after the world has moved on, clients vanish at any
  point, SIGINT arrives at any point.
- Correct when: list, open descriptors and `active_users` agree; no handler
  works on a closed number; messages arrive once, in order, at the right users;
  waiting clients are accepted, ended ones removed; shutdown ends the program.

### Chat client (`homework4/chat_client.c`)

- State: `running_client`, the bits of `select()`, the stdio buffer of
  `stdin`, its socket. Operations: name, connect and JOIN, the lines of the
  user, messages of the server, end of input, SIGINT.
- Hard behaviour: stdio buffers what `select()` should see; the signal flag is
  tested before `select()`; both programs write without limit into finite
  buffers.
- Correct when: it never does what the server does not expect, notices the end
  of the server, sends what was typed, says goodbye.

Server and clients interact only through the sockets (`ipc_sockets.c`,
`message.c`). `ipc_mq.c` is called by nobody.

### ProcMan (`homework1/procman.c`)

- State: `process_table` (pid, status), `process_count`, and in the kernel the
  children, their ids and the pending signals. Operations: create, kill, wait,
  the compaction of the table, quit, `sigchld_handler`, `sigint_handler`, and
  `check_process_status`, which no command calls.
- Hard behaviour: the handlers interrupt the main program and each other
  between any two steps outside the masked regions; three places call
  `waitpid()` for the same children; ids are used again; SIGCHLDs merge.
- Correct when: an entry that says *running* has a child behind it, no child is
  lost, no zombie stays, the commands come back, SIGINT signals every child.

### Zombie programs (`homework2`)

- `zombie.c`: `g_stats` under the mutex `stats_mutex`, changed by the SIGCHLD
  handler and by `zombie_safe_fork()` and `zombie_get_stats()`, which it
  interrupts; `test_lib.c` uses it. `zombie_reaper.c`: three strategies (wait
  in the end, SIGCHLD handler, SIG_IGN). `process_daemon.c`: a loop that forks
  and sleeps, `daemon_running` cleared by SIGTERM. `zombie_creator.c` leaves
  zombies until Enter. `zombie_detector.c` reads `/proc` while others change it.
- Hard behaviour: the handler interrupts between any two steps, also between
  `lock` and `unlock`; SIGCHLDs merge; main program and handler compete for
  children; `sleep()` is cut short; `/proc` is not a snapshot.
- Correct when: counters and kernel agree, nobody waits for himself, a zombie
  is reaped, the programs end, the detector finds every zombie and invents none
  (which names with a blank in them defeat).

### CPU scheduling simulator (`homework3`)

- `algorithms.c`: FIFO, SJF, STCF, round robin, MLFQ; each turns a list of
  processes (arrival, burst) into completion and start times and a timeline.
  State: the clock, the remaining times, the timeline, and for MLFQ the queues
  with `in_queue`, levels and slices. `metrics.c` and `report.c` run all five,
  each on a copy, and print; `gui_*.c` draw.
- Hard behaviour: no concurrency, but three clocks in one (arrivals, quanta,
  boosts) that meet at boundaries; sentinels (`start_time` 0); arrays of fixed
  size; a flag that has to follow five queues.
- Correct when: every process gets exactly its burst, never before its arrival,
  one at a time; the CPU idles only when nobody is there; the rule of each
  algorithm picks the next one; every algorithm ends.

The hazards of all of them, each at its line, are in `PROJECT.json`.

## Modules

| module | models | role |
|---|---|---|
| `ChatSockets` | `ipc_sockets.c`, `message.c` and the kernel behind them | one operator per system call |
| `ChatServer` | `chat_server.c` | extends `ChatSockets` with the program and the most general clients |
| `GroupChat` | what the server promises | abstract specification |
| `ChatClient` | `chat_client.c` | extends `ChatSockets` with the program and its user |
| `ChatSystem` | both programs | their composition |
| `ProcMan` | `procman.c` | the program, its two handlers and the kernel's process table |
| `ZombiePrograms` | `zombie.c`, `test_lib.c`, `zombie_reaper.c`, `process_daemon.c`, `zombie_creator.c`, `zombie_detector.c` | six programs, their handlers, the kernel's process table, the detector |
| `OneCpu` | what a scheduler may do | abstract specification |
| `CpuScheduler` | `algorithms.c`, `scheduler.c`, the driver in `report.c`, `metrics.c` | the five algorithms |
| `MC...` | | instances for TLC |
| `DataLemmas`, `ChatServerProofs`, `ChatSystemProofs`, `ProcManProofs`, `ZombieProofs`, `SchedulerProofs`, `TimelineProofs`, `OptimalProofs` | | theorems and proofs |

A definition whose comment begins with *Mutant* is a deliberately wrong
variant of the definition after it; it is used by no specification, and shows
that the property it breaks can be broken.

### How the server is modelled

`pc` names the place in `server_run()`: `loop` (the `while`), `select`,
`stdin` (the operator), `accept`, `scan` (the loop over the list), `recv`
(inside `read_all`), `send` (inside `write_all`). Whatever happens between two
such places is one action. A handler removes the message, changes the list and
sets up `out`: the message, the descriptors still to be written, and where to
go on. `SendOne` is one `write()`, which blocks while the buffer (`Cap`
messages) is full. `readfds` stays as `select()` left it until the next
`select()`, and the scan starts at the head after each message, as in
chat_server.c:290-304. A descriptor is the lowest free number, so numbers are
used again at once. `nsent` and `inbox` are history variables: no action of the
program reads them.

A client whose JOIN has not been read is on the list with the name "unknown"
(add_client, chat_server.c:47), the constant `Unknown`. Any word can be the
addressee of `/msg` (chat_client.c:114-123), this one too, so clients and users
write to `Unknown` as well as to names that somebody or nobody has.

A write to a client that has gone raises SIGPIPE, which no program of the
chat catches, so the failing return of `write_all` (message.c:15-18) and the fact
that chat_server.c:103 ignores it never come into play: the process is dead.

A `message_t` travels as a whole: `read_all` and `write_all` loop over parts of
it, which matters only if one side ends in the middle; the other side then
drops the connection as it does at an end of file.

SIGINT sets `running`. Only when it finds the process inside `select()` does
the process notice at once; otherwise `read()` and `write()` are retried
(message.c:16, 31). It can also hit the gap between the test of `running` and
`select()`, which is why `Sigint` may leave `pc` at `select`.

### How the client is modelled

`typed` are the lines in the kernel, `buffered` those in the buffer of stdio.
`fgets()` takes from the buffer, else refills it with one `read()`, which
returns one line of a terminal or everything in a pipe (`Piped`). `ClientSelect`
sees only the kernel. SIGINT kills until line 40 installs the handler, then
clears the flag; in the gap between the test of the flag (line 55) and `select()`
(line 62) it goes unnoticed until `select()` returns for another reason, as in
the server. SIGKILL comes from `test_disconnect.sh`.

### How ProcMan is modelled

`stack` holds `main` and the handlers that interrupted it; only the top runs.
`proc` is the kernel's view of each id: free, running, zombie, gone (reaped),
or somebody else's. The actions of `main` are the stretches between two points
where an interruption makes a difference; the regions with SIGCHLD blocked are
single actions, except the compaction, which is taken entry by entry because
SIGINT is not blocked there. `got`, `target` and `i` remember the child that
has been reaped and is about to be recorded. `check_process_status()` is
enabled by `ChecksStatus` only where more behaviour is the harder case: in the
passing runs. A child may end at any time, also before it has an entry; the history
variable `missed` holds those that `sigchld_handler` reaped before that.
`Recycling` says to whom the kernel may give the id of a reaped child: to a
stranger (`"other"`) or to a new child (`"free"`; `waitpid()` with an id that
is nobody's yet, or no longer, fails with ECHILD and the code goes on).
`Obedient` says that SIGTERM ends every child.

### How the zombie programs are modelled

`prog` is chosen in `Init`, for the six programs have the same skeleton: fork
children, then get rid of them in one of several ways. `pc` is the place of the
main program, `handler` that of the SIGCHLD handler; while the handler is not
`off` the main program stands still (`InMain`). Every step between two places
where an interruption makes a difference is one action: `fork()` (`Fork`,
`ForkFails`), `pthread_mutex_lock()` (`Lock`), the counting up to the unlock
(`CountChild`), one turn of the handler's loop (`HandlerReaps`, and for the
library `HandlerLocks`, `HandlerCounts`). `woken` says that a handler has run
during `sleep()`, which is not restarted. The pids are the entries of `/proc`;
those of the daemon, which forks for ever, are used again. `OpenProc`,
`ReadEntry`, `AnalyseParent` are the detector, one entry at a time. `Comm` says
what the name of a process is to the `fscanf()` of zombie_detector.c:46: a `word`,
one with a `blank`, for which it does not find four values and skips the entry,
or one that `mimics` the values it looks for, like `(a Z 1 b)`. `seen` and
`steady` are history variables: who was a zombie at any, and at every, moment
since the scan began.

### How the scheduler is modelled

`alg` is the algorithm that runs, `pc` its place; `i`, `j` are the loop
variables of the source. One action is one iteration of a loop with a state
that matters: `FifoSwap` one comparison of the exchange sort, `SjfRun` and
`StcfRun` one choice with its burst or its unit, `RrVisit` one process of a pass,
`MlfqArrive`, `MlfqBoost` one process of these two loops, `MlfqRun` and
`MlfqIdle` the rest of the MLFQ loop. When an algorithm is done, `NextAlgorithm` restarts the workload for the
next one, as `report.c` does with its copies. A queue is what lies between
`head` and `tail` of the array, and `tail` how far the array is used.
`MlfqRun` does the two updates of `in_queue` in the same turn at once; the tests
at algorithms.c:273 and 295 are never false there. The workload is chosen in
`Init`, from all arrivals and bursts of the constants and all orders of pids.
`MaxTime` bounds the idle ticks only: it lies behind the last arrival, where only
a process with burst 0 lets a loop tick, for ever.

## Runs

Passing runs:

| run | shows | bounds |
|---|---|---|
| `chat_server` | type correctness, `ListMatchesSockets`, `NoStaleFd`, `InSenderOrder`, `TotalOrder`, `PrivateToAddressee`, implementation of `GroupChat` | 2 clients with a name each, 2 descriptors, 2 messages per buffer, JOIN and one more message each, to either name or to "unknown", 1 operator line, symmetry of clients with their names |
| `chat_clients_end` | `AcceptedEventually`, `ClosedEventuallyRemoved`, `ShutdownHonoured` | 2 clients, 1 descriptor, so `accept()` fails too; every client ends; SIGINT |
| `chat_system` | the real client stays within the environment of `ChatServer`; `ClientsNoticeServer`, `PipedLinesHandled` | 1 client with up to two lines after its name in a pipe, `/msg unknown`, `/help` and `/quit` among them; SIGINT and SIGKILL to the client; 2 operator lines and 1 message per buffer, so that the two programs can block each other |
| `procman` | `TypeOK`, `RunningUnlessMissed`, `NoChildLost`, `EntriesSignalled` | 3 ids, table of 2, 5 commands, SIGINT, ids given to strangers, symmetry of ids |
| `procman_live` | `ZombiesReaped`, `WaitReturns`, `KillReturns`, `GracefulShutdown` | 2 ids, table of 2, 4 commands, SIGINT |
| `zombie_programs` | `TypeOK`, `CountsFollowKernel`, `ExplicitLeavesNone`, `DetectorSound`, `ZombiesReaped`, `ProgramsEnd` | all six programs, 3 ids, one with a blank in its name and one that mimics a zombie, 3 children, failing forks, an array of 1 for the detector |
| `cpu_scheduler` | implementation of `OneCpu`, the rule of each algorithm, the timeline, the boosts and the arrays, `ShortestFirstIsOptimal`, `ReportWritten` | 3 processes, arrivals 0, 1, 4, bursts 0, 1, 3, 6, quantum 2, 3 queues, boost every 4, a timeline of 21 |

Runs that TLC ends with a counterexample; each contradicts a sentence of the
documents or comments, quoted in `PROJECT.json` (`findings`):

| run | what happens |
|---|---|
| `chat_private` | two users who stay cannot exchange a private message |
| `chat_test_script` | the session of `test_client.sh` can end the server by SIGPIPE |
| `chat_write_write` | two `/broadcast`s of the operator while a user types: server and client both wait in `write()` |
| `procman_fork_race` | a child reaped before it is entered is *running* for ever |
| `zombie_deadlock` | SIGCHLD between `lock` and `unlock`: `zombie.c` waits for its own mutex |

`chat_private` has its cause in the scan: the bit of a handled descriptor is not
cleared, so after a message the server goes back into `read()` for the same
client. In effect it serves one client until that one leaves, which also
narrows what the passing runs can meet: two users are never on the list under
their names, and a private message gets to another client only if it is one to
"unknown". The properties are stated so that unnamed clients, the operator
and re-used descriptors still exercise them, and the mutants show that each can
fail. Under `FairSpec` alone `ClosedEventuallyRemoved` fails for the same
reason; the run `chat_clients_end` shows what saves it.

Properties that had to be stated with an exception say where the code falls
short of its documents:

- `PrivateToAddressee` says what "only alice sees the private message" comes to:
  a message to "unknown" gets to some client that has not joined yet.
- `ShutdownHonoured` needs clients that end: after `/shutdown`, SIGINT or the
  end of its input the server may sit in `read()` until one of them does.
- `PipedLinesHandled` needs the input to be at its end: a line in the buffer of
  stdio is not sent before `select()` reports something else. And it excepts the
  client that `write()` or `connect()` holds for ever: in the run that is the
  case of `chat_write_write`, with more clients also the one of a server that
  sits in `read()` for somebody else. The client leaves without MSG_LEAVE at end
  of input and after SIGINT (PROTOCOL.md:40).
- `RunningUnlessMissed` excepts the children of `procman_fork_race`, and needs ids
  that are not used for new children: a second child with the id of an old entry
  is *running* for ever (`"free"` in `Recycling`). Between `waitpid()` and the
  update of the table SIGINT can signal an id that is somebody else's by then.
- `EntriesSignalled` and `GracefulShutdown` speak of children that have an entry.
  When SIGINT comes between `fork()` and the entry, the new child is not among
  "all running children" of procman.c:264 that get SIGTERM, and is waited for
  until it ends by itself. And the runs have children that die of SIGTERM
  (`Obedient`): one that ignores it is waited for as long as it likes.
- `ZombiesReaped` of `ZombiePrograms` leaves out `ignore`: SIG_IGN comes after
  the forks, and children that ended before stay zombies; the library in the
  moment it has blocked itself (`zombie_deadlock`); and the creator until Enter.
  `ProgramsEnd` speaks of the reaper's strategies and of the daemon after
  SIGTERM: the creator waits for Enter, and the library may block itself.
- `CountsFollowKernel` allows an `active` that is one too large: a child that
  ends and is reaped between `fork()` and the lock of zombie.c:61 finds
  `zombies_active` at 0, where it stays, and is counted afterwards. DEMO.md:76
  ("Active : 0") does not hold then. Nor do DEMO.md:74-75 ("Created: 3",
  "Reaped : 3") if the children of `test_lib` do not end together: the SIGCHLD of
  the first ends the `sleep()`, and the statistics are printed while others run.
- `DetectorSound` excepts zombies with a blank in their names: `%s` of
  zombie_detector.c:46 stops at it, the next word is no number, and the entry is
  skipped, though zombie_detector.c:10-13 promises the number of zombies found.
  And it allows for processes whose names look like a zombie's entry.
- `LateStartIsFirstSlice` speaks of processes whose first slice is after time 0
  only. At time 0 the mark is the value for "not started": who starts then and is
  chosen again later (STCF chooses every unit) is marked again, and
  scheduler.h:15 ("First time scheduled") does not hold.
- `ReportWritten` needs bursts above 0: SJF, round robin and MLFQ never
  complete a burst of 0, which `load_workload()` accepts, and do not end; STCF
  leaves its completion time 0, so that its turnaround is negative.
- `BoostedUnlessBusy` excepts the boosts that DESIGN.md:33 ("every
  `boost_interval` units") promises and a slice that goes over their time
  prevents. With the quanta 2, 4, 8 and the interval 20 of report.c, three
  processes of 20 units that arrive together miss the first one: the slice from
  18 to 26 is in the way.
- `SmallWorkloadsFit` needs bursts of nine units on the average. Nothing tests the
  capacities, and larger workloads exceed them: with the quanta and the interval
  of report.c a single process of more than 86 units is put into the lowest
  queue, an array of ten entries (algorithms.c:254), for the eleventh time.
- `DemotedByQuanta` says that nobody is demoted without having used his quanta,
  and not that who uses them is (ALGORITHMS.md:36): that is what `MlfqRun` does.
- `RoundRobinFair` counts visits in the order of the array, not of the arrivals
  (ALGORITHMS.md:27). The utilisation of report.c:40 is always 100 %, idle time
  included.

### Bounds

Two clients are enough for one to be served while the other waits, and for two
receivers to disagree. One and two descriptors make `accept()` fail and numbers
come back. A buffer of one or two messages lets writes block after a handful of
steps; with one message a client cannot have said something before its JOIN is
read, so the run about order and addressees uses two. With a name each, and
"unknown" besides, a private message can go to the wrong one; equal names, which
make the search by name choose, are left to the theorems, which hold for any
`NameOf`. One operator line is a kick or a broadcast in the midst of the clients'
own. In `chat_system` two operator lines and buffers of one message suffice for
the `write()`s of both programs to block each other; with less the exception in
`PipedLinesHandled` would never be needed. Its sessions are short, as the theorem
`ClientsBehave` holds for all. Operator lines are bounded by `MaxCmds`, messages by
`MaxMsgs`; end of input stays readable and needs no bound. For ProcMan a table of
two entries is full after two `create` and leaves one id over.

Three children make signals merge while a third is being handled, three entries
of `/proc` let one appear and one vanish behind the detector's back; of the three
names one is plain, one has a blank and one mimics a zombie, and two that look like
zombies overflow an array of one. Three processes are the fewest with a queue
behind a preempted one; an arrival at 4 leaves the CPU idle after a short burst,
falls on a boost, and inside a quantum; three that arrive at 1 are all below the
top when the boost of time 4 is due, and slices of two and three units go over
one; a burst of 6 goes down through all levels. `Arrivals` and `Bursts` are small
because what an algorithm does depends on sums and orders of them, which these
values already give in every combination; the theorems of `SchedulerProofs`,
`TimelineProofs` and `OptimalProofs` have no such bound. The largest workload of the
run has bursts of 18 units in all: with a timeline of 21 entries it lies within
what `SmallWorkloadsFit` allows, and so does every other.

Deadlock is not checked: a server that waits in `select()` or has exited, a
shell at its prompt when the bound of commands is used up, a program at its end
and a written report rightly stop.

### Fairness

`FairSpec` of `ChatServer` says that the server process goes on whenever its
next system call can return: the kernel schedules it. Nothing makes a client or
the operator act. `FiniteClientsSpec` adds that every client closes sooner or
later, as the clients of the test scripts do at the end of their input; under
that assumption even this loop gets to everyone. `ReadingClientsSpec` adds that
clients read what they are sent. `FairSystem` has fairness of every process and
none of the users. In ProcMan the main program and the handlers go on, and a
child with a deadly signal dies; `FiniteChildrenSpec` adds that every child ends
by itself, like the `sleep` of the test scripts, until SIGINT comes: from then
on only a signal ends a child. In `ZombiePrograms` main program and handler go
on and every child ends (they all sleep for a fixed time); Enter, SIGTERM and
the detector may never come. The scheduler is one sequential program.

## Proofs

Every theorem holds for every value of the constants that the module's named
assumption allows: any number of clients, descriptors, ids, processes, any
sizes and bounds.

**`ChatServerProofs`** (`SocketsAssumption`, `ServerAssumption`):
`TypeCorrect`, `ListMirrorsSockets` (`ListMatchesSockets`), `DescriptorsAreLive`
(`NoStaleFd`). They rest on one inductive invariant, `ServerInv`. `NoStaleFd` is
not inductive by itself: that a handler's descriptor is on the list when it
starts follows from the scan, that it stays there follows from the fact that
nothing but the handler runs until it returns. `ListMatchesSockets` needs that
the numbers on the list are distinct (so that removing the first match removes
the only one), that `active_users` is the length of the list and not only
positive, and that a new number is free in the kernel and so, by the invariant
itself, not on the list.

In the same module, `GroupChatImplemented` (`ImplementsGroupChat`), if no user
is named "system": the abstract chat knows a welcome by that author.
`PromiseInv` adds to `ServerInv` that a client has one connection at most
(`Connections`), so that taking a descriptor off the send loop takes one client
off the audience, and that nothing is on its way outside the send loop
(`Sending`). Then one lemma for each kind of step says which step of `GroupChat`
it is: an accept enters, a kick, leave or end of file exits, taking up a message
publishes it, one `write()` delivers, `cleanup()` and SIGPIPE stop; a message for
nobody, and everything else, stutters.

Also there: `SendersInOrder` (`InSenderOrder`), `OneOrder`
(`TotalOrder`), `OnlyTheAddressee` (`PrivateToAddressee`), if no client process
is the constant "server", the author the operator's lines have in the model.
`History` is inductive with these parts: a stream holds its client's messages in
ascending order (`Streams`); what is written has a lower number than what its
author may still send (`AllSettled`); who still waits for the message on its way
has seen only earlier ones of its author (`Fresh`), and who has got a broadcast
on its way got none since (`NoneSince`); the name on the list is "unknown" until the
welcome of the client behind the descriptor is on its way (`Greets`), and that
client's own from then on (`NamesOnList`); who has not been accepted has got nothing
(`Unserved`); and a private message on its way has one target, who is known by the
name it asks for, and nobody has got it (`OneTarget`).

**`ChatSystemProofs`** (`ClientAssumption`, `SystemAssumption` besides):
`ClientsBehave` (`ImplementsServerSpec`): the real clients are among those
`ChatServer` expects. `SystemAssumption` says what a typed line may be and that
no input is longer than a name and `MaxMsgs` lines, which makes the bounds of the
two modules agree and says nothing about the program. `ClientInv` has the reasons why a
client stays in turn: whenever it may take up a line its MSG_JOIN is out, and
what it holds in `write()` is something a client that has sent that much may say
(`SpeaksInTurn`); and no line is lost or doubled on its way from the user through
the kernel and the buffer of stdio to the socket (`WithinBound`). Reading, closing
and connecting are steps of `ChatServer`'s environment; everything else a client
does is a stutter. `ServerRightWithClients` carries the server's theorems over to
the two programs together.

**`ProcManProofs`** (`ProcManAssumption`): `TypeCorrect`; `NoChildIsLost`
(`NoChildLost`: running or zombie); `NoEntryMissed` (`EntriesSignalled`), if SIGTERM
ends every child (`Obedient`) and no id of a reaped child goes to a new one
(`"free" \notin Recycling`); `TableTellsTheTruth` (`RunningUnlessMissed`), under
the second condition: the only entries that are wrong for ever are those of
`missed`. `TypeInv` adds to `TypeOK` the possible stacks of handlers and where
each loop counter may be. `LostInv` has
the invariant of the compaction: the entries that count are those before the
write index and those from the read index on (`Live`), because the array holds
some twice meanwhile. `Fresh` and `Signalled` are the loop invariant of
`sigint_handler()`: an entry has an id that has been given away, and whatever
entry the loop has passed is signalled, not running or reaped, in spite of the
compaction it may have interrupted. `Truthful` needs besides that a pid has one
entry (`Once`).

**`ZombieProofs`** (`ZombieAssumption`): `TypeCorrect`, which says who holds the
mutex; `CountersFollowKernel`; `ExplicitStrategyWorks`; `DetectorIsSound`. The
counters' invariant is inductive once it is known which program may be at which
place (`Places`); that `active` is never two too large follows from the numbers
alone: the handler finds it at 0 only when as many have been reaped as counted, and
nobody is reaped who was not forked (`DeadWereBorn`). The detector needs a witness: there is a set of pids the scan
has counted (`Tallied`), all before the place of the scan, all of them zombies
at some moment, with every steady zombie it has passed in it; what is in the
array lies inside. Of the steady zombies only those whose names parse (`Due`) have
to be in it, and besides zombies it may hold those whose names look like one
(`Countable`).

**`SchedulerProofs`** (`SchedulerAssumption`): `TypeCorrect`,
`AlgorithmsImplementOneCpu` (the refinement: `RunMaps` and `IdleMaps` show that
a step of an algorithm is a step of the abstract CPU, `Stutters` that all others
change nothing it sees, `Restart` that the next algorithm starts it anew),
`QueuesAgree` (`MlfqQueuesRight`), `FifoOrdered` (`FifoInArrivalOrder`). `Inv` has
a part for each algorithm: for FIFO that the array is a permutation, its part
before the loop variable sorted and not later than the rest; for all loops that
count that `completed` is not more than the finished ones; for round robin that
a pass in which nobody has run has found nobody ready; for MLFQ that the queues
are disjoint, without repetition, and hold exactly those whose `in_queue` is
set, and that nobody who is ready is missing when one is selected.

**`TimelineProofs`** (`SchedulerAssumption`): `ScheduleDrawn`
(`TimelineIsTheSchedule`), `StartTimesRight` (`LateStartIsFirstSlice`),
`TurnsAreTaken` (`RoundRobinFair`), `DemotionEarned` (`DemotedByQuanta`),
`ArraysLongEnough` (`SmallWorkloadsFit`). To these properties a step of any algorithm
is one of four: somebody gets a slice (`GetsSlice`), the last slice grows
(`LastGrows`), the CPU is left alone (`LeavesCpu`), the next algorithm starts
(`StartsAnew`); each part of `TimelineInv` is shown to survive the four. What the
properties need besides themselves: for the timeline, that the slice STCF extends
is the last one and ends now (`StcfLast`), so that `last_pid` is never that of a
process with idle time behind it; for the start times, that who has no slice
still has `start_time` 0; for round robin, that whoever the pass has come to
since the last visit to q has had a slice, has not arrived or is finished
(`TurnTaken`), a relation between the loop variable and the timeline; for the
demotions, that a level is left downwards only with a full quantum; for the
arrays, an account (`Counted`): each entry of queue 0 is paid for by an arrival
or a slice, and each one a boost moves there by the demotion that brought the
process below, so that repeated boosts cost nothing that was not executed before
(`ArraysBounded`); and nobody executes more than his burst (`ExecutedAtMost`).

**`OptimalProofs`** (`SchedulerAssumption`): `NobodyBeatsStcf`
(`ShortestFirstIsOptimal`). The first half speaks of no variable. A history says
how much everybody still needs at each time; of two histories of one workload, one
that always runs who needs least is at no time behind the other: whoever is left
aside in the other, as many can be left aside in it so that the rest of those who
have arrived needs no more (`Leads`). `LeadsStep` shows this for a step of each: if
the process that runs is left aside although another one is not finished, the two
change places, and it needs no more than the other one did. `LeadsMore` adds those
who arrive. So the shortest history never has more unfinished (`LeadsFewer`), and
the number of those, summed over time, is the sum of the turnaround times
(`ElapsedStep`). The second half shows that each algorithm has a history
(`Recorded`, an invariant), that its metrics are those of that history (`Measured`),
and that the history of STCF, and of SJF when all arrive together, always runs who
needs least.

**`DataLemmas`** has what several of these proofs need: what `RemoveAt`, `Cons`
and `Tail` return, least and greatest elements, and sums over finite sets. The
sums are folds of the community modules, defined by a recursive CHOOSE; the
lemmas show that such a function exists and is unique by looking at a smallest
subset for which it fails, and from that how a sum changes with one of its terms.

Model-checked only:

- `BoostedUnlessBusy`: it would need the invariants of the queues with a relation
  between the level of a process and the end of its last slice;
- all liveness (`AcceptedEventually`, `ClosedEventuallyRemoved`,
  `ShutdownHonoured`, `ClientsNoticeServer`, `PipedLinesHandled`,
  `ZombiesReaped`, `WaitReturns`, `KillReturns`, `GracefulShutdown`,
  `ProgramsEnd`, `ReportWritten`): ENABLED and fairness are out of the prover's reach.

## Not modelled

- `ipc_mq.c` (called by nobody), `utils.c` (log lines), `gui_*.c` (display), the
  process tree of ProcMan (reads `/proc` and prints), `Lab1.4Completo`.
- Of modelled parts: printing and the cutting of names and texts to their
  buffers; parts of a `message_t`; the limit of `select()` at 1024 descriptors;
  lines typed ahead into a pipe on the server's stdin; `kill` with a pid of zero
  or less; `daemonize()`, which runs once before anything else; the lines the
  daemon's workers write; workloads that are empty, have a pid twice, or have negative arrivals or bursts
  (all of which the `%d`s of `load_workload()` accept);
  priorities, which no algorithm reads; averages, throughput and fairness index.

What would come next: the loops of `read_all` and `write_all` over parts of a
message, shown to implement the message streams of `ChatSockets`; daemonize() and
the ids it depends on.
