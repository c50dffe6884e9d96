------------------------------- MODULE ChatServer -------------------------------
(***************************************************************************)
(* chat_server.c: the single-threaded select() loop, its linked list of    *)
(* clients and its statistics.  The program is cut at the system calls     *)
(* where it can wait or where another process can tell a difference; pc    *)
(* names the place.  Around it stand the most general clients that speak   *)
(* the protocol, the operator at the server's terminal, and SIGINT.        *)
(***************************************************************************)
EXTENDS ChatSockets

CONSTANTS MaxMsgs,   (* bound: messages a client sends after its MSG_JOIN  *)
          MaxCmds,   (* bound: lines the operator types                    *)
          Signals    (* whether the operator may press ctrl-C (SIGINT)     *)

ASSUME ServerAssumption ==
  /\ Fds \cap 0..3 = {}
  /\ MaxMsgs \in Nat /\ MaxCmds \in Nat
  /\ Signals \in BOOLEAN

VARIABLES pc,              (* where the server process is                  *)
          running,         (* the flag of the main loop                    *)
          client_list,     (* the linked list, newest client first         *)
          active_users,    (* stats.active_users                           *)
          total_messages,  (* stats.total_messages                         *)
          readfds,         (* what select() reported                       *)
          cur,             (* the fd handle_client_message() works on      *)
          out,             (* the send loop: message, fds to go, return    *)
          inbox,           (* history: all the server wrote to a client    *)
          console,         (* the line waiting on the server's stdin       *)
          ncmds            (* environment: lines typed so far              *)

loopVars   == <<running, readfds, cur>>
listVars   == <<client_list, active_users>>
envVars    == <<console, ncmds>>
serverVars == <<pc, loopVars, listVars, total_messages, out, inbox>>
vars       == <<sockVars, serverVars, envVars>>

NoLine == [cmd |-> "none", arg |-> Unknown]
Quiet  == [msg |-> Msg("NONE", Unknown, Unknown, <<>>), to |-> <<>>, ret |-> "scan"]

Stdin    == 0   \* STDIN_FILENO
ListenFd == 3   \* server_fd

Stopped == pc \in {"exited", "killed"}

Listed == {client_list[i].fd : i \in DOMAIN client_list}

\* Mutant: the loop over the list stops at c->next instead of c.
FdsButLast == [i \in 1..(Len(client_list) - 1) |-> client_list[i].fd]

FdsInOrder == [i \in DOMAIN client_list |-> client_list[i].fd]

\* find_client_by_fd, find_client_by_name: the first entry of the list.
FirstWithFd(i, fd) ==
  /\ i \in DOMAIN client_list /\ client_list[i].fd = fd
  /\ \A j \in 1..(i - 1) : client_list[j].fd # fd

FirstNamed(i, name) ==
  /\ i \in DOMAIN client_list /\ client_list[i].username = name
  /\ \A j \in 1..(i - 1) : client_list[j].username # name

NobodyNamed(name) == \A i \in DOMAIN client_list : client_list[i].username # name

\* Mutant: the entry goes and its socket stays open.
RemoveEntryLeaks(i) ==
  /\ client_list' = RemoveAt(client_list, i)
  /\ active_users' = active_users - 1
  /\ UNCHANGED sockVars

\* Unlink entry i, count it out, close its socket.
RemoveEntry(i) ==
  /\ client_list' = RemoveAt(client_list, i)
  /\ active_users' = IF active_users > 0 THEN active_users - 1 ELSE active_users
  /\ ServerClose(client_list[i].fd)

\* Start sending m to the fds in to, one blocking write after the other.
SendTo(m, to, ret) ==
  /\ out' = [msg |-> m, to |-> to, ret |-> ret]
  /\ pc' = "send"

ServerInit ==
  /\ SocketsInit
  /\ pc = "loop" /\ running = TRUE
  /\ client_list = <<>> /\ active_users = 0 /\ total_messages = 0
  /\ readfds = {} /\ cur = 0 /\ out = Quiet
  /\ inbox = [c \in Clients |-> <<>>]
  /\ console = NoLine /\ ncmds = 0

-----------------------------------------------------------------------------
(* The main loop of server_run().                                          *)

LoopTest ==
  /\ pc = "loop" /\ running
  /\ pc' = "select"
  /\ UNCHANGED <<sockVars, loopVars, listVars, total_messages, out, inbox, envVars>>

\* Mutants: server_fd is not watched; a bit is looked up one too far.
ReadyButListener == (IF console # NoLine THEN {Stdin} ELSE {})
                      \cup {fd \in Listed : Readable(fd)}

ReadyOffByOne == (IF console # NoLine THEN {Stdin} ELSE {})
                   \cup (IF backlog # <<>> THEN {ListenFd} ELSE {})
                   \cup {fd + 1 : fd \in {g \in Listed : Readable(g)}}

Ready == (IF console # NoLine THEN {Stdin} ELSE {})
           \cup (IF backlog # <<>> THEN {ListenFd} ELSE {})
           \cup {fd \in Listed : Readable(fd)}

Select ==
  /\ pc = "select" /\ Ready # {}
  /\ readfds' = Ready
  /\ pc' = "stdin"
  /\ UNCHANGED <<sockVars, running, cur, listVars, total_messages, out, inbox, envVars>>

NoInput ==
  /\ pc = "stdin" /\ Stdin \notin readfds
  /\ pc' = "accept"
  /\ UNCHANGED <<sockVars, loopVars, listVars, total_messages, out, inbox, envVars>>

\* fgets() and handle_server_command(): one line of the operator.
ReadLine(cmd) ==
  /\ pc = "stdin" /\ Stdin \in readfds /\ console.cmd = cmd

\* "/list", "/stats", an unknown command or plain text: only printing.
CommandPrints ==
  /\ ReadLine("list")
  /\ console' = NoLine
  /\ pc' = "accept"
  /\ UNCHANGED <<sockVars, loopVars, listVars, total_messages, out, inbox, ncmds>>

CommandKick ==
  /\ ReadLine("kick")
  /\ \/ \E i \in DOMAIN client_list :
          FirstNamed(i, console.arg) /\ RemoveEntry(i)
     \/ NobodyNamed(console.arg) /\ UNCHANGED <<sockVars, listVars>>
  /\ console' = NoLine
  /\ pc' = "accept"
  /\ UNCHANGED <<loopVars, total_messages, out, inbox, ncmds>>

\* Mutant: the operator has a thread of his own and no client_mutex, so his
\* broadcast_message() gets in between the writes of another one.
CommandBroadcastUnlocked ==
  /\ pc = "send" /\ console.cmd = "broadcast"
  /\ LET m == Msg("BROADCAST", "server", "ALL", <<"server", ncmds>>)
         members == {conn[fd] : fd \in Listed}
     IN  /\ \A c \in members : peer[c] = "open" /\ Len(toClient[c]) < Cap
         /\ toClient' = [c \in Clients |-> IF c \in members THEN Append(toClient[c], m)
                                                           ELSE toClient[c]]
         /\ inbox' = [c \in Clients |-> IF c \in members THEN Append(inbox[c], m)
                                                        ELSE inbox[c]]
  /\ console' = NoLine
  /\ UNCHANGED <<listening, backlog, conn, toServer, peer, nsent>>
  /\ UNCHANGED <<pc, out, loopVars, listVars, total_messages, ncmds>>

CommandBroadcast ==
  /\ ReadLine("broadcast")
  /\ SendTo(Msg("BROADCAST", "server", "ALL", <<"server", ncmds>>), FdsInOrder, "accept")
  /\ console' = NoLine
  /\ UNCHANGED <<sockVars, loopVars, listVars, total_messages, inbox, ncmds>>

CommandShutdown ==
  /\ ReadLine("shutdown")
  /\ running' = FALSE
  /\ console' = NoLine
  /\ pc' = "accept"
  /\ UNCHANGED <<sockVars, readfds, cur, listVars, total_messages, out, inbox, ncmds>>

\* End of file stays readable: fgets() returns NULL whenever it is asked.
ConsoleEof ==
  /\ ReadLine("eof")
  /\ running' = FALSE
  /\ pc' = "accept"
  /\ UNCHANGED <<sockVars, readfds, cur, listVars, total_messages, out, inbox, envVars>>

NoConnection ==
  /\ pc = "accept" /\ ListenFd \notin readfds
  /\ pc' = "scan"
  /\ UNCHANGED <<sockVars, loopVars, listVars, total_messages, out, inbox, envVars>>

\* accept() and add_client(): the new client goes to the front, unnamed.
AcceptClient ==
  /\ pc = "accept" /\ ListenFd \in readfds
  /\ \E fd \in Fds :
       /\ Accept(fd)
       /\ client_list' = Cons([fd |-> fd, username |-> Unknown], client_list)
  /\ active_users' = active_users + 1
  /\ pc' = "scan"
  /\ UNCHANGED <<loopVars, total_messages, out, inbox, envVars>>

\* add_client() without memory for the entry closes the new socket.
AcceptNoMemory ==
  /\ pc = "accept" /\ ListenFd \in readfds
  /\ \E fd \in Fds : LowestFree(fd)
  /\ AcceptAndClose
  /\ pc' = "scan"
  /\ UNCHANGED <<loopVars, listVars, total_messages, out, inbox, envVars>>

\* accept() fails (EMFILE) and the loop goes on.
AcceptFails ==
  /\ pc = "accept" /\ ListenFd \in readfds
  /\ \A fd \in Fds : conn[fd] # NoClient
  /\ pc' = "scan"
  /\ UNCHANGED <<sockVars, loopVars, listVars, total_messages, out, inbox, envVars>>

\* Mutant: the bits are walked instead of the list.
ScanFindsBit ==
  /\ pc = "scan"
  /\ cur' \in readfds \cap Fds
  /\ pc' = "recv"
  /\ UNCHANGED <<sockVars, running, readfds, listVars, total_messages, out, inbox, envVars>>

\* The list is searched from its head after every message handled, and
\* readfds is as select() left it: the bit of a handled fd stays set.
ScanFinds ==
  /\ pc = "scan"
  /\ \E i \in DOMAIN client_list :
       /\ client_list[i].fd \in readfds
       /\ \A j \in 1..(i - 1) : client_list[j].fd \notin readfds
       /\ cur' = client_list[i].fd
  /\ pc' = "recv"
  /\ UNCHANGED <<sockVars, running, readfds, listVars, total_messages, out, inbox, envVars>>

ScanDone ==
  /\ pc = "scan" /\ Listed \cap readfds = {}
  /\ pc' = "loop"
  /\ UNCHANGED <<sockVars, loopVars, listVars, total_messages, out, inbox, envVars>>

\* cleanup(): active_users keeps its value.
Cleanup ==
  /\ pc = "loop" /\ ~running
  /\ CloseAll
  /\ client_list' = <<>>
  /\ pc' = "exited"
  /\ UNCHANGED <<loopVars, active_users, total_messages, out, inbox, envVars>>
-----------------------------------------------------------------------------
(* handle_client_message(cur): recv_message_fd() waits for a message.      *)

Incoming(type) ==
  /\ pc = "recv" /\ toServer[conn[cur]] # <<>>
  /\ Head(toServer[conn[cur]]).type = type
  /\ total_messages' = total_messages + 1

Received == Head(toServer[conn[cur]])

\* Mutant: the name goes to the newest client instead of the one behind cur.
HandleJoinNewest ==
  /\ Incoming("JOIN") /\ ServerRead(cur)
  /\ client_list' = [client_list EXCEPT ![1].username = Received.from]
  /\ SendTo(Msg("BROADCAST", "system", Received.from, Received.body), <<cur>>, "scan")
  /\ UNCHANGED <<loopVars, active_users, inbox, envVars>>

HandleJoin ==
  /\ Incoming("JOIN") /\ ServerRead(cur)
  /\ client_list' = [i \in DOMAIN client_list |->
                        IF FirstWithFd(i, cur)
                          THEN [client_list[i] EXCEPT !.username = Received.from]
                          ELSE client_list[i]]
  /\ SendTo(Msg("BROADCAST", "system", Received.from, Received.body), <<cur>>, "scan")
  /\ UNCHANGED <<loopVars, active_users, inbox, envVars>>

HandleBroadcast ==
  /\ Incoming("BROADCAST") /\ ServerRead(cur)
  /\ SendTo(Received, FdsInOrder, "scan")
  /\ UNCHANGED <<loopVars, listVars, inbox, envVars>>

HandlePrivate ==
  /\ Incoming("PRIVATE") /\ ServerRead(cur)
  /\ \/ \E i \in DOMAIN client_list :
          /\ FirstNamed(i, Received.to)
          /\ SendTo(Received, <<client_list[i].fd>>, "scan")
     \/ NobodyNamed(Received.to) /\ SendTo(Received, <<>>, "scan")
  /\ UNCHANGED <<loopVars, listVars, inbox, envVars>>

HandleListUsers ==
  /\ Incoming("LIST_USERS") /\ ServerRead(cur)
  /\ LET users == [i \in DOMAIN client_list |-> client_list[i].username]
     IN  SendTo(Msg("USER_LIST", "server", "", users), <<cur>>, "scan")
  /\ UNCHANGED <<loopVars, listVars, inbox, envVars>>

HandleLeave ==
  /\ Incoming("LEAVE")
  /\ \E i \in DOMAIN client_list : FirstWithFd(i, cur) /\ RemoveEntry(i)
  /\ pc' = "scan"
  /\ UNCHANGED <<loopVars, out, inbox, envVars>>

\* Mutant: at end of file the handler just returns.
HandleDisconnectIgnored ==
  /\ pc = "recv" /\ toServer[conn[cur]] = <<>> /\ peer[conn[cur]] = "closed"
  /\ pc' = "scan"
  /\ UNCHANGED <<sockVars, loopVars, listVars, total_messages, out, inbox, envVars>>

\* End of file, a reset connection or a truncated message.
HandleDisconnect ==
  /\ pc = "recv" /\ toServer[conn[cur]] = <<>> /\ peer[conn[cur]] = "closed"
  /\ \E i \in DOMAIN client_list : FirstWithFd(i, cur) /\ RemoveEntry(i)
  /\ pc' = "scan"
  /\ UNCHANGED <<loopVars, total_messages, out, inbox, envVars>>
-----------------------------------------------------------------------------
(* send_message_fd() to each target in turn, list mutex held.              *)

Target == conn[Head(out.to)]

SendOne ==
  /\ pc = "send" /\ out.to # <<>>
  /\ ServerWrite(Head(out.to), out.msg)
  /\ inbox' = [inbox EXCEPT ![Target] = Append(@, out.msg)]
  /\ out' = [out EXCEPT !.to = Tail(@)]
  /\ UNCHANGED <<pc, loopVars, listVars, total_messages, envVars>>

\* write() to a socket whose peer is gone raises SIGPIPE, which the server
\* leaves at its default action: the process ends without cleanup().
SendKilled ==
  /\ pc = "send" /\ out.to # <<>>
  /\ peer[Target] = "closed"
  /\ CloseAll
  /\ client_list' = <<>> /\ out' = Quiet
  /\ pc' = "killed"
  /\ UNCHANGED <<loopVars, active_users, total_messages, inbox, envVars>>

SendDone ==
  /\ pc = "send" /\ out.to = <<>>
  /\ pc' = out.ret
  /\ out' = Quiet
  /\ UNCHANGED <<sockVars, loopVars, listVars, total_messages, inbox, envVars>>

\* sigint_handler().  Only select() gives up with EINTR, and only when the
\* signal finds the process inside it; read, write and accept are retried.
Sigint ==
  /\ Signals /\ ~Stopped
  /\ running' = FALSE
  /\ pc' \in IF pc = "select" THEN {"select", "loop"} ELSE {pc}
  /\ UNCHANGED <<sockVars, readfds, cur, listVars, total_messages, out, inbox, envVars>>

ServerNext ==
  \/ LoopTest \/ Select \/ NoInput
  \/ CommandPrints \/ CommandKick \/ CommandBroadcast \/ CommandShutdown \/ ConsoleEof
  \/ NoConnection \/ AcceptClient \/ AcceptNoMemory \/ AcceptFails
  \/ ScanFinds \/ ScanDone \/ Cleanup
  \/ HandleJoin \/ HandleBroadcast \/ HandlePrivate
  \/ HandleListUsers \/ HandleLeave \/ HandleDisconnect
  \/ SendOne \/ SendKilled \/ SendDone
-----------------------------------------------------------------------------
(* The environment: any client that joins first, and the operator.         *)

NextMessages(c) ==
  LET body == <<c, nsent[c]>>
  IN  IF nsent[c] = 0
        THEN {Msg("JOIN", NameOf[c], "", body)}
        ELSE {Msg(t, NameOf[c], "", body) : t \in {"LIST_USERS", "LEAVE"}}
               \cup {Msg("BROADCAST", NameOf[c], "ALL", body)}
               \cup {Msg("PRIVATE", NameOf[c], n, body) : n \in Names \cup {Unknown}}

EnvWrite(c) ==
  /\ nsent[c] <= MaxMsgs
  /\ \E m \in NextMessages(c) : ClientWrite(c, m)
  /\ UNCHANGED <<serverVars, envVars>>

EnvSocket(c) ==
  /\ Connect(c) \/ ConnectRefused(c) \/ ClientRead(c)
  /\ UNCHANGED <<serverVars, envVars>>

EnvClose(c) == ClientClose(c) /\ UNCHANGED <<serverVars, envVars>>

Lines == [cmd : {"list", "broadcast", "shutdown", "eof"}, arg : {Unknown}]
           \cup [cmd : {"kick"}, arg : Names \cup {Unknown}]

OperatorTypes ==
  /\ console = NoLine /\ ncmds < MaxCmds
  /\ console' \in Lines
  /\ ncmds' = ncmds + 1
  /\ UNCHANGED <<sockVars, serverVars>>

Env == OperatorTypes \/ \E c \in Clients : EnvWrite(c) \/ EnvSocket(c) \/ EnvClose(c)

Next == ServerNext \/ Sigint \/ Env

Spec == ServerInit /\ [][Next]_vars

\* The kernel schedules the server process; nothing makes clients move.
FairSpec == Spec /\ WF_vars(ServerNext)

\* Clients whose input ends, as in test_client.sh and test_stress.sh: each
\* of them closes its connection sooner or later.
FiniteClientsSpec == FairSpec /\ \A c \in Clients : WF_vars(EnvClose(c))

\* Clients that read what they are sent, and may stay for ever.
ReadingClientsSpec == FairSpec /\ \A c \in Clients : WF_vars(EnvSocket(c))
-----------------------------------------------------------------------------
Programs == {"loop", "select", "stdin", "accept", "scan", "recv", "send", "exited", "killed"}
FromClient == [type : {"JOIN", "LEAVE", "BROADCAST", "PRIVATE", "LIST_USERS"},
               from : Names, to : Names \cup {"", "ALL", Unknown}, body : Clients \X Nat]
FromServer == [type : {"NONE", "BROADCAST", "USER_LIST"},
               from : {"server", "system", Unknown},
               to   : Names \cup {"", "ALL", Unknown},
               body : (Clients \X Nat) \cup ({"server"} \X Nat) \cup Seq(Names \cup {Unknown})]
Messages   == FromClient \cup FromServer

SocketTypes ==
  /\ listening \in BOOLEAN
  /\ backlog \in Seq(Clients)
  /\ conn \in [Fds -> Clients \cup {NoClient}]
  /\ toServer \in [Clients -> Seq(FromClient)]
  /\ toClient \in [Clients -> Seq(Messages)]
  /\ peer \in [Clients -> {"new", "open", "closed"}]
  /\ nsent \in [Clients -> Nat]

LoopTypes ==
  /\ pc \in Programs /\ running \in BOOLEAN
  /\ readfds \subseteq {Stdin, ListenFd} \cup Fds
  /\ cur \in Fds \cup {0}

ListTypes ==
  /\ client_list \in Seq([fd : Fds, username : Names \cup {Unknown}])
  /\ active_users \in Nat /\ total_messages \in Nat

SendTypes ==
  /\ out \in [msg : Messages, to : Seq(Fds), ret : {"accept", "scan"}]
  /\ inbox \in [Clients -> Seq(Messages)]

EnvTypes ==
  /\ console \in Lines \cup {NoLine}
  /\ ncmds \in Nat

\* The shape of the state of chat_server.c and of the kernel around it.
TypeOK == SocketTypes /\ LoopTypes /\ ListTypes /\ SendTypes /\ EnvTypes

\* add_client, remove_client_fd and /kick keep three things in step: the
\* list holds exactly the descriptors that are open, each once, and the
\* active_users that /stats prints is its length.  Nothing is leaked and
\* nothing is closed twice.
ListMatchesSockets ==
  /\ \A i, j \in DOMAIN client_list : client_list[i].fd = client_list[j].fd => i = j
  /\ Listed = {fd \in Fds : conn[fd] # NoClient}
  /\ ~Stopped => active_users = Len(client_list)

\* A descriptor the server is about to read or write is on the list: after
\* a /kick, or a MSG_LEAVE, no handler goes on with the closed number, which
\* the next accept() may have handed to somebody else.
NoStaleFd ==
  /\ pc = "recv" => cur \in Listed
  /\ pc = "send" => ToSet(out.to) \subseteq Listed

IsPublic(m) == m.type = "BROADCAST" /\ m.from # "system"
IsDirect(m) == m.type = "PRIVATE"

IsChat(m) == m.type \in {"BROADCAST", "PRIVATE"}

\* What one client (or the operator) says, and the welcome that answers its
\* MSG_JOIN, reaches each client in the order it was said and at most once,
\* whatever duplicate names, kicks and re-used descriptors there are:
\* handle_client_message() takes a message out of the stream once, and
\* broadcast_message() meets each fd once.
InSenderOrder ==
  \A c \in Clients : \A i, j \in DOMAIN inbox[c] :
    LET m == inbox[c][i]
        n == inbox[c][j]
    IN  i < j /\ IsChat(m) /\ IsChat(n) /\ m.body[1] = n.body[1]
          => m.body[2] < n.body[2]

\* Any two clients see the broadcasts they both get in the same order, also
\* those of different senders: broadcast_message() ends before the loop
\* reads the next message.
TotalOrder ==
  \A c, d \in Clients :
    \A i, j \in DOMAIN inbox[c], k, l \in DOMAIN inbox[d] :
      /\ i < j /\ IsPublic(inbox[c][i]) /\ IsPublic(inbox[c][j])
      /\ inbox[c][i] = inbox[d][l] /\ inbox[c][j] = inbox[d][k]
      => l < k

\* The answer to c's MSG_JOIN: from then on the server knows c by its name.
IsWelcome(c, m) == m.type = "BROADCAST" /\ m.body = <<c, 0>>

\* TESTING.md:20 "Only alice sees ...", and what it comes to in the code: the
\* server writes a private message to one client at most, and that is somebody
\* it has welcomed under the name asked for, or somebody it has not welcomed
\* yet if the name asked for is "unknown" (add_client()); whatever names come,
\* leave and come again, and however often a descriptor changes hands.
PrivateToAddressee ==
  \A c \in Clients : \A i \in DOMAIN inbox[c] :
    LET m == inbox[c][i]
        welcomed == \E j \in 1..(i - 1) : IsWelcome(c, inbox[c][j])
    IN  IsDirect(m) => /\ m.to = IF welcomed THEN NameOf[c] ELSE Unknown
                       /\ \A d \in Clients \ {c} : m \notin ToSet(inbox[d])

\* TESTING.md:20 "... sees the private message from bob": a private message
\* written for a user whom the server has on its list under that name gets to
\* that user, unless one of the two leaves or the server ends.
PrivateArrives ==
  \A c, d \in Clients :
    LET written == \E m \in ToSet(toServer[c]) : IsDirect(m) /\ m.to = NameOf[d]
        arrived == \E m \in ToSet(inbox[d]) : IsDirect(m) /\ m.from = NameOf[c]
        known   == \E i \in DOMAIN client_list : client_list[i].username = NameOf[d]
    IN  known /\ written ~> arrived \/ "closed" \in {peer[c], peer[d]} \/ Stopped

\* A client waiting in connect()'s backlog is accepted.
AcceptedEventually == \A c \in Clients : InBacklog(c) ~> ~InBacklog(c)

\* TESTING.md "Disconnections": the server detects a closed socket, removes
\* the client from the list and closes its own end.
ClosedEventuallyRemoved == \A c \in Clients : peer[c] = "closed" ~> ~ServerHolds(c)

\* TESTING.md "Error Handling": on a socket error the connection is closed
\* and cleaned up; the server itself survives.
ServerSurvives == pc # "killed"

\* ARCHITECTURE.md:39 "/shutdown": the main loop stops and every socket is
\* closed, once the clients it waits for in read() and write() have gone; save
\* for a SIGINT between the test of running and select(), which then waits.
ShutdownHonoured == ~running ~> Stopped \/ (pc = "select" /\ Ready = {})

Promise == INSTANCE GroupChat WITH
             members <- {conn[fd] : fd \in Listed},
             current <- IF out.to = <<>> THEN Quiet.msg ELSE out.msg,
             pending <- {conn[fd] : fd \in ToSet(out.to)},
             inbox   <- inbox,
             None    <- Quiet.msg,
             Texts   <- Messages

\* The loop with its one write at a time implements the group chat.
ImplementsGroupChat == Promise!Spec
=============================================================================
