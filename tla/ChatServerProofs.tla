---------------------------- MODULE ChatServerProofs ----------------------------
(***************************************************************************)
(* ChatServer for any number of clients, descriptors, messages and         *)
(* commands: the types, the list that mirrors the open descriptors, the    *)
(* absence of stale descriptors, the abstract group chat that the loop     *)
(* implements, and what each client is told in which order.                *)
(***************************************************************************)
EXTENDS ChatServer, DataLemmas

\* None of the three parts is inductive alone: the type of what recv()
\* returns needs cur to be an open descriptor, and that needs the list to
\* mirror the descriptors.
ServerInv == TypeOK /\ ListMatchesSockets /\ NoStaleFd

USE DEF sockVars, loopVars, listVars, envVars, serverVars, vars

Users == Names \cup {Unknown}
Entries == [fd : Fds, username : Names \cup {Unknown}]

LEMMA QuietType == Quiet \in [msg : Messages, to : Seq(Fds), ret : {"accept", "scan"}]
<1>1. <<>> \in Seq(Fds) /\ <<>> \in Seq(Names \cup {Unknown})
  OBVIOUS
<1>2. Msg("NONE", Unknown, Unknown, <<>>) \in Messages
  BY <1>1 DEF Msg, Messages, FromServer
<1>3. QED
  BY <1>1, <1>2 DEF Quiet

LEMMA InitEstablishes == ServerInit => ServerInv
<1> SUFFICES ASSUME ServerInit PROVE ServerInv
  OBVIOUS
<1>1. SocketTypes
  BY DEF ServerInit, SocketsInit, SocketTypes
<1>2. LoopTypes /\ ListTypes /\ EnvTypes
  BY DEF ServerInit, LoopTypes, ListTypes, EnvTypes, Programs
<1>3. SendTypes
  BY QuietType DEF ServerInit, SendTypes
<1>4. ListMatchesSockets
  BY SocketsAssumption DEF ServerInit, SocketsInit, ListMatchesSockets, Listed
<1>5. NoStaleFd
  BY DEF ServerInit, SocketsInit, NoStaleFd
<1>6. QED
  BY <1>1, <1>2, <1>3, <1>4, <1>5 DEF ServerInv, TypeOK

LEMMA EntryFds ==
  ASSUME ListTypes
  PROVE  /\ \A i \in DOMAIN client_list : client_list[i].fd \in Fds
         /\ Listed \subseteq Fds
<1>1. \A i \in DOMAIN client_list : client_list[i] \in Entries
  BY LenProperties, ElementOfSeq DEF ListTypes, Entries
<1>2. QED
  BY <1>1 DEF Entries, Listed

\* An entry of the list stands for a descriptor with a client behind it.
LEMMA ListedIsOpen ==
  ASSUME TypeOK, ListMatchesSockets, NEW fd \in Listed
  PROVE  fd \in Fds /\ conn[fd] \in Clients
BY DEF TypeOK, SocketTypes, ListTypes, ListMatchesSockets, Listed

LEMMA RemoveTypes ==
  ASSUME TypeOK, NEW i \in DOMAIN client_list, RemoveEntry(i)
  PROVE  /\ client_list' \in Seq(Entries) /\ active_users' \in Nat
         /\ SocketTypes'
<1>1. client_list' \in Seq(Entries)
  BY RemoveAtElements DEF TypeOK, ListTypes, Entries, RemoveEntry
<1>2. active_users' \in Nat
  BY DEF TypeOK, ListTypes, RemoveEntry
<1>3. SocketTypes'
  <2> DEFINE c == conn[client_list[i].fd]
  <2>1. toServer' = [toServer EXCEPT ![c] = <<>>]
    BY DEF RemoveEntry, ServerClose
  <2>2. conn' \in [Fds -> Clients \cup {NoClient}]
    BY DEF TypeOK, SocketTypes, RemoveEntry, ServerClose
  <2> HIDE DEF c
  <2>3. <<>> \in Seq(FromClient) /\ toServer \in [Clients -> Seq(FromClient)]
    BY DEF TypeOK, SocketTypes
  <2>4. toServer' \in [Clients -> Seq(FromClient)]
    BY <2>1, <2>3
  <2>5. QED
    BY <2>2, <2>4 DEF TypeOK, SocketTypes, RemoveEntry, ServerClose
<1>4. QED
  BY <1>1, <1>2, <1>3

LEMMA CloseAllTypes == ASSUME TypeOK, CloseAll PROVE SocketTypes'
<1>1. conn' \in [Fds -> Clients \cup {NoClient}]
  BY DEF CloseAll
<1>2. toServer' \in [Clients -> Seq(FromClient)]
  BY EmptySeq DEF CloseAll
<1>3. backlog' \in Seq(Clients)
  BY EmptySeq DEF CloseAll
<1>4. QED
  BY <1>1, <1>2, <1>3 DEF CloseAll, TypeOK, SocketTypes

\* The steps of the main loop that leave the sockets and the list alone.
LEMMA LoopStepTypes ==
  ASSUME TypeOK,
         \/ LoopTest \/ Select \/ NoInput \/ CommandPrints \/ CommandShutdown
         \/ ConsoleEof \/ NoConnection \/ AcceptFails \/ ScanFinds \/ ScanDone
         \/ Sigint
  PROVE  TypeOK'
<1> USE DEF TypeOK
<1>1. SocketTypes'
  BY DEF LoopTest, Select, NoInput, CommandPrints, CommandShutdown, ConsoleEof,
     NoConnection, AcceptFails, ScanFinds, ScanDone, Sigint, SocketTypes
<1>2. ListTypes' /\ SendTypes'
  BY DEF LoopTest, Select, NoInput, CommandPrints, CommandShutdown, ConsoleEof,
     NoConnection, AcceptFails, ScanFinds, ScanDone, Sigint, ListTypes, SendTypes
<1>3. EnvTypes'
  BY DEF LoopTest, Select, NoInput, CommandPrints, CommandShutdown, ConsoleEof,
     NoConnection, AcceptFails, ScanFinds, ScanDone, Sigint, EnvTypes
<1>4. LoopTypes'
  <2> USE DEF LoopTypes, Programs
  <2>1. CASE Select
    <3>1. Ready \subseteq {Stdin, ListenFd} \cup Fds
      BY EntryFds DEF Ready
    <3>2. readfds' \subseteq {Stdin, ListenFd} \cup Fds
      BY <2>1, <3>1 DEF Select
    <3>3. QED
      BY <2>1, <3>2 DEF Select
  <2>2. CASE ScanFinds
    <3>1. cur' \in Fds
      BY <2>2, EntryFds DEF ScanFinds
    <3>2. QED
      BY <2>2, <3>1 DEF ScanFinds
  <2>3. CASE LoopTest \/ NoInput \/ NoConnection \/ AcceptFails \/ ScanDone
    BY <2>3 DEF LoopTest, NoInput, NoConnection, AcceptFails, ScanDone
  <2>4. CASE CommandPrints \/ CommandShutdown \/ ConsoleEof
    BY <2>4 DEF CommandPrints, CommandShutdown, ConsoleEof, ReadLine
  <2>5. CASE Sigint
    BY <2>5 DEF Sigint
  <2>6. QED
    BY <2>1, <2>2, <2>3, <2>4, <2>5
<1>5. QED
  BY <1>1, <1>2, <1>3, <1>4

LEMMA OrderTypes == ASSUME ListTypes PROVE FdsInOrder \in Seq(Fds)
<1>1. DOMAIN client_list = 1..Len(client_list) /\ Len(client_list) \in Nat
  BY LenProperties DEF ListTypes
<1>2. FdsInOrder \in [1..Len(client_list) -> Fds]
  BY <1>1, EntryFds DEF FdsInOrder
<1>3. QED
  BY <1>1, <1>2

LEMMA SendToTypes ==
  ASSUME NEW m \in Messages, NEW to \in Seq(Fds), NEW ret \in {"accept", "scan"},
         SendTypes, inbox' = inbox, SendTo(m, to, ret)
  PROVE  SendTypes' /\ pc' = "send"
BY DEF SendTo, SendTypes

\* What handle_client_message() receives was written by a client.
LEMMA ReceivedType ==
  ASSUME ServerInv, pc = "recv", toServer[conn[cur]] # <<>>
  PROVE  /\ cur \in Listed /\ cur \in Fds /\ conn[cur] \in Clients
         /\ Received \in FromClient
         /\ Tail(toServer[conn[cur]]) \in Seq(FromClient)
<1>1. cur \in Listed /\ cur \in Fds /\ conn[cur] \in Clients
  BY ListedIsOpen DEF ServerInv, NoStaleFd
<1>2. toServer[conn[cur]] \in Seq(FromClient)
  BY <1>1 DEF ServerInv, TypeOK, SocketTypes
<1>3. QED
  BY <1>1, <1>2, HeadTailProperties DEF Received

LEMMA ServerReadTypes ==
  ASSUME ServerInv, pc = "recv", ServerRead(cur)
  PROVE  SocketTypes'
<1>1. /\ conn[cur] \in Clients
      /\ Tail(toServer[conn[cur]]) \in Seq(FromClient)
  BY ReceivedType DEF ServerRead
<1>2. toServer' \in [Clients -> Seq(FromClient)]
  BY <1>1 DEF ServerInv, TypeOK, SocketTypes, ServerRead
<1>3. QED
  BY <1>2 DEF ServerInv, TypeOK, SocketTypes, ServerRead

LEMMA MessagesOfServer ==
  /\ \A to \in Names, body \in Clients \X Nat :
       Msg("BROADCAST", "system", to, body) \in Messages
  /\ \A n \in Nat : Msg("BROADCAST", "server", "ALL", <<"server", n>>) \in Messages
  /\ \A users \in Seq(Users) : Msg("USER_LIST", "server", "", users) \in Messages
BY DEF Msg, Messages, FromServer, Users

\* The handlers of a message that leave the list's shape alone.
LEMMA HandlerStepTypes ==
  ASSUME ServerInv,
         HandleJoin \/ HandleBroadcast \/ HandlePrivate \/ HandleListUsers
  PROVE  TypeOK'
<1> USE DEF TypeOK
<1>1. SocketTypes /\ LoopTypes /\ ListTypes /\ SendTypes /\ EnvTypes
  BY DEF ServerInv
<1>2. /\ pc = "recv" /\ toServer[conn[cur]] # <<>> /\ ServerRead(cur)
      /\ total_messages' = total_messages + 1
  BY DEF HandleJoin, HandleBroadcast, HandlePrivate, HandleListUsers, Incoming
<1>3. /\ UNCHANGED <<running, readfds, cur, active_users, inbox, console, ncmds>>
  BY DEF HandleJoin, HandleBroadcast, HandlePrivate, HandleListUsers
<1>4. /\ cur \in Fds /\ Received \in FromClient /\ Received \in Messages
  BY <1>2, ReceivedType DEF Messages
<1>5. <<cur>> \in Seq(Fds) /\ <<>> \in Seq(Fds)
  BY <1>4
<1>6. DOMAIN client_list = 1..Len(client_list) /\ Len(client_list) \in Nat
      /\ \A i \in DOMAIN client_list : client_list[i] \in Entries
  BY <1>1, LenProperties, ElementOfSeq DEF ListTypes, Entries
<1>7. client_list' \in Seq(Entries)
  <2>1. CASE HandleJoin
    <3>1. Received.from \in Users
      BY <1>4 DEF FromClient, Users
    <3>2. client_list' \in [1..Len(client_list) -> Entries]
      BY <1>6, <2>1, <3>1 DEF HandleJoin, Entries, Users
    <3>3. QED
      BY <1>6, <3>2
  <2>2. CASE ~HandleJoin
    BY <1>1, <2>2 DEF HandleBroadcast, HandlePrivate, HandleListUsers, ListTypes, Entries
  <2>3. QED
    BY <2>1, <2>2
<1>8. SendTypes' /\ pc' = "send"
  <2>1. CASE HandleJoin
    <3>1. Msg("BROADCAST", "system", Received.from, Received.body) \in Messages
      BY <1>4, MessagesOfServer DEF FromClient
    <3>2. QED
      BY <1>1, <1>3, <1>5, <2>1, <3>1, SendToTypes DEF HandleJoin
  <2>2. CASE HandleBroadcast
    BY <1>1, <1>3, <1>4, <2>2, SendToTypes, OrderTypes DEF HandleBroadcast
  <2>3. CASE HandlePrivate
    <3>1. PICK to \in Seq(Fds) : SendTo(Received, to, "scan")
      <4>1. CASE SendTo(Received, <<>>, "scan")
        BY <1>5, <4>1
      <4>2. CASE \E i \in DOMAIN client_list : SendTo(Received, <<client_list[i].fd>>, "scan")
        <5>1. PICK i \in DOMAIN client_list : SendTo(Received, <<client_list[i].fd>>, "scan")
          BY <4>2
        <5>2. <<client_list[i].fd>> \in Seq(Fds)
          BY <1>1, EntryFds
        <5>3. QED
          BY <5>1, <5>2
      <4>3. QED
        BY <2>3, <4>1, <4>2 DEF HandlePrivate
    <3>2. QED
      BY <1>1, <1>3, <1>4, <3>1, SendToTypes
  <2>4. CASE HandleListUsers
    <3> DEFINE users == [i \in DOMAIN client_list |-> client_list[i].username]
    <3>1. users \in [1..Len(client_list) -> Users]
      BY <1>6 DEF Entries, Users
    <3>2. users \in Seq(Users)
      BY <1>6, <3>1
    <3>3. SendTo(Msg("USER_LIST", "server", "", users), <<cur>>, "scan")
      BY <2>4 DEF HandleListUsers
    <3> HIDE DEF users
    <3>4. QED
      BY <1>1, <1>3, <1>5, <3>2, <3>3, SendToTypes, MessagesOfServer
  <2>5. QED
    BY <2>1, <2>2, <2>3, <2>4
<1>9. SocketTypes'
  BY <1>2, ServerReadTypes
<1>10. LoopTypes' /\ EnvTypes'
  BY <1>1, <1>3, <1>8 DEF LoopTypes, EnvTypes, Programs
<1>11. ListTypes'
  BY <1>1, <1>2, <1>3, <1>7 DEF ListTypes, Entries
<1>12. QED
  BY <1>8, <1>9, <1>10, <1>11

LEMMA AcceptTypes ==
  ASSUME TypeOK, AcceptClient \/ AcceptNoMemory
  PROVE  TypeOK'
<1> USE DEF TypeOK
<1>1. backlog # <<>>
  BY DEF AcceptClient, AcceptNoMemory, Accept, AcceptAndClose
<1>2. Head(backlog) \in Clients /\ Tail(backlog) \in Seq(Clients)
  BY <1>1, HeadTailProperties DEF SocketTypes
<1>3. SocketTypes'
  <2>1. CASE AcceptClient
    <3>1. conn' \in [Fds -> Clients \cup {NoClient}]
      BY <1>2, <2>1 DEF AcceptClient, Accept, SocketTypes
    <3>2. QED
      BY <1>2, <2>1, <3>1 DEF AcceptClient, Accept, SocketTypes
  <2>2. CASE AcceptNoMemory
    <3>1. toServer' \in [Clients -> Seq(FromClient)]
      BY <1>2, <2>2, EmptySeq DEF AcceptNoMemory, AcceptAndClose, SocketTypes
    <3>2. QED
      BY <1>2, <2>2, <3>1 DEF AcceptNoMemory, AcceptAndClose, SocketTypes
  <2>3. QED
    BY <2>1, <2>2
<1>4. ListTypes'
  <2>1. CASE AcceptClient
    <3>1. PICK fd \in Fds : client_list' = Cons([fd |-> fd, username |-> Unknown], client_list)
      BY <2>1 DEF AcceptClient
    <3>2. [fd |-> fd, username |-> Unknown] \in Entries
      BY DEF Entries
    <3>3. client_list' \in Seq(Entries)
      BY <3>1, <3>2, ConsElements DEF ListTypes, Entries
    <3>4. QED
      BY <2>1, <3>3 DEF AcceptClient, ListTypes, Entries
  <2>2. CASE AcceptNoMemory
    BY <2>2 DEF AcceptNoMemory, ListTypes
  <2>3. QED
    BY <2>1, <2>2
<1>5. LoopTypes' /\ SendTypes' /\ EnvTypes'
  BY DEF AcceptClient, AcceptNoMemory, LoopTypes, SendTypes, EnvTypes, Programs
<1>6. QED
  BY <1>3, <1>4, <1>5

\* The steps that take an entry, or the whole list, away.
LEMMA RemovalStepTypes ==
  ASSUME TypeOK,
         CommandKick \/ HandleLeave \/ HandleDisconnect \/ Cleanup \/ SendKilled
  PROVE  TypeOK'
<1> USE DEF TypeOK
<1>1. /\ client_list' \in Seq(Entries) /\ active_users' \in Nat
      /\ SocketTypes'
  <2>1. CASE \E i \in DOMAIN client_list : RemoveEntry(i)
    BY <2>1, RemoveTypes
  <2>2. CASE UNCHANGED <<sockVars, client_list, active_users>>
    BY <2>2 DEF SocketTypes, ListTypes, Entries
  <2>3. CASE CloseAll /\ client_list' = <<>> /\ active_users' = active_users
    BY <2>3, CloseAllTypes, EmptySeq DEF ListTypes
  <2>4. QED
    BY <2>1, <2>2, <2>3 DEF CommandKick, HandleLeave, HandleDisconnect, Cleanup, SendKilled
<1>2. total_messages' \in Nat
  BY DEF CommandKick, HandleLeave, HandleDisconnect, Cleanup, SendKilled, Incoming, ListTypes
<1>3. SendTypes'
  BY QuietType DEF CommandKick, HandleLeave, HandleDisconnect, Cleanup, SendKilled, SendTypes
<1>4. LoopTypes' /\ EnvTypes'
  BY DEF CommandKick, HandleLeave, HandleDisconnect, Cleanup, SendKilled,
     ReadLine, LoopTypes, EnvTypes, Programs
<1>5. QED
  BY <1>1, <1>2, <1>3, <1>4 DEF ListTypes, Entries

LEMMA SendStepTypes ==
  ASSUME TypeOK, CommandBroadcast \/ SendOne \/ SendDone
  PROVE  TypeOK'
<1> USE DEF TypeOK
<1>1. CASE CommandBroadcast
  <2>1. Msg("BROADCAST", "server", "ALL", <<"server", ncmds>>) \in Messages
    BY MessagesOfServer DEF EnvTypes
  <2>2. SendTypes' /\ pc' = "send"
    BY <1>1, <2>1, OrderTypes, SendToTypes DEF CommandBroadcast
  <2>3. SocketTypes' /\ ListTypes'
    BY <1>1 DEF CommandBroadcast, SocketTypes, ListTypes
  <2>4. QED
    BY <1>1, <2>2, <2>3 DEF CommandBroadcast, LoopTypes, EnvTypes, Programs
<1>2. CASE SendOne
  <2>1. Tail(out.to) \in Seq(Fds) /\ out.msg \in Messages
    BY <1>2, HeadTailProperties DEF SendOne, SendTypes
  <2>2. out' \in [msg : Messages, to : Seq(Fds), ret : {"accept", "scan"}]
    BY <1>2, <2>1 DEF SendOne, SendTypes
  <2>3. \A c \in Clients : Append(inbox[c], out.msg) \in Seq(Messages)
    BY <2>1 DEF SendTypes
  <2>4. inbox' \in [Clients -> Seq(Messages)]
    BY <1>2, <2>3 DEF SendOne, SendTypes
  <2>5. \A c \in Clients : Append(toClient[c], out.msg) \in Seq(Messages)
    BY <2>1 DEF SocketTypes
  <2>6. SocketTypes'
    BY <1>2, <2>5 DEF SendOne, ServerWrite, SocketTypes
  <2>7. QED
    BY <1>2, <2>2, <2>4, <2>6 DEF SendOne, SendTypes, LoopTypes, ListTypes, EnvTypes
<1>3. CASE SendDone
  <2>1. SendTypes' /\ pc' \in Programs
    BY <1>3, QuietType DEF SendDone, SendTypes, Programs
  <2>2. QED
    BY <1>3, <2>1 DEF SendDone, SocketTypes, LoopTypes, ListTypes, EnvTypes
<1>4. QED
  BY <1>1, <1>2, <1>3

LEMMA EnvStepTypes == ASSUME TypeOK, Env PROVE TypeOK'
<1> USE DEF TypeOK
<1>1. CASE OperatorTypes
  BY <1>1 DEF OperatorTypes, SocketTypes, LoopTypes, ListTypes, SendTypes, EnvTypes
<1>2. ASSUME NEW c \in Clients, EnvWrite(c) PROVE TypeOK'
  <2>1. PICK m \in NextMessages(c) : ClientWrite(c, m)
    BY <1>2 DEF EnvWrite
  <2>2. m \in FromClient
    <3> DEFINE body == <<c, nsent[c]>>
               join == Msg("JOIN", NameOf[c], "", body)
               list == {Msg(t, NameOf[c], "", body) : t \in {"LIST_USERS", "LEAVE"}}
               public == Msg("BROADCAST", NameOf[c], "ALL", body)
               private == {Msg("PRIVATE", NameOf[c], n, body) : n \in Names \cup {Unknown}}
    <3>1. NameOf[c] \in Names /\ body \in Clients \X Nat
      BY SocketsAssumption DEF SocketTypes
    <3>2. m \in {join} \cup list \cup {public} \cup private
      <4> HIDE DEF body
      <4>1. NextMessages(c) = IF nsent[c] = 0 THEN {join} ELSE list \cup {public} \cup private
        BY DEF NextMessages, body
      <4> HIDE DEF join, list, public, private
      <4>2. QED
        BY <2>1, <4>1
    <3> HIDE DEF body
    <3>3. \A t \in {"JOIN", "LEAVE", "BROADCAST", "PRIVATE", "LIST_USERS"},
             to \in Names \cup {"", "ALL", Unknown} : Msg(t, NameOf[c], to, body) \in FromClient
      BY <3>1 DEF Msg, FromClient
    <3>4. join \in FromClient /\ public \in FromClient
      BY <3>3
    <3>5. list \subseteq FromClient /\ private \subseteq FromClient
      BY <3>3
    <3> HIDE DEF join, list, public, private
    <3>6. QED
      BY <3>2, <3>4, <3>5
  <2>3. Append(toServer[c], m) \in Seq(FromClient)
    BY <2>2 DEF SocketTypes
  <2>4. SocketTypes'
    BY <2>1, <2>3 DEF ClientWrite, SocketTypes
  <2>5. QED
    BY <1>2, <2>4 DEF EnvWrite, LoopTypes, ListTypes, SendTypes, EnvTypes
<1>3. ASSUME NEW c \in Clients, EnvSocket(c) \/ EnvClose(c) PROVE TypeOK'
  <2>1. CASE Connect(c) \/ ConnectRefused(c)
    <3>1. Append(backlog, c) \in Seq(Clients)
      BY DEF SocketTypes
    <3>2. SocketTypes'
      BY <2>1, <3>1 DEF Connect, ConnectRefused, SocketTypes
    <3>3. QED
      BY <1>3, <3>2 DEF EnvSocket, EnvClose, LoopTypes, ListTypes, SendTypes, EnvTypes
  <2>2. CASE ClientRead(c)
    <3>1. Tail(toClient[c]) \in Seq(Messages)
      BY <2>2, HeadTailProperties DEF ClientRead, SocketTypes
    <3>2. SocketTypes'
      BY <2>2, <3>1 DEF ClientRead, SocketTypes
    <3>3. QED
      BY <1>3, <3>2 DEF EnvSocket, EnvClose, LoopTypes, ListTypes, SendTypes, EnvTypes
  <2>3. CASE ClientClose(c)
    <3>1. SocketTypes'
      BY <2>3, EmptySeq DEF ClientClose, SocketTypes
    <3>2. QED
      BY <1>3, <3>1 DEF EnvSocket, EnvClose, LoopTypes, ListTypes, SendTypes, EnvTypes
  <2>4. QED
    BY <1>3, <2>1, <2>2, <2>3 DEF EnvSocket, EnvClose
<1>4. QED
  BY <1>1, <1>2, <1>3 DEF Env

LEMMA TypeStep == ASSUME ServerInv, [Next]_vars PROVE TypeOK'
<1>1. TypeOK
  BY DEF ServerInv
<1>2. CASE ServerNext
  BY <1>1, <1>2, LoopStepTypes, HandlerStepTypes, AcceptTypes, RemovalStepTypes,
     SendStepTypes DEF ServerNext
<1>3. CASE Sigint
  BY <1>1, <1>3, LoopStepTypes
<1>4. CASE Env
  BY <1>1, <1>4, EnvStepTypes
<1>5. CASE UNCHANGED vars
  BY <1>1, <1>5 DEF TypeOK, SocketTypes, LoopTypes, ListTypes, SendTypes, EnvTypes
<1>6. QED
  BY <1>2, <1>3, <1>4, <1>5 DEF Next
-----------------------------------------------------------------------------
(* The list mirrors the descriptors.                                       *)

LEMMA RemoveKeepsMirror ==
  ASSUME TypeOK, ListMatchesSockets, ~Stopped, NEW i \in DOMAIN client_list, RemoveEntry(i)
  PROVE  ListMatchesSockets'
<1> DEFINE n == Len(client_list)
           gone == client_list[i].fd
<1>1. /\ DOMAIN client_list = 1..n /\ n \in Nat
      /\ client_list \in Seq(Entries)
  BY LenProperties DEF TypeOK, ListTypes, Entries
<1>2. /\ client_list' \in Seq(Entries)
      /\ Len(client_list') = n - 1
      /\ \A k \in 1..(n - 1) :
           client_list'[k] = IF k < i THEN client_list[k] ELSE client_list[k + 1]
  BY <1>1, RemoveAtElements DEF RemoveEntry
<1>3. DOMAIN client_list' = 1..(n - 1)
  BY <1>2, LenProperties
<1>4. \A j, k \in DOMAIN client_list : client_list[j].fd = client_list[k].fd => j = k
  BY DEF ListMatchesSockets
<1>5. conn' = [conn EXCEPT ![gone] = NoClient]
  BY DEF RemoveEntry, ServerClose
<1>6. active_users' = n - 1
  BY <1>1 DEF ListMatchesSockets, RemoveEntry
<1>7. \A k \in 1..(n - 1) : \E j \in 1..n \ {i} :
        client_list'[k] = client_list[j] /\ j = IF k < i THEN k ELSE k + 1
  BY <1>1, <1>2
<1>8. \A j \in 1..n \ {i} : \E k \in 1..(n - 1) : client_list'[k] = client_list[j]
  <2> SUFFICES ASSUME NEW j \in 1..n \ {i}
               PROVE  \E k \in 1..(n - 1) : client_list'[k] = client_list[j]
    OBVIOUS
  <2>1. CASE j < i
    BY <1>1, <1>2, <2>1
  <2>2. CASE j > i
    <3>1. j - 1 \in 1..(n - 1) /\ ~(j - 1 < i) /\ (j - 1) + 1 = j
      BY <1>1, <2>2
    <3>2. client_list'[j - 1] = client_list[j]
      BY <1>2, <3>1
    <3>3. QED
      BY <3>1, <3>2
  <2>3. QED
    BY <1>1, <2>1, <2>2
<1>9. \A j, k \in DOMAIN client_list' : client_list'[j].fd = client_list'[k].fd => j = k
  <2> SUFFICES ASSUME NEW j \in 1..(n - 1), NEW k \in 1..(n - 1),
                      client_list'[j].fd = client_list'[k].fd
               PROVE  j = k
    BY <1>3
  <2>1. PICK p \in 1..n : client_list'[j] = client_list[p] /\ p = IF j < i THEN j ELSE j + 1
    BY <1>7
  <2>2. PICK q \in 1..n : client_list'[k] = client_list[q] /\ q = IF k < i THEN k ELSE k + 1
    BY <1>7
  <2>3. p = q
    BY <1>1, <1>4, <2>1, <2>2
  <2>4. QED
    BY <1>1, <2>1, <2>2, <2>3
<1>10. Listed' = {fd \in Fds : conn'[fd] # NoClient}
  <2>1. Listed' = Listed \ {gone}
    <3>1. \A k \in 1..(n - 1) : client_list'[k].fd \in Listed \ {gone}
      <4> SUFFICES ASSUME NEW k \in 1..(n - 1)
                   PROVE  client_list'[k].fd \in Listed \ {gone}
        OBVIOUS
      <4>1. PICK p \in 1..n : client_list'[k] = client_list[p] /\ p = IF k < i THEN k ELSE k + 1
        BY <1>7
      <4>2. p # i
        BY <1>1, <4>1
      <4>3. client_list[p].fd # gone
        BY <1>1, <1>4, <4>2
      <4>4. QED
        BY <1>1, <4>1, <4>3 DEF Listed
    <3>2. \A fd \in Listed \ {gone} : \E k \in 1..(n - 1) : client_list'[k].fd = fd
      BY <1>1, <1>8 DEF Listed
    <3>3. Listed' = {client_list'[k].fd : k \in 1..(n - 1)}
      BY <1>3 DEF Listed
    <3>4. Listed \ {gone} \subseteq {client_list'[k].fd : k \in 1..(n - 1)}
      BY <3>2, Zenon
    <3>5. {client_list'[k].fd : k \in 1..(n - 1)} \subseteq Listed \ {gone}
      BY <3>1, Zenon
    <3>6. QED
      BY <3>3, <3>4, <3>5, Zenon
  <2>2. Listed = {fd \in Fds : conn[fd] # NoClient}
    BY DEF ListMatchesSockets
  <2>3. conn \in [Fds -> Clients \cup {NoClient}]
    BY DEF TypeOK, SocketTypes
  <2> HIDE DEF gone
  <2>4. QED
    BY <1>5, <2>1, <2>2, <2>3
<1>11. QED
  BY <1>2, <1>6, <1>9, <1>10 DEF ListMatchesSockets

LEMMA AcceptKeepsMirror ==
  ASSUME TypeOK, ListMatchesSockets, AcceptClient
  PROVE  ListMatchesSockets'
<1> DEFINE n == Len(client_list)
<1>1. PICK fd \in Fds : /\ Accept(fd)
                        /\ client_list' = Cons([fd |-> fd, username |-> Unknown], client_list)
  BY DEF AcceptClient
<1> DEFINE e == [fd |-> fd, username |-> Unknown]
<1>2. e \in Entries /\ e.fd = fd
  BY DEF Entries
<1> HIDE DEF e
<1>3. /\ DOMAIN client_list = 1..n /\ n \in Nat /\ client_list \in Seq(Entries)
  BY LenProperties DEF TypeOK, ListTypes, Entries
<1>4. /\ client_list' \in Seq(Entries) /\ Len(client_list') = n + 1
      /\ \A k \in 1..(n + 1) : client_list'[k] = IF k = 1 THEN e ELSE client_list[k - 1]
  <2>1. client_list' = Cons(e, client_list)
    BY <1>1 DEF e
  <2>2. e \in Entries /\ client_list \in Seq(Entries)
    BY <1>2, <1>3
  <2>3. /\ Cons(e, client_list) \in Seq(Entries)
        /\ Len(Cons(e, client_list)) = Len(client_list) + 1
        /\ \A k \in 1..(Len(client_list) + 1) :
             Cons(e, client_list)[k] = IF k = 1 THEN e ELSE client_list[k - 1]
    BY <2>2, ConsElements
  <2>4. QED
    BY <2>1, <2>3
<1>5. DOMAIN client_list' = 1..(n + 1)
  BY <1>4, LenProperties
<1>6. \A j, k \in 1..n : client_list[j].fd = client_list[k].fd => j = k
  BY <1>3 DEF ListMatchesSockets
<1>7. conn[fd] = NoClient /\ Head(backlog) \in Clients
  BY <1>1, HeadTailProperties DEF Accept, LowestFree, TypeOK, SocketTypes
<1>8. fd \notin Listed
  BY <1>7 DEF ListMatchesSockets
<1>9. \A k \in 1..n : client_list[k].fd # fd
  BY <1>3, <1>8 DEF Listed
<1>10. Listed' = Listed \cup {fd}
  <2>1. \A k \in 1..(n + 1) : client_list'[k].fd \in Listed \cup {fd}
    <3>1. \A k \in 1..n : client_list[k].fd \in Listed
      BY <1>3 DEF Listed
    <3>2. \A k \in 1..(n + 1) : k # 1 => k - 1 \in 1..n
      BY <1>3
    <3>3. QED
      BY <1>2, <1>4, <3>1, <3>2
  <2>2. client_list'[1].fd = fd /\ 1 \in 1..(n + 1)
    BY <1>2, <1>3, <1>4
  <2>3. \A k \in 1..n : client_list'[k + 1] = client_list[k] /\ k + 1 \in 1..(n + 1)
    BY <1>3, <1>4
  <2>4. QED
    BY <1>3, <1>5, <2>1, <2>2, <2>3 DEF Listed
<1>11. Listed' = {g \in Fds : conn'[g] # NoClient}
  <2>1. conn' = [conn EXCEPT ![fd] = Head(backlog)]
    BY <1>1 DEF Accept
  <2>2. conn \in [Fds -> Clients \cup {NoClient}] /\ NoClient \notin Clients
    BY SocketsAssumption DEF TypeOK, SocketTypes
  <2>3. Listed = {g \in Fds : conn[g] # NoClient}
    BY DEF ListMatchesSockets
  <2>4. QED
    BY <1>7, <1>10, <2>1, <2>2, <2>3
<1>12. \A j, k \in 1..(n + 1) : client_list'[j].fd = client_list'[k].fd => j = k
  <2> SUFFICES ASSUME NEW j \in 1..(n + 1), NEW k \in 1..(n + 1),
                      client_list'[j].fd = client_list'[k].fd
               PROVE  j = k
    OBVIOUS
  <2>1. CASE j = 1
    BY <1>2, <1>3, <1>4, <1>9, <2>1
  <2>2. CASE k = 1
    BY <1>2, <1>3, <1>4, <1>9, <2>2
  <2>3. CASE j # 1 /\ k # 1
    BY <1>3, <1>4, <1>6, <2>3
  <2>4. QED
    BY <2>1, <2>2, <2>3
<1>13. active_users' = n + 1
  BY <1>3 DEF AcceptClient, ListMatchesSockets, Stopped
<1>14. QED
  BY <1>4, <1>5, <1>11, <1>12, <1>13 DEF ListMatchesSockets

LEMMA JoinKeepsMirror ==
  ASSUME ServerInv, HandleJoin
  PROVE  ListMatchesSockets'
<1>1. /\ DOMAIN client_list = 1..Len(client_list) /\ Len(client_list) \in Nat
      /\ \A i \in DOMAIN client_list : client_list[i] \in Entries
  BY LenProperties, ElementOfSeq DEF ServerInv, TypeOK, ListTypes, Entries
<1>2. /\ DOMAIN client_list' = DOMAIN client_list
      /\ \A i \in DOMAIN client_list : client_list'[i].fd = client_list[i].fd
  BY <1>1 DEF HandleJoin, Entries
<1>3. client_list' \in Seq(Entries)
  BY HandlerStepTypes DEF TypeOK, ListTypes, Entries
<1>4. Len(client_list') = Len(client_list)
  BY <1>1, <1>2, <1>3, LenProperties
<1>5. Listed' = Listed
  BY <1>2 DEF Listed
<1>6. UNCHANGED <<conn, active_users>> /\ pc = "recv"
  BY DEF HandleJoin, ServerRead, Incoming
<1>7. QED
  BY <1>2, <1>4, <1>5, <1>6 DEF ServerInv, ListMatchesSockets, Stopped

LEMMA CloseAllMirror ==
  ASSUME CloseAll, client_list' = <<>>, pc' \in {"exited", "killed"}
  PROVE  ListMatchesSockets'
BY DEF CloseAll, ListMatchesSockets, Listed, Stopped

LEMMA SameMirror ==
  ASSUME ListMatchesSockets, UNCHANGED <<client_list, active_users, conn>>, Stopped => Stopped'
  PROVE  ListMatchesSockets'
BY DEF ListMatchesSockets, Listed

LEMMA MirrorStep == ASSUME ServerInv, [Next]_vars PROVE ListMatchesSockets'
<1>1. TypeOK /\ ListMatchesSockets
  BY DEF ServerInv
<1>2. CASE LoopTest \/ Select \/ NoInput \/ CommandPrints \/ CommandShutdown \/ ConsoleEof
             \/ NoConnection \/ AcceptFails \/ ScanFinds \/ ScanDone \/ AcceptNoMemory
             \/ CommandBroadcast
  <2>1. UNCHANGED <<client_list, active_users, conn>> /\ ~Stopped
    BY <1>2 DEF LoopTest, Select, NoInput, CommandPrints, CommandShutdown, ConsoleEof,
       NoConnection, AcceptFails, ScanFinds, ScanDone, AcceptNoMemory, AcceptAndClose,
       CommandBroadcast, ReadLine, Stopped
  <2>2. QED
    BY <1>1, <2>1, SameMirror
<1>3. CASE HandleBroadcast \/ HandlePrivate \/ HandleListUsers \/ SendOne \/ SendDone
  <2>1. UNCHANGED <<client_list, active_users, conn>> /\ ~Stopped
    BY <1>3 DEF HandleBroadcast, HandlePrivate, HandleListUsers, SendOne, SendDone,
       Incoming, ServerRead, ServerWrite, Stopped
  <2>2. QED
    BY <1>1, <2>1, SameMirror
<1>4. CASE AcceptClient
  BY <1>1, <1>4, AcceptKeepsMirror
<1>5. CASE HandleJoin
  BY <1>5, JoinKeepsMirror
<1>6. CASE CommandKick
  <2>1. CASE \E i \in DOMAIN client_list : RemoveEntry(i)
    BY <1>1, <1>6, <2>1, RemoveKeepsMirror DEF CommandKick, ReadLine, Stopped
  <2>2. CASE UNCHANGED <<sockVars, listVars>>
    BY <1>1, <1>6, <2>2, SameMirror DEF CommandKick, ReadLine, Stopped
  <2>3. QED
    BY <1>6, <2>1, <2>2 DEF CommandKick
<1>7. CASE HandleLeave \/ HandleDisconnect
  BY <1>1, <1>7, RemoveKeepsMirror DEF HandleLeave, HandleDisconnect, Incoming, Stopped
<1>8. CASE Cleanup \/ SendKilled
  BY <1>8, CloseAllMirror DEF Cleanup, SendKilled
<1>9. CASE Sigint
  BY <1>1, <1>9, SameMirror DEF Sigint, Stopped
<1>10. CASE Env
  <2>1. UNCHANGED <<client_list, active_users, conn, pc>>
    BY <1>10 DEF Env, OperatorTypes, EnvWrite, EnvSocket, EnvClose, ClientWrite, Connect,
       ConnectRefused, ClientRead, ClientClose
  <2>2. QED
    BY <1>1, <2>1, SameMirror DEF Stopped
<1>11. CASE UNCHANGED vars
  BY <1>1, <1>11, SameMirror DEF Stopped
<1>12. QED
  BY <1>2, <1>3, <1>4, <1>5, <1>6, <1>7, <1>8, <1>9, <1>10, <1>11 DEF Next, ServerNext
-----------------------------------------------------------------------------
(* No handler goes on with a descriptor that is closed.                    *)

LEMMA SendToListed ==
  ASSUME NEW m, NEW to, NEW ret, SendTo(m, to, ret), ToSet(to) \subseteq Listed'
  PROVE  NoStaleFd'
BY DEF SendTo, NoStaleFd

LEMMA StaleStep == ASSUME ServerInv, [Next]_vars PROVE NoStaleFd'
<1>1. TypeOK /\ ListMatchesSockets /\ NoStaleFd
  BY DEF ServerInv
<1>2. CASE \/ LoopTest \/ Select \/ NoInput \/ CommandPrints \/ CommandShutdown \/ ConsoleEof
           \/ NoConnection \/ AcceptFails \/ ScanDone \/ AcceptNoMemory \/ AcceptClient
           \/ Cleanup \/ CommandKick \/ HandleLeave \/ HandleDisconnect \/ SendKilled
  <2>1. pc' \notin {"recv", "send"}
    BY <1>2 DEF LoopTest, Select, NoInput, CommandPrints, CommandShutdown, ConsoleEof,
       NoConnection, AcceptFails, ScanDone, AcceptNoMemory, AcceptClient, Cleanup,
       CommandKick, HandleLeave, HandleDisconnect, SendKilled
  <2>2. QED
    BY <2>1 DEF NoStaleFd
<1>3. CASE ScanFinds
  BY <1>3 DEF ScanFinds, NoStaleFd, Listed
<1>4. CASE SendDone
  BY <1>1, <1>4 DEF SendDone, NoStaleFd, TypeOK, SendTypes
<1>5. CASE SendOne
  <2>1. out.to \in Seq(Fds) /\ out.to # <<>> /\ ToSet(out.to) \subseteq Listed
    BY <1>1, <1>5 DEF SendOne, NoStaleFd, TypeOK, SendTypes
  <2>2. out'.to = Tail(out.to)
    BY <1>1, <1>5 DEF SendOne, TypeOK, SendTypes
  <2>3. ToSet(out'.to) \subseteq Listed
    BY <2>1, <2>2, TailSubset
  <2>4. QED
    BY <1>5, <2>3 DEF SendOne, NoStaleFd, Listed
<1>6. CASE CommandBroadcast \/ HandleBroadcast
  <2>1. ToSet(FdsInOrder) = Listed'
    BY <1>6 DEF CommandBroadcast, HandleBroadcast, FdsInOrder, Listed, ToSet
  <2>2. QED
    BY <1>6, <2>1, SendToListed DEF CommandBroadcast, HandleBroadcast
<1>7. CASE HandlePrivate
  <2>1. CASE SendTo(Received, <<>>, "scan")
    BY <2>1, SendToListed DEF ToSet
  <2>2. CASE \E i \in DOMAIN client_list : SendTo(Received, <<client_list[i].fd>>, "scan")
    <3>1. PICK i \in DOMAIN client_list : SendTo(Received, <<client_list[i].fd>>, "scan")
      BY <2>2
    <3>2. ToSet(<<client_list[i].fd>>) \subseteq Listed'
      BY <1>7 DEF HandlePrivate, Listed, ToSet
    <3>3. QED
      BY <3>1, <3>2, SendToListed
  <2>3. QED
    BY <1>7, <2>1, <2>2 DEF HandlePrivate
<1>8. CASE HandleJoin \/ HandleListUsers
  <2>1. cur \in Listed /\ pc = "recv"
    BY <1>1, <1>8 DEF HandleJoin, HandleListUsers, Incoming, NoStaleFd
  <2>2. Listed' = Listed
    <3>1. CASE HandleJoin
      <4>1. \A i \in DOMAIN client_list : client_list[i] \in Entries
        BY <1>1, LenProperties, ElementOfSeq DEF TypeOK, ListTypes, Entries
      <4>2. /\ DOMAIN client_list' = DOMAIN client_list
            /\ \A i \in DOMAIN client_list : client_list'[i].fd = client_list[i].fd
        BY <3>1, <4>1 DEF HandleJoin, Entries
      <4>3. QED
        BY <4>2 DEF Listed
    <3>2. CASE HandleListUsers
      BY <3>2 DEF HandleListUsers, Listed
    <3>3. QED
      BY <1>8, <3>1, <3>2
  <2>3. ToSet(<<cur>>) \subseteq Listed'
    BY <2>1, <2>2 DEF ToSet
  <2>4. QED
    BY <1>8, <2>3, SendToListed DEF HandleJoin, HandleListUsers
<1>9. CASE Sigint
  BY <1>1, <1>9 DEF Sigint, NoStaleFd, Listed
<1>10. CASE Env
  <2>1. UNCHANGED <<client_list, pc, cur, out>>
    BY <1>10 DEF Env, OperatorTypes, EnvWrite, EnvSocket, EnvClose
  <2>2. QED
    BY <1>1, <2>1 DEF NoStaleFd, Listed
<1>11. CASE UNCHANGED vars
  BY <1>1, <1>11 DEF NoStaleFd, Listed
<1>12. QED
  BY <1>2, <1>3, <1>4, <1>5, <1>6, <1>7, <1>8, <1>9, <1>10, <1>11 DEF Next, ServerNext
-----------------------------------------------------------------------------
LEMMA Inductive == Spec => []ServerInv
<1>1. ServerInv /\ [Next]_vars => ServerInv'
  BY TypeStep, MirrorStep, StaleStep DEF ServerInv
<1>2. QED
  BY <1>1, InitEstablishes, PTL DEF Spec

\* The state of chat_server.c keeps its shape, whatever clients send.
THEOREM TypeCorrect == Spec => []TypeOK
BY Inductive, PTL DEF ServerInv

\* add_client(), remove_client_fd(), /kick and cleanup() never leak or
\* double-close a descriptor, and active_users counts the list.
THEOREM ListMirrorsSockets == Spec => []ListMatchesSockets
BY Inductive, PTL DEF ServerInv

\* handle_client_message() and the send loops never touch a closed
\* descriptor, although the kernel re-uses the numbers.
THEOREM DescriptorsAreLive == Spec => []NoStaleFd
BY Inductive, PTL DEF ServerInv
-----------------------------------------------------------------------------
(* Connections: a client has one at most.                                  *)

Connections ==
  /\ \A i, j \in DOMAIN backlog : backlog[i] = backlog[j] => i = j
  /\ \A i \in DOMAIN backlog :
       peer[backlog[i]] # "new" /\ \A fd \in Fds : conn[fd] # backlog[i]
  /\ \A f, g \in Fds : conn[f] = conn[g] /\ conn[f] # NoClient => f = g
  /\ \A f \in Fds : conn[f] # NoClient => peer[conn[f]] # "new"

\* Between two messages nothing is on its way, and nobody is written to twice.
Sending ==
  /\ pc # "send" => out = Quiet
  /\ \A i, j \in DOMAIN out.to : out.to[i] = out.to[j] => i = j

PromiseInv == ServerInv /\ Connections /\ Sending

LEMMA TailOfDistinct ==
  ASSUME NEW S, NEW s \in Seq(S), s # <<>>, \A i, j \in DOMAIN s : s[i] = s[j] => i = j
  PROVE  /\ ToSet(Tail(s)) = ToSet(s) \ {Head(s)}
         /\ \A i, j \in DOMAIN Tail(s) : Tail(s)[i] = Tail(s)[j] => i = j
<1>1. /\ Tail(s) \in Seq(S) /\ Head(s) = s[1] /\ Len(s) \in Nat \ {0}
      /\ Len(Tail(s)) = Len(s) - 1
      /\ \A k \in 1..Len(Tail(s)) : Tail(s)[k] = s[k + 1]
  BY HeadTailProperties
<1>2. DOMAIN s = 1..Len(s) /\ DOMAIN Tail(s) = 1..(Len(s) - 1)
  BY <1>1, LenProperties
<1>3. \A k \in 1..(Len(s) - 1) : k + 1 \in 1..Len(s) /\ k + 1 # 1
  BY <1>1
<1>4. \A i, j \in DOMAIN Tail(s) : Tail(s)[i] = Tail(s)[j] => i = j
  BY <1>1, <1>2, <1>3
<1>5. \A k \in 1..Len(s) : k = 1 \/ (k - 1 \in 1..(Len(s) - 1) /\ (k - 1) + 1 = k)
  BY <1>1
<1>6. ToSet(Tail(s)) \subseteq ToSet(s) \ {Head(s)}
  BY <1>1, <1>2, <1>3 DEF ToSet
<1>7. ToSet(s) \ {Head(s)} \subseteq ToSet(Tail(s))
  <2> SUFFICES ASSUME NEW k \in 1..Len(s), s[k] # s[1] PROVE s[k] \in ToSet(Tail(s))
    BY <1>1, <1>2 DEF ToSet
  <2>1. k - 1 \in 1..(Len(s) - 1) /\ (k - 1) + 1 = k
    BY <1>5
  <2>2. Tail(s)[k - 1] = s[k]
    BY <1>1, <2>1
  <2> QED
    BY <1>2, <2>1, <2>2 DEF ToSet
<1> QED
  BY <1>4, <1>6, <1>7

LEMMA EmptyToSet ==
  ASSUME NEW S, NEW s \in Seq(S)
  PROVE  ToSet(s) = {} <=> s = <<>>
<1>1. DOMAIN s = 1..Len(s) /\ Len(s) \in Nat /\ (s = <<>> <=> Len(s) = 0)
  BY LenProperties, EmptySeq
<1>2. Len(s) # 0 => 1 \in DOMAIN s
  BY <1>1
<1>3. Len(s) # 0 => s[1] \in ToSet(s)
  BY <1>2 DEF ToSet
<1>4. s = <<>> => ToSet(s) = {}
  BY DEF ToSet
<1> QED
  BY <1>1, <1>3, <1>4

LEMMA QuietFacts == Quiet.to = <<>> /\ ToSet(Quiet.to) = {} /\ Quiet.msg.type = "NONE"
BY DEF Quiet, ToSet, Msg

LEMMA InitPromise == ServerInit => PromiseInv
<1>1. ServerInit => Connections
  BY DEF ServerInit, SocketsInit, Connections
<1>2. ServerInit => Sending
  BY QuietFacts DEF ServerInit, Sending
<1> QED
  BY <1>1, <1>2, InitEstablishes DEF PromiseInv

LEMMA SameConnections ==
  ASSUME Connections, UNCHANGED <<backlog, conn, peer>>
  PROVE  Connections'
BY DEF Connections

LEMMA CloseKeepsConnections ==
  ASSUME TypeOK, Connections, NEW fd \in Fds, conn' = [conn EXCEPT ![fd] = NoClient],
         UNCHANGED <<backlog, peer>>
  PROVE  Connections'
<1>1. \A f \in Fds : conn'[f] = IF f = fd THEN NoClient ELSE conn[f]
  BY DEF TypeOK, SocketTypes
<1>2. \A i \in DOMAIN backlog : backlog[i] # NoClient
  BY SocketsAssumption, LenProperties, ElementOfSeq DEF TypeOK, SocketTypes
<1> QED
  BY <1>1, <1>2 DEF Connections

LEMMA RemoveConnects ==
  ASSUME TypeOK, Connections, NEW i \in DOMAIN client_list, RemoveEntry(i)
  PROVE  Connections'
<1>1. client_list[i].fd \in Fds
  BY EntryFds DEF TypeOK
<1> QED
  BY <1>1, CloseKeepsConnections DEF RemoveEntry, ServerClose

LEMMA BacklogShrinks ==
  ASSUME TypeOK, Connections, backlog # <<>>
  PROVE  /\ Head(backlog) \in Clients /\ peer[Head(backlog)] # "new"
         /\ \A fd \in Fds : conn[fd] # Head(backlog)
         /\ \A i, j \in DOMAIN Tail(backlog) : Tail(backlog)[i] = Tail(backlog)[j] => i = j
         /\ \A i \in DOMAIN Tail(backlog) :
              /\ Tail(backlog)[i] \in Clients /\ Tail(backlog)[i] # Head(backlog)
              /\ peer[Tail(backlog)[i]] # "new"
              /\ \A fd \in Fds : conn[fd] # Tail(backlog)[i]
<1>1. backlog \in Seq(Clients)
  BY DEF TypeOK, SocketTypes
<1>2. /\ ToSet(Tail(backlog)) = ToSet(backlog) \ {Head(backlog)}
      /\ \A i, j \in DOMAIN Tail(backlog) : Tail(backlog)[i] = Tail(backlog)[j] => i = j
  BY <1>1, TailOfDistinct DEF Connections
<1>3. Head(backlog) \in ToSet(backlog) /\ Head(backlog) \in Clients
  BY <1>1, TailSubset
<1>4. \A c \in ToSet(backlog) : /\ peer[c] # "new" /\ c \in Clients
                                /\ \A fd \in Fds : conn[fd] # c
  BY <1>1, LenProperties, ElementOfSeq DEF Connections, ToSet
<1>5. \A i \in DOMAIN Tail(backlog) : Tail(backlog)[i] \in ToSet(Tail(backlog))
  BY DEF ToSet
<1> QED
  BY <1>2, <1>3, <1>4, <1>5

LEMMA ConnectionsStep == ASSUME PromiseInv, [Next]_vars PROVE Connections'
<1>1. TypeOK /\ Connections
  BY DEF PromiseInv, ServerInv
<1>2. CASE UNCHANGED <<backlog, conn, peer>>
  BY <1>1, <1>2, SameConnections
<1>3. CASE LoopTest \/ Select \/ NoInput \/ CommandPrints \/ CommandShutdown \/ ConsoleEof
             \/ NoConnection \/ AcceptFails \/ ScanFinds \/ ScanDone \/ CommandBroadcast
  BY <1>2, <1>3 DEF LoopTest, Select, NoInput, CommandPrints, CommandShutdown, ConsoleEof,
     NoConnection, AcceptFails, ScanFinds, ScanDone, CommandBroadcast
<1>4. CASE HandleJoin \/ HandleBroadcast \/ HandlePrivate \/ HandleListUsers
  BY <1>2, <1>4 DEF HandleJoin, HandleBroadcast, HandlePrivate, HandleListUsers, ServerRead
<1>5. CASE SendOne \/ SendDone \/ Sigint \/ OperatorTypes \/ UNCHANGED vars
  BY <1>2, <1>5 DEF SendOne, SendDone, ServerWrite, Sigint, OperatorTypes
<1>6. CASE CommandKick \/ HandleLeave \/ HandleDisconnect
  BY <1>1, <1>2, <1>6, RemoveConnects DEF CommandKick, HandleLeave, HandleDisconnect
<1>7. CASE Cleanup \/ SendKilled
  <2>1. backlog' = <<>> /\ conn' = [fd \in Fds |-> NoClient]
    BY <1>7 DEF Cleanup, SendKilled, CloseAll
  <2> QED
    BY <2>1 DEF Connections
<1>8. CASE AcceptClient
  <2>1. PICK fd \in Fds : Accept(fd)
    BY <1>8 DEF AcceptClient
  <2>2. /\ backlog # <<>> /\ backlog' = Tail(backlog) /\ peer' = peer
        /\ conn' = [conn EXCEPT ![fd] = Head(backlog)]
    BY <2>1 DEF Accept
  <2>3. \A f \in Fds : conn'[f] = IF f = fd THEN Head(backlog) ELSE conn[f]
    BY <1>1, <2>2 DEF TypeOK, SocketTypes
  <2> QED
    BY <1>1, <2>2, <2>3, BacklogShrinks DEF Connections
<1>9. CASE AcceptNoMemory
  <2>1. backlog # <<>> /\ backlog' = Tail(backlog) /\ UNCHANGED <<peer, conn>>
    BY <1>9 DEF AcceptNoMemory, AcceptAndClose
  <2> QED
    BY <1>1, <2>1, BacklogShrinks DEF Connections
<1>10. ASSUME NEW c \in Clients, EnvWrite(c) \/ EnvSocket(c) \/ EnvClose(c)
       PROVE  Connections'
  <2>1. CASE Connect(c)
    <3>1. /\ peer[c] = "new" /\ backlog' = Append(backlog, c) /\ conn' = conn
          /\ peer' = [peer EXCEPT ![c] = "open"]
      BY <2>1 DEF Connect
    <3>0. conn' = conn
      BY <3>1
    <3>2. backlog \in Seq(Clients) /\ peer \in [Clients -> {"new", "open", "closed"}]
      BY <1>1 DEF TypeOK, SocketTypes
    <3>3. /\ \A d \in Clients : peer'[d] = IF d = c THEN "open" ELSE peer[d]
          /\ DOMAIN backlog' = 1..(Len(backlog) + 1) /\ DOMAIN backlog = 1..Len(backlog)
          /\ Len(backlog) \in Nat
          /\ \A i \in DOMAIN backlog : backlog'[i] = backlog[i] /\ backlog[i] \in Clients
          /\ backlog'[Len(backlog) + 1] = c
      BY <3>1, <3>2, AppendProperties, ElementOfSeq
    <3>4. \A i \in DOMAIN backlog' : i \in DOMAIN backlog \/ i = Len(backlog) + 1
      BY <3>3
    <3>5. \A f \in Fds : conn[f] # c
      BY <1>1, <3>1, SocketsAssumption DEF Connections
    <3>6. \A f \in Fds : conn[f] \in Clients \cup {NoClient}
      BY <1>1 DEF TypeOK, SocketTypes
    <3>7. \A i \in DOMAIN backlog : backlog[i] # c
      BY <1>1, <3>1 DEF Connections
    <3>8. \A i, m \in DOMAIN backlog' : backlog'[i] = backlog'[m] => i = m
      BY <1>1, <3>3, <3>4, <3>7 DEF Connections
    <3>9. \A i \in DOMAIN backlog' :
            peer'[backlog'[i]] # "new" /\ \A f \in Fds : conn'[f] # backlog'[i]
      <4> SUFFICES ASSUME NEW i \in DOMAIN backlog'
                   PROVE  peer'[backlog'[i]] # "new" /\ \A f \in Fds : conn'[f] # backlog'[i]
        OBVIOUS
      <4>1. CASE i \in DOMAIN backlog
        <5>1. /\ backlog'[i] = backlog[i] /\ backlog[i] \in Clients
              /\ peer[backlog[i]] # "new" /\ \A f \in Fds : conn[f] # backlog[i]
          BY <1>1, <3>3, <4>1 DEF Connections
        <5> QED
          BY <3>0, <3>3, <5>1
      <4>2. CASE i = Len(backlog) + 1
        <5>1. backlog'[i] = c /\ peer'[c] = "open"
          BY <3>3, <4>2
        <5> QED
          BY <3>0, <3>5, <5>1
      <4> QED
        BY <3>4, <4>1, <4>2
    <3>10. \A f \in Fds : conn'[f] # NoClient => peer'[conn'[f]] # "new"
      <4> SUFFICES ASSUME NEW f \in Fds, conn[f] # NoClient PROVE peer'[conn[f]] # "new"
        BY <3>0
      <4>1. conn[f] \in Clients /\ peer[conn[f]] # "new"
        BY <1>1, <3>6 DEF Connections
      <4> QED
        BY <3>3, <4>1
    <3> QED
      BY <1>1, <3>0, <3>8, <3>9, <3>10 DEF Connections
  <2>2. CASE ConnectRefused(c) \/ ClientClose(c)
    <3>1. /\ peer' = [peer EXCEPT ![c] = "closed"]
          /\ UNCHANGED <<backlog, conn>>
      BY <2>2 DEF ConnectRefused, ClientClose
    <3>2. \A d \in Clients : peer'[d] = IF d = c THEN "closed" ELSE peer[d]
      BY <1>1, <3>1 DEF TypeOK, SocketTypes
    <3>3. /\ \A i \in DOMAIN backlog : backlog[i] \in Clients
          /\ \A f \in Fds : conn[f] # NoClient => conn[f] \in Clients
      BY <1>1, LenProperties, ElementOfSeq DEF TypeOK, SocketTypes
    <3> QED
      BY <1>1, <3>1, <3>2, <3>3 DEF Connections
  <2>3. CASE EnvWrite(c) \/ ClientRead(c)
    BY <1>2, <2>3 DEF EnvWrite, ClientWrite, ClientRead
  <2> QED
    BY <1>10, <2>1, <2>2, <2>3 DEF EnvSocket, EnvClose
<1> QED
  BY <1>3, <1>4, <1>5, <1>6, <1>7, <1>8, <1>9, <1>10 DEF Next, ServerNext, Env

LEMMA OrderDistinct ==
  ASSUME TypeOK, ListMatchesSockets
  PROVE  /\ FdsInOrder \in Seq(Fds) /\ ToSet(FdsInOrder) = Listed
         /\ \A i, j \in DOMAIN FdsInOrder : FdsInOrder[i] = FdsInOrder[j] => i = j
BY OrderTypes DEF TypeOK, FdsInOrder, Listed, ToSet, ListMatchesSockets

LEMMA SendingStep == ASSUME PromiseInv, [Next]_vars PROVE Sending'
<1>1. TypeOK /\ ListMatchesSockets /\ Sending
  BY DEF PromiseInv, ServerInv
<1>2. ASSUME pc' # "send" \/ pc = "send", pc = "send" => pc' = "send", out' = out PROVE Sending'
  BY <1>1, <1>2 DEF Sending
<1>3. ASSUME pc # "send", out' = out, pc' # "send" PROVE Sending'
  BY <1>1, <1>3 DEF Sending
<1>4. CASE LoopTest \/ Select \/ NoInput \/ CommandPrints \/ CommandShutdown \/ ConsoleEof
             \/ NoConnection \/ AcceptFails \/ ScanFinds \/ ScanDone
  BY <1>3, <1>4 DEF LoopTest, Select, NoInput, CommandPrints, CommandShutdown, ConsoleEof,
     NoConnection, AcceptFails, ScanFinds, ScanDone, ReadLine
<1>5. CASE CommandKick \/ AcceptClient \/ AcceptNoMemory \/ Cleanup \/ HandleLeave
             \/ HandleDisconnect
  BY <1>3, <1>5 DEF CommandKick, AcceptClient, AcceptNoMemory, Cleanup, HandleLeave,
     HandleDisconnect, Incoming, ReadLine
<1>6. CASE Sigint \/ Env \/ UNCHANGED vars
  BY <1>1, <1>6 DEF Sigint, Env, OperatorTypes, EnvWrite, EnvSocket, EnvClose, Sending
<1>7. CASE SendKilled \/ SendDone
  <2>1. out' = Quiet /\ DOMAIN out'.to = {}
    BY <1>7, QuietFacts DEF SendKilled, SendDone
  <2> QED
    BY <2>1 DEF Sending
<1>8. CASE SendOne
  <2>1. /\ pc = "send" /\ pc' = "send" /\ out.to # <<>> /\ out.to \in Seq(Fds)
        /\ out'.to = Tail(out.to)
    BY <1>1, <1>8 DEF SendOne, TypeOK, SendTypes
  <2>2. \A i, j \in DOMAIN out'.to : out'.to[i] = out'.to[j] => i = j
    BY <1>1, <2>1, TailOfDistinct DEF Sending
  <2> QED
    BY <2>1, <2>2 DEF Sending
<1>9. ASSUME NEW m, NEW to, NEW ret, SendTo(m, to, ret),
             \A i, j \in DOMAIN to : to[i] = to[j] => i = j
      PROVE  Sending'
  BY <1>9 DEF SendTo, Sending
<1>10. CASE CommandBroadcast \/ HandleBroadcast
  BY <1>1, <1>9, <1>10, OrderDistinct DEF CommandBroadcast, HandleBroadcast
<1>11. CASE HandleJoin \/ HandlePrivate \/ HandleListUsers
  <2>1. \A f : \A i, j \in DOMAIN <<f>> : <<f>>[i] = <<f>>[j] => i = j
    OBVIOUS
  <2>2. \A i, j \in DOMAIN <<>> : <<>>[i] = <<>>[j] => i = j
    OBVIOUS
  <2>3. CASE HandleJoin \/ HandleListUsers
    BY <1>9, <2>1, <2>3 DEF HandleJoin, HandleListUsers
  <2>4. CASE HandlePrivate
    BY <1>9, <2>1, <2>2, <2>4 DEF HandlePrivate
  <2> QED
    BY <1>11, <2>3, <2>4
<1> QED
  BY <1>4, <1>5, <1>6, <1>7, <1>8, <1>10, <1>11 DEF Next, ServerNext

LEMMA PromiseInductive == Spec => []PromiseInv
<1>1. ServerInv /\ [Next]_vars => ServerInv'
  BY TypeStep, MirrorStep, StaleStep DEF ServerInv
<1>2. PromiseInv /\ [Next]_vars => PromiseInv'
  BY <1>1, ConnectionsStep, SendingStep DEF PromiseInv
<1> QED
  BY <1>2, InitPromise, PTL DEF Spec


-----------------------------------------------------------------------------
(* The group chat that the state of the server stands for.                 *)

Members == {conn[fd] : fd \in Listed}
Pending == {conn[fd] : fd \in ToSet(out.to)}
Current == IF out.to = <<>> THEN Quiet.msg ELSE out.msg

LEMMA EnterMaps ==
  ASSUME NEW c \in Clients, c \notin Members, Pending = {}, Members' = Members \cup {c},
         UNCHANGED <<Current, Pending, inbox>>
  PROVE  Promise!Next
<1>1. Promise!Enter(c)
  BY DEF Promise!Enter, Members, Pending, Current
<1> QED
  BY <1>1 DEF Promise!Next

LEMMA ExitMaps ==
  ASSUME NEW c \in Clients, c \in Members, Pending = {}, Members' = Members \ {c},
         UNCHANGED <<Current, Pending, inbox>>
  PROVE  Promise!Next
<1>1. Promise!Exit(c)
  BY DEF Promise!Exit, Members, Pending, Current
<1> QED
  BY <1>1 DEF Promise!Next

LEMMA PublishMaps ==
  ASSUME Pending = {}, Current' \in Messages, Pending' # {},
         IF IsPublic(Current') THEN Pending' = Members ELSE \E c \in Members : Pending' = {c},
         UNCHANGED <<Members, inbox>>
  PROVE  Promise!Next
<1>1. Pending' \in IF IsPublic(Current') THEN {Members} ELSE {{c} : c \in Members}
  OBVIOUS
<1>2. Promise!Publish
  BY <1>1 DEF Promise!Publish, Promise!Audience, IsPublic, Members, Pending, Current
<1> QED
  BY <1>2 DEF Promise!Next

LEMMA DeliverMaps ==
  ASSUME NEW c \in Clients, c \in Pending,
         inbox' = [inbox EXCEPT ![c] = Append(@, Current)],
         Pending' = Pending \ {c},
         Current' = IF Pending' = {} THEN Quiet.msg ELSE Current,
         Members' = Members
  PROVE  Promise!Next
<1>1. Promise!Deliver(c)
  BY DEF Promise!Deliver, Members, Pending, Current
<1> QED
  BY <1>1 DEF Promise!Next

LEMMA StopMaps ==
  ASSUME Members' = {}, Pending' = {}, Current' = Quiet.msg, inbox' = inbox
  PROVE  Promise!Next
<1>1. Promise!Stop
  BY DEF Promise!Stop, Members, Pending, Current
<1> QED
  BY <1>1 DEF Promise!Next

LEMMA StutterMaps ==
  ASSUME UNCHANGED <<Members, Pending, Current, inbox>>
  PROVE  UNCHANGED Promise!chat
BY DEF Promise!chat, Members, Pending, Current

LEMMA MembersAre ==
  ASSUME TypeOK, ListMatchesSockets
  PROVE  \A c : c \in Members <=> c \in Clients /\ \E fd \in Fds : conn[fd] = c
BY SocketsAssumption DEF TypeOK, SocketTypes, ListMatchesSockets, Members

LEMMA MembersNext ==
  ASSUME TypeOK', ListMatchesSockets'
  PROVE  \A c : c \in Members' <=> c \in Clients /\ \E fd \in Fds : conn'[fd] = c
BY SocketsAssumption DEF TypeOK, SocketTypes, ListMatchesSockets, Members

LEMMA NothingPending == ASSUME out = Quiet PROVE Pending = {} /\ Current = Quiet.msg
BY QuietFacts DEF Pending, Current

LEMMA InitMaps == ServerInit => Promise!Init
<1> SUFFICES ASSUME ServerInit PROVE Promise!Init
  OBVIOUS
<1>1. Members = {}
  BY DEF ServerInit, Members, Listed
<1>2. Pending = {} /\ Current = Quiet.msg
  BY NothingPending DEF ServerInit
<1> QED
  BY <1>1, <1>2 DEF ServerInit, Promise!Init, Members, Pending, Current

\* add_client() at the end of an accept().
LEMMA AcceptMaps == ASSUME PromiseInv, PromiseInv', AcceptClient PROVE Promise!Next
<1>1. TypeOK /\ TypeOK' /\ ListMatchesSockets /\ ListMatchesSockets' /\ Connections
      /\ out = Quiet /\ out' = out /\ inbox' = inbox
  BY DEF PromiseInv, ServerInv, Sending, AcceptClient
<1>2. PICK fd \in Fds : Accept(fd)
  BY DEF AcceptClient
<1> DEFINE c == Head(backlog)
<1>3. /\ backlog # <<>> /\ conn[fd] = NoClient
      /\ conn' = [conn EXCEPT ![fd] = c]
  BY <1>2 DEF Accept, LowestFree
<1>4. c \in Clients /\ \A f \in Fds : conn[f] # c
  BY <1>1, <1>3, BacklogShrinks
<1> HIDE DEF c
<1>5. \A f \in Fds : conn'[f] = IF f = fd THEN c ELSE conn[f]
  BY <1>1, <1>3 DEF TypeOK, SocketTypes
<1>6. \A d : d \in Members <=> d \in Clients /\ \E f \in Fds : conn[f] = d
  BY <1>1, MembersAre
<1>7. \A d : d \in Members' <=> d \in Clients /\ \E f \in Fds : conn'[f] = d
  BY <1>1, MembersNext
<1>8. c \notin Members
  BY <1>4, <1>6
<1>9. ASSUME NEW d \in Clients PROVE d \in Members' <=> d \in Members \/ d = c
  BY <1>3, <1>5, <1>6, <1>7, SocketsAssumption
<1>10. Members' = Members \cup {c}
  BY <1>4, <1>6, <1>7, <1>9
<1>11. Pending = {} /\ UNCHANGED <<Pending, Current>>
  <2>1. out' = Quiet
    BY <1>1
  <2>2. Pending' = {} /\ Current' = Quiet.msg
    BY <2>1, QuietFacts DEF Pending, Current
  <2> QED
    BY <1>1, <2>2, NothingPending
<1> QED
  BY <1>1, <1>4, <1>8, <1>10, <1>11, EnterMaps

\* remove_client_fd() and /kick, between two messages.
LEMMA RemovalMaps ==
  ASSUME PromiseInv, PromiseInv', NEW i \in DOMAIN client_list, RemoveEntry(i),
         out = Quiet, out' = out, inbox' = inbox
  PROVE  Promise!Next
<1>1. TypeOK /\ TypeOK' /\ ListMatchesSockets /\ ListMatchesSockets' /\ Connections
  BY DEF PromiseInv, ServerInv
<1>2. PICK fd \in Fds : fd = client_list[i].fd
  BY <1>1, EntryFds DEF TypeOK
<1> DEFINE c == conn[fd]
<1>3. fd \in Listed /\ c \in Clients
  BY <1>1, <1>2, ListedIsOpen DEF Listed
<1>4. conn' = [conn EXCEPT ![fd] = NoClient]
  BY <1>2 DEF RemoveEntry, ServerClose
<1>5. \A f \in Fds : conn'[f] = IF f = fd THEN NoClient ELSE conn[f]
  BY <1>1, <1>4 DEF TypeOK, SocketTypes
<1>6. \A d : d \in Members <=> d \in Clients /\ \E f \in Fds : conn[f] = d
  BY <1>1, MembersAre
<1>7. \A d : d \in Members' <=> d \in Clients /\ \E f \in Fds : conn'[f] = d
  BY <1>1, MembersNext
<1>8. \A f, g \in Fds : conn[f] = conn[g] /\ conn[f] # NoClient => f = g
  BY <1>1 DEF Connections
<1>9. ASSUME NEW d \in Clients PROVE d \in Members' <=> d \in Members /\ d # c
  BY <1>3, <1>5, <1>6, <1>7, <1>8, SocketsAssumption
<1>10. Members' = Members \ {c} /\ c \in Members
  BY <1>3, <1>6, <1>7, <1>9
<1>11. Pending = {} /\ UNCHANGED <<Pending, Current>>
  <2>1. out' = Quiet
    OBVIOUS
  <2>2. Pending' = {} /\ Current' = Quiet.msg
    BY <2>1, QuietFacts DEF Pending, Current
  <2> QED
    BY <2>2, NothingPending
<1> QED
  BY <1>3, <1>10, <1>11, ExitMaps

\* A message is taken up: the fds the send loop will go through.
LEMMA SendToMaps ==
  ASSUME PromiseInv, PromiseInv', out = Quiet, NEW m \in Messages, NEW to \in Seq(Fds), NEW ret,
         SendTo(m, to, ret), UNCHANGED <<conn, inbox>>,
         IF IsPublic(m) THEN ToSet(to) = Listed
                        ELSE to = <<>> \/ \E f \in Listed : ToSet(to) = {f}
  PROVE  Promise!Next \/ UNCHANGED Promise!chat
<1>1. TypeOK /\ TypeOK' /\ ListMatchesSockets /\ ListMatchesSockets'
  BY DEF PromiseInv, ServerInv
<1>2. Members' = Members
  <2>1. \A d : d \in Members <=> d \in Clients /\ \E f \in Fds : conn[f] = d
    BY <1>1, MembersAre
  <2>2. \A d : d \in Members' <=> d \in Clients /\ \E f \in Fds : conn'[f] = d
    BY <1>1, MembersNext
  <2> QED
    BY <2>1, <2>2
<1>3. out'.to = to /\ out'.msg = m /\ Pending = {} /\ Current = Quiet.msg
  BY NothingPending DEF SendTo
<1>4. Pending' = {conn[f] : f \in ToSet(to)}
  BY <1>3 DEF Pending
<1>5. ToSet(to) = {} <=> to = <<>>
  BY EmptyToSet
<1>6. CASE to = <<>>
  <2>1. Pending' = {} /\ Current' = Quiet.msg
    BY <1>3, <1>4, <1>5, <1>6 DEF Current
  <2> QED
    BY <1>2, <1>3, <2>1, StutterMaps
<1>7. CASE to # <<>>
  <2>1. Current' = m /\ Pending' # {}
    BY <1>3, <1>4, <1>5, <1>7 DEF Current
  <2>2. CASE IsPublic(m)
    <3>1. Pending' = Members
      BY <1>4, <2>2 DEF Members
    <3> QED
      BY <1>2, <1>3, <2>1, <2>2, <3>1, PublishMaps
  <2>3. CASE ~IsPublic(m)
    <3>1. PICK f \in Listed : ToSet(to) = {f}
      BY <1>7, <2>3
    <3>2. Pending' = {conn[f]} /\ conn[f] \in Members
      BY <1>4, <3>1 DEF Members
    <3> QED
      BY <1>2, <1>3, <2>1, <2>3, <3>2, PublishMaps
  <2> QED
    BY <2>2, <2>3
<1> QED
  BY <1>6, <1>7

LEMMA OneFd == \A f : ToSet(<<f>>) = {f}
BY DEF ToSet

LEMMA BroadcastMaps ==
  ASSUME PromiseInv, PromiseInv', CommandBroadcast
  PROVE  Promise!Next \/ UNCHANGED Promise!chat
<1> DEFINE m == Msg("BROADCAST", "server", "ALL", <<"server", ncmds>>)
<1>1. TypeOK /\ ListMatchesSockets /\ out = Quiet
  BY DEF PromiseInv, ServerInv, Sending, CommandBroadcast, ReadLine
<1>2. m \in Messages
  BY <1>1, MessagesOfServer DEF TypeOK, EnvTypes
<1>3. IsPublic(m)
  BY DEF IsPublic, Msg
<1>4. SendTo(m, FdsInOrder, "accept") /\ UNCHANGED <<conn, inbox>>
  BY DEF CommandBroadcast
<1>5. FdsInOrder \in Seq(Fds) /\ ToSet(FdsInOrder) = Listed
  BY <1>1, OrderDistinct
<1> HIDE DEF m
<1> QED
  BY <1>1, <1>2, <1>3, <1>4, <1>5, SendToMaps

\* The answers of handle_client_message(): to all, or to one, or to nobody.
LEMMA HandlerMaps ==
  ASSUME "system" \notin Names, PromiseInv, PromiseInv',
         HandleJoin \/ HandleBroadcast \/ HandlePrivate \/ HandleListUsers
  PROVE  Promise!Next \/ UNCHANGED Promise!chat
<1>1. /\ TypeOK /\ ListMatchesSockets /\ ServerInv
      /\ pc = "recv" /\ toServer[conn[cur]] # <<>>
  BY DEF PromiseInv, ServerInv, HandleJoin, HandleBroadcast, HandlePrivate, HandleListUsers,
     Incoming
<1>2. out = Quiet /\ UNCHANGED <<conn, inbox>>
  BY <1>1 DEF PromiseInv, Sending, HandleJoin, HandleBroadcast, HandlePrivate, HandleListUsers,
     ServerRead
<1>3. cur \in Listed /\ cur \in Fds /\ Received \in FromClient
  BY <1>1, ReceivedType
<1>4. out' \in [msg : Messages, to : Seq(Fds), ret : {"accept", "scan"}]
  BY DEF PromiseInv, ServerInv, TypeOK, SendTypes
<1>5. ASSUME NEW m, NEW to, SendTo(m, to, "scan"),
             IF IsPublic(m) THEN ToSet(to) = Listed
                            ELSE to = <<>> \/ \E f \in Listed : ToSet(to) = {f}
      PROVE  Promise!Next \/ UNCHANGED Promise!chat
  <2>1. m \in Messages /\ to \in Seq(Fds)
    BY <1>4, <1>5 DEF SendTo
  <2> QED
    BY <1>2, <1>5, <2>1, SendToMaps
<1>6. CASE HandleJoin
  <2> DEFINE m == Msg("BROADCAST", "system", Received.from, Received.body)
  <2>1. ~IsPublic(m)
    BY DEF IsPublic, Msg
  <2>2. SendTo(m, <<cur>>, "scan")
    BY <1>6 DEF HandleJoin
  <2> HIDE DEF m
  <2> QED
    BY <1>3, <1>5, <2>1, <2>2, OneFd
<1>7. CASE HandleListUsers
  <2>1. PICK users : SendTo(Msg("USER_LIST", "server", "", users), <<cur>>, "scan")
    BY <1>7 DEF HandleListUsers
  <2>2. ~IsPublic(Msg("USER_LIST", "server", "", users))
    BY DEF IsPublic, Msg
  <2> QED
    BY <1>3, <1>5, <2>1, <2>2, OneFd
<1>8. CASE HandleBroadcast
  <2>1. Received.type = "BROADCAST" /\ SendTo(Received, FdsInOrder, "scan")
    BY <1>8 DEF HandleBroadcast, Incoming, Received
  <2>2. Received.from # "system"
    BY <1>3 DEF FromClient
  <2>3. IsPublic(Received)
    BY <2>1, <2>2 DEF IsPublic
  <2>4. ToSet(FdsInOrder) = Listed
    BY <1>1, OrderDistinct
  <2> QED
    BY <1>5, <2>1, <2>3, <2>4
<1>9. CASE HandlePrivate
  <2>1. Received.type = "PRIVATE"
    BY <1>9 DEF HandlePrivate, Incoming, Received
  <2>2. ~IsPublic(Received)
    BY <2>1 DEF IsPublic
  <2>3. CASE SendTo(Received, <<>>, "scan")
    BY <1>5, <2>2, <2>3
  <2>4. ASSUME NEW i \in DOMAIN client_list, SendTo(Received, <<client_list[i].fd>>, "scan")
        PROVE  Promise!Next \/ UNCHANGED Promise!chat
    <3>1. client_list[i].fd \in Listed
      BY DEF Listed
    <3> QED
      BY <1>5, <2>2, <2>4, <3>1, OneFd
  <2> QED
    BY <1>9, <2>3, <2>4 DEF HandlePrivate, FirstNamed
<1> QED
  BY <1>6, <1>7, <1>8, <1>9

LEMMA SendOneMaps == ASSUME PromiseInv, PromiseInv', SendOne PROVE Promise!Next
<1>1. TypeOK /\ ListMatchesSockets /\ NoStaleFd /\ Connections /\ Sending
  BY DEF PromiseInv, ServerInv
<1>2. /\ pc = "send" /\ out.to # <<>> /\ out.to \in Seq(Fds)
      /\ ToSet(out.to) \subseteq Listed /\ Listed \subseteq Fds
  BY <1>1, EntryFds DEF SendOne, TypeOK, SendTypes, NoStaleFd
<1>3. /\ ToSet(Tail(out.to)) = ToSet(out.to) \ {Head(out.to)}
      /\ Tail(out.to) \in Seq(Fds) /\ Head(out.to) \in ToSet(out.to)
  BY <1>1, <1>2, TailOfDistinct, TailSubset DEF Sending
<1> DEFINE h == Head(out.to)
<1>4. \A f, g \in ToSet(out.to) : conn[f] = conn[g] => f = g
  <2>1. \A f \in ToSet(out.to) : f \in Fds /\ conn[f] # NoClient
    BY <1>1, <1>2, SocketsAssumption, ListedIsOpen
  <2> QED
    BY <1>1, <2>1 DEF Connections
<1>5. /\ out'.to = Tail(out.to) /\ out'.msg = out.msg
      /\ UNCHANGED <<conn, client_list>>
      /\ inbox' = [inbox EXCEPT ![Target] = Append(@, out.msg)]
  BY <1>1 DEF SendOne, ServerWrite, TypeOK, SendTypes
<1>6. Target = conn[h] /\ conn[h] \in Clients /\ conn[h] \in Pending
  BY <1>1, <1>2, <1>3, ListedIsOpen DEF Target, Pending
<1>7. Pending' = {conn[f] : f \in ToSet(out.to) \ {h}}
  BY <1>3, <1>5 DEF Pending
<1> HIDE DEF h
<1>8. Pending' = Pending \ {conn[h]}
  BY <1>3, <1>4, <1>7 DEF Pending, h
<1>9. Current = out.msg /\ Members' = Members
  BY <1>2, <1>5 DEF Current, Members, Listed
<1>10. Current' = IF Pending' = {} THEN Quiet.msg ELSE Current
  <2>1. Pending' = {} <=> ToSet(Tail(out.to)) = {}
    BY <1>3, <1>7 DEF h
  <2>2. ToSet(Tail(out.to)) = {} <=> Tail(out.to) = <<>>
    BY <1>3, EmptyToSet
  <2>3. Current' = IF Tail(out.to) = <<>> THEN Quiet.msg ELSE out.msg
    BY <1>5 DEF Current
  <2> QED
    BY <1>9, <2>1, <2>2, <2>3
<1>11. inbox' = [inbox EXCEPT ![conn[h]] = Append(@, Current)]
  BY <1>5, <1>6, <1>9
<1> QED
  BY <1>6, <1>8, <1>9, <1>10, <1>11, DeliverMaps

\* cleanup(), and the end by SIGPIPE.
LEMMA EndMaps == ASSUME PromiseInv, Cleanup \/ SendKilled PROVE Promise!Next
<1>1. out' = Quiet /\ client_list' = <<>> /\ inbox' = inbox
  BY DEF PromiseInv, Sending, Cleanup, SendKilled
<1>2. Members' = {}
  BY <1>1 DEF Members, Listed
<1>3. Pending' = {} /\ Current' = Quiet.msg
  BY <1>1, QuietFacts DEF Pending, Current
<1> QED
  BY <1>1, <1>2, <1>3, StopMaps

LEMMA StepMaps ==
  ASSUME "system" \notin Names, PromiseInv, PromiseInv', [Next]_vars
  PROVE  [Promise!Next]_(Promise!chat)
<1>1. ASSUME UNCHANGED <<conn, client_list, out, inbox>> PROVE UNCHANGED Promise!chat
  <2>1. UNCHANGED <<Members, Pending, Current>>
    BY <1>1 DEF Members, Pending, Current, Listed
  <2> QED
    BY <1>1, <2>1, StutterMaps
<1>2. CASE LoopTest \/ Select \/ NoInput \/ CommandPrints \/ CommandShutdown \/ ConsoleEof
             \/ NoConnection \/ AcceptFails \/ ScanFinds \/ ScanDone \/ AcceptNoMemory
  BY <1>1, <1>2 DEF LoopTest, Select, NoInput, CommandPrints, CommandShutdown, ConsoleEof,
     NoConnection, AcceptFails, ScanFinds, ScanDone, AcceptNoMemory, AcceptAndClose
<1>3. CASE Sigint \/ OperatorTypes \/ UNCHANGED vars
  BY <1>1, <1>3 DEF Sigint, OperatorTypes
<1>4. ASSUME NEW c \in Clients, EnvWrite(c) \/ EnvSocket(c) \/ EnvClose(c)
      PROVE  UNCHANGED Promise!chat
  BY <1>1, <1>4 DEF EnvWrite, EnvSocket, EnvClose, ClientWrite, Connect, ConnectRefused,
     ClientRead, ClientClose
<1>5. CASE CommandBroadcast
  BY <1>5, BroadcastMaps
<1>6. CASE HandleJoin \/ HandleBroadcast \/ HandlePrivate \/ HandleListUsers
  BY <1>6, HandlerMaps
<1>7. CASE AcceptClient
  BY <1>7, AcceptMaps
<1>8. CASE CommandKick \/ HandleLeave \/ HandleDisconnect
  <2>1. out = Quiet /\ out' = out /\ inbox' = inbox
    BY <1>8 DEF PromiseInv, Sending, CommandKick, HandleLeave, HandleDisconnect, Incoming,
       ReadLine
  <2>2. CASE \E i \in DOMAIN client_list : RemoveEntry(i)
    BY <2>1, <2>2, RemovalMaps
  <2>3. CASE CommandKick /\ UNCHANGED <<sockVars, listVars>>
    BY <1>1, <2>1, <2>3
  <2> QED
    BY <1>8, <2>2, <2>3 DEF CommandKick, HandleLeave, HandleDisconnect, FirstWithFd, FirstNamed
<1>9. CASE Cleanup \/ SendKilled
  BY <1>9, EndMaps
<1>10. CASE SendOne
  BY <1>10, SendOneMaps
<1>11. CASE SendDone
  <2>1. /\ out.to = <<>> /\ out' = Quiet /\ UNCHANGED <<conn, client_list, inbox>>
    BY <1>11 DEF SendDone
  <2>2. Pending = {} /\ Current = Quiet.msg
    BY <2>1, QuietFacts DEF Pending, Current
  <2>3. Pending' = {} /\ Current' = Quiet.msg
    BY <2>1, QuietFacts DEF Pending, Current
  <2>4. Members' = Members
    BY <2>1 DEF Members, Listed
  <2> QED
    BY <2>1, <2>2, <2>3, <2>4, StutterMaps
<1> QED
  BY <1>2, <1>3, <1>4, <1>5, <1>6, <1>7, <1>8, <1>9, <1>10, <1>11 DEF Next, ServerNext, Env

\* The select() loop, with its one write at a time, its descriptors and its
\* re-scans, implements the group chat: an audience fixed when a message is
\* taken up, one delivery to each, and no second message in between.  (A user
\* named "system" would make his broadcasts look like welcomes.)
THEOREM GroupChatImplemented ==
  ASSUME "system" \notin Names
  PROVE  Spec => ImplementsGroupChat
<1>1. PromiseInv /\ PromiseInv' /\ [Next]_vars => [Promise!Next]_(Promise!chat)
  BY StepMaps
<1>2. Promise!Init /\ [][Promise!Next]_(Promise!chat) => ImplementsGroupChat
  BY DEF ImplementsGroupChat, Promise!Spec
<1> QED
  BY <1>1, <1>2, InitMaps, PromiseInductive, PTL DEF Spec

-----------------------------------------------------------------------------
(* What the server has written to its clients: the order in which each of  *)
(* them is told things, the order all of them agree on, and who sees a     *)
(* private message.                                                        *)

\* A message in c's stream is c's own, and c has counted it.
Own(c, m, count) ==
  /\ m.body[1] = c /\ m.body[2] < count /\ m.from = NameOf[c]
  /\ m.type = "JOIN" <=> m.body[2] = 0

\* A stream holds the numbers of its client in ascending order.
Streams ==
  \A c \in Clients : \A i \in DOMAIN toServer[c] :
    /\ Own(c, toServer[c][i], nsent[c])
    /\ \A j \in DOMAIN toServer[c] : i < j => toServer[c][i].body[2] < toServer[c][j].body[2]

\* The numbers of the messages in a stream.
Numbers(s) == {s[i].body[2] : i \in DOMAIN s}

\* What the author of m may still say has a higher number than m.
Settled(m) ==
  /\ m.body[1] \in Clients \cup {"server"} /\ m.body[2] \in Nat
  /\ m.body[1] \in Clients =>
       /\ m.body[2] < nsent[m.body[1]]
       /\ \A n \in Numbers(toServer[m.body[1]]) : m.body[2] < n
  /\ m.body[1] = "server" =>
       m.body[2] <= ncmds /\ (console.cmd = "broadcast" => m.body[2] < ncmds)

Written    == {out.msg} \cup UNION {ToSet(inbox[c]) : c \in Clients}
AllSettled == \A m \in Written : IsChat(m) => Settled(m)

\* n is an earlier message of the author of m.
Before(n, m) ==
  IsChat(n) /\ IsChat(m) /\ n.body[1] = m.body[1] => n.body[2] < m.body[2]

\* Whoever waits for the message on its way has seen only earlier ones.
Fresh ==
  \A fd \in ToSet(out.to) : \A n \in ToSet(inbox[conn[fd]]) : Before(n, out.msg)

\* Whoever has got the broadcast on its way got no other one after it.
NoneSince ==
  IsPublic(out.msg) =>
    \A d \in Clients : \A k, l \in DOMAIN inbox[d] :
      k < l /\ inbox[d][k] = out.msg => ~IsPublic(inbox[d][l])

\* c has been told that it is in; or the message that says so is on its way.
Welcomed(c) == \E m \in ToSet(inbox[c]) : IsWelcome(c, m)
Greets(c)   == \E fd \in ToSet(out.to) : conn[fd] = c /\ IsWelcome(c, out.msg)

KnownAs(c)  == IF Welcomed(c) THEN NameOf[c] ELSE Unknown
ListName(c) == IF Welcomed(c) \/ Greets(c) THEN NameOf[c] ELSE Unknown

\* The name on the list is the name of the client behind the descriptor from
\* the answer to its MSG_JOIN on, and "unknown" until then.
NamesOnList ==
  \A i \in DOMAIN client_list :
    client_list[i].username = ListName(conn[client_list[i].fd])

\* Who has not been accepted has not been written to.
Unserved == \A c \in Clients : peer[c] = "new" \/ InBacklog(c) => inbox[c] = <<>>

\* A private message on its way has one target, which goes by the name asked
\* for, and nobody has got it.
OneTarget ==
  IsDirect(out.msg) /\ out.to # <<>> =>
    /\ Tail(out.to) = <<>> /\ KnownAs(conn[Head(out.to)]) = out.msg.to
    /\ \A d \in Clients : out.msg \notin ToSet(inbox[d])

Order   == Streams /\ AllSettled /\ Fresh
History == /\ PromiseInv /\ Order /\ NoneSince /\ NamesOnList /\ Unserved /\ OneTarget
           /\ InSenderOrder /\ TotalOrder /\ PrivateToAddressee

-----------------------------------------------------------------------------
(* The streams towards the server.                                         *)

LEMMA AppendElements ==
  ASSUME NEW S, NEW s \in Seq(S), NEW x \in S
  PROVE  /\ Append(s, x) \in Seq(S) /\ Len(s) \in Nat
         /\ DOMAIN s = 1..Len(s) /\ DOMAIN Append(s, x) = 1..(Len(s) + 1)
         /\ \A i \in 1..Len(s) : Append(s, x)[i] = s[i]
         /\ Append(s, x)[Len(s) + 1] = x
         /\ ToSet(Append(s, x)) = ToSet(s) \cup {x}
<1>1. /\ Append(s, x) \in Seq(S) /\ Len(s) \in Nat /\ Len(Append(s, x)) = Len(s) + 1
      /\ \A i \in 1..Len(s) : Append(s, x)[i] = s[i]
      /\ Append(s, x)[Len(s) + 1] = x
  BY AppendProperties
<1>2. DOMAIN s = 1..Len(s) /\ DOMAIN Append(s, x) = 1..(Len(s) + 1)
  BY <1>1, LenProperties
<1>3. \A i \in 1..(Len(s) + 1) : i \in 1..Len(s) \/ i = Len(s) + 1
  BY <1>1
<1>4. ToSet(Append(s, x)) \subseteq ToSet(s) \cup {x}
  BY <1>1, <1>2, <1>3 DEF ToSet
<1>5. \A i \in 1..Len(s) : i \in 1..(Len(s) + 1)
  BY <1>1
<1>6. Len(s) + 1 \in 1..(Len(s) + 1)
  BY <1>1
<1>7. ToSet(s) \cup {x} \subseteq ToSet(Append(s, x))
  BY <1>1, <1>2, <1>5, <1>6 DEF ToSet
<1> QED
  BY <1>1, <1>2, <1>4, <1>7

LEMMA StreamElements ==
  ASSUME TypeOK, NEW c \in Clients
  PROVE  /\ toServer[c] \in Seq(FromClient) /\ Len(toServer[c]) \in Nat
         /\ DOMAIN toServer[c] = 1..Len(toServer[c])
         /\ \A i \in DOMAIN toServer[c] : /\ toServer[c][i] \in FromClient
                                          /\ toServer[c][i].body[2] \in Nat
<1>1. toServer[c] \in Seq(FromClient)
  BY DEF TypeOK, SocketTypes
<1>2. DOMAIN toServer[c] = 1..Len(toServer[c]) /\ Len(toServer[c]) \in Nat
  BY <1>1, LenProperties
<1>3. \A i \in DOMAIN toServer[c] : toServer[c][i] \in FromClient
  BY <1>1, <1>2, ElementOfSeq
<1>4. \A m \in FromClient : m.body[2] \in Nat
  BY DEF FromClient
<1> QED
  BY <1>1, <1>2, <1>3, <1>4

\* Messages are taken from the front of a stream, or all of them are lost.
Shrinks ==
  /\ nsent' = nsent
  /\ \A c \in Clients : \/ toServer'[c] = toServer[c]
                          \/ toServer'[c] = <<>>
                          \/ (toServer[c] # <<>> /\ toServer'[c] = Tail(toServer[c]))

LEMMA TailElements ==
  ASSUME NEW S, NEW s \in Seq(S), s # <<>>
  PROVE  /\ DOMAIN s = 1..Len(s) /\ Len(s) \in Nat
         /\ DOMAIN Tail(s) = 1..(Len(s) - 1)
         /\ \A i \in 1..(Len(s) - 1) : i + 1 \in 1..Len(s) /\ Tail(s)[i] = s[i + 1]
<1>1. /\ Tail(s) \in Seq(S) /\ Len(Tail(s)) = Len(s) - 1 /\ Len(s) \in Nat \ {0}
      /\ \A k \in 1..Len(Tail(s)) : Tail(s)[k] = s[k + 1]
  BY HeadTailProperties
<1>2. DOMAIN s = 1..Len(s) /\ DOMAIN Tail(s) = 1..(Len(s) - 1)
  BY <1>1, LenProperties
<1> QED
  BY <1>1, <1>2

LEMMA ShrinkStreams ==
  ASSUME TypeOK, Streams, Shrinks
  PROVE  /\ Streams'
         /\ \A c \in Clients : Numbers(toServer'[c]) \subseteq Numbers(toServer[c])
<1> SUFFICES ASSUME NEW c \in Clients
             PROVE  /\ \A i \in DOMAIN toServer'[c] :
                         /\ Own(c, toServer'[c][i], nsent'[c])
                         /\ \A j \in DOMAIN toServer'[c] :
                              i < j => toServer'[c][i].body[2] < toServer'[c][j].body[2]
                    /\ Numbers(toServer'[c]) \subseteq Numbers(toServer[c])
  BY DEF Streams
<1>1. toServer[c] \in Seq(FromClient)
  BY StreamElements
<1>2. nsent' = nsent
  BY DEF Shrinks
<1>3. \A i \in DOMAIN toServer[c] :
        /\ Own(c, toServer[c][i], nsent[c])
        /\ \A j \in DOMAIN toServer[c] : i < j => toServer[c][i].body[2] < toServer[c][j].body[2]
  BY DEF Streams
<1>4. CASE toServer'[c] = toServer[c]
  BY <1>2, <1>3, <1>4 DEF Own
<1>5. CASE toServer'[c] = <<>>
  BY <1>5 DEF Numbers
<1>6. CASE toServer'[c] = Tail(toServer[c]) /\ toServer[c] # <<>>
  <2> DEFINE n == Len(toServer[c])
  <2>1. /\ DOMAIN toServer[c] = 1..n /\ n \in Nat /\ DOMAIN toServer'[c] = 1..(n - 1)
        /\ \A i \in 1..(n - 1) : i + 1 \in 1..n /\ toServer'[c][i] = toServer[c][i + 1]
    BY <1>1, <1>6, TailElements
  <2> HIDE DEF n
  <2>3. \A i \in DOMAIN toServer'[c] : Own(c, toServer'[c][i], nsent'[c])
    <3> SUFFICES ASSUME NEW i \in 1..(n - 1) PROVE Own(c, toServer'[c][i], nsent'[c])
      BY <2>1
    <3>1. Own(c, toServer[c][i + 1], nsent[c])
      BY <1>3, <2>1
    <3> QED
      BY <1>2, <2>1, <3>1
  <2>4. \A i, j \in DOMAIN toServer'[c] :
          i < j => toServer'[c][i].body[2] < toServer'[c][j].body[2]
    <3> SUFFICES ASSUME NEW i \in 1..(n - 1), NEW j \in 1..(n - 1), i < j
                 PROVE  toServer'[c][i].body[2] < toServer'[c][j].body[2]
      BY <2>1
    <3>1. i + 1 < j + 1 /\ i + 1 \in DOMAIN toServer[c] /\ j + 1 \in DOMAIN toServer[c]
      BY <2>1
    <3>2. toServer[c][i + 1].body[2] < toServer[c][j + 1].body[2]
      BY <1>3, <3>1
    <3>3. toServer'[c][i] = toServer[c][i + 1] /\ toServer'[c][j] = toServer[c][j + 1]
      BY <2>1
    <3> QED
      BY <3>2, <3>3, Zenon
  <2>5. Numbers(toServer'[c]) \subseteq Numbers(toServer[c])
    <3> SUFFICES ASSUME NEW i \in 1..(n - 1)
                 PROVE  toServer'[c][i].body[2] \in Numbers(toServer[c])
      BY <2>1 DEF Numbers
    <3>1. toServer'[c][i] = toServer[c][i + 1] /\ i + 1 \in DOMAIN toServer[c]
      BY <2>1
    <3> QED
      BY <3>1 DEF Numbers
  <2> QED
    BY <2>3, <2>4, <2>5
<1> QED
  BY <1>4, <1>5, <1>6 DEF Shrinks

\* A client appends its next message.
LEMMA WriteStreams ==
  ASSUME TypeOK, TypeOK', Streams, NEW c \in Clients, EnvWrite(c)
  PROVE  /\ Streams'
         /\ \A d \in Clients : /\ nsent'[d] >= nsent[d]
                               /\ Numbers(toServer'[d]) \subseteq Numbers(toServer[d]) \cup {nsent[d]}
                               /\ d # c => toServer'[d] = toServer[d]
         /\ nsent'[c] = nsent[c] + 1
<1>1. PICK m \in NextMessages(c) : ClientWrite(c, m)
  BY DEF EnvWrite
<1> DEFINE s == toServer[c]
           n == Len(s)
<1>2. nsent \in [Clients -> Nat] /\ toServer \in [Clients -> Seq(FromClient)]
  BY DEF TypeOK, SocketTypes
<1>3. /\ m.body = <<c, nsent[c]>> /\ m.from = NameOf[c]
      /\ m.type = "JOIN" <=> nsent[c] = 0
  <2> DEFINE body == <<c, nsent[c]>>
  <2>1. ASSUME NEW type, NEW to, m = Msg(type, NameOf[c], to, body)
        PROVE  m.body = body /\ m.from = NameOf[c] /\ m.type = type /\ m.to = to
    BY <2>1 DEF Msg
  <2>2. \/ nsent[c] = 0 /\ m = Msg("JOIN", NameOf[c], "", body)
        \/ /\ nsent[c] # 0
           /\ \/ m \in {Msg(t, NameOf[c], "", body) : t \in {"LIST_USERS", "LEAVE"}}
              \/ m = Msg("BROADCAST", NameOf[c], "ALL", body)
              \/ m \in {Msg("PRIVATE", NameOf[c], to, body) : to \in Names \cup {Unknown}}
    BY <1>1 DEF NextMessages
  <2> HIDE DEF body
  <2>3. \/ nsent[c] = 0 /\ m = Msg("JOIN", NameOf[c], "", body)
        \/ nsent[c] # 0 /\ \E type, to : type # "JOIN" /\ m = Msg(type, NameOf[c], to, body)
    BY <2>2
  <2>4. /\ m.body = body /\ m.from = NameOf[c]
        /\ m.type = "JOIN" <=> nsent[c] = 0
    BY <2>1, <2>3
  <2> QED
    BY <2>4 DEF body
<1>4. /\ toServer' = [toServer EXCEPT ![c] = Append(s, m)]
      /\ nsent' = [nsent EXCEPT ![c] = @ + 1]
  BY <1>1 DEF ClientWrite
<1>5. /\ nsent'[c] = nsent[c] + 1 /\ toServer'[c] = Append(s, m) /\ nsent[c] \in Nat
      /\ \A d \in Clients \ {c} : nsent'[d] = nsent[d] /\ toServer'[d] = toServer[d]
  BY <1>2, <1>4
<1>6. m \in FromClient
  <2>1. toServer'[c] \in Seq(FromClient) /\ s \in Seq(FromClient)
    BY <1>2 DEF TypeOK, SocketTypes
  <2>2. Len(s) + 1 \in 1..Len(Append(s, m)) /\ Append(s, m)[Len(s) + 1] = m
    BY <2>1, AppendProperties
  <2>3. m \in FromClient
    BY <1>5, <2>1, <2>2, ElementOfSeq
  <2> QED
    BY <2>3
<1>7. s \in Seq(FromClient)
  BY <1>2
<1> HIDE DEF s
<1>8. /\ n \in Nat /\ DOMAIN s = 1..n /\ DOMAIN toServer'[c] = 1..(n + 1)
      /\ \A i \in 1..n : toServer'[c][i] = s[i]
      /\ toServer'[c][n + 1] = m
  BY <1>5, <1>6, <1>7, AppendElements
<1> HIDE DEF n
<1>9. \A i \in 1..n : /\ Own(c, s[i], nsent[c]) /\ s[i].body[2] \in Nat
                      /\ \A j \in 1..n : i < j => s[i].body[2] < s[j].body[2]
  BY <1>8, StreamElements DEF Streams, s
<1>10. \A i \in 1..(n + 1) : Own(c, toServer'[c][i], nsent'[c])
  <2>1. ASSUME NEW i \in 1..n PROVE Own(c, toServer'[c][i], nsent'[c])
    <3>1. Own(c, s[i], nsent[c]) /\ s[i].body[2] \in Nat /\ toServer'[c][i] = s[i]
      BY <1>8, <1>9
    <3> QED
      BY <1>5, <3>1 DEF Own
  <2>2. Own(c, toServer'[c][n + 1], nsent'[c])
    <3>1. m.body[1] = c /\ m.body[2] = nsent[c]
      BY <1>3
    <3> QED
      BY <1>3, <1>5, <1>8, <3>1 DEF Own
  <2>3. \A i \in 1..(n + 1) : i \in 1..n \/ i = n + 1
    BY <1>8
  <2> QED
    BY <2>1, <2>2, <2>3
<1>11. \A i, j \in 1..(n + 1) : i < j => toServer'[c][i].body[2] < toServer'[c][j].body[2]
  <2> SUFFICES ASSUME NEW i \in 1..(n + 1), NEW j \in 1..(n + 1), i < j
               PROVE  toServer'[c][i].body[2] < toServer'[c][j].body[2]
    OBVIOUS
  <2>1. i \in 1..n /\ (j \in 1..n \/ j = n + 1)
    BY <1>8
  <2>2. CASE j \in 1..n
    BY <1>8, <1>9, <2>1, <2>2
  <2>3. CASE j = n + 1
    <3>1. s[i].body[2] < nsent[c] /\ toServer'[c][i] = s[i]
      BY <1>8, <1>9, <2>1 DEF Own
    <3>2. toServer'[c][j].body[2] = nsent[c]
      BY <1>3, <1>8, <2>3
    <3> QED
      BY <3>1, <3>2
  <2> QED
    BY <2>1, <2>2, <2>3
<1>12. Numbers(toServer'[c]) \subseteq Numbers(toServer[c]) \cup {nsent[c]}
  <2> SUFFICES ASSUME NEW i \in 1..(n + 1)
               PROVE  toServer'[c][i].body[2] \in Numbers(s) \cup {nsent[c]}
    BY <1>8 DEF Numbers, s
  <2>1. i \in 1..n \/ i = n + 1
    BY <1>8
  <2>2. CASE i \in 1..n
    BY <1>8, <2>2 DEF Numbers
  <2>3. CASE i = n + 1
    BY <1>3, <1>8, <2>3
  <2> QED
    BY <2>1, <2>2, <2>3
<1>13. Streams'
  <2> SUFFICES ASSUME NEW d \in Clients
               PROVE  \A i \in DOMAIN toServer'[d] :
                        /\ Own(d, toServer'[d][i], nsent'[d])
                        /\ \A j \in DOMAIN toServer'[d] :
                             i < j => toServer'[d][i].body[2] < toServer'[d][j].body[2]
    BY DEF Streams
  <2>1. CASE d = c
    BY <1>8, <1>10, <1>11, <2>1
  <2>2. CASE d # c
    BY <1>5, <2>2 DEF Streams
  <2> QED
    BY <2>1, <2>2
<1>14. \A d \in Clients : /\ nsent'[d] >= nsent[d]
                          /\ Numbers(toServer'[d]) \subseteq Numbers(toServer[d]) \cup {nsent[d]}
                          /\ d # c => toServer'[d] = toServer[d]
  <2> SUFFICES ASSUME NEW d \in Clients
               PROVE  /\ nsent'[d] >= nsent[d]
                      /\ Numbers(toServer'[d]) \subseteq Numbers(toServer[d]) \cup {nsent[d]}
                      /\ d # c => toServer'[d] = toServer[d]
    OBVIOUS
  <2>1. nsent[d] \in Nat
    BY <1>2
  <2>2. CASE d = c
    <3>1. nsent'[c] >= nsent[c]
      BY <1>5
    <3> QED
      BY <1>12, <2>2, <3>1
  <2>3. CASE d # c
    BY <1>5, <2>1, <2>3
  <2> QED
    BY <2>2, <2>3
<1> QED
  BY <1>5, <1>13, <1>14

LEMMA ServerShrinks ==
  ASSUME PromiseInv, [Next]_vars, \A c \in Clients : ~EnvWrite(c)
  PROVE  Shrinks
<1>1. TypeOK /\ NoStaleFd /\ ServerInv
  BY DEF PromiseInv, ServerInv
<1>2. CASE UNCHANGED <<toServer, nsent>>
  BY <1>2 DEF Shrinks
<1>3. CASE \/ LoopTest \/ Select \/ NoInput \/ CommandPrints \/ CommandShutdown \/ ConsoleEof
           \/ NoConnection \/ AcceptFails \/ ScanFinds \/ ScanDone \/ CommandBroadcast
           \/ AcceptClient \/ SendOne \/ SendDone \/ Sigint \/ OperatorTypes \/ UNCHANGED vars
  BY <1>2, <1>3 DEF LoopTest, Select, NoInput, CommandPrints, CommandShutdown, ConsoleEof,
     NoConnection, AcceptFails, ScanFinds, ScanDone, CommandBroadcast, AcceptClient, Accept,
     SendOne, ServerWrite, SendDone, Sigint, OperatorTypes
<1>4. ASSUME NEW c \in Clients, EnvSocket(c) \/ EnvClose(c) PROVE Shrinks
  BY <1>2, <1>4 DEF EnvSocket, EnvClose, Connect, ConnectRefused, ClientRead, ClientClose
<1>5. toServer \in [Clients -> Seq(FromClient)]
  BY <1>1 DEF TypeOK, SocketTypes
<1>6. ASSUME NEW c, toServer' = [toServer EXCEPT ![c] = <<>>], nsent' = nsent PROVE Shrinks
  <2>1. \A d \in Clients : toServer'[d] \in {toServer[d], <<>>}
    BY <1>5, <1>6
  <2> QED
    BY <1>6, <2>1 DEF Shrinks
<1>7. CASE AcceptNoMemory
  BY <1>6, <1>7 DEF AcceptNoMemory, AcceptAndClose
<1>8. CASE CommandKick \/ HandleLeave \/ HandleDisconnect
  BY <1>2, <1>6, <1>8 DEF CommandKick, HandleLeave, HandleDisconnect, RemoveEntry, ServerClose
<1>9. CASE HandleJoin \/ HandleBroadcast \/ HandlePrivate \/ HandleListUsers
  <2>1. /\ toServer' = [toServer EXCEPT ![conn[cur]] = Tail(@)] /\ nsent' = nsent
        /\ toServer[conn[cur]] # <<>> /\ pc = "recv"
    BY <1>9 DEF HandleJoin, HandleBroadcast, HandlePrivate, HandleListUsers, ServerRead, Incoming
  <2>2. conn[cur] \in Clients
    BY <1>1, <2>1, ReceivedType
  <2>3. \A d \in Clients : IF d = conn[cur] THEN toServer'[d] = Tail(toServer[d])
                                            ELSE toServer'[d] = toServer[d]
    BY <1>5, <2>1, <2>2
  <2> QED
    BY <2>1, <2>3 DEF Shrinks
<1>10. CASE Cleanup \/ SendKilled
  <2>1. toServer' = [c \in Clients |-> <<>>] /\ nsent' = nsent
    BY <1>10 DEF Cleanup, SendKilled, CloseAll
  <2> QED
    BY <2>1 DEF Shrinks
<1> QED
  BY <1>3, <1>4, <1>7, <1>8, <1>9, <1>10 DEF Next, ServerNext, Env

-----------------------------------------------------------------------------
(* What has been written stays behind what is still to come.               *)

LEMMA ConsoleStep ==
  ASSUME TypeOK, [Next]_vars
  PROVE  \/ ncmds' = ncmds /\ console' \in {console, NoLine}
         \/ ncmds' = ncmds + 1 /\ ncmds \in Nat
<1>1. ncmds \in Nat
  BY DEF TypeOK, EnvTypes
<1>2. CASE LoopTest \/ Select \/ NoInput \/ CommandPrints \/ CommandShutdown \/ ConsoleEof
             \/ NoConnection \/ AcceptFails \/ ScanFinds \/ ScanDone \/ CommandBroadcast
             \/ CommandKick
  BY <1>2 DEF LoopTest, Select, NoInput, CommandPrints, CommandShutdown, ConsoleEof,
     NoConnection, AcceptFails, ScanFinds, ScanDone, CommandBroadcast, CommandKick
<1>3. CASE AcceptClient \/ AcceptNoMemory \/ Cleanup \/ SendOne \/ SendKilled \/ SendDone
             \/ HandleLeave \/ HandleDisconnect
  BY <1>3 DEF AcceptClient, AcceptNoMemory, Cleanup, SendOne, SendKilled, SendDone,
     HandleLeave, HandleDisconnect
<1>4. CASE HandleJoin \/ HandleBroadcast \/ HandlePrivate \/ HandleListUsers
  BY <1>4 DEF HandleJoin, HandleBroadcast, HandlePrivate, HandleListUsers
<1>5. CASE Sigint \/ UNCHANGED vars
  BY <1>5 DEF Sigint
<1>6. CASE Env
  BY <1>1, <1>6 DEF Env, OperatorTypes, EnvWrite, EnvSocket, EnvClose
<1> QED
  BY <1>2, <1>3, <1>4, <1>5, <1>6 DEF Next, ServerNext

LEMMA SettledKept ==
  ASSUME PromiseInv, PromiseInv', Streams, [Next]_vars, NEW m, Settled(m)
  PROVE  Settled(m)'
<1>1. TypeOK /\ TypeOK'
  BY DEF PromiseInv, ServerInv
<1>2. m.body[1] \in Clients \cup {"server"} /\ m.body[2] \in Nat
  BY DEF Settled
<1>3. ASSUME NEW c \in Clients, m.body[1] = c
      PROVE  m.body[2] < nsent'[c] /\ \A n \in Numbers(toServer'[c]) : m.body[2] < n
  <2>1. /\ m.body[2] < nsent[c] /\ nsent[c] \in Nat /\ nsent'[c] \in Nat
        /\ \A n \in Numbers(toServer[c]) : m.body[2] < n
    BY <1>1, <1>3 DEF Settled, TypeOK, SocketTypes
  <2>2. CASE \E d \in Clients : EnvWrite(d)
    <3>1. nsent'[c] >= nsent[c]
          /\ Numbers(toServer'[c]) \subseteq Numbers(toServer[c]) \cup {nsent[c]}
      BY <1>1, <2>2, WriteStreams
    <3> QED
      BY <1>2, <2>1, <3>1
  <2>3. CASE \A d \in Clients : ~EnvWrite(d)
    <3>1. Shrinks
      BY <2>3, ServerShrinks
    <3>2. nsent' = nsent /\ Numbers(toServer'[c]) \subseteq Numbers(toServer[c])
      BY <1>1, <3>1, ShrinkStreams DEF Shrinks
    <3> QED
      BY <2>1, <3>2
  <2> QED
    BY <2>2, <2>3
<1>4. ASSUME m.body[1] = "server"
      PROVE  m.body[2] <= ncmds' /\ (console'.cmd = "broadcast" => m.body[2] < ncmds')
  <2>1. m.body[2] <= ncmds /\ (console.cmd = "broadcast" => m.body[2] < ncmds) /\ ncmds \in Nat
    BY <1>1, <1>4 DEF Settled, TypeOK, EnvTypes
  <2>2. CASE ncmds' = ncmds /\ console' \in {console, NoLine}
    BY <2>1, <2>2 DEF NoLine
  <2>3. CASE ncmds' = ncmds + 1
    BY <1>2, <2>1, <2>3
  <2> QED
    BY <1>1, <2>2, <2>3, ConsoleStep
<1> QED
  BY <1>2, <1>3, <1>4 DEF Settled

LEMMA StreamsStep ==
  ASSUME PromiseInv, PromiseInv', Streams, [Next]_vars
  PROVE  Streams'
<1>1. TypeOK /\ TypeOK'
  BY DEF PromiseInv, ServerInv
<1>2. CASE \E d \in Clients : EnvWrite(d)
  BY <1>1, <1>2, WriteStreams
<1>3. CASE \A d \in Clients : ~EnvWrite(d)
  BY <1>1, <1>3, ServerShrinks, ShrinkStreams
<1> QED
  BY <1>2, <1>3

\* What the server reads next is later than what it has written.
LEMMA ReceivedIsNew ==
  ASSUME PromiseInv, Streams, pc = "recv", ServerRead(cur), NEW m, m.body = Received.body
  PROVE  /\ \E c \in Clients :
              /\ m.body[1] = c /\ m.body[2] \in Nat /\ m.body[2] < nsent'[c]
              /\ \A n \in Numbers(toServer'[c]) : m.body[2] < n
         /\ \A x : IsChat(x) /\ Settled(x) => Before(x, m)
         /\ conn[cur] \in Clients
         /\ Received.from = NameOf[conn[cur]] /\ Received.body[1] = conn[cur]
         /\ Received.type = "JOIN" <=> Received.body[2] = 0
<1>1. TypeOK /\ ServerInv
  BY DEF PromiseInv, ServerInv
<1> DEFINE c == conn[cur]
           s == toServer[c]
<1>2. c \in Clients /\ s # <<>> /\ Received = Head(s)
  BY <1>1, ReceivedType DEF ServerRead, Received
<1>3. toServer \in [Clients -> Seq(FromClient)] /\ s \in Seq(FromClient)
  BY <1>1, <1>2 DEF TypeOK, SocketTypes
<1>4. toServer' = [toServer EXCEPT ![c] = Tail(@)] /\ nsent' = nsent
  BY DEF ServerRead
<1>5. toServer'[c] = Tail(s)
  BY <1>2, <1>3, <1>4
<1>6. \A i \in DOMAIN s : /\ Own(c, s[i], nsent[c]) /\ s[i].body[2] \in Nat
                          /\ \A j \in DOMAIN s : i < j => s[i].body[2] < s[j].body[2]
  BY <1>1, <1>2, StreamElements DEF Streams
<1> HIDE DEF s, c
<1>7. Received = s[1] /\ Len(s) \in Nat \ {0}
  BY <1>2, <1>3, HeadTailProperties, EmptySeq
<1>8. /\ DOMAIN s = 1..Len(s) /\ DOMAIN Tail(s) = 1..(Len(s) - 1)
      /\ \A i \in 1..(Len(s) - 1) : i + 1 \in 1..Len(s) /\ Tail(s)[i] = s[i + 1]
  BY <1>2, <1>3, TailElements
<1>9. 1 \in DOMAIN s
  BY <1>7, <1>8
<1>10. Own(c, s[1], nsent[c]) /\ s[1].body[2] \in Nat
  BY <1>6, <1>9
<1>11. m.body[1] = c /\ m.body[2] \in Nat /\ m.body[2] < nsent'[c]
  BY <1>4, <1>7, <1>10 DEF Own
<1>12. \A n \in Numbers(toServer'[c]) : m.body[2] < n
  <2> SUFFICES ASSUME NEW i \in 1..(Len(s) - 1) PROVE m.body[2] < Tail(s)[i].body[2]
    BY <1>5, <1>8 DEF Numbers
  <2>1. i + 1 \in DOMAIN s /\ 1 < i + 1 /\ Tail(s)[i] = s[i + 1]
    BY <1>7, <1>8
  <2>2. s[1].body[2] < s[i + 1].body[2]
    BY <1>6, <1>9, <2>1
  <2> QED
    BY <1>7, <2>1, <2>2
<1>13. ASSUME NEW x, IsChat(x), Settled(x), x.body[1] = m.body[1] PROVE x.body[2] < m.body[2]
  <2>1. \A n \in Numbers(s) : x.body[2] < n
    BY <1>2, <1>11, <1>13 DEF Settled, s
  <2>2. m.body[2] \in Numbers(s)
    BY <1>7, <1>9 DEF Numbers
  <2> QED
    BY <2>1, <2>2
<1>14. /\ Received.from = NameOf[c] /\ Received.body[1] = c
       /\ Received.type = "JOIN" <=> Received.body[2] = 0
  BY <1>7, <1>10 DEF Own
<1> QED
  BY <1>2, <1>11, <1>12, <1>13, <1>14 DEF Before, c

-----------------------------------------------------------------------------
(* A message is taken up.                                                  *)

LEMMA QuietIsNoChat == ~IsChat(Quiet.msg) /\ ~IsPublic(Quiet.msg) /\ ~IsDirect(Quiet.msg)
BY DEF Quiet, Msg, IsChat, IsPublic, IsDirect

LEMMA QuietHistory ==
  ASSUME PromiseInv, PromiseInv', Streams, AllSettled, [Next]_vars, out' = Quiet, inbox' = inbox
  PROVE  AllSettled' /\ Fresh' /\ NoneSince' /\ OneTarget'
<1>1. out'.to = <<>> /\ ToSet(out'.to) = {} /\ out'.msg = Quiet.msg
  BY QuietFacts
<1>2. Fresh' /\ NoneSince' /\ OneTarget'
  BY <1>1, QuietIsNoChat DEF Fresh, NoneSince, OneTarget
<1>3. \A x \in Written' : IsChat(x) => x \in Written
  BY <1>1, QuietIsNoChat DEF Written
<1>4. AllSettled'
  BY <1>3, SettledKept DEF AllSettled
<1> QED
  BY <1>2, <1>4

LEMMA SameHistory ==
  ASSUME PromiseInv, PromiseInv', Streams, AllSettled, Fresh, NoneSince, OneTarget, [Next]_vars,
         UNCHANGED <<inbox, out, conn>>
  PROVE  AllSettled' /\ Fresh' /\ NoneSince' /\ OneTarget'
<1>1. Fresh' /\ NoneSince' /\ OneTarget'
  BY DEF Fresh, NoneSince, OneTarget, KnownAs, Welcomed
<1>2. Written' = Written
  BY DEF Written
<1>3. AllSettled'
  BY <1>2, SettledKept DEF AllSettled
<1> QED
  BY <1>1, <1>3

LEMMA SendToHistory ==
  ASSUME PromiseInv, PromiseInv', Streams, AllSettled, [Next]_vars,
         NEW m, NEW to, NEW ret, SendTo(m, to, ret), UNCHANGED <<inbox, conn>>,
         IsChat(m) => Settled(m)' /\ \A x : IsChat(x) /\ Settled(x) => Before(x, m),
         IsDirect(m) /\ to # <<>> => Tail(to) = <<>> /\ KnownAs(conn[Head(to)]) = m.to
  PROVE  AllSettled' /\ Fresh' /\ NoneSince' /\ OneTarget'
<1>1. out'.to = to /\ out'.msg = m /\ pc' = "send"
  BY DEF SendTo
<1>2. \A c \in Clients : \A x \in ToSet(inbox[c]) : IsChat(x) => Settled(x)
  BY DEF AllSettled, Written
<1>3. IsPublic(m) \/ IsDirect(m) => IsChat(m)
  BY DEF IsPublic, IsDirect, IsChat
<1>4. AllSettled'
  <2> SUFFICES ASSUME NEW x \in Written', IsChat(x) PROVE Settled(x)'
    BY DEF AllSettled
  <2>1. CASE x = m
    BY <2>1
  <2>2. CASE x # m
    <3>1. x \in Written
      BY <1>1, <2>2 DEF Written
    <3> QED
      BY <3>1, SettledKept DEF AllSettled
  <2> QED
    BY <2>1, <2>2
<1>5. Fresh'
  <2> SUFFICES ASSUME NEW fd \in ToSet(to), NEW x \in ToSet(inbox[conn[fd]]), IsChat(x), IsChat(m)
               PROVE  Before(x, m)
    BY <1>1 DEF Fresh, Before
  <2>1. conn'[fd] \in Clients
    <3>1. fd \in Listed'
      BY <1>1 DEF PromiseInv, ServerInv, NoStaleFd
    <3> QED
      BY <3>1, SocketsAssumption
         DEF PromiseInv, ServerInv, TypeOK, SocketTypes, ListMatchesSockets
  <2> QED
    BY <1>2, <2>1
<1>6. ASSUME IsChat(m), NEW d \in Clients PROVE m \notin ToSet(inbox[d])
  <2>1. Settled(m)' /\ ~Before(m, m)
    <3>1. m.body[2] \in Nat
      BY <1>6 DEF Settled
    <3> QED
      BY <1>6, <3>1 DEF Before
  <2> QED
    BY <1>2, <1>6, <2>1
<1>7. NoneSince'
  <2> SUFFICES ASSUME IsPublic(m), NEW d \in Clients, NEW k \in DOMAIN inbox[d], inbox[d][k] = m
               PROVE  FALSE
    BY <1>1 DEF NoneSince
  <2>1. m \in ToSet(inbox[d])
    BY DEF ToSet
  <2> QED
    BY <1>3, <1>6, <2>1
<1>8. OneTarget'
  BY <1>1, <1>3, <1>6 DEF OneTarget, KnownAs, Welcomed
<1> QED
  BY <1>4, <1>5, <1>7, <1>8

\* A broadcast of the operator carries the number of the line he typed.
LEMMA BroadcastHistory ==
  ASSUME "server" \notin Clients,
         PromiseInv, PromiseInv', Streams, AllSettled, [Next]_vars, CommandBroadcast
  PROVE  AllSettled' /\ Fresh' /\ NoneSince' /\ OneTarget'
<1>1. PICK m : m = Msg("BROADCAST", "server", "ALL", <<"server", ncmds>>)
  OBVIOUS
<1>2. /\ SendTo(m, FdsInOrder, "accept") /\ UNCHANGED <<inbox, conn, ncmds>>
      /\ console' = NoLine /\ console.cmd = "broadcast"
  BY <1>1 DEF CommandBroadcast, ReadLine
<1>3. m.body[1] = "server" /\ m.body[2] = ncmds /\ m.type = "BROADCAST"
  BY <1>1 DEF Msg
<1>4. ncmds \in Nat
  BY DEF PromiseInv, ServerInv, TypeOK, EnvTypes
<1>5. Settled(m)'
  BY <1>2, <1>3, <1>4 DEF Settled, NoLine
<1>6. \A x : IsChat(x) /\ Settled(x) => Before(x, m)
  BY <1>2, <1>3 DEF Settled, Before
<1>7. ~IsDirect(m)
  BY <1>3 DEF IsDirect
<1> QED
  BY <1>2, <1>5, <1>6, <1>7, SendToHistory

LEMMA HandlerHistory ==
  ASSUME "server" \notin Clients, PromiseInv, PromiseInv', Streams, AllSettled, NamesOnList,
         [Next]_vars, HandleJoin \/ HandleBroadcast \/ HandlePrivate \/ HandleListUsers
  PROVE  AllSettled' /\ Fresh' /\ NoneSince' /\ OneTarget'
<1>1. pc = "recv" /\ ServerRead(cur) /\ inbox' = inbox /\ conn' = conn
  BY DEF HandleJoin, HandleBroadcast, HandlePrivate, HandleListUsers, Incoming, ServerRead
<1>2. PICK r : r = Received
  OBVIOUS
<1>3. ASSUME NEW m, m.body = r.body
      PROVE  Settled(m)' /\ \A x : IsChat(x) /\ Settled(x) => Before(x, m)
  <2>1. PICK c \in Clients : /\ m.body[1] = c /\ m.body[2] \in Nat /\ m.body[2] < nsent'[c]
                             /\ \A n \in Numbers(toServer'[c]) : m.body[2] < n
    BY <1>1, <1>2, <1>3, ReceivedIsNew
  <2>2. Settled(m)'
    BY <2>1 DEF Settled
  <2>3. \A x : IsChat(x) /\ Settled(x) => Before(x, m)
    BY <1>1, <1>2, <1>3, ReceivedIsNew
  <2> QED
    BY <2>2, <2>3
<1>4. CASE HandleJoin
  <2>1. PICK m : m = Msg("BROADCAST", "system", r.from, r.body)
    OBVIOUS
  <2>2. SendTo(m, <<cur>>, "scan")
    BY <1>2, <1>4, <2>1 DEF HandleJoin
  <2>3. m.body = r.body /\ ~IsDirect(m)
    BY <2>1 DEF Msg, IsDirect
  <2> QED
    BY <1>1, <1>3, <2>2, <2>3, SendToHistory
<1>5. CASE HandleBroadcast
  <2>1. SendTo(r, FdsInOrder, "scan") /\ ~IsDirect(r)
    BY <1>2, <1>5 DEF HandleBroadcast, Incoming, Received, IsDirect
  <2> QED
    BY <1>1, <1>3, <2>1, SendToHistory
<1>6. CASE HandlePrivate
  <2>1. r.type = "PRIVATE"
    BY <1>2, <1>6 DEF HandlePrivate, Incoming, Received
  <2>2. \A c : ListName(c) = KnownAs(c)
    <3>1. ToSet(out.to) = {}
      BY <1>1, QuietFacts DEF PromiseInv, Sending
    <3> QED
      BY <3>1 DEF ListName, KnownAs, Greets
  <2>3. CASE SendTo(r, <<>>, "scan")
    BY <1>1, <1>3, <2>3, SendToHistory
  <2>4. ASSUME NEW i \in DOMAIN client_list, client_list[i].username = r.to,
               SendTo(r, <<client_list[i].fd>>, "scan")
        PROVE  AllSettled' /\ Fresh' /\ NoneSince' /\ OneTarget'
    <3>1. KnownAs(conn[client_list[i].fd]) = r.to
      BY <2>2, <2>4 DEF NamesOnList
    <3>2. \A f : Tail(<<f>>) = <<>> /\ Head(<<f>>) = f
      OBVIOUS
    <3> QED
      BY <1>1, <1>3, <2>4, <3>1, <3>2, SendToHistory
  <2> QED
    BY <1>2, <1>6, <2>3, <2>4 DEF HandlePrivate, FirstNamed
<1>7. CASE HandleListUsers
  <2>1. PICK users : SendTo(Msg("USER_LIST", "server", "", users), <<cur>>, "scan")
    BY <1>7 DEF HandleListUsers
  <2>2. PICK m : m = Msg("USER_LIST", "server", "", users)
    OBVIOUS
  <2>3. ~IsChat(m) /\ ~IsDirect(m)
    BY <2>2 DEF Msg, IsChat, IsDirect
  <2> QED
    BY <1>1, <2>1, <2>2, <2>3, SendToHistory
<1> QED
  BY <1>4, <1>5, <1>6, <1>7

-----------------------------------------------------------------------------
(* One write to one client.                                                *)

\* Client t gets the message on its way, as the last of n + 1.
Gets(t, n) ==
  /\ t = conn[Head(out.to)] /\ out.to # <<>> /\ Head(out.to) \in ToSet(out.to)
  /\ DOMAIN inbox[t] = 1..n /\ DOMAIN inbox'[t] = 1..(n + 1)
  /\ \A k \in 1..n : inbox'[t][k] = inbox[t][k]
  /\ inbox'[t][n + 1] = out.msg
  /\ ToSet(inbox'[t]) = ToSet(inbox[t]) \cup {out.msg}
  /\ \A d \in Clients \ {t} : inbox'[d] = inbox[d]
  /\ out'.msg = out.msg /\ out'.to = Tail(out.to) /\ conn' = conn
  /\ \A fd \in ToSet(out'.to) : fd \in ToSet(out.to) /\ conn[fd] \in Clients \ {t}

LEMMA SendOneGets ==
  ASSUME PromiseInv, SendOne
  PROVE  \E t \in Clients : \E n \in Nat : Gets(t, n)
<1>1. TypeOK /\ ListMatchesSockets /\ NoStaleFd /\ Connections /\ Sending
  BY DEF PromiseInv, ServerInv
<1>2. /\ pc = "send" /\ out.to # <<>> /\ out.to \in Seq(Fds) /\ out.msg \in Messages
      /\ ToSet(out.to) \subseteq Listed
  BY <1>1 DEF SendOne, TypeOK, SendTypes, NoStaleFd
<1>3. /\ ToSet(Tail(out.to)) = ToSet(out.to) \ {Head(out.to)}
      /\ Head(out.to) \in ToSet(out.to)
  BY <1>1, <1>2, TailOfDistinct, TailSubset DEF Sending
<1>4. \A f \in ToSet(out.to) : f \in Fds /\ conn[f] \in Clients
  BY <1>1, <1>2, ListedIsOpen
<1>5. \A f, g \in ToSet(out.to) : conn[f] = conn[g] => f = g
  <2>1. \A f, g \in Fds : conn[f] = conn[g] /\ conn[f] # NoClient => f = g
    BY <1>1 DEF Connections
  <2>2. \A f \in ToSet(out.to) : f \in Fds /\ conn[f] # NoClient
    BY <1>4, SocketsAssumption
  <2> QED
    BY <2>1, <2>2
<1>6. PICK t \in Clients : t = conn[Head(out.to)]
  BY <1>3, <1>4
<1>7. /\ out'.to = Tail(out.to) /\ out'.msg = out.msg /\ conn' = conn
      /\ inbox' = [inbox EXCEPT ![t] = Append(@, out.msg)]
  BY <1>1, <1>6 DEF SendOne, ServerWrite, TypeOK, SendTypes, Target
<1>8. inbox \in [Clients -> Seq(Messages)] /\ inbox[t] \in Seq(Messages)
  BY <1>1 DEF TypeOK, SendTypes
<1>9. inbox'[t] = Append(inbox[t], out.msg) /\ \A d \in Clients \ {t} : inbox'[d] = inbox[d]
  BY <1>7, <1>8
<1>10. PICK n \in Nat : /\ DOMAIN inbox[t] = 1..n /\ DOMAIN Append(inbox[t], out.msg) = 1..(n + 1)
                        /\ \A k \in 1..n : Append(inbox[t], out.msg)[k] = inbox[t][k]
                        /\ Append(inbox[t], out.msg)[n + 1] = out.msg
                        /\ ToSet(Append(inbox[t], out.msg)) = ToSet(inbox[t]) \cup {out.msg}
  BY <1>2, <1>8, AppendElements
<1>11. \A fd \in ToSet(out'.to) : fd \in ToSet(out.to) /\ conn[fd] \in Clients \ {t}
  BY <1>3, <1>4, <1>5, <1>6, <1>7
<1>12. Gets(t, n)
  BY <1>2, <1>3, <1>6, <1>7, <1>9, <1>10, <1>11 DEF Gets
<1> QED
  BY <1>12

\* What is on its way is new to who gets it.
LEMMA NewToTarget ==
  ASSUME AllSettled, Fresh, NEW t \in Clients, NEW n \in Nat, Gets(t, n), IsChat(out.msg)
  PROVE  /\ out.msg.body[2] \in Nat /\ out.msg \notin ToSet(inbox[t])
         /\ \A k \in 1..n : inbox[t][k] # out.msg
         /\ \A k \in 1..n : Before(inbox[t][k], out.msg)
<1>1. out.msg.body[2] \in Nat
  BY DEF AllSettled, Written, Settled
<1>2. \A x \in ToSet(inbox[t]) : Before(x, out.msg)
  BY DEF Fresh, Gets
<1>3. ~Before(out.msg, out.msg)
  BY <1>1 DEF Before
<1>4. \A k \in 1..n : inbox[t][k] \in ToSet(inbox[t])
  BY DEF Gets, ToSet
<1>5. out.msg \notin ToSet(inbox[t])
  BY <1>2, <1>3
<1> QED
  BY <1>1, <1>2, <1>4, <1>5

LEMMA SendOneHistory ==
  ASSUME PromiseInv, PromiseInv', Streams, AllSettled, Fresh, NoneSince, OneTarget, [Next]_vars,
         NEW t \in Clients, NEW n \in Nat, Gets(t, n)
  PROVE  AllSettled' /\ Fresh' /\ NoneSince' /\ OneTarget'
<1>1. Written' \subseteq Written
  <2> SUFFICES ASSUME NEW c \in Clients, NEW x \in ToSet(inbox'[c]) PROVE x \in Written
    BY DEF Written, Gets
  <2>1. CASE c = t
    <3>1. x \in ToSet(inbox[t]) \cup {out.msg}
      BY <2>1 DEF Gets
    <3> QED
      BY <3>1 DEF Written
  <2>2. CASE c # t
    <3>1. x \in ToSet(inbox[c])
      BY <2>2 DEF Gets
    <3> QED
      BY <3>1 DEF Written
  <2> QED
    BY <2>1, <2>2
<1>2. AllSettled'
  BY <1>1, SettledKept DEF AllSettled
<1>3. Fresh'
  <2> SUFFICES ASSUME NEW fd \in ToSet(out'.to), NEW x \in ToSet(inbox'[conn'[fd]])
               PROVE  Before(x, out'.msg)
    BY DEF Fresh
  <2>1. fd \in ToSet(out.to) /\ conn'[fd] = conn[fd] /\ inbox'[conn[fd]] = inbox[conn[fd]]
    BY DEF Gets
  <2> QED
    BY <2>1 DEF Fresh, Gets
<1>4. NoneSince'
  <2> SUFFICES ASSUME IsPublic(out.msg), NEW d \in Clients,
                      NEW k \in DOMAIN inbox'[d], NEW l \in DOMAIN inbox'[d],
                      k < l, inbox'[d][k] = out.msg
               PROVE  ~IsPublic(inbox'[d][l])
    BY DEF NoneSince, Gets
  <2>1. CASE d # t
    BY <2>1 DEF NoneSince, Gets
  <2>2. CASE d = t
    <3>1. k \in 1..n /\ inbox[t][k] = out.msg
      <4>1. k \in 1..(n + 1) /\ l \in 1..(n + 1)
        BY <2>2 DEF Gets
      <4>2. k \in 1..n
        BY <4>1
      <4> QED
        BY <2>2, <4>2 DEF Gets
    <3>2. IsChat(out.msg)
      BY DEF IsPublic, IsChat
    <3> QED
      BY <3>1, <3>2, NewToTarget
  <2> QED
    BY <2>1, <2>2
<1>5. OneTarget'
  BY DEF OneTarget, Gets
<1> QED
  BY <1>2, <1>3, <1>4, <1>5

LEMMA OrderKept ==
  ASSUME AllSettled, Fresh, InSenderOrder, NEW t \in Clients, NEW n \in Nat, Gets(t, n)
  PROVE  InSenderOrder'
<1> SUFFICES ASSUME NEW c \in Clients, NEW i \in DOMAIN inbox'[c], NEW j \in DOMAIN inbox'[c], i < j
             PROVE  Before(inbox'[c][i], inbox'[c][j])
  BY DEF InSenderOrder, Before
<1>1. \A d \in Clients : \A k, l \in DOMAIN inbox[d] : k < l => Before(inbox[d][k], inbox[d][l])
  BY DEF InSenderOrder, Before
<1>2. CASE c # t
  BY <1>1, <1>2 DEF Gets
<1>3. CASE c = t
  <2>1. i \in 1..n /\ j \in 1..(n + 1) /\ inbox'[t][i] = inbox[t][i]
    <3>1. i \in 1..(n + 1) /\ j \in 1..(n + 1)
      BY <1>3 DEF Gets
    <3>2. i \in 1..n
      BY <3>1
    <3> QED
      BY <3>1, <3>2 DEF Gets
  <2>2. CASE j \in 1..n
    <3>1. inbox'[t][j] = inbox[t][j] /\ DOMAIN inbox[t] = 1..n
      BY <2>2 DEF Gets
    <3>2. Before(inbox[t][i], inbox[t][j])
      BY <1>1, <2>1, <2>2, <3>1
    <3> QED
      BY <1>3, <2>1, <3>1, <3>2
  <2>3. CASE j = n + 1
    <3>1. inbox'[t][j] = out.msg
      BY <2>3 DEF Gets
    <3>2. Before(inbox[t][i], out.msg)
      <4>1. CASE IsChat(out.msg)
        BY <2>1, <4>1, NewToTarget
      <4>2. CASE ~IsChat(out.msg)
        BY <4>2 DEF Before
      <4> QED
        BY <4>1, <4>2
    <3> QED
      BY <1>3, <2>1, <3>1, <3>2
  <2> QED
    BY <2>1, <2>2, <2>3
<1> QED
  BY <1>2, <1>3

LEMMA AgreementKept ==
  ASSUME TypeOK, AllSettled, Fresh, NoneSince, TotalOrder,
         NEW t \in Clients, NEW n \in Nat, Gets(t, n)
  PROVE  TotalOrder'
<1> SUFFICES ASSUME NEW c \in Clients, NEW d \in Clients,
                    NEW i \in DOMAIN inbox'[c], NEW j \in DOMAIN inbox'[c],
                    NEW k \in DOMAIN inbox'[d], NEW l \in DOMAIN inbox'[d],
                    i < j, IsPublic(inbox'[c][i]), IsPublic(inbox'[c][j]),
                    inbox'[c][i] = inbox'[d][l], inbox'[c][j] = inbox'[d][k]
             PROVE  l < k
  BY DEF TotalOrder
<1>0. \A e \in Clients : DOMAIN inbox[e] \subseteq Nat
  BY LenProperties DEF TypeOK, SendTypes
<1>1. \A m : IsPublic(m) => IsChat(m)
  BY DEF IsPublic, IsChat
\* Either an old place of an inbox, or the new one.
<1>2. ASSUME NEW e \in Clients, NEW a \in DOMAIN inbox'[e]
      PROVE  /\ a \in Nat
             /\ \/ a \in DOMAIN inbox[e] /\ inbox'[e][a] = inbox[e][a] /\ (e = t => a < n + 1)
                \/ e = t /\ a = n + 1 /\ inbox'[e][a] = out.msg
  <2>1. CASE e = t
    <3>1. a \in 1..(n + 1)
      BY <2>1 DEF Gets
    <3>2. a \in 1..n \/ a = n + 1
      BY <3>1
    <3>3. CASE a \in 1..n
      BY <2>1, <3>3 DEF Gets
    <3>4. CASE a = n + 1
      BY <2>1, <3>4 DEF Gets
    <3> QED
      BY <3>2, <3>3, <3>4
  <2>2. CASE e # t
    <3>1. inbox'[e] = inbox[e]
      BY <2>2 DEF Gets
    <3> QED
      BY <1>0, <1>2, <2>2, <3>1
  <2> QED
    BY <2>1, <2>2
<1>3. i \in DOMAIN inbox[c] /\ inbox'[c][i] = inbox[c][i] /\ (c = t => i \in 1..n)
  <2>1. ~(c = t /\ i = n + 1)
    <3>1. /\ i \in Nat /\ j \in Nat
          /\ c = t => j < n + 1 \/ j = n + 1
      BY <1>2
    <3> QED
      BY <3>1
  <2> QED
    BY <1>2, <2>1 DEF Gets
<1>4. CASE d = t /\ l = n + 1 /\ inbox'[d][l] = out.msg
  <2>1. inbox[c][i] = out.msg /\ IsPublic(out.msg) /\ IsChat(out.msg)
    BY <1>1, <1>3, <1>4
  <2>2. CASE c = t
    BY <1>3, <2>1, <2>2, NewToTarget
  <2>3. CASE c # t
    <3>1. j \in DOMAIN inbox[c] /\ inbox'[c][j] = inbox[c][j]
      BY <1>2, <2>3
    <3> QED
      BY <1>3, <2>1, <3>1 DEF NoneSince
  <2> QED
    BY <2>2, <2>3
<1>5. CASE l \in DOMAIN inbox[d] /\ inbox'[d][l] = inbox[d][l] /\ (d = t => l < n + 1)
  <2>1. CASE d = t /\ k = n + 1
    BY <1>5, <2>1
  <2>2. CASE k \in DOMAIN inbox[d] /\ inbox'[d][k] = inbox[d][k] /\ (d = t => k < n + 1)
    <3>1. CASE j \in DOMAIN inbox[c] /\ inbox'[c][j] = inbox[c][j]
      BY <1>3, <1>5, <2>2, <3>1 DEF TotalOrder
    <3>2. CASE c = t /\ j = n + 1 /\ inbox'[c][j] = out.msg
      <4>1. inbox[d][k] = out.msg /\ IsPublic(out.msg) /\ IsChat(out.msg) /\ i \in 1..n
        BY <1>1, <1>3, <2>2, <3>2
      <4>2. inbox[c][i] # out.msg
        BY <3>2, <4>1, NewToTarget
      <4>3. l # k
        BY <1>3, <1>5, <4>1, <4>2
      <4>4. IsPublic(inbox[d][l])
        BY <1>3, <1>5
      <4>5. ~(k < l)
        BY <1>5, <2>2, <4>1, <4>4 DEF NoneSince
      <4> QED
        BY <1>2, <4>3, <4>5
    <3> QED
      BY <1>2, <3>1, <3>2
  <2> QED
    BY <1>2, <2>1, <2>2
<1> QED
  BY <1>2, <1>4, <1>5

LEMMA PrivacyKept ==
  ASSUME TypeOK, PrivateToAddressee, OneTarget, NEW t \in Clients, NEW n \in Nat, Gets(t, n)
  PROVE  PrivateToAddressee'
<1> DEFINE Earlier(c, i) == \E j \in 1..(i - 1) : IsWelcome(c, inbox[c][j])
<1>1. \A d \in Clients : \/ ToSet(inbox'[d]) = ToSet(inbox[d]) /\ d # t
                         \/ ToSet(inbox'[d]) = ToSet(inbox[d]) \cup {out.msg} /\ d = t
  BY DEF Gets
<1>2. IsDirect(out.msg) => /\ KnownAs(t) = out.msg.to
                           /\ \A d \in Clients : out.msg \notin ToSet(inbox[d])
  BY DEF OneTarget, Gets
<1> SUFFICES ASSUME NEW c \in Clients, NEW i \in DOMAIN inbox'[c], IsDirect(inbox'[c][i])
             PROVE  /\ inbox'[c][i].to = IF \E j \in 1..(i - 1) : IsWelcome(c, inbox'[c][j])
                                           THEN NameOf[c] ELSE Unknown
                    /\ \A d \in Clients \ {c} : inbox'[c][i] \notin ToSet(inbox'[d])
  BY DEF PrivateToAddressee, IsWelcome
<1>3. CASE i \in DOMAIN inbox[c] /\ \A j \in 1..i : inbox'[c][j] = inbox[c][j]
  <2>1. i \in Nat \ {0}
    <3>1. inbox[c] \in Seq(Messages)
      BY DEF TypeOK, SendTypes
    <3>2. DOMAIN inbox[c] = 1..Len(inbox[c]) /\ Len(inbox[c]) \in Nat
      BY <3>1, LenProperties
    <3> QED
      BY <1>3, <3>2
  <2>2. inbox'[c][i] = inbox[c][i] /\ \A j \in 1..(i - 1) : inbox'[c][j] = inbox[c][j]
    BY <1>3, <2>1
  <2>3. /\ inbox[c][i].to = IF Earlier(c, i) THEN NameOf[c] ELSE Unknown
        /\ \A d \in Clients \ {c} : inbox[c][i] \notin ToSet(inbox[d])
    BY <1>3, <2>2 DEF PrivateToAddressee
  <2>4. inbox[c][i] \in ToSet(inbox[c])
    BY <1>3 DEF ToSet
  <2>5. \A d \in Clients \ {c} : inbox[c][i] \notin ToSet(inbox'[d])
    BY <1>1, <1>2, <2>2, <2>3, <2>4
  <2> QED
    BY <2>2, <2>3, <2>5
<1>4. CASE c = t /\ i = n + 1
  <2>1. inbox'[c][i] = out.msg /\ i - 1 = n /\ 1..(i - 1) = 1..n
    BY <1>4 DEF Gets
  <2>2. DOMAIN inbox[t] = 1..n /\ \A j \in 1..n : inbox'[t][j] = inbox[t][j]
    BY DEF Gets
  <2>3. Welcomed(t) <=> \E j \in 1..(i - 1) : IsWelcome(c, inbox'[c][j])
    BY <1>4, <2>1, <2>2 DEF Welcomed, ToSet
  <2>4. \A d \in Clients \ {c} : out.msg \notin ToSet(inbox'[d])
    BY <1>1, <1>2, <1>4, <2>1
  <2> QED
    BY <1>2, <1>4, <2>1, <2>3, <2>4 DEF KnownAs
<1>5. CASE c # t
  <2>1. inbox'[c] = inbox[c]
    BY <1>5 DEF Gets
  <2> QED
    BY <1>3, <2>1
<1>6. CASE c = t /\ i # n + 1
  <2>1. /\ DOMAIN inbox[t] = 1..n /\ i \in 1..(n + 1)
        /\ \A j \in 1..n : inbox'[t][j] = inbox[t][j]
    BY <1>6 DEF Gets
  <2>2. i \in 1..n /\ \A j \in 1..i : j \in 1..n
    BY <1>6, <2>1
  <2> QED
    BY <1>3, <1>6, <2>1, <2>2
<1> QED
  BY <1>4, <1>5, <1>6

-----------------------------------------------------------------------------
(* Names.                                                                  *)

\* A welcome is the answer to a MSG_JOIN.
LEMMA OnlyJoinsGreet ==
  ASSUME "server" \notin Clients, PromiseInv, PromiseInv', Streams, [Next]_vars,
         HandleBroadcast \/ HandlePrivate \/ HandleListUsers \/ CommandBroadcast
  PROVE  \A c \in Clients : ~Greets(c) /\ ~Greets(c)'
<1>1. pc # "send"
  BY DEF HandleBroadcast, HandlePrivate, HandleListUsers, CommandBroadcast, Incoming, ReadLine
<1>2. ToSet(out.to) = {}
  BY <1>1, QuietFacts DEF PromiseInv, Sending
<1>3. \A c \in Clients : ~IsWelcome(c, out'.msg)
  <2>1. CASE HandleBroadcast \/ HandlePrivate
    <3>1. PICK r : r = Received
      OBVIOUS
    <3>2. pc = "recv" /\ ServerRead(cur) /\ r.type # "JOIN" /\ out'.msg = r
      BY <2>1, <3>1 DEF HandleBroadcast, HandlePrivate, Incoming, Received, SendTo
    <3>3. r.body[2] # 0
      BY <3>1, <3>2, ReceivedIsNew
    <3>4. \A c : <<c, 0>>[2] = 0
      OBVIOUS
    <3> QED
      BY <3>2, <3>3, <3>4 DEF IsWelcome
  <2>2. CASE HandleListUsers
    <3>1. PICK users : SendTo(Msg("USER_LIST", "server", "", users), <<cur>>, "scan")
      BY <2>2 DEF HandleListUsers
    <3>2. out'.msg.type = "USER_LIST"
      BY <3>1 DEF SendTo, Msg
    <3> QED
      BY <3>2 DEF IsWelcome
  <2>3. CASE CommandBroadcast
    <3>1. out'.msg.body = <<"server", ncmds>>
      BY <2>3 DEF CommandBroadcast, SendTo, Msg
    <3>2. out'.msg.body[1] = "server" /\ \A c : <<c, 0>>[1] = c
      BY <3>1
    <3> QED
      BY <3>2 DEF IsWelcome
  <2> QED
    BY <2>1, <2>2, <2>3
<1> QED
  BY <1>2, <1>3 DEF Greets

LEMMA NamesKept ==
  ASSUME inbox' = inbox, \A c \in Clients : ~Greets(c) /\ ~Greets(c)'
  PROVE  \A c \in Clients : ListName(c)' = ListName(c)
BY DEF ListName, Welcomed

\* Nothing is on its way before or after.
LEMMA NobodyGreeted ==
  ASSUME out.to = <<>>, out'.to = <<>>
  PROVE  \A c \in Clients : ~Greets(c) /\ ~Greets(c)'
BY DEF Greets, ToSet

\* The name of an entry that stays is that of the same client.
LEMMA SameEntry ==
  ASSUME TypeOK, ListMatchesSockets, NamesOnList, \A c \in Clients : ListName(c)' = ListName(c),
         NEW k \in DOMAIN client_list', NEW j \in DOMAIN client_list,
         client_list'[k] = client_list[j], conn'[client_list[j].fd] = conn[client_list[j].fd]
  PROVE  client_list'[k].username = ListName(conn[client_list[k].fd])'
<1>1. client_list[j].fd \in Listed
  BY DEF Listed
<1>2. PICK c \in Clients : c = conn[client_list[j].fd]
  BY <1>1, ListedIsOpen
<1>3. client_list[j].username = ListName(c)
  BY <1>2 DEF NamesOnList
<1>4. ListName(conn[client_list[k].fd])' = ListName(c)'
  BY <1>2
<1> QED
  BY <1>3, <1>4

LEMMA ListKept ==
  ASSUME TypeOK, ListMatchesSockets, NamesOnList, \A c \in Clients : ListName(c)' = ListName(c),
         UNCHANGED <<client_list, conn>>
  PROVE  NamesOnList'
<1> SUFFICES ASSUME NEW k \in DOMAIN client_list
             PROVE  client_list'[k].username = ListName(conn[client_list[k].fd])'
  BY DEF NamesOnList
<1> QED
  BY SameEntry

LEMMA RemovalKeepsNames ==
  ASSUME PromiseInv, NamesOnList, NEW g \in DOMAIN client_list, RemoveEntry(g),
         \A c \in Clients : ListName(c)' = ListName(c)
  PROVE  NamesOnList'
<1> DEFINE n == Len(client_list)
<1>1. TypeOK /\ ListMatchesSockets
  BY DEF PromiseInv, ServerInv
<1>2. /\ DOMAIN client_list = 1..n /\ n \in Nat /\ client_list \in Seq(Entries)
  BY <1>1, LenProperties DEF TypeOK, ListTypes, Entries
<1>3. /\ client_list' \in Seq(Entries) /\ Len(client_list') = n - 1
      /\ \A k \in 1..(n - 1) :
           client_list'[k] = IF k < g THEN client_list[k] ELSE client_list[k + 1]
  BY <1>2, RemoveAtElements DEF RemoveEntry
<1>4. DOMAIN client_list' = 1..(n - 1)
  BY <1>3, LenProperties
<1>5. conn' = [conn EXCEPT ![client_list[g].fd] = NoClient]
  BY DEF RemoveEntry, ServerClose
<1> HIDE DEF n
<1> SUFFICES ASSUME NEW k \in 1..(n - 1)
             PROVE  client_list'[k].username = ListName(conn[client_list[k].fd])'
  BY <1>4 DEF NamesOnList
<1>6. PICK j \in 1..n : client_list'[k] = client_list[j] /\ j # g
  <2>1. CASE k < g
    BY <1>2, <1>3, <2>1
  <2>2. CASE k >= g
    BY <1>2, <1>3, <2>2
  <2> QED
    BY <1>2, <2>1, <2>2
<1>7. client_list[j].fd # client_list[g].fd /\ client_list[j].fd \in Fds
  BY <1>1, <1>2, <1>6, EntryFds DEF ListMatchesSockets, TypeOK
<1>8. conn'[client_list[j].fd] = conn[client_list[j].fd]
  BY <1>1, <1>5, <1>7 DEF TypeOK, SocketTypes
<1> QED
  BY <1>1, <1>2, <1>4, <1>6, <1>8, SameEntry

\* add_client(): who comes in has not been told anything.
LEMMA AcceptKeepsNames ==
  ASSUME PromiseInv, NamesOnList, Unserved, AcceptClient,
         \A c \in Clients : ListName(c)' = ListName(c) /\ ~Greets(c)
  PROVE  NamesOnList'
<1> DEFINE n == Len(client_list)
<1>1. TypeOK /\ ListMatchesSockets /\ ServerInv
  BY DEF PromiseInv, ServerInv
<1>2. PICK fd \in Fds : /\ Accept(fd)
                        /\ client_list' = Cons([fd |-> fd, username |-> Unknown], client_list)
  BY DEF AcceptClient
<1>3. PICK e : e = [fd |-> fd, username |-> Unknown]
  OBVIOUS
<1>4. e \in Entries /\ e.username = Unknown /\ e.fd = fd
  BY <1>3 DEF Entries
<1>5. /\ DOMAIN client_list = 1..n /\ n \in Nat /\ client_list \in Seq(Entries)
  BY <1>1, LenProperties DEF TypeOK, ListTypes, Entries
<1>6. /\ client_list' \in Seq(Entries) /\ Len(client_list') = n + 1
      /\ \A k \in 1..(n + 1) : client_list'[k] = IF k = 1 THEN e ELSE client_list[k - 1]
  <2>1. client_list' = Cons(e, client_list)
    BY <1>2, <1>3
  <2>2. /\ Cons(e, client_list) \in Seq(Entries)
        /\ Len(Cons(e, client_list)) = Len(client_list) + 1
        /\ \A k \in 1..(Len(client_list) + 1) :
             Cons(e, client_list)[k] = IF k = 1 THEN e ELSE client_list[k - 1]
    <3>1. e \in Entries /\ client_list \in Seq(Entries)
      BY <1>4, <1>5
    <3> QED
      BY <3>1, ConsElements
  <2> QED
    BY <2>1, <2>2
<1>7. DOMAIN client_list' = 1..(n + 1)
  BY <1>6, LenProperties
<1>8. conn[fd] = NoClient /\ conn' = [conn EXCEPT ![fd] = Head(backlog)] /\ backlog # <<>>
  BY <1>2 DEF Accept, LowestFree
<1>9. PICK h \in Clients : h = Head(backlog) /\ h \in ToSet(backlog)
  <2>1. backlog \in Seq(Clients)
    BY <1>1 DEF TypeOK, SocketTypes
  <2> QED
    BY <1>8, <2>1, TailSubset
<1>10. conn'[fd] = h
  BY <1>1, <1>8, <1>9 DEF TypeOK, SocketTypes
<1>11. ListName(h) = Unknown
  <2>1. inbox[h] = <<>>
    BY <1>9 DEF Unserved, InBacklog
  <2>2. ToSet(inbox[h]) = {}
    BY <2>1 DEF ToSet
  <2> QED
    BY <2>2 DEF ListName, Welcomed
<1> HIDE DEF n
<1> SUFFICES ASSUME NEW k \in 1..(n + 1)
             PROVE  client_list'[k].username = ListName(conn[client_list[k].fd])'
  BY <1>7 DEF NamesOnList
<1>12. CASE k = 1
  <2>1. client_list'[k] = e
    BY <1>6, <1>12
  <2>2. ListName(conn[client_list[k].fd])' = ListName(h)'
    BY <1>4, <1>10, <2>1
  <2> QED
    BY <1>4, <1>11, <2>1, <2>2
<1>13. CASE k # 1
  <2>1. PICK j \in 1..n : client_list'[k] = client_list[j]
    <3>1. k - 1 \in 1..n
      BY <1>5, <1>13
    <3> QED
      BY <1>6, <1>13, <3>1
  <2>2. client_list[j].fd \in Listed
    BY <1>5 DEF Listed
  <2>3. client_list[j].fd \in Fds /\ client_list[j].fd # fd
    BY <1>1, <1>8, <2>2, SocketsAssumption, ListedIsOpen
  <2>4. conn'[client_list[j].fd] = conn[client_list[j].fd]
    BY <1>1, <1>8, <2>3 DEF TypeOK, SocketTypes
  <2> QED
    BY <1>1, <1>5, <1>7, <2>1, <2>4, SameEntry
<1> QED
  BY <1>12, <1>13

\* HandleJoin: the entry behind cur gets its name, and its client is told.
LEMMA JoinKeepsNames ==
  ASSUME PromiseInv, Streams, NamesOnList, HandleJoin
  PROVE  NamesOnList'
<1>1. TypeOK /\ ListMatchesSockets /\ ServerInv
  BY DEF PromiseInv, ServerInv
<1>2. /\ pc = "recv" /\ ServerRead(cur) /\ conn' = conn /\ inbox' = inbox
      /\ client_list' = [i \in DOMAIN client_list |->
                           IF FirstWithFd(i, cur)
                             THEN [client_list[i] EXCEPT !.username = Received.from]
                             ELSE client_list[i]]
  BY DEF HandleJoin, Incoming, ServerRead
<1>3. PICK r : r = Received
  OBVIOUS
<1>4. PICK h \in Clients : h = conn[cur]
  BY <1>2, ReceivedIsNew
<1>5. r.type = "JOIN"
  BY <1>3 DEF HandleJoin, Incoming, Received
<1>6. r.from = NameOf[h] /\ r.body[1] = h /\ r.body[2] = 0 /\ r.body = <<h, 0>>
  <2>1. r.from = NameOf[h] /\ r.body[1] = h /\ r.body[2] = 0
    BY <1>2, <1>3, <1>4, <1>5, ReceivedIsNew
  <2>2. r \in FromClient
    BY <1>1, <1>2, <1>3, ReceivedType DEF ServerRead, Received
  <2>3. r.body \in Clients \X Nat
    BY <2>2 DEF FromClient
  <2>4. PICK x \in Clients, k \in Nat : r.body = <<x, k>>
    BY <2>3
  <2> QED
    BY <2>1, <2>4
<1>7. out'.msg = Msg("BROADCAST", "system", r.from, r.body) /\ out'.to = <<cur>>
  BY <1>3 DEF HandleJoin, SendTo
<1>8. \A c : IsWelcome(c, out'.msg) <=> c = h
  <2>1. out'.msg.type = "BROADCAST" /\ out'.msg.body = <<h, 0>>
    BY <1>6, <1>7 DEF Msg
  <2> QED
    BY <2>1 DEF IsWelcome
<1>9. \A c \in Clients : Greets(c)' <=> c = h
  <2>1. ToSet(out'.to) = {cur}
    BY <1>7, OneFd
  <2> QED
    BY <1>2, <1>4, <1>8, <2>1 DEF Greets
<1>10. \A c \in Clients : ~Greets(c)
  <2>1. ToSet(out.to) = {}
    BY <1>2, QuietFacts DEF PromiseInv, Sending
  <2> QED
    BY <2>1 DEF Greets
<1>11. /\ ListName(h)' = NameOf[h]
       /\ \A c \in Clients : c # h => ListName(c)' = ListName(c)
  BY <1>2, <1>9, <1>10 DEF ListName, Welcomed
<1>12. DOMAIN client_list' = DOMAIN client_list
  BY <1>2
<1> SUFFICES ASSUME NEW i \in DOMAIN client_list
             PROVE  client_list'[i].username = ListName(conn[client_list[i].fd])'
  BY <1>12 DEF NamesOnList
<1>13. client_list[i] \in Entries /\ client_list[i].fd \in Listed
  BY <1>1, LenProperties, ElementOfSeq DEF TypeOK, ListTypes, Entries, Listed
<1>14. CASE client_list[i].fd = cur
  <2>1. FirstWithFd(i, cur)
    <3>1. DOMAIN client_list = 1..Len(client_list) /\ Len(client_list) \in Nat
      BY <1>1, LenProperties DEF TypeOK, ListTypes
    <3>2. \A j \in 1..(i - 1) : j \in DOMAIN client_list /\ j # i
      BY <3>1
    <3>3. \A j \in 1..(i - 1) : client_list[j].fd # cur
      BY <1>1, <1>14, <3>2 DEF ListMatchesSockets
    <3> QED
      BY <1>14, <3>3 DEF FirstWithFd
  <2>2. client_list'[i] = [client_list[i] EXCEPT !.username = r.from]
    BY <1>2, <1>3, <2>1
  <2>3. client_list'[i].fd = cur /\ client_list'[i].username = NameOf[h]
    BY <1>6, <1>13, <1>14, <2>2 DEF Entries
  <2>4. ListName(conn[client_list[i].fd])' = ListName(h)'
    BY <1>2, <1>4, <2>3
  <2> QED
    BY <1>11, <2>3, <2>4
<1>15. CASE client_list[i].fd # cur
  <2>1. client_list'[i] = client_list[i]
    BY <1>2, <1>15 DEF FirstWithFd
  <2>2. PICK c \in Clients : c = conn[client_list[i].fd]
    BY <1>1, <1>13, ListedIsOpen
  <2>3. c # h
    <3>1. \A f, g \in Fds : conn[f] = conn[g] /\ conn[f] # NoClient => f = g
      BY DEF PromiseInv, Connections
    <3>2. cur \in Fds /\ client_list[i].fd \in Fds
      <4>1. cur \in Listed
        BY <1>1, <1>2 DEF ServerInv, NoStaleFd
      <4> QED
        BY <1>1, <1>13, <4>1, ListedIsOpen
    <3> QED
      BY <1>4, <1>15, <2>2, <3>1, <3>2, SocketsAssumption
  <2>4. client_list[i].username = ListName(c)
    BY <2>2 DEF NamesOnList
  <2>5. ListName(conn[client_list[i].fd])' = ListName(c)'
    BY <1>2, <2>1, <2>2
  <2> QED
    BY <1>11, <2>1, <2>3, <2>4, <2>5
<1> QED
  BY <1>14, <1>15

\* Who gets the welcome on its way was to be welcomed.
LEMMA WriteKeepsNames ==
  ASSUME PromiseInv, SendOne, NEW t \in Clients, NEW n \in Nat, Gets(t, n)
  PROVE  \A c \in Clients : ListName(c)' = ListName(c)
<1>1. ToSet(Tail(out.to)) = ToSet(out.to) \ {Head(out.to)}
  <2>1. out.to \in Seq(Fds) /\ out.to # <<>>
    BY DEF PromiseInv, ServerInv, TypeOK, SendTypes, SendOne
  <2> QED
    BY <2>1, TailOfDistinct DEF PromiseInv, Sending
<1> SUFFICES ASSUME NEW c \in Clients
             PROVE  (Welcomed(c) \/ Greets(c))' <=> (Welcomed(c) \/ Greets(c))
  BY DEF ListName
<1>2. CASE c = t
  <2>1. Welcomed(t)' <=> Welcomed(t) \/ IsWelcome(t, out.msg)
    BY DEF Gets, Welcomed
  <2>2. Greets(t) <=> IsWelcome(t, out.msg)
    BY DEF Gets, Greets
  <2>3. Greets(t)' => IsWelcome(t, out.msg)
    BY DEF Gets, Greets
  <2> QED
    BY <1>2, <2>1, <2>2, <2>3
<1>3. CASE c # t
  <2>1. Welcomed(c)' <=> Welcomed(c)
    BY <1>3 DEF Gets, Welcomed
  <2>2. Greets(c)' <=> Greets(c)
    BY <1>1, <1>3 DEF Gets, Greets
  <2> QED
    BY <2>1, <2>2
<1> QED
  BY <1>2, <1>3

\* The list keeps its names.
LEMMA NamesStep ==
  ASSUME "server" \notin Clients,
         PromiseInv, PromiseInv', Streams, NamesOnList, Unserved, [Next]_vars
  PROVE  NamesOnList'
<1>1. TypeOK /\ ListMatchesSockets /\ Sending
  BY DEF PromiseInv, ServerInv
<1>2. ASSUME UNCHANGED <<client_list, conn, inbox, out>> PROVE NamesOnList'
  BY <1>2 DEF NamesOnList, ListName, Welcomed, Greets
<1>3. CASE LoopTest \/ Select \/ NoInput \/ CommandPrints \/ CommandShutdown \/ ConsoleEof
             \/ NoConnection \/ AcceptFails \/ ScanFinds \/ ScanDone \/ AcceptNoMemory
  BY <1>2, <1>3 DEF LoopTest, Select, NoInput, CommandPrints, CommandShutdown, ConsoleEof,
     NoConnection, AcceptFails, ScanFinds, ScanDone, AcceptNoMemory, AcceptAndClose
<1>4. CASE Sigint \/ Env \/ UNCHANGED vars
  BY <1>2, <1>4 DEF Sigint, Env, OperatorTypes, EnvWrite,
     EnvSocket, EnvClose, ClientWrite, Connect, ConnectRefused, ClientRead, ClientClose
<1>5. CASE HandleBroadcast \/ HandlePrivate \/ HandleListUsers \/ CommandBroadcast
  <2>1. UNCHANGED <<client_list, conn, inbox>>
    BY <1>5 DEF HandleBroadcast, HandlePrivate, HandleListUsers, CommandBroadcast, ServerRead
  <2>2. \A c \in Clients : ListName(c)' = ListName(c)
    BY <1>5, <2>1, OnlyJoinsGreet, NamesKept
  <2> QED
    BY <1>1, <2>1, <2>2, ListKept
<1>6. CASE Cleanup \/ SendKilled
  <2>1. client_list' = <<>>
    BY <1>6 DEF Cleanup, SendKilled
  <2> QED
    BY <2>1 DEF NamesOnList
<1>7. CASE CommandKick \/ HandleLeave \/ HandleDisconnect \/ AcceptClient
  <2>1. pc # "send" /\ out' = out /\ inbox' = inbox
    BY <1>7 DEF CommandKick, HandleLeave, HandleDisconnect, AcceptClient, Incoming, ReadLine
  <2>2. out.to = <<>> /\ out'.to = <<>>
    BY <1>1, <2>1, QuietFacts DEF Sending
  <2>3. \A c \in Clients : ~Greets(c) /\ ListName(c)' = ListName(c)
    BY <2>1, <2>2, NobodyGreeted, NamesKept
  <2>4. CASE AcceptClient
    BY <2>3, <2>4, AcceptKeepsNames
  <2>5. CASE CommandKick \/ HandleLeave \/ HandleDisconnect
    <3>1. CASE \E g \in DOMAIN client_list : RemoveEntry(g)
      BY <2>3, <3>1, RemovalKeepsNames
    <3>2. CASE UNCHANGED <<sockVars, listVars>>
      BY <1>2, <2>1, <3>2
    <3> QED
      BY <2>5, <3>1, <3>2 DEF CommandKick, HandleLeave, HandleDisconnect, FirstNamed, FirstWithFd
  <2> QED
    BY <1>7, <2>4, <2>5
<1>8. CASE HandleJoin
  BY <1>8, JoinKeepsNames
<1>9. CASE SendOne
  <2>1. PICK t \in Clients, n \in Nat : Gets(t, n)
    BY <1>9, SendOneGets
  <2>2. \A c \in Clients : ListName(c)' = ListName(c)
    BY <1>9, <2>1, WriteKeepsNames
  <2>3. UNCHANGED <<client_list, conn>>
    BY <1>9 DEF SendOne, ServerWrite
  <2> QED
    BY <1>1, <2>2, <2>3, ListKept
<1>10. CASE SendDone
  <2>1. out.to = <<>> /\ out'.to = <<>> /\ UNCHANGED <<client_list, conn, inbox>>
    BY <1>10, QuietFacts DEF SendDone
  <2>2. \A c \in Clients : ListName(c)' = ListName(c)
    BY <2>1, NobodyGreeted, NamesKept
  <2> QED
    BY <1>1, <2>1, <2>2, ListKept
<1> QED
  BY <1>3, <1>4, <1>5, <1>6, <1>7, <1>8, <1>9, <1>10 DEF Next, ServerNext

\* Nobody comes to wait in the backlog but by connect(), and once.
LEMMA WaitersAreOld ==
  ASSUME TypeOK, [Next]_vars, NEW c \in Clients, peer'[c] = "new" \/ InBacklog(c)'
  PROVE  peer[c] = "new" \/ InBacklog(c)
<1>1. backlog \in Seq(Clients) /\ peer \in [Clients -> {"new", "open", "closed"}]
  BY DEF TypeOK, SocketTypes
<1>2. CASE UNCHANGED <<backlog, peer>>
  BY <1>2 DEF InBacklog
<1>3. CASE LoopTest \/ Select \/ NoInput \/ CommandPrints \/ CommandShutdown \/ ConsoleEof
             \/ NoConnection \/ AcceptFails \/ ScanFinds \/ ScanDone \/ CommandBroadcast
  BY <1>2, <1>3 DEF LoopTest, Select, NoInput, CommandPrints, CommandShutdown, ConsoleEof,
     NoConnection, AcceptFails, ScanFinds, ScanDone, CommandBroadcast
<1>4. CASE HandleJoin \/ HandleBroadcast \/ HandlePrivate \/ HandleListUsers
  BY <1>2, <1>4 DEF HandleJoin, HandleBroadcast, HandlePrivate, HandleListUsers, ServerRead
<1>5. CASE SendOne \/ SendDone \/ Sigint \/ OperatorTypes \/ UNCHANGED vars
  BY <1>2, <1>5 DEF SendOne, SendDone, ServerWrite, Sigint, OperatorTypes
<1>6. CASE CommandKick \/ HandleLeave \/ HandleDisconnect
  BY <1>2, <1>6 DEF CommandKick, HandleLeave, HandleDisconnect, RemoveEntry, ServerClose
<1>7. CASE Cleanup \/ SendKilled
  <2>1. backlog' = <<>> /\ peer' = peer
    BY <1>7 DEF Cleanup, SendKilled, CloseAll
  <2> QED
    BY <2>1 DEF InBacklog, ToSet
<1>8. CASE AcceptClient \/ AcceptNoMemory
  <2>1. backlog # <<>> /\ backlog' = Tail(backlog) /\ peer' = peer
    BY <1>8 DEF AcceptClient, Accept, AcceptNoMemory, AcceptAndClose
  <2> QED
    BY <1>1, <2>1, TailSubset DEF InBacklog
<1>9. ASSUME NEW d \in Clients, EnvWrite(d) \/ EnvSocket(d) \/ EnvClose(d)
      PROVE  peer[c] = "new" \/ InBacklog(c)
  <2>1. CASE Connect(d)
    <3>1. /\ peer[d] = "new" /\ peer' = [peer EXCEPT ![d] = "open"]
          /\ backlog' = Append(backlog, d)
      BY <2>1 DEF Connect
    <3>2. ToSet(backlog') = ToSet(backlog) \cup {d}
      BY <1>1, <3>1, AppendElements
    <3> QED
      BY <1>1, <3>1, <3>2 DEF InBacklog
  <2>2. CASE ConnectRefused(d) \/ ClientClose(d)
    <3>1. peer' = [peer EXCEPT ![d] = "closed"] /\ backlog' = backlog
      BY <2>2 DEF ConnectRefused, ClientClose
    <3> QED
      BY <1>1, <3>1 DEF InBacklog
  <2>3. CASE EnvWrite(d) \/ ClientRead(d)
    BY <1>2, <2>3 DEF EnvWrite, ClientWrite, ClientRead
  <2> QED
    BY <1>9, <2>1, <2>2, <2>3 DEF EnvSocket, EnvClose
<1> QED
  BY <1>3, <1>4, <1>5, <1>6, <1>7, <1>8, <1>9 DEF Next, ServerNext, Env

LEMMA OnlyWritesAdd ==
  ASSUME [Next]_vars, ~SendOne
  PROVE  inbox' = inbox
BY DEF Next, ServerNext, Env, LoopTest, Select, NoInput, CommandPrints, CommandKick,
   CommandBroadcast, CommandShutdown, ConsoleEof, NoConnection, AcceptClient, AcceptNoMemory,
   AcceptFails, ScanFinds, ScanDone, Cleanup, HandleJoin, HandleBroadcast, HandlePrivate,
   HandleListUsers, HandleLeave, HandleDisconnect, SendKilled, SendDone, Sigint,
   OperatorTypes, EnvWrite, EnvSocket, EnvClose

LEMMA UnservedStep ==
  ASSUME PromiseInv, Unserved, [Next]_vars
  PROVE  Unserved'
<1>1. TypeOK /\ Connections
  BY DEF PromiseInv, ServerInv
<1> SUFFICES ASSUME NEW c \in Clients, peer'[c] = "new" \/ InBacklog(c)'
             PROVE  inbox'[c] = <<>>
  BY DEF Unserved
<1>2. peer[c] = "new" \/ InBacklog(c)
  BY <1>1, WaitersAreOld
<1>3. inbox[c] = <<>>
  BY <1>2 DEF Unserved
<1>4. CASE ~SendOne
  BY <1>3, <1>4, OnlyWritesAdd
<1>5. CASE SendOne
  <2>1. PICK t \in Clients, n \in Nat : Gets(t, n)
    BY <1>5, SendOneGets
  <2>2. PICK fd \in Fds : t = conn[fd]
    <3>1. ToSet(out.to) \subseteq Fds
      <4>1. out.to \in Seq(Fds)
        BY <1>1 DEF TypeOK, SendTypes
      <4> QED
        BY <4>1, LenProperties, ElementOfSeq DEF ToSet
    <3> QED
      BY <2>1, <3>1 DEF Gets
  <2>3. peer[t] # "new" /\ ~InBacklog(t)
    BY <1>1, <2>2, SocketsAssumption DEF Connections, InBacklog, ToSet
  <2>4. c # t
    BY <1>2, <2>3
  <2> QED
    BY <1>3, <2>1, <2>4 DEF Gets
<1> QED
  BY <1>4, <1>5

-----------------------------------------------------------------------------

LEMMA InitHistory == ServerInit => History
<1> SUFFICES ASSUME ServerInit PROVE History
  OBVIOUS
<1>1. /\ \A c \in Clients : toServer[c] = <<>> /\ inbox[c] = <<>> /\ ToSet(inbox[c]) = {}
      /\ out = Quiet /\ client_list = <<>>
  BY DEF ServerInit, SocketsInit, ToSet
<1>2. out.to = <<>> /\ ToSet(out.to) = {} /\ out.msg = Quiet.msg
  BY <1>1, QuietFacts
<1>3. Streams /\ NamesOnList /\ Unserved
  BY <1>1 DEF Streams, NamesOnList, Unserved
<1>4. AllSettled
  BY <1>1, <1>2, QuietIsNoChat DEF AllSettled, Written
<1>5. Fresh /\ NoneSince /\ OneTarget
  BY <1>2, QuietIsNoChat DEF Fresh, NoneSince, OneTarget
<1>6. InSenderOrder /\ TotalOrder /\ PrivateToAddressee
  BY <1>1 DEF InSenderOrder, TotalOrder, PrivateToAddressee
<1> QED
  BY <1>3, <1>4, <1>5, <1>6, InitPromise DEF History, Order

\* All steps but a write take the message on its way from the reader, drop
\* it, or leave it; none touches an inbox.
LEMMA OtherSteps ==
  ASSUME "server" \notin Clients, History, PromiseInv', [Next]_vars, ~SendOne
  PROVE  inbox' = inbox /\ AllSettled' /\ Fresh' /\ NoneSince' /\ OneTarget'
<1>1. PromiseInv /\ Streams /\ AllSettled /\ Fresh /\ NoneSince /\ OneTarget /\ NamesOnList
  BY DEF History, Order
<1>2. ASSUME UNCHANGED <<inbox, out, conn>>
      PROVE  inbox' = inbox /\ AllSettled' /\ Fresh' /\ NoneSince' /\ OneTarget'
  BY <1>1, <1>2, SameHistory
<1>3. CASE LoopTest \/ Select \/ NoInput \/ CommandPrints \/ CommandShutdown \/ ConsoleEof
             \/ NoConnection \/ AcceptFails \/ ScanFinds \/ ScanDone \/ AcceptNoMemory
  BY <1>2, <1>3 DEF LoopTest, Select, NoInput, CommandPrints, CommandShutdown, ConsoleEof,
     NoConnection, AcceptFails, ScanFinds, ScanDone, AcceptNoMemory, AcceptAndClose
<1>4. CASE Sigint \/ Env \/ UNCHANGED vars
  BY <1>2, <1>4 DEF Sigint, Env, OperatorTypes, EnvWrite, EnvSocket, EnvClose, ClientWrite,
     Connect, ConnectRefused, ClientRead, ClientClose
<1>5. ASSUME out' = Quiet, inbox' = inbox
      PROVE  inbox' = inbox /\ AllSettled' /\ Fresh' /\ NoneSince' /\ OneTarget'
  BY <1>1, <1>5, QuietHistory
<1>6. CASE AcceptClient \/ CommandKick \/ HandleLeave \/ HandleDisconnect \/ Cleanup
  <2>1. pc # "send" /\ out' = out /\ inbox' = inbox
    BY <1>6 DEF AcceptClient, CommandKick, HandleLeave, HandleDisconnect, Cleanup, Incoming,
       ReadLine
  <2>2. out = Quiet
    BY <1>1, <2>1 DEF PromiseInv, Sending
  <2> QED
    BY <1>5, <2>1, <2>2
<1>7. CASE SendDone \/ SendKilled
  BY <1>5, <1>7 DEF SendDone, SendKilled
<1>8. CASE CommandBroadcast
  BY <1>1, <1>8, BroadcastHistory DEF CommandBroadcast
<1>9. CASE HandleJoin \/ HandleBroadcast \/ HandlePrivate \/ HandleListUsers
  <2>1. inbox' = inbox
    BY <1>9 DEF HandleJoin, HandleBroadcast, HandlePrivate, HandleListUsers
  <2> QED
    BY <1>1, <1>9, <2>1, HandlerHistory
<1> QED
  BY <1>3, <1>4, <1>6, <1>7, <1>8, <1>9 DEF Next, ServerNext

LEMMA HistoryStep ==
  ASSUME "server" \notin Clients, History, PromiseInv', [Next]_vars
  PROVE  History'
<1>1. /\ PromiseInv /\ Streams /\ AllSettled /\ Fresh /\ NoneSince /\ OneTarget /\ NamesOnList
      /\ Unserved /\ InSenderOrder /\ TotalOrder /\ PrivateToAddressee /\ TypeOK
  BY DEF History, Order, PromiseInv, ServerInv
<1>2. Streams' /\ NamesOnList' /\ Unserved'
  BY <1>1, StreamsStep, NamesStep, UnservedStep
<1>3. CASE ~SendOne
  <2>1. inbox' = inbox /\ AllSettled' /\ Fresh' /\ NoneSince' /\ OneTarget'
    BY <1>3, OtherSteps
  <2>2. InSenderOrder' /\ TotalOrder' /\ PrivateToAddressee'
    BY <1>1, <2>1 DEF InSenderOrder, TotalOrder, PrivateToAddressee
  <2> QED
    BY <1>2, <2>1, <2>2 DEF History, Order
<1>4. CASE SendOne
  <2>1. PICK t \in Clients, n \in Nat : Gets(t, n)
    BY <1>1, <1>4, SendOneGets
  <2>2. AllSettled' /\ Fresh' /\ NoneSince' /\ OneTarget'
    BY <1>1, <2>1, SendOneHistory
  <2>3. InSenderOrder' /\ TotalOrder' /\ PrivateToAddressee'
    BY <1>1, <2>1, OrderKept, AgreementKept, PrivacyKept
  <2> QED
    BY <1>2, <2>2, <2>3 DEF History, Order
<1> QED
  BY <1>3, <1>4

LEMMA HistoryInductive ==
  ASSUME "server" \notin Clients
  PROVE  Spec => []History
<1>1. History /\ PromiseInv' /\ [Next]_vars => History'
  BY HistoryStep
<1> QED
  BY <1>1, InitHistory, PromiseInductive, PTL DEF Spec

\* handle_client_message() and the operator's /broadcast: what one author
\* says reaches each client in the order it was said, and at most once.
THEOREM SendersInOrder ==
  ASSUME "server" \notin Clients
  PROVE  Spec => []InSenderOrder
BY HistoryInductive, PTL DEF History

\* broadcast_message(): all clients agree on the order of the broadcasts.
THEOREM OneOrder ==
  ASSUME "server" \notin Clients
  PROVE  Spec => []TotalOrder
BY HistoryInductive, PTL DEF History

\* send_private_message(): a private message is written to one client at most,
\* welcomed under the name that was asked for, or not welcomed yet if that
\* name is "unknown".
THEOREM OnlyTheAddressee ==
  ASSUME "server" \notin Clients
  PROVE  Spec => []PrivateToAddressee
BY HistoryInductive, PTL DEF History
=================================================================================
