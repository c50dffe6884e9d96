------------------------------ MODULE ChatSockets ------------------------------
(***************************************************************************)
(* The UNIX stream sockets between chat_server and its chat_clients: the   *)
(* listening socket with its backlog, the server's file descriptors, and   *)
(* one byte stream in each direction per client, cut into the fixed-size   *)
(* message_t structs both sides exchange (message.c).  Every operator is   *)
(* one system call as the wrappers in ipc_sockets.c and message.c use it.  *)
(***************************************************************************)
EXTENDS Naturals, SequencesExt

CONSTANTS Clients,   (* client processes; each connects at most once       *)
          NoClient,  (* an fd the server has not open                      *)
          Fds,       (* fds the server can open for its clients            *)
          Cap,       (* messages one direction of a connection can buffer  *)
          Backlog,   (* the argument of listen(): 10 in ipc_sockets.c      *)
          Names,     (* user names                                         *)
          NameOf,    (* the name each client process joins with            *)
          Unknown    (* "unknown", the name of who has not joined yet; a   *)
                     (* user may give it, too                              *)

ASSUME SocketsAssumption ==
  /\ NoClient \notin Clients
  /\ Fds \subseteq Nat
  /\ Cap \in Nat \ {0}
  /\ Backlog \in Nat \ {0}
  /\ NameOf \in [Clients -> Names]

VARIABLES listening,  (* does the server's listening socket exist?          *)
          backlog,    (* connected clients the server has not accepted yet  *)
          conn,       (* the client behind each fd of the server            *)
          toServer,   (* messages a client wrote, not yet read              *)
          toClient,   (* messages the server wrote, not yet read            *)
          peer,       (* the client's end: "new", "open" or "closed"        *)
          nsent       (* history: how many messages each client wrote       *)

sockVars == <<listening, backlog, conn, toServer, toClient, peer, nsent>>

\* message_init().  A body tells the messages of one sender apart.
Msg(type, from, to, body) ==
  [type |-> type, from |-> from, to |-> to, body |-> body]

InBacklog(c)   == c \in ToSet(backlog)
Accepted(c)    == \E fd \in Fds : conn[fd] = c
ServerHolds(c) == InBacklog(c) \/ Accepted(c)

SocketsInit ==
  /\ listening = TRUE
  /\ backlog = <<>>
  /\ conn = [fd \in Fds |-> NoClient]
  /\ toServer = [c \in Clients |-> <<>>]
  /\ toClient = [c \in Clients |-> <<>>]
  /\ peer = [c \in Clients |-> "new"]
  /\ nsent = [c \in Clients |-> 0]

-----------------------------------------------------------------------------
(* System calls of a client.                                               *)

\* socket() and connect() succeed as soon as the backlog has room.
Connect(c) ==
  /\ peer[c] = "new" /\ listening /\ Len(backlog) < Backlog
  /\ backlog' = Append(backlog, c)
  /\ peer' = [peer EXCEPT ![c] = "open"]
  /\ UNCHANGED <<listening, conn, toServer, toClient, nsent>>

ConnectRefused(c) ==
  /\ peer[c] = "new" /\ ~listening
  /\ peer' = [peer EXCEPT ![c] = "closed"]
  /\ UNCHANGED <<listening, backlog, conn, toServer, toClient, nsent>>

\* write() blocks while the buffer is full.
ClientWrite(c, m) ==
  /\ peer[c] = "open" /\ ServerHolds(c) /\ Len(toServer[c]) < Cap
  /\ toServer' = [toServer EXCEPT ![c] = Append(@, m)]
  /\ nsent' = [nsent EXCEPT ![c] = @ + 1]
  /\ UNCHANGED <<listening, backlog, conn, toClient, peer>>

\* read() of a message; pending messages survive the server's close().
ClientRead(c) ==
  /\ peer[c] = "open" /\ toClient[c] # <<>>
  /\ toClient' = [toClient EXCEPT ![c] = Tail(@)]
  /\ UNCHANGED <<listening, backlog, conn, toServer, peer, nsent>>

ClientEof(c) == peer[c] = "open" /\ ~ServerHolds(c) /\ toClient[c] = <<>>

\* close(), or the kernel closing the socket of a process that ended.
ClientClose(c) ==
  /\ peer[c] = "open"
  /\ peer' = [peer EXCEPT ![c] = "closed"]
  /\ toClient' = [toClient EXCEPT ![c] = <<>>]
  /\ UNCHANGED <<listening, backlog, conn, toServer, nsent>>

-----------------------------------------------------------------------------
(* System calls of the server.                                             *)

LowestFree(fd) ==
  /\ conn[fd] = NoClient
  /\ \A g \in Fds : conn[g] = NoClient => fd <= g

\* accept(): the kernel hands out the lowest free descriptor.
Accept(fd) ==
  /\ backlog # <<>> /\ LowestFree(fd)
  /\ conn' = [conn EXCEPT ![fd] = Head(backlog)]
  /\ backlog' = Tail(backlog)
  /\ UNCHANGED <<listening, toServer, toClient, peer, nsent>>

\* select(): data, or the end of the stream, can be read without blocking.
Readable(fd) == toServer[conn[fd]] # <<>> \/ peer[conn[fd]] = "closed"

\* Mutant: the message is looked at (MSG_PEEK) and stays in the stream.
ServerReadPeeks(fd) ==
  /\ toServer[conn[fd]] # <<>>
  /\ UNCHANGED sockVars

ServerRead(fd) ==
  /\ toServer[conn[fd]] # <<>>
  /\ toServer' = [toServer EXCEPT ![conn[fd]] = Tail(@)]
  /\ UNCHANGED <<listening, backlog, conn, toClient, peer, nsent>>

ServerWrite(fd, m) ==
  /\ peer[conn[fd]] = "open" /\ Len(toClient[conn[fd]]) < Cap
  /\ toClient' = [toClient EXCEPT ![conn[fd]] = Append(@, m)]
  /\ UNCHANGED <<listening, backlog, conn, toServer, peer, nsent>>

\* close() of the server's end; what the client had in flight is lost.
ServerClose(fd) ==
  /\ conn' = [conn EXCEPT ![fd] = NoClient]
  /\ toServer' = [toServer EXCEPT ![conn[fd]] = <<>>]
  /\ UNCHANGED <<listening, backlog, toClient, peer, nsent>>

\* accept() and close() in a row: the client at the head sees end of file.
AcceptAndClose ==
  /\ backlog # <<>>
  /\ backlog' = Tail(backlog)
  /\ toServer' = [toServer EXCEPT ![Head(backlog)] = <<>>]
  /\ UNCHANGED <<listening, conn, toClient, peer, nsent>>

\* Every socket of the server goes: at cleanup() or when the process ends.
CloseAll ==
  /\ listening' = FALSE
  /\ backlog' = <<>>
  /\ conn' = [fd \in Fds |-> NoClient]
  /\ toServer' = [c \in Clients |-> <<>>]
  /\ UNCHANGED <<toClient, peer, nsent>>
=============================================================================
