------------------------------- MODULE ChatClient -------------------------------
(***************************************************************************)
(* chat_client.c: a process that asks for a name, connects, and then       *)
(* multiplexes its terminal and its socket with select().  Lines come      *)
(* through stdio: fgets() takes them from a buffer of the process that     *)
(* select() knows nothing of, and refills it with one read().              *)
(***************************************************************************)
EXTENDS ChatSockets

CONSTANTS Inputs,    (* the input a user may give: sequences of lines       *)
          Piped,     (* stdin is a pipe (read() takes all there is), or a   *)
                     (* terminal (read() takes one line)                    *)
          Kills      (* whether users send SIGINT or SIGKILL                *)

ASSUME ClientAssumption == Piped \in BOOLEAN /\ Kills \in BOOLEAN

VARIABLES cpc,             (* where the process is                         *)
          running_client,  (* the flag of the loop                         *)
          readable,        (* what select() reported: {"stdin", "socket"}  *)
          pending,         (* the message being written                    *)
          script,          (* environment: lines still to be typed         *)
          typed,           (* lines in the kernel                          *)
          hungUp,          (* no line will follow the ones in the kernel   *)
          buffered         (* lines in the buffer of stdio                 *)

inputVars  == <<script, typed, hungUp, buffered>>
clientVars == <<cpc, running_client, readable, pending, inputVars>>

Line(cmd, arg) == [cmd |-> cmd, arg |-> arg]

ClientEnded(c) == cpc[c] \in {"ended", "killed"}

ClientsInit ==
  /\ cpc = [c \in Clients |-> "name"]
  /\ running_client = [c \in Clients |-> TRUE]
  /\ readable = [c \in Clients |-> {}]
  /\ pending = [c \in Clients |-> Msg("NONE", Unknown, Unknown, <<>>)]
  /\ script \in [Clients -> Inputs]
  /\ typed = [c \in Clients |-> <<>>]
  /\ hungUp = [c \in Clients |-> FALSE]
  /\ buffered = [c \in Clients |-> <<>>]

Goto(c, place) == cpc' = [cpc EXCEPT ![c] = place]

-----------------------------------------------------------------------------
(* fgets(): from the buffer, or from one read() that refills it.           *)

FromBuffer(c, line) ==
  /\ buffered[c] # <<>> /\ line = Head(buffered[c])
  /\ buffered' = [buffered EXCEPT ![c] = Tail(@)]
  /\ UNCHANGED typed

FromKernel(c, line) ==
  LET n == IF Piped THEN Len(typed[c]) ELSE 1
  IN  /\ buffered[c] = <<>> /\ typed[c] # <<>> /\ line = Head(typed[c])
      /\ buffered' = [buffered EXCEPT ![c] = SubSeq(typed[c], 2, n)]
      /\ typed' = [typed EXCEPT ![c] = SubSeq(@, n + 1, Len(@))]

GetLine(c, line) ==
  /\ FromBuffer(c, line) \/ FromKernel(c, line)
  /\ UNCHANGED <<script, hungUp>>

InputEnds(c) == buffered[c] = <<>> /\ typed[c] = <<>> /\ hungUp[c]

FirstLine(c) == IF buffered[c] # <<>> THEN Head(buffered[c]) ELSE Head(typed[c])
HasLine(c)   == buffered[c] # <<>> \/ typed[c] # <<>>

-----------------------------------------------------------------------------
(* main(), then client_run().                                              *)

ReadName(c) ==
  /\ cpc[c] = "name"
  /\ \/ /\ HasLine(c) /\ GetLine(c, FirstLine(c))
        /\ Goto(c, IF FirstLine(c).cmd = "empty" THEN "ended" ELSE "connect")
     \/ /\ InputEnds(c) /\ Goto(c, "ended")
        /\ UNCHANGED inputVars
  /\ UNCHANGED <<sockVars, running_client, readable, pending>>

\* Write m and go on at place: SendMessage blocks while the buffer is full.
StartWriting(c, m) ==
  /\ pending' = [pending EXCEPT ![c] = m]
  /\ Goto(c, "write")

\* Mutant: the client does not introduce itself.
OpenConnectionSilently(c) ==
  /\ cpc[c] = "connect"
  /\ \/ Connect(c) /\ Goto(c, "loop")
     \/ ConnectRefused(c) /\ Goto(c, "ended")
  /\ UNCHANGED <<running_client, readable, pending, inputVars>>

OpenConnection(c) ==
  /\ cpc[c] = "connect"
  /\ \/ /\ Connect(c)
        /\ StartWriting(c, Msg("JOIN", NameOf[c], "", <<c, 0>>))
     \/ /\ ConnectRefused(c) /\ Goto(c, "ended")
        /\ UNCHANGED pending
  /\ UNCHANGED <<running_client, readable, inputVars>>

WriteMessage(c) ==
  /\ cpc[c] = "write"
  /\ ClientWrite(c, pending[c])
  /\ IF pending[c].type = "LEAVE"
       THEN /\ running_client' = [running_client EXCEPT ![c] = FALSE]
            /\ Goto(c, "close")
       ELSE Goto(c, "loop") /\ UNCHANGED running_client
  /\ UNCHANGED <<readable, pending, inputVars>>

\* The server is gone: write() raises SIGPIPE and the process ends.
WriteKilled(c) ==
  /\ cpc[c] = "write" /\ ~ServerHolds(c)
  /\ ClientClose(c) /\ Goto(c, "killed")
  /\ UNCHANGED <<running_client, readable, pending, inputVars>>

ClientLoopTest(c) ==
  /\ cpc[c] = "loop"
  /\ Goto(c, IF running_client[c] THEN "select" ELSE "close")
  /\ UNCHANGED <<sockVars, running_client, readable, pending, inputVars>>

\* Mutant: the end of the input does not make stdin readable.
ReadyForDataOnly(c) == (IF typed[c] # <<>> THEN {"stdin"} ELSE {})
                         \cup (IF toClient[c] # <<>> \/ ~ServerHolds(c) THEN {"socket"} ELSE {})

\* select() looks at the kernel only: a line in the buffer does not count.
ReadyFor(c) == (IF typed[c] # <<>> \/ hungUp[c] THEN {"stdin"} ELSE {})
                 \cup (IF toClient[c] # <<>> \/ ~ServerHolds(c) THEN {"socket"} ELSE {})

ClientSelect(c) ==
  /\ cpc[c] = "select" /\ ReadyFor(c) # {}
  /\ readable' = [readable EXCEPT ![c] = ReadyFor(c)]
  /\ Goto(c, "socket")
  /\ UNCHANGED <<sockVars, running_client, pending, inputVars>>

\* Mutant: end of file is taken for an empty message.
HandleSocketBlindly(c) ==
  /\ cpc[c] = "socket"
  /\ \/ /\ "socket" \notin readable[c] \/ ClientEof(c)
        /\ UNCHANGED sockVars
     \/ "socket" \in readable[c] /\ ClientRead(c)
  /\ Goto(c, "stdin")
  /\ UNCHANGED <<running_client, readable, pending, inputVars>>

\* recv_message_fd(): show the message, or leave the loop at end of file.
HandleSocket(c) ==
  /\ cpc[c] = "socket"
  /\ \/ /\ "socket" \notin readable[c] /\ Goto(c, "stdin")
        /\ UNCHANGED sockVars
     \/ /\ "socket" \in readable[c] /\ ClientRead(c) /\ Goto(c, "stdin")
     \/ /\ "socket" \in readable[c] /\ ClientEof(c) /\ Goto(c, "close")
        /\ UNCHANGED sockVars
  /\ UNCHANGED <<running_client, readable, pending, inputVars>>

SkipStdin(c) ==
  /\ cpc[c] = "stdin" /\ "stdin" \notin readable[c]
  /\ Goto(c, "loop")
  /\ UNCHANGED <<sockVars, running_client, readable, pending, inputVars>>

StdinEof(c) ==
  /\ cpc[c] = "stdin" /\ "stdin" \in readable[c] /\ InputEnds(c)
  /\ running_client' = [running_client EXCEPT ![c] = FALSE]
  /\ Goto(c, "close")
  /\ UNCHANGED <<sockVars, readable, pending, inputVars>>

\* "/help", an unknown or malformed command and an empty line send nothing.
MessageFor(c, line) ==
  LET body == <<c, nsent[c]>>
  IN  CASE line.cmd = "text"  -> {Msg("BROADCAST", NameOf[c], "ALL", body)}
        [] line.cmd = "msg"   -> {Msg("PRIVATE", NameOf[c], line.arg, body)}
        [] line.cmd = "users" -> {Msg("LIST_USERS", NameOf[c], "", body)}
        [] line.cmd = "quit"  -> {Msg("LEAVE", NameOf[c], "", body)}
        [] OTHER              -> {}

HandleLine(c) ==
  /\ cpc[c] = "stdin" /\ "stdin" \in readable[c] /\ HasLine(c)
  /\ GetLine(c, FirstLine(c))
  /\ \/ \E m \in MessageFor(c, FirstLine(c)) : StartWriting(c, m)
     \/ /\ MessageFor(c, FirstLine(c)) = {} /\ Goto(c, "loop")
        /\ UNCHANGED pending
  /\ UNCHANGED <<sockVars, running_client, readable>>

CloseConnection(c) ==
  /\ cpc[c] = "close"
  /\ ClientClose(c) /\ Goto(c, "ended")
  /\ UNCHANGED <<running_client, readable, pending, inputVars>>

ClientNext(c) ==
  \/ ReadName(c) \/ OpenConnection(c) \/ WriteMessage(c) \/ WriteKilled(c)
  \/ ClientLoopTest(c) \/ ClientSelect(c) \/ HandleSocket(c)
  \/ SkipStdin(c) \/ StdinEof(c) \/ HandleLine(c) \/ CloseConnection(c)

-----------------------------------------------------------------------------
(* The user at the keyboard, and the signals users send.                   *)

TypeLine(c) ==
  /\ script[c] # <<>>
  /\ typed' = [typed EXCEPT ![c] = Append(@, Head(script[c]))]
  /\ script' = [script EXCEPT ![c] = Tail(@)]
  /\ UNCHANGED <<sockVars, cpc, running_client, readable, pending, hungUp, buffered>>

HangUp(c) ==
  /\ script[c] = <<>> /\ ~hungUp[c]
  /\ hungUp' = [hungUp EXCEPT ![c] = TRUE]
  /\ UNCHANGED <<sockVars, cpc, running_client, readable, pending, script, typed, buffered>>

\* sigint_handler_client() is installed after connect(); until then SIGINT
\* kills.  Later only a process inside select() notices it at once, and not
\* one that has tested the flag and not yet called select().
Interrupt(c) ==
  /\ Kills /\ ~ClientEnded(c)
  /\ IF cpc[c] \in {"name", "connect"}
       THEN Goto(c, "killed") /\ UNCHANGED running_client
       ELSE /\ running_client' = [running_client EXCEPT ![c] = FALSE]
            /\ \E place \in IF cpc[c] = "select" THEN {"select", "loop"} ELSE {cpc[c]} :
                 Goto(c, place)
  /\ UNCHANGED <<sockVars, readable, pending, inputVars>>

\* kill -9, as in test_disconnect.sh.
Kill(c) ==
  /\ Kills /\ ~ClientEnded(c)
  /\ ClientClose(c)
  /\ Goto(c, "killed")
  /\ UNCHANGED <<running_client, readable, pending, inputVars>>

User(c) == TypeLine(c) \/ HangUp(c) \/ Interrupt(c) \/ Kill(c)
=============================================================================
