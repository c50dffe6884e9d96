------------------------------- MODULE ChatSystem -------------------------------
(***************************************************************************)
(* chat_server with real chat_clients: the two programs share nothing but  *)
(* the sockets of ChatSockets.                                             *)
(***************************************************************************)
EXTENDS ChatServer, ChatClient

\* What a line comes to once it is parsed: a "/msg" names somebody, or the
\* name the server gives to those who have not joined.
TypedLines == [cmd : {"empty", "name", "text", "users", "help", "quit"}, arg : {""}]
                \cup [cmd : {"msg"}, arg : Names \cup {Unknown}]

\* The two bounds of the model agree: a name, and MaxMsgs lines to say.
ASSUME SystemAssumption ==
  \A input \in Inputs : input \in Seq(TypedLines) /\ Len(input) <= MaxMsgs + 1

systemVars == <<vars, clientVars>>

SystemInit == ServerInit /\ ClientsInit

ServerSteps  == (ServerNext \/ Sigint \/ OperatorTypes) /\ UNCHANGED clientVars
ClientStep(c) == ClientNext(c) /\ UNCHANGED <<serverVars, envVars>>
UserStep(c)   == User(c) /\ UNCHANGED <<serverVars, envVars>>

SystemNext == ServerSteps \/ \E c \in Clients : ClientStep(c) \/ UserStep(c)

SystemSpec == SystemInit /\ [][SystemNext]_systemVars

\* The kernel schedules every process; nobody has to type or to hang up.
FairSystem ==
  /\ SystemSpec
  /\ WF_systemVars(ServerNext /\ UNCHANGED clientVars)
  /\ \A c \in Clients : WF_systemVars(ClientStep(c))
-----------------------------------------------------------------------------
\* chat_client.c does only what ChatServer expects of its clients, so what
\* is shown there holds with these clients too.
ImplementsServerSpec == Spec

\* TESTING.md "Error Handling", the client's side: when the server is gone
\* every connected client notices and ends, wherever it was.
ClientsNoticeServer == \A c \in Clients : (Stopped ~> cpc[c] \in {"name", "ended", "killed"})

\* PROTOCOL.md:41 "MSG_BROADCAST: message to all users": a send loop that
\* has started comes to its end.
SendsComplete == pc = "send" ~> pc # "send"

\* ARCHITECTURE.md:53 "Normal text is sent": lines that fgets() took into its
\* buffer along with another, and that select() does not see, are dealt with
\* all the same once the input is at its end, as in test_client.sh: the end of
\* a file stays readable.  Only a client that is held for ever inside write()
\* or connect(), because the server no longer takes what it has to say, keeps
\* them for ever.
PipedLinesHandled ==
  \A c \in Clients : <>[](hungUp[c] /\ buffered[c] # <<>> /\ ~ClientEnded(c))
                       => <>[](\/ cpc[c] = "write" /\ Len(toServer[c]) = Cap /\ ServerHolds(c)
                               \/ cpc[c] = "connect")
=============================================================================
