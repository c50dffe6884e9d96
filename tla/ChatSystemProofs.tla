---------------------------- MODULE ChatSystemProofs ----------------------------
(***************************************************************************)
(* chat_server with real chat_clients, for any number of clients and any   *)
(* input: the clients do only what ChatServer expects of a client, so the  *)
(* theorems about the server hold of the two programs together.            *)
(***************************************************************************)
EXTENDS ChatSystem, ChatServerProofs

USE DEF sockVars, loopVars, listVars, envVars, serverVars, vars, inputVars, clientVars

Places == {"name", "connect", "write", "loop", "select", "socket", "stdin", "close",
           "ended", "killed"}

\* The lines of c that its process has not dealt with.
LinesLeft(c) == Len(script[c]) + Len(typed[c]) + Len(buffered[c])

InputTypes ==
  /\ script \in [Clients -> Seq(TypedLines)]
  /\ typed \in [Clients -> Seq(TypedLines)]
  /\ buffered \in [Clients -> Seq(TypedLines)]

ClientTypes ==
  /\ InputTypes
  /\ cpc \in [Clients -> Places]
  /\ pending \in [Clients -> Messages]
  /\ nsent \in [Clients -> Nat]

\* A message for every line at the most, the name giving the MSG_JOIN.
WithinBound(c) ==
  nsent[c] + LinesLeft(c) + (IF cpc[c] \in {"connect", "write"} THEN 1 ELSE 0)
    <= MaxMsgs + 1

\* The MSG_JOIN comes first, and what is being written is what a client may
\* say next.
SpeaksInTurn(c) ==
  /\ cpc[c] \in {"name", "connect"} => nsent[c] = 0
  /\ cpc[c] \in {"loop", "select", "socket", "stdin"} => nsent[c] > 0
  /\ cpc[c] = "write" => pending[c] \in NextMessages(c)

ClientInv == ClientTypes /\ \A c \in Clients : WithinBound(c) /\ SpeaksInTurn(c)

LEMMA ClientsStartWell == SystemInit => ClientInv
<1> SUFFICES ASSUME SystemInit PROVE ClientInv
  OBVIOUS
<1> USE DEF SystemInit, ClientsInit, ServerInit, SocketsInit
<1>1. InputTypes
  BY SystemAssumption, EmptySeq DEF InputTypes
<1>2. pending \in [Clients -> Messages]
  BY QuietType DEF Quiet
<1>3. ClientTypes
  BY <1>1, <1>2 DEF ClientTypes, Places
<1>4. ASSUME NEW c \in Clients PROVE WithinBound(c)
  <2>1. script[c] \in Inputs /\ Len(typed[c]) = 0 /\ Len(buffered[c]) = 0
    OBVIOUS
  <2>2. Len(script[c]) \in Nat /\ Len(script[c]) <= MaxMsgs + 1
    BY <2>1, SystemAssumption, LenProperties
  <2>3. cpc[c] = "name" /\ nsent[c] = 0
    OBVIOUS
  <2>4. QED
    BY <2>1, <2>2, <2>3, ServerAssumption DEF WithinBound, LinesLeft
<1>5. \A c \in Clients : SpeaksInTurn(c)
  BY DEF SpeaksInTurn
<1>6. QED
  BY <1>3, <1>4, <1>5 DEF ClientInv
-----------------------------------------------------------------------------
(* fgets() and the keyboard.                                               *)

LEMMA FirstIsTyped ==
  ASSUME InputTypes, NEW c \in Clients, HasLine(c)
  PROVE  FirstLine(c) \in TypedLines
BY HeadTailProperties DEF InputTypes, HasLine, FirstLine

LEMMA LengthsLeft ==
  ASSUME InputTypes, NEW c \in Clients
  PROVE  /\ Len(script[c]) \in Nat /\ Len(typed[c]) \in Nat /\ Len(buffered[c]) \in Nat
         /\ LinesLeft(c) \in Nat
<1>1. Len(script[c]) \in Nat /\ Len(typed[c]) \in Nat /\ Len(buffered[c]) \in Nat
  BY LenProperties DEF InputTypes
<1>2. \A k, l, m \in Nat : k + l + m \in Nat
  OBVIOUS
<1>3. QED
  BY <1>1, <1>2 DEF LinesLeft

\* One read() into the buffer and one line out of it lose nothing.
LEMMA Refilled ==
  ASSUME NEW S, NEW s \in Seq(S), s # <<>>, NEW n \in 1..Len(s)
  PROVE  /\ SubSeq(s, 2, n) \in Seq(S) /\ SubSeq(s, n + 1, Len(s)) \in Seq(S)
         /\ Len(SubSeq(s, 2, n)) = n - 1
         /\ Len(SubSeq(s, n + 1, Len(s))) = Len(s) - n
<1>1. Len(s) \in Nat /\ n \in Nat /\ 1 <= n /\ n <= Len(s)
  BY LenProperties
<1>2. SubSeq(s, 2, n) \in Seq(S) /\ Len(SubSeq(s, 2, n)) = n - 1
  <2>1. CASE n = 1
    BY <2>1, <1>1, SubSeqEmpty, EmptySeq
  <2>2. CASE n # 1
    <3>1. 2 \in 1..Len(s)+1 /\ n \in 1..Len(s)
      BY <2>2, <1>1
    <3>2. QED
      BY <3>1, <1>1, <2>2, SubSeqProperties
  <2>3. QED
    BY <2>1, <2>2
<1>3. SubSeq(s, n + 1, Len(s)) \in Seq(S) /\ Len(SubSeq(s, n + 1, Len(s))) = Len(s) - n
  BY <1>1, SubSeqProperties, SubSeqEmpty, EmptySeq
<1>4. QED
  BY <1>2, <1>3

LEMMA LineTaken ==
  ASSUME InputTypes, NEW c \in Clients, NEW line, GetLine(c, line)
  PROVE  /\ InputTypes'
         /\ LinesLeft(c)' = LinesLeft(c) - 1
         /\ \A d \in Clients \ {c} : LinesLeft(d)' = LinesLeft(d)
<1>1. script' = script
  BY DEF GetLine
<1>2. CASE FromBuffer(c, line)
  <2>1. buffered[c] \in Seq(TypedLines) /\ buffered[c] # <<>>
    BY <1>2 DEF InputTypes, FromBuffer
  <2>2. /\ Tail(buffered[c]) \in Seq(TypedLines)
        /\ Len(Tail(buffered[c])) = Len(buffered[c]) - 1
    BY <2>1, HeadTailProperties
  <2>3. buffered' = [buffered EXCEPT ![c] = Tail(buffered[c])] /\ typed' = typed
    BY <1>2 DEF FromBuffer
  <2>4. /\ buffered' \in [Clients -> Seq(TypedLines)]
        /\ buffered'[c] = Tail(buffered[c])
        /\ \A d \in Clients \ {c} : buffered'[d] = buffered[d]
    BY <2>2, <2>3 DEF InputTypes
  <2>5. InputTypes'
    BY <1>1, <2>3, <2>4 DEF InputTypes
  <2>6. LinesLeft(c)' = LinesLeft(c) - 1
    BY <1>1, <2>2, <2>3, <2>4, LengthsLeft DEF LinesLeft
  <2>7. \A d \in Clients \ {c} : LinesLeft(d)' = LinesLeft(d)
    BY <1>1, <2>3, <2>4 DEF LinesLeft
  <2>8. QED
    BY <2>5, <2>6, <2>7
<1>3. CASE FromKernel(c, line)
  <2> DEFINE n == IF Piped THEN Len(typed[c]) ELSE 1
             taken == SubSeq(typed[c], 2, n)
             rest == SubSeq(typed[c], n + 1, Len(typed[c]))
  <2>1. typed[c] \in Seq(TypedLines) /\ typed[c] # <<>> /\ buffered[c] = <<>>
    BY <1>3 DEF InputTypes, FromKernel
  <2>2. n \in 1..Len(typed[c]) /\ Len(typed[c]) \in Nat
    BY <2>1, LenProperties, EmptySeq
  <2>3. buffered' = [buffered EXCEPT ![c] = taken] /\ typed' = [typed EXCEPT ![c] = rest]
    BY <1>3 DEF FromKernel
  <2> HIDE DEF n
  <2>4. /\ taken \in Seq(TypedLines) /\ rest \in Seq(TypedLines)
        /\ Len(taken) = n - 1 /\ Len(rest) = Len(typed[c]) - n
    BY <2>1, <2>2, Refilled
  <2> HIDE DEF taken, rest
  <2>5. /\ buffered' \in [Clients -> Seq(TypedLines)] /\ typed' \in [Clients -> Seq(TypedLines)]
        /\ buffered'[c] = taken /\ typed'[c] = rest
        /\ \A d \in Clients \ {c} : buffered'[d] = buffered[d] /\ typed'[d] = typed[d]
    BY <2>3, <2>4 DEF InputTypes
  <2>6. InputTypes'
    BY <1>1, <2>5 DEF InputTypes
  <2>7. LinesLeft(c)' = LinesLeft(c) - 1
    <3>1. Len(buffered[c]) = 0 /\ n \in Nat
      BY <2>1, <2>2
    <3>2. Len(buffered'[c]) = n - 1 /\ Len(typed'[c]) = Len(typed[c]) - n
      BY <2>4, <2>5
    <3>3. \A k, l, m \in Nat : k + (l - m) + (m - 1) = (k + l + 0) - 1
      OBVIOUS
    <3>4. LinesLeft(c)' = Len(script[c]) + (Len(typed[c]) - n) + (n - 1)
      BY <1>1, <3>2 DEF LinesLeft
    <3>5. LinesLeft(c) = Len(script[c]) + Len(typed[c]) + 0
      BY <3>1 DEF LinesLeft
    <3>6. QED
      BY <2>2, <3>1, <3>3, <3>4, <3>5, LengthsLeft
  <2>8. \A d \in Clients \ {c} : LinesLeft(d)' = LinesLeft(d)
    BY <1>1, <2>5 DEF LinesLeft
  <2>9. QED
    BY <2>6, <2>7, <2>8
<1>4. QED
  BY <1>2, <1>3 DEF GetLine

LEMMA LineTyped ==
  ASSUME InputTypes, NEW c \in Clients, TypeLine(c)
  PROVE  InputTypes' /\ \A d \in Clients : LinesLeft(d)' = LinesLeft(d)
<1>1. script[c] \in Seq(TypedLines) /\ script[c] # <<>> /\ typed[c] \in Seq(TypedLines)
  BY DEF InputTypes, TypeLine
<1>2. /\ Head(script[c]) \in TypedLines /\ Tail(script[c]) \in Seq(TypedLines)
      /\ Len(Tail(script[c])) = Len(script[c]) - 1
  BY <1>1, HeadTailProperties
<1>3. /\ Append(typed[c], Head(script[c])) \in Seq(TypedLines)
      /\ Len(Append(typed[c], Head(script[c]))) = Len(typed[c]) + 1
  BY <1>1, <1>2, AppendProperties
<1>4. /\ typed' = [typed EXCEPT ![c] = Append(typed[c], Head(script[c]))]
      /\ script' = [script EXCEPT ![c] = Tail(script[c])]
      /\ buffered' = buffered
  BY DEF TypeLine
<1>5. InputTypes'
  BY <1>2, <1>3, <1>4 DEF InputTypes
<1>6. LinesLeft(c)' = LinesLeft(c)
  <2>1. /\ Len(typed'[c]) = Len(typed[c]) + 1 /\ Len(script'[c]) = Len(script[c]) - 1
        /\ buffered'[c] = buffered[c]
    BY <1>2, <1>3, <1>4 DEF InputTypes
  <2>2. \A k, l, m \in Nat : (k - 1) + (l + 1) + m = k + l + m
    OBVIOUS
  <2>3. LinesLeft(c)' = (Len(script[c]) - 1) + (Len(typed[c]) + 1) + Len(buffered[c])
    BY <2>1 DEF LinesLeft
  <2>4. QED
    BY <2>2, <2>3, LengthsLeft DEF LinesLeft
<1>7. ASSUME NEW d \in Clients, d # c PROVE LinesLeft(d)' = LinesLeft(d)
  BY <1>4, <1>7 DEF LinesLeft, InputTypes
<1>8. QED
  BY <1>5, <1>6, <1>7
-----------------------------------------------------------------------------
(* A step of a client, or of its user, leaves the other clients alone.     *)

LEMMA WriteCounts ==
  ASSUME ClientTypes, NEW c \in Clients, NEW m, ClientWrite(c, m)
  PROVE  /\ nsent' \in [Clients -> Nat] /\ nsent'[c] = nsent[c] + 1
         /\ \A d \in Clients \ {c} : nsent'[d] = nsent[d]
<1>1. nsent \in [Clients -> Nat] /\ nsent' = [nsent EXCEPT ![c] = nsent[c] + 1]
  BY DEF ClientTypes, ClientWrite
<1>2. nsent[c] + 1 \in Nat
  BY <1>1
<1> QED
  BY <1>1, <1>2

LEMMA Unchanged ==
  ASSUME NEW c \in Clients, WithinBound(c), SpeaksInTurn(c),
         cpc'[c] = cpc[c], pending'[c] = pending[c], nsent'[c] = nsent[c],
         LinesLeft(c)' = LinesLeft(c)
  PROVE  WithinBound(c)' /\ SpeaksInTurn(c)'
BY DEF WithinBound, SpeaksInTurn, NextMessages

LEMMA SaidIsAMessage ==
  ASSUME ClientTypes, NEW c \in Clients, NEW m \in NextMessages(c)
  PROVE  m \in Messages
<1> DEFINE body == <<c, nsent[c]>>
<1>1. NameOf[c] \in Names /\ body \in Clients \X Nat
  BY SocketsAssumption DEF ClientTypes
<1>2. PICK type \in {"JOIN", "LEAVE", "BROADCAST", "PRIVATE", "LIST_USERS"},
           to \in Names \cup {"", "ALL", Unknown} :
         m = Msg(type, NameOf[c], to, body)
  BY DEF NextMessages
<1> HIDE DEF body
<1>3. m \in FromClient
  BY <1>1, <1>2 DEF Msg, FromClient
<1> QED
  BY <1>3 DEF Messages

\* What a line makes the client send is something it may say.
LEMMA LineIsSaid ==
  ASSUME ClientTypes, NEW c \in Clients, nsent[c] > 0, NEW line \in TypedLines,
         NEW m \in MessageFor(c, line)
  PROVE  m \in NextMessages(c)
<1>1. nsent[c] # 0
  BY DEF ClientTypes
<1>2. line.cmd \in {"text", "msg", "users", "quit"}
  BY DEF TypedLines, MessageFor
<1>3. CASE line.cmd = "msg"
  BY <1>1, <1>3 DEF TypedLines, MessageFor, NextMessages
<1>4. CASE line.cmd = "text"
  BY <1>1, <1>4 DEF MessageFor, NextMessages
<1>5. CASE line.cmd \in {"users", "quit"}
  BY <1>1, <1>5 DEF MessageFor, NextMessages
<1> QED
  BY <1>2, <1>3, <1>4, <1>5

\* A step that moves the process of c on and may change the message it holds.
Moves(c) ==
  /\ cpc' \in [Clients -> Places] /\ pending' \in [Clients -> Messages]
  /\ \A d \in Clients \ {c} : cpc'[d] = cpc[d] /\ pending'[d] = pending[d]

LEMMA GoesTo ==
  ASSUME ClientTypes, NEW c \in Clients, NEW place \in Places, Goto(c, place),
         pending' = pending
  PROVE  Moves(c) /\ cpc'[c] = place /\ pending'[c] = pending[c]
BY DEF ClientTypes, Goto, Moves

LEMMA StartsWriting ==
  ASSUME ClientTypes, NEW c \in Clients, NEW m \in Messages, StartWriting(c, m)
  PROVE  Moves(c) /\ cpc'[c] = "write" /\ pending'[c] = m
BY DEF ClientTypes, StartWriting, Goto, Moves, Places

\* How a step of c keeps the invariant: c itself is shown to stay in turn.
LEMMA KeepsInv ==
  ASSUME ClientInv, NEW c \in Clients, Moves(c), InputTypes', nsent' \in [Clients -> Nat],
         \A d \in Clients \ {c} : LinesLeft(d)' = LinesLeft(d) /\ nsent'[d] = nsent[d],
         WithinBound(c)', SpeaksInTurn(c)'
  PROVE  ClientInv'
<1>1. ClientTypes'
  BY DEF ClientTypes, Moves
<1>2. ASSUME NEW d \in Clients, d # c PROVE WithinBound(d)' /\ SpeaksInTurn(d)'
  <2>1. /\ cpc'[d] = cpc[d] /\ pending'[d] = pending[d] /\ nsent'[d] = nsent[d]
        /\ LinesLeft(d)' = LinesLeft(d)
    BY <1>2 DEF Moves
  <2>2. QED
    BY <2>1, Unchanged DEF ClientInv
<1> QED
  BY <1>1, <1>2 DEF ClientInv
-----------------------------------------------------------------------------
(* The steps of a client and of its user.                                  *)

\* A step of c that writes nothing and takes no line.
LEMMA JustMoves ==
  ASSUME ClientInv, NEW c \in Clients, NEW place \in Places, Goto(c, place),
         UNCHANGED <<pending, nsent, inputVars>>,
         \/ place \in {"close", "ended", "killed"}
         \/ place = cpc[c]
         \/ place \in {"loop", "select", "socket", "stdin"} /\ nsent[c] > 0
  PROVE  ClientInv'
<1> USE DEF ClientInv
<1>1. Moves(c) /\ cpc'[c] = place /\ pending'[c] = pending[c]
  BY GoesTo
<1>2. InputTypes' /\ nsent' \in [Clients -> Nat]
  BY DEF ClientTypes, InputTypes
<1>3. \A d \in Clients : LinesLeft(d)' = LinesLeft(d) /\ nsent'[d] = nsent[d]
  BY DEF LinesLeft
<1>4. WithinBound(c)'
  <2>1. LinesLeft(c) \in Nat /\ nsent[c] \in Nat /\ MaxMsgs \in Nat
    BY LengthsLeft, ServerAssumption DEF ClientTypes
  <2>2. place \in {"connect", "write"} => cpc[c] \in {"connect", "write"}
    OBVIOUS
  <2>3. QED
    BY <1>1, <1>3, <2>1, <2>2 DEF WithinBound
<1>5. SpeaksInTurn(c)'
  BY <1>1, <1>3 DEF SpeaksInTurn, NextMessages
<1>6. QED
  BY <1>1, <1>2, <1>3, <1>4, <1>5, KeepsInv

LEMMA ReadNameStep == ASSUME ClientInv, NEW c \in Clients, ReadName(c) PROVE ClientInv'
<1> USE DEF ClientInv
<1>1. cpc[c] = "name" /\ nsent' = nsent /\ pending' = pending
  BY DEF ReadName
<1>2. nsent[c] = 0
  BY <1>1 DEF SpeaksInTurn
<1>3. CASE GetLine(c, FirstLine(c))
  <2>1. PICK place \in {"ended", "connect"} : Goto(c, place)
    BY <1>3 DEF ReadName
  <2>2. Moves(c) /\ cpc'[c] = place /\ pending'[c] = pending[c]
    BY <1>1, <2>1, GoesTo DEF Places
  <2>3. /\ InputTypes' /\ LinesLeft(c)' = LinesLeft(c) - 1
        /\ \A d \in Clients \ {c} : LinesLeft(d)' = LinesLeft(d)
    BY <1>3, LineTaken DEF ClientTypes
  <2>4. WithinBound(c)'
    <3>1. LinesLeft(c) \in Nat /\ nsent[c] \in Nat /\ MaxMsgs \in Nat
      BY LengthsLeft, ServerAssumption DEF ClientTypes
    <3>2. QED
      BY <1>1, <2>2, <2>3, <3>1 DEF WithinBound
  <2>5. SpeaksInTurn(c)'
    BY <1>1, <1>2, <2>2 DEF SpeaksInTurn
  <2>6. QED
    BY <1>1, <2>2, <2>3, <2>4, <2>5, KeepsInv DEF ClientTypes
<1>4. CASE Goto(c, "ended") /\ UNCHANGED inputVars
  BY <1>1, <1>4, JustMoves DEF Places
<1>5. QED
  BY <1>3, <1>4 DEF ReadName

LEMMA OpenConnectionStep ==
  ASSUME ClientInv, NEW c \in Clients, OpenConnection(c) PROVE ClientInv'
<1> USE DEF ClientInv
<1>1. cpc[c] = "connect" /\ nsent' = nsent /\ UNCHANGED inputVars
  BY DEF OpenConnection, Connect, ConnectRefused
<1>2. nsent[c] = 0
  BY <1>1 DEF SpeaksInTurn
<1>3. CASE StartWriting(c, Msg("JOIN", NameOf[c], "", <<c, 0>>))
  <2> DEFINE m == Msg("JOIN", NameOf[c], "", <<c, 0>>)
  <2>1. m \in NextMessages(c)
    BY <1>2 DEF NextMessages
  <2>2. m \in Messages
    BY <2>1, SaidIsAMessage
  <2> HIDE DEF m
  <2>3. Moves(c) /\ cpc'[c] = "write" /\ pending'[c] = m
    BY <1>3, <2>2, StartsWriting DEF m
  <2>4. InputTypes' /\ \A d \in Clients : LinesLeft(d)' = LinesLeft(d)
    BY <1>1 DEF ClientTypes, InputTypes, LinesLeft
  <2>5. WithinBound(c)'
    BY <1>1, <2>3, <2>4 DEF WithinBound
  <2>6. SpeaksInTurn(c)'
    BY <1>1, <2>1, <2>3 DEF SpeaksInTurn, NextMessages
  <2>7. QED
    BY <1>1, <2>3, <2>4, <2>5, <2>6, KeepsInv DEF ClientTypes
<1>4. CASE Goto(c, "ended") /\ UNCHANGED pending
  BY <1>1, <1>4, JustMoves DEF Places
<1>5. QED
  BY <1>3, <1>4 DEF OpenConnection

LEMMA WriteMessageStep ==
  ASSUME ClientInv, NEW c \in Clients, WriteMessage(c) PROVE ClientInv'
<1> USE DEF ClientInv
<1>1. cpc[c] = "write" /\ ClientWrite(c, pending[c]) /\ UNCHANGED <<pending, inputVars>>
  BY DEF WriteMessage
<1>2. PICK place \in {"close", "loop"} : Goto(c, place)
  BY DEF WriteMessage
<1>3. Moves(c) /\ cpc'[c] = place /\ pending'[c] = pending[c]
  BY <1>1, <1>2, GoesTo DEF Places
<1>4. /\ nsent' \in [Clients -> Nat] /\ nsent'[c] = nsent[c] + 1
      /\ \A d \in Clients \ {c} : nsent'[d] = nsent[d]
  BY <1>1, WriteCounts
<1>5. InputTypes' /\ \A d \in Clients : LinesLeft(d)' = LinesLeft(d)
  BY <1>1 DEF ClientTypes, InputTypes, LinesLeft
<1>6. LinesLeft(c) \in Nat /\ nsent[c] \in Nat /\ MaxMsgs \in Nat
  BY LengthsLeft, ServerAssumption DEF ClientTypes
<1>7. WithinBound(c)'
  BY <1>1, <1>3, <1>4, <1>5, <1>6 DEF WithinBound
<1>8. SpeaksInTurn(c)'
  BY <1>3, <1>4, <1>6 DEF SpeaksInTurn
<1>9. QED
  BY <1>3, <1>4, <1>5, <1>7, <1>8, KeepsInv

LEMMA HandleLineStep ==
  ASSUME ClientInv, NEW c \in Clients, HandleLine(c) PROVE ClientInv'
<1> USE DEF ClientInv
<1> DEFINE line == FirstLine(c)
<1>1. cpc[c] = "stdin" /\ HasLine(c) /\ GetLine(c, line) /\ nsent' = nsent
  BY DEF HandleLine
<1>2. nsent[c] > 0 /\ nsent' \in [Clients -> Nat]
  BY <1>1 DEF SpeaksInTurn, ClientTypes
<1>3. line \in TypedLines
  BY <1>1, FirstIsTyped DEF ClientTypes
<1>4. /\ InputTypes' /\ LinesLeft(c)' = LinesLeft(c) - 1
      /\ \A d \in Clients \ {c} : LinesLeft(d)' = LinesLeft(d)
  BY <1>1, LineTaken DEF ClientTypes
<1>5. LinesLeft(c) \in Nat /\ nsent[c] \in Nat /\ MaxMsgs \in Nat
  BY LengthsLeft, ServerAssumption DEF ClientTypes
<1>6. ASSUME NEW m \in MessageFor(c, line), StartWriting(c, m) PROVE ClientInv'
  <2>1. m \in NextMessages(c)
    BY <1>2, <1>3, <1>6, LineIsSaid
  <2>2. Moves(c) /\ cpc'[c] = "write" /\ pending'[c] = m
    BY <1>6, <2>1, SaidIsAMessage, StartsWriting
  <2>3. WithinBound(c)'
    BY <1>1, <1>4, <1>5, <2>2 DEF WithinBound
  <2>4. SpeaksInTurn(c)'
    BY <1>1, <2>1, <2>2 DEF SpeaksInTurn, NextMessages
  <2>5. QED
    BY <1>1, <1>2, <1>4, <2>2, <2>3, <2>4, KeepsInv
<1>7. CASE Goto(c, "loop") /\ UNCHANGED pending
  <2>1. Moves(c) /\ cpc'[c] = "loop" /\ pending'[c] = pending[c]
    BY <1>7, GoesTo DEF Places
  <2>2. WithinBound(c)'
    BY <1>1, <1>4, <1>5, <2>1 DEF WithinBound
  <2>3. SpeaksInTurn(c)'
    BY <1>1, <1>2, <2>1 DEF SpeaksInTurn
  <2>4. QED
    BY <1>1, <1>2, <1>4, <2>1, <2>2, <2>3, KeepsInv
<1>8. QED
  BY <1>6, <1>7 DEF HandleLine

LEMMA TypeLineStep ==
  ASSUME ClientInv, NEW c \in Clients, TypeLine(c) PROVE ClientInv'
<1> USE DEF ClientInv
<1>1. InputTypes' /\ \A d \in Clients : LinesLeft(d)' = LinesLeft(d)
  BY LineTyped DEF ClientTypes
<1>2. UNCHANGED <<cpc, pending, nsent>>
  BY DEF TypeLine
<1>3. ClientTypes'
  BY <1>1, <1>2 DEF ClientTypes
<1>4. \A d \in Clients : WithinBound(d)' /\ SpeaksInTurn(d)'
  BY <1>1, <1>2, Unchanged
<1> QED
  BY <1>3, <1>4

\* The places the process passes without writing or taking a line.
LEMMA OtherClientSteps ==
  ASSUME ClientInv, NEW c \in Clients,
         \/ WriteKilled(c) \/ ClientLoopTest(c) \/ ClientSelect(c) \/ HandleSocket(c)
         \/ SkipStdin(c) \/ StdinEof(c) \/ CloseConnection(c) \/ Interrupt(c) \/ Kill(c)
  PROVE  ClientInv'
<1> USE DEF ClientInv
<1>1. UNCHANGED <<pending, nsent, inputVars>>
  BY DEF WriteKilled, ClientLoopTest, ClientSelect, HandleSocket, SkipStdin, StdinEof,
     CloseConnection, Interrupt, Kill, ClientClose, ClientRead
<1>2. cpc[c] \in Places
  BY DEF ClientTypes
<1>3. CASE WriteKilled(c) \/ StdinEof(c) \/ CloseConnection(c) \/ Kill(c)
  <2>1. PICK place \in {"close", "ended", "killed"} : Goto(c, place)
    BY <1>3 DEF WriteKilled, StdinEof, CloseConnection, Kill
  <2>2. QED
    BY <1>1, <2>1, JustMoves DEF Places
<1>4. CASE ClientLoopTest(c) \/ ClientSelect(c) \/ HandleSocket(c) \/ SkipStdin(c)
  <2>1. cpc[c] \in {"loop", "select", "socket", "stdin"}
    BY <1>4 DEF ClientLoopTest, ClientSelect, HandleSocket, SkipStdin
  <2>2. nsent[c] > 0
    BY <2>1 DEF SpeaksInTurn
  <2>3. PICK place \in {"close", "loop", "select", "socket", "stdin"} : Goto(c, place)
    BY <1>4 DEF ClientLoopTest, ClientSelect, HandleSocket, SkipStdin
  <2>4. QED
    BY <1>1, <2>2, <2>3, JustMoves DEF Places
<1>5. CASE Interrupt(c)
  <2>1. CASE Goto(c, "killed")
    BY <1>1, <2>1, JustMoves DEF Places
  <2>2. CASE cpc[c] = "select" /\ Goto(c, "loop")
    <3>1. nsent[c] > 0
      BY <2>2 DEF SpeaksInTurn
    <3>2. QED
      BY <1>1, <2>2, <3>1, JustMoves DEF Places
  <2>3. CASE Goto(c, cpc[c])
    BY <1>1, <1>2, <2>3, JustMoves
  <2>4. QED
    BY <1>5, <2>1, <2>2, <2>3 DEF Interrupt
<1>6. QED
  BY <1>3, <1>4, <1>5
-----------------------------------------------------------------------------
(* The two programs together.                                              *)

LEMMA ServerSaysNothingForClients == ServerNext \/ Sigint \/ OperatorTypes => nsent' = nsent
<1> USE DEF RemoveEntry, ServerClose, ServerRead, ServerWrite, Accept, AcceptAndClose, CloseAll
<1>1. LoopTest \/ Select \/ NoInput \/ CommandPrints \/ CommandKick \/ CommandBroadcast
        => nsent' = nsent
  BY DEF LoopTest, Select, NoInput, CommandPrints, CommandKick, CommandBroadcast
<1>2. CommandShutdown \/ ConsoleEof \/ NoConnection \/ AcceptClient \/ AcceptNoMemory
        \/ AcceptFails \/ ScanFinds \/ ScanDone \/ Cleanup => nsent' = nsent
  BY DEF CommandShutdown, ConsoleEof, NoConnection, AcceptClient, AcceptNoMemory,
     AcceptFails, ScanFinds, ScanDone, Cleanup
<1>3. HandleJoin \/ HandleBroadcast \/ HandlePrivate \/ HandleListUsers => nsent' = nsent
  BY DEF HandleJoin, HandleBroadcast, HandlePrivate, HandleListUsers
<1>4. HandleLeave \/ HandleDisconnect \/ SendOne \/ SendKilled \/ SendDone => nsent' = nsent
  BY DEF HandleLeave, HandleDisconnect, SendOne, SendKilled, SendDone
<1>5. Sigint \/ OperatorTypes => nsent' = nsent
  BY DEF Sigint, OperatorTypes
<1>6. QED
  BY <1>1, <1>2, <1>3, <1>4, <1>5 DEF ServerNext

LEMMA ClientInvStays ==
  ASSUME ClientInv, UNCHANGED <<nsent, clientVars>> PROVE ClientInv'
<1>1. ClientTypes'
  BY DEF ClientInv, ClientTypes, InputTypes
<1>2. \A c \in Clients : LinesLeft(c)' = LinesLeft(c)
  BY DEF LinesLeft
<1>3. \A c \in Clients : WithinBound(c)' /\ SpeaksInTurn(c)'
  BY <1>2, Unchanged DEF ClientInv
<1> QED
  BY <1>1, <1>3 DEF ClientInv

LEMMA ClientInvInductive == ClientInv /\ [SystemNext]_systemVars => ClientInv'
<1> SUFFICES ASSUME ClientInv, [SystemNext]_systemVars PROVE ClientInv'
  OBVIOUS
<1>1. CASE ServerSteps
  BY <1>1, ServerSaysNothingForClients, ClientInvStays DEF ServerSteps
<1>2. ASSUME NEW c \in Clients, ClientStep(c) PROVE ClientInv'
  BY <1>2, ReadNameStep, OpenConnectionStep, WriteMessageStep, HandleLineStep,
     OtherClientSteps DEF ClientStep, ClientNext
<1>3. ASSUME NEW c \in Clients, UserStep(c) PROVE ClientInv'
  <2>1. CASE TypeLine(c)
    BY <2>1, TypeLineStep
  <2>2. CASE HangUp(c)
    <3>1. /\ UNCHANGED <<nsent, cpc, pending, script, typed, buffered>>
      BY <2>2 DEF HangUp
    <3>2. ClientTypes'
      BY <3>1 DEF ClientInv, ClientTypes, InputTypes
    <3>3. \A d \in Clients : LinesLeft(d)' = LinesLeft(d)
      BY <3>1 DEF LinesLeft
    <3>4. \A d \in Clients : WithinBound(d)' /\ SpeaksInTurn(d)'
      BY <3>1, <3>3, Unchanged DEF ClientInv
    <3>5. QED
      BY <3>2, <3>4 DEF ClientInv
  <2>3. CASE Interrupt(c) \/ Kill(c)
    BY <2>3, OtherClientSteps
  <2>4. QED
    BY <1>3, <2>1, <2>2, <2>3 DEF UserStep, User
<1>4. CASE UNCHANGED systemVars
  BY <1>4, ClientInvStays DEF systemVars
<1>5. QED
  BY <1>1, <1>2, <1>3, <1>4 DEF SystemNext

LEMMA ClientStepMaps ==
  ASSUME ClientInv, NEW c \in Clients, ClientNext(c), UNCHANGED <<serverVars, envVars>>
  PROVE  Next \/ UNCHANGED vars
<1>1. CASE OpenConnection(c)
  <2>1. Connect(c) \/ ConnectRefused(c)
    BY <1>1 DEF OpenConnection
  <2>2. EnvSocket(c)
    BY <2>1 DEF EnvSocket
  <2>3. QED
    BY <2>2 DEF Next, Env
<1>2. CASE WriteMessage(c)
  <2>1. cpc[c] = "write" /\ ClientWrite(c, pending[c])
    BY <1>2 DEF WriteMessage
  <2>2. pending[c] \in NextMessages(c)
    BY <2>1 DEF ClientInv, SpeaksInTurn
  <2>3. nsent[c] <= MaxMsgs
    <3>1. LinesLeft(c) \in Nat /\ nsent[c] \in Nat /\ MaxMsgs \in Nat
      BY LengthsLeft, ServerAssumption DEF ClientInv, ClientTypes
    <3>2. nsent[c] + LinesLeft(c) + 1 <= MaxMsgs + 1
      BY <2>1 DEF ClientInv, WithinBound
    <3>3. QED
      BY <3>1, <3>2
  <2>4. EnvWrite(c)
    BY <2>1, <2>2, <2>3 DEF EnvWrite
  <2>5. QED
    BY <2>4 DEF Next, Env
<1>3. CASE WriteKilled(c) \/ CloseConnection(c)
  <2>1. EnvClose(c)
    BY <1>3 DEF WriteKilled, CloseConnection, EnvClose
  <2>2. QED
    BY <2>1 DEF Next, Env
<1>4. CASE HandleSocket(c)
  <2>1. CASE ClientRead(c)
    BY <2>1 DEF Next, Env, EnvSocket
  <2>2. CASE UNCHANGED sockVars
    BY <2>2
  <2>3. QED
    BY <1>4, <2>1, <2>2 DEF HandleSocket
<1>5. CASE ReadName(c) \/ ClientLoopTest(c) \/ ClientSelect(c) \/ SkipStdin(c)
             \/ StdinEof(c) \/ HandleLine(c)
  BY <1>5 DEF ReadName, ClientLoopTest, ClientSelect, SkipStdin, StdinEof, HandleLine
<1>6. QED
  BY <1>1, <1>2, <1>3, <1>4, <1>5 DEF ClientNext

LEMMA UserStepMaps ==
  ASSUME NEW c \in Clients, User(c), UNCHANGED <<serverVars, envVars>>
  PROVE  Next \/ UNCHANGED vars
<1>1. CASE Kill(c)
  <2>1. EnvClose(c)
    BY <1>1 DEF Kill, EnvClose
  <2>2. QED
    BY <2>1 DEF Next, Env
<1>2. CASE TypeLine(c) \/ HangUp(c) \/ Interrupt(c)
  BY <1>2 DEF TypeLine, HangUp, Interrupt
<1>3. QED
  BY <1>1, <1>2 DEF User

LEMMA SystemStepMaps == ClientInv /\ [SystemNext]_systemVars => [Next]_vars
<1> SUFFICES ASSUME ClientInv, [SystemNext]_systemVars PROVE Next \/ UNCHANGED vars
  OBVIOUS
<1>1. CASE ServerSteps
  BY <1>1 DEF ServerSteps, Next, Env
<1>2. ASSUME NEW c \in Clients, ClientStep(c) PROVE Next \/ UNCHANGED vars
  BY <1>2, ClientStepMaps DEF ClientStep
<1>3. ASSUME NEW c \in Clients, UserStep(c) PROVE Next \/ UNCHANGED vars
  BY <1>3, UserStepMaps DEF UserStep
<1>4. CASE UNCHANGED systemVars
  BY <1>4 DEF systemVars
<1>5. QED
  BY <1>1, <1>2, <1>3, <1>4 DEF SystemNext

\* chat_client.c never does what chat_server.c does not expect: MSG_JOIN goes
\* out first and once, every other message is one a client may send and
\* carries its own name, and no line is sent twice, whatever is typed, however
\* fgets() splits it, and wherever SIGINT or SIGKILL meets the process.
THEOREM ClientsBehave == SystemSpec => ImplementsServerSpec
<1>1. SystemInit => ServerInit
  BY DEF SystemInit
<1>2. QED
  BY <1>1, ClientsStartWell, ClientInvInductive, SystemStepMaps, PTL
  DEF SystemSpec, ImplementsServerSpec, Spec

\* What is shown of the server under the most general clients holds of
\* chat_server with its real clients.
THEOREM ServerRightWithClients ==
  ASSUME "server" \notin Clients, "system" \notin Names
  PROVE  SystemSpec => /\ [](TypeOK /\ ListMatchesSockets /\ NoStaleFd)
                       /\ [](InSenderOrder /\ TotalOrder /\ PrivateToAddressee)
                       /\ ImplementsGroupChat
<1>1. SystemSpec => Spec
  BY ClientsBehave DEF ImplementsServerSpec
<1>2. Spec => []TypeOK /\ []ListMatchesSockets /\ []NoStaleFd
  BY TypeCorrect, ListMirrorsSockets, DescriptorsAreLive
<1>3. Spec => []InSenderOrder /\ []TotalOrder /\ []PrivateToAddressee
  BY SendersInOrder, OneOrder, OnlyTheAddressee
<1>4. Spec => ImplementsGroupChat
  BY GroupChatImplemented
<1>5. QED
  BY <1>1, <1>2, <1>3, <1>4, PTL
================================================================================
