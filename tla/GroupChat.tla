------------------------------- MODULE GroupChat -------------------------------
(***************************************************************************)
(* What chat_server promises, without sockets, descriptors or a loop: a    *)
(* group of members; a message is published to an audience that is fixed   *)
(* when it is published, reaches each of the audience once, and the next   *)
(* message is published only when that is done.  If the server ends, the   *)
(* message on its way reaches nobody else.                                 *)
(***************************************************************************)
EXTENDS Naturals, Sequences

CONSTANTS Clients, Texts, None

VARIABLES members, current, pending, inbox

chat == <<members, current, pending, inbox>>

Init ==
  /\ members = {} /\ current = None /\ pending = {}
  /\ inbox = [c \in Clients |-> <<>>]

Enter(c) ==
  /\ c \notin members /\ pending = {}
  /\ members' = members \cup {c}
  /\ UNCHANGED <<current, pending, inbox>>

Exit(c) ==
  /\ c \in members /\ pending = {}
  /\ members' = members \ {c}
  /\ UNCHANGED <<current, pending, inbox>>

\* A broadcast is for all members, anything else for one of them.
Audience(m) ==
  IF m.type = "BROADCAST" /\ m.from # "system"
    THEN {members}
    ELSE {{c} : c \in members}

Publish ==
  /\ pending = {}
  /\ current' \in Texts
  /\ pending' \in Audience(current') \ {{}}
  /\ UNCHANGED <<members, inbox>>

Deliver(c) ==
  /\ c \in pending
  /\ inbox' = [inbox EXCEPT ![c] = Append(@, current)]
  /\ pending' = pending \ {c}
  /\ current' = IF pending' = {} THEN None ELSE current
  /\ UNCHANGED members

Stop ==
  /\ members' = {} /\ pending' = {} /\ current' = None
  /\ UNCHANGED inbox

Next ==
  \/ \E c \in Clients : Enter(c) \/ Exit(c) \/ Deliver(c)
  \/ Publish \/ Stop

Spec == Init /\ [][Next]_chat
=============================================================================
