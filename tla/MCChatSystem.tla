----------------------------- MODULE MCChatSystem -----------------------------
(* Instances of ChatSystem for TLC: the users, their names and their input.  *)
EXTENDS ChatSystem

CONSTANTS c1, c2, alice, bob

TwoNames  == (c1 :> alice) @@ (c2 :> bob)
OnlyAlice == c1 :> alice

Name == Line("name", "")
Text == Line("text", "")

\* test_client.sh and test_stress.sh: a name, a broadcast, "/quit".
TestScript == {<<Name, Text, Line("quit", "")>>}

\* A user who talks and stays.
Talker    == {<<Name, Text, Text>>}

\* One who talks and asks for help, one who writes to those without a name,
\* one who leaves.
Sessions  == {<<Name, Text, Line("help", "")>>,
              <<Name, Line("msg", Unknown)>>,
              <<Name, Line("quit", "")>>}
=============================================================================
