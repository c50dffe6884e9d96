----------------------------- MODULE MCChatServer -----------------------------
(* Instances of ChatServer for TLC: who the clients are and their names.    *)
EXTENDS ChatServer

CONSTANTS c1, c2, alice, bob

TwoNames  == (c1 :> alice) @@ (c2 :> bob)

\* The clients are interchangeable together with their names.
SwapUsers == (c1 :> c2) @@ (c2 :> c1) @@ (alice :> bob) @@ (bob :> alice)
Renaming  == {SwapUsers, [v \in DOMAIN SwapUsers |-> v]}
=============================================================================
