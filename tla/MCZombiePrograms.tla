---------------------------- MODULE MCZombiePrograms ----------------------------
(* Instances of ZombiePrograms for TLC: a name of every kind, and plain ones. *)
EXTENDS ZombiePrograms

AllKinds == [q \in Pids |-> CASE q = 2 -> "blank" [] q = 3 -> "mimics" [] OTHER -> "word"]
AllWords == [q \in Pids |-> "word"]
=============================================================================
