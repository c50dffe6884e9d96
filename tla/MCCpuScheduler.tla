----------------------------- MODULE MCCpuScheduler -----------------------------
(* Instances of CpuScheduler for TLC.                                        *)
EXTENDS CpuScheduler

MCQuanta == [l \in Levels |-> l + 1]
=============================================================================
