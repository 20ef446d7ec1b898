---------------------------- MODULE MCGroupQueue -----------------------------
(* Instances of GroupQueue: two processes, two partitions, two messages. *)
EXTENDS GroupQueue, TLC

CONSTANTS o1, o2, p1, p2, m1, m2

TwoPartitions == m1 :> p1 @@ m2 :> p2
=============================================================================
