------------------------------ MODULE MCSched ------------------------------
(* Three slots: a task with a longer slice and two user processes.         *)
EXTENDS Sched

MCPriority == [p \in Procs |-> IF p = 0 THEN 2 ELSE 1]
=============================================================================
