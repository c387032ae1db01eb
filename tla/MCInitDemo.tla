---------------------------- MODULE MCInitDemo ----------------------------
(* The slots the demonstration uses, TASK_SYS, TASK_MM, INIT and the first *)
(* free one, with the indices they have in main.c; MCScaled divides the    *)
(* priorities main.c gives them, 15 and 5, by 5.                           *)
EXTENDS InitDemo

MCSlots == {SYS, MM, INIT_PROC} \cup Vacant
MCJunk == [type |-> "NONE", val |-> Garbage, pid |-> Garbage]
MCPayload == Bodies
MCScaled == [p \in MCSlots |-> IF p < INIT_PROC THEN 3 ELSE 1]
=============================================================================
