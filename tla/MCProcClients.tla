--------------------------- MODULE MCProcClients ---------------------------
(* Constants of ProcClients.  Family: INIT and three slots, a chain of     *)
(* descendants of which the middle one may die after its child, the way    *)
(* into the loop of do_exit.  Pair: INIT and two slots, with calls enough  *)
(* to wait again after the last child.                                     *)
EXTENDS ProcClients

MCSlots == {SYS, MM, INIT_PROC} \cup Vacant
MCJunk == [type |-> "NONE", val |-> Garbage, pid |-> Garbage]
MCPayload == Bodies

PairMenu == [p \in MCSlots |->
               CASE p = 3 -> {"FORK", "WAIT"}
                 [] p = 7 -> {"FORK", "WAIT", "EXIT"}
                 [] OTHER -> {"EXIT"}]
PairCalls == [p \in MCSlots |-> IF p = 3 THEN 3 ELSE IF p = 7 THEN 2 ELSE 1]

FamilyMenu == [p \in MCSlots |->
                 CASE p = 3 -> {"FORK", "WAIT"}
                   [] p = 7 -> {"FORK", "EXEC", "GET_TICKS"}
                   [] p = 8 -> {"FORK", "EXIT"}
                   [] OTHER -> {"WAIT", "EXIT"}]
FamilyCalls == [p \in MCSlots |-> IF p \in {3, 8} THEN 2 ELSE 1]
=============================================================================
