------------------------------- MODULE MCIpc -------------------------------
(* The constants of IpcClients:  the boot slot TASK_SYS, the server        *)
(* TASK_MM, INIT and the user process above it, with their real indices    *)
(* and the real values of the pseudo process numbers.                      *)
EXTENDS IpcClients

MCSlots == {0, 2, 3, 4}
MCStarted == {2, 3, 4}
MCBuf == [p \in MCSlots |-> p]
=============================================================================
