------------------------------ MODULE Dispatch ------------------------------
(***************************************************************************)
(* What the scheduler promises, whatever rule it picks processes by: the   *)
(* cpu is given only to a process that can run.                            *)
(***************************************************************************)
CONSTANTS Procs, Boot, Nobody

VARIABLES ready,    \* the processes with p_flags = 0
          running   \* the process the cpu executes, Nobody while it is chosen

dispatchVars == <<ready, running>>

Init == ready \in SUBSET Procs \ {{}} /\ running = Boot

\* The cpu leaves the running process, which may have blocked.
Release ==
  /\ running # Nobody
  /\ running' = Nobody
  /\ ready' \in {ready, ready \ {running}}

Run(p) ==
  /\ running = Nobody
  /\ p \in ready
  /\ running' = p
  /\ UNCHANGED ready

\* The running process makes another one able or unable to run.
Influence(q) ==
  /\ running \notin {Nobody, q}
  /\ ready' \in {ready \cup {q}, ready \ {q}}
  /\ UNCHANGED running

Next == Release \/ \E p \in Procs : Run(p) \/ Influence(p)

Safe == Init /\ [][Next]_dispatchVars
=============================================================================
