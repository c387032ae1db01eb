------------------------------- MODULE Slices -------------------------------
(* schedule() of kernel/proc.c as a function of the processes that can run *)
(* and of their ticks, for use where it is one step.                       *)
EXTENDS Integers

Spent(runnable, tick) == \A p \in runnable : tick[p] <= 0

\* p->ticks = p->priority for every process that can run, once all are spent.
NextSlices(runnable, tick, priority) ==
  [p \in DOMAIN tick |-> IF Spent(runnable, tick) /\ p \in runnable
                         THEN priority[p] ELSE tick[p]]

\* The first slot with the greatest number of ticks.
Pick(runnable, tick) ==
  CHOOSE p \in runnable :
    \A q \in runnable : tick[q] < tick[p] \/ (tick[q] = tick[p] /\ p <= q)

\* The slots the search holds in p_proc_ready for a while: each has more
\* ticks than all that can run before it.
Tentative(runnable, tick) ==
  {p \in runnable : tick[p] > 0 /\ \A q \in runnable : q < p => tick[q] < tick[p]}
=============================================================================
