------------------------------ MODULE InitDemo ------------------------------
(***************************************************************************)
(* The system kernel_main starts (kernel/main.c): TASK_SYS, TASK_MM and    *)
(* Init, whose program forks once; the parent waits, the child exits with  *)
(* status 7, and both end in while (1) {}.  Processes are picked as        *)
(* schedule() picks them, and clock ticks come at any time.                *)
(***************************************************************************)
EXTENDS ProcMgr, Slices

CONSTANTS
  priority,   \* p->priority
  ForkTicks,  \* the ticks do_fork gives a child
  MaxLag      \* bound: ticks inside calls take p->ticks to -MaxLag, no lower

ASSUME DemoAssumption ==
  /\ priority \in [Slots -> Nat \ {0}]
  /\ ForkTicks \in Nat \ {0} /\ MaxLag \in Nat

\* kernel_main gives nobody more than the tasks (main.c:58), do_fork neither.
ASSUME PriorityAssumption ==
  (\A p \in Slots : priority[p] <= priority[MM]) /\ ForkTicks <= priority[MM]

\* There is a free slot, none right above Init's, and Init exits with 7 only.
ASSUME InitAssumption ==
  /\ MM < INIT_PROC
  /\ Vacant # {} /\ INIT_PROC + 1 \notin Vacant
  /\ Statuses = {7}

VARIABLES
  prog,       \* where the program of each process is
  tick,       \* p->ticks
  calm        \* no clock tick has come but while a program ran: none inside
              \* task_mm, a system call or between the halves of a library call

demoVars == <<procVars, prog, tick, calm>>
-----------------------------------------------------------------------------
\* schedule(), given the flags the step leaves behind and the ticks tk.
Schedule(tk) ==
  LET runnable == Runnable(p_flags')
      slices == NextSlices(runnable, tk, priority)
  IN  /\ tick' = slices
      /\ p_proc_ready' = Pick(runnable, slices)

(* The same with clock ticks nested in its loops, which rob the tentative  *)
(* picks; it picks the same, for greatest_ticks keeps what a pick had.     *)
(* Bound: a search robs each of them of one tick.                          *)
ScheduleRobbed(tk) ==
  LET runnable == Runnable(p_flags')
      slices == NextSlices(runnable, tk, priority)
  IN  /\ \E robbed \in SUBSET Tentative(runnable, slices) \ {{}} :
           tick' = [p \in Slots |-> IF p \in robbed THEN slices[p] - 1 ELSE slices[p]]
      /\ p_proc_ready' = Pick(runnable, slices)

\* A system call ends in schedule() exactly when it blocks its caller.
Blocks == kernel' = "up" /\ p_flags'[p_proc_ready] \cap {"SENDING", "RECEIVING"} # {}

Undisturbed == IF Blocks THEN Schedule(tick) ELSE UNCHANGED tick
Disturbed == Blocks /\ ScheduleRobbed(tick)

Dispatch == \/ Undisturbed /\ UNCHANGED calm
            \/ Disturbed /\ calm' = FALSE

Ticked == [tick EXCEPT ![p_proc_ready] = @ - 1]

\* clock_handler in user mode.
Clock ==
  /\ kernel = "up"
  /\ calm' = (calm /\ p_proc_ready \in Users /\ upc[p_proc_ready] = "user")
  /\ IF tick[p_proc_ready] > 1
     THEN tick' = Ticked /\ UNCHANGED ipcVars
     ELSE Preempt /\ Schedule(Ticked)
  /\ UNCHANGED <<mmVars, userVars, prog>>

\* clock_handler inside a system call of the current process, but for the
\* loops of schedule().
ClockNested ==
  /\ kernel = "up" /\ tick[p_proc_ready] > -MaxLag
  /\ calm' = FALSE
  /\ tick' = Ticked
  /\ UNCHANGED <<procVars, prog>>
-----------------------------------------------------------------------------
\* A fork copies the program's position with the registers and the stack.
ServerForks ==
  /\ ForkCopy
  /\ prog' = [prog EXCEPT ![mvar'.proc] = prog[mvar'.src]]
  /\ tick' = [tick EXCEPT ![mvar'.proc] = ForkTicks]
  /\ UNCHANGED calm

Server == \/ ServerForks
          \/ Serve /\ Dispatch /\ UNCHANGED prog

Program(p) ==
  \/ prog[p] = "start" /\ ForkCall(p) /\ UNCHANGED prog
  \/ prog[p] = "parent" /\ WaitCall(p) /\ UNCHANGED prog
  \/ prog[p] = "child" /\ ExitCall(p, 7) /\ UNCHANGED prog
  \/ CallReceive(p) /\ UNCHANGED prog
  \/ /\ CallReturn(p)
     /\ prog' = [prog EXCEPT ![p] =
                   IF call[p] # "FORK" THEN "loop"
                   ELSE IF mem[Loc(p, "u")].body.pid # 0 THEN "parent"
                   ELSE "child"]

Work ==
  \/ Server
  \/ TaskSys /\ Dispatch /\ UNCHANGED prog
  \/ \E p \in Users : Program(p) /\ Dispatch

DemoInit ==
  /\ ProcInit
  /\ prog = [p \in Slots |-> "start"]
  /\ tick = [p \in Slots |-> IF p \in Vacant THEN 0 ELSE priority[p]]
  /\ calm = TRUE

DemoNext == Work \/ Clock \/ ClockNested
DemoSpec == DemoInit /\ [][DemoNext]_demoVars

(* The processor goes on with the process it is on, and the clock ticks,   *)
(* not always inside system calls.                                         *)
FairDemo == DemoSpec /\ WF_demoVars(Work) /\ SF_demoVars(Clock)
-----------------------------------------------------------------------------
(* Properties.                                                             *)

(* Init's program (main.c:167) reaches its end unless the clock ticks at   *)
(* the wrong time: the child has exited, its slot is free again, and wait  *)
(* gave the parent the status 7.                                           *)
Done == /\ prog[INIT_PROC] = "loop"
        /\ mem[Loc(INIT_PROC, "u")].body.val = 7
        /\ \A c \in Vacant : IsEmpty(c)
Completes == <>[]Done \/ <>~calm

(* Init's wait (main.c:178) gives it the status and the pid of its child,  *)
(* which it prints, wherever clock ticks fall in the calls of the three    *)
(* processes.                                                              *)
StatusIsReported ==
  prog[INIT_PROC] = "loop" =>
    LET result == mem[Loc(INIT_PROC, "u")].body
    IN  result.val = 7 /\ result.pid \in Vacant

(* Nobody but Init takes the branch of the parent (main.c:175) and prints  *)
(* what a wait gave it, while the clock ticks only in programs.  A tick at *)
(* the wrong time breaks this: the child can run at once (fork.c:42), so   *)
(* task_mm waits to tell it its 0, and a call of Init overwrites where     *)
(* that message is (kernel.asm:249).  The child then takes itself for the  *)
(* parent, and prints a status that nothing has set.                       *)
OnlyInitReports == calm => \A c \in Vacant : prog[c] \notin {"parent", "loop"}

(* While the clock ticks only in programs, the child runs in its own       *)
(* memory (fork.c:78) and schedule() always finds somebody (proc.c:19).    *)
CalmIsSafe == calm => ChildOwnsMemory /\ kernel = "up"
=============================================================================
