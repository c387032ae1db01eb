------------------------------- MODULE Sched -------------------------------
(***************************************************************************)
(* schedule() and clock_handler() of kernel/proc.c, one step per loop      *)
(* iteration, with the interrupts that kernel/kernel.asm lets in.          *)
(*                                                                         *)
(* sys_call runs with interrupts enabled: a clock tick inside a call is    *)
(* nested (k_reenter # 0) and only takes a tick from p_proc_ready, which   *)
(* schedule() may be changing at that moment.  hwint_master masks the      *)
(* clock while clock_handler runs, so the schedule() it calls is not       *)
(* disturbed.  What the calls do is left to Ipc: here they block the       *)
(* caller, or make another process able to run.                            *)
(***************************************************************************)
EXTENDS Integers, Slices

CONSTANTS
  N,          \* NR_TASK_PROCS
  Nobody,     \* no slot, for the abstract scheduler
  Boot,       \* p_proc_ready when restart is first called
  priority,   \* p->priority
  ForkTicks,  \* the ticks do_fork gives a child
  MaxLag      \* bound: nested ticks take p->ticks down to -MaxLag, no lower

Procs == 0 .. N - 1

ASSUME SchedAssumption ==
  /\ N \in Nat
  /\ Boot \in Procs /\ Nobody \notin Procs
  /\ priority \in [Procs -> Nat \ {0}]
  /\ ForkTicks \in Nat \ {0} /\ MaxLag \in Nat

VARIABLES
  ready,         \* the slots whose p_flags is 0
  tick,          \* p->ticks
  p_proc_ready,
  greatest_ticks,
  i,             \* the slot the loop at hand visits next
  pc             \* "user"; "call": in a system call; "scan", "refill": the
                 \* two loops of schedule(), with "!" under clock_handler

schedVars == <<ready, tick, p_proc_ready, greatest_ticks, i, pc>>

Scanning == pc \in {"scan", "scan!"}
Refilling == pc \in {"refill", "refill!"}

SchedInit ==
  /\ ready \in SUBSET Procs \ {{}}
  /\ tick = priority
  /\ p_proc_ready = Boot
  /\ greatest_ticks = 0 /\ i = 0
  /\ pc = "user"
-----------------------------------------------------------------------------
(* Entry into schedule(): greatest_ticks = 0 and the loop at slot 0.       *)
\* Mutants of StartScan: greatest_ticks starts at -1; it is not reset.
StartScanBelow(next) == greatest_ticks' = -1 /\ i' = 0 /\ pc' = next
StartScanKeep(next) == UNCHANGED greatest_ticks /\ i' = 0 /\ pc' = next
StartScan(next) == greatest_ticks' = 0 /\ i' = 0 /\ pc' = next

\* clock_handler, in user mode.
ClockUser ==
  /\ pc = "user"
  /\ tick' = [tick EXCEPT ![p_proc_ready] = @ - 1]
  /\ IF tick'[p_proc_ready] > 0 THEN UNCHANGED <<greatest_ticks, i, pc>>
                                ELSE StartScan("scan!")
  /\ UNCHANGED <<ready, p_proc_ready>>

\* clock_handler, inside a system call: p_proc_ready->ticks-- and return.
ClockNested ==
  /\ pc \in {"call", "scan", "refill"}
  /\ tick[p_proc_ready] > -MaxLag
  /\ tick' = [tick EXCEPT ![p_proc_ready] = @ - 1]
  /\ UNCHANGED <<ready, p_proc_ready, greatest_ticks, i, pc>>

Call ==
  /\ pc = "user"
  /\ pc' = "call"
  /\ UNCHANGED <<ready, tick, p_proc_ready, greatest_ticks, i>>

\* The call does not block: it returns to the caller, having perhaps woken q.
CallReturns ==
  /\ pc = "call"
  /\ \/ UNCHANGED ready
     \/ \E q \in Procs \ {p_proc_ready} : ready' = ready \cup {q}
  /\ pc' = "user"
  /\ UNCHANGED <<tick, p_proc_ready, greatest_ticks, i>>

\* The call blocks its caller and runs schedule().
CallBlocks ==
  /\ pc = "call"
  /\ ready' = ready \ {p_proc_ready}
  /\ StartScan("scan")
  /\ UNCHANGED <<tick, p_proc_ready>>

\* task_mm, in user mode, marks another slot WAITING, HANGING or EMPTY.
Stop(q) ==
  /\ pc = "user" /\ q # p_proc_ready
  /\ ready' = ready \ {q}
  /\ UNCHANGED <<tick, p_proc_ready, greatest_ticks, i, pc>>

\* task_mm, in user mode, copies a running parent into a free slot.
Fork(q) ==
  /\ pc = "user" /\ q \notin ready \cup {p_proc_ready}
  /\ ready' = ready \cup {q}
  /\ tick' = [tick EXCEPT ![q] = ForkTicks]
  /\ UNCHANGED <<p_proc_ready, greatest_ticks, i, pc>>
-----------------------------------------------------------------------------
\* One iteration of the loop that looks for the greatest number of ticks.
\* Mutants of Better: >= for >; a process with one tick is passed over; the
\* flags are not looked at.
BetterOrEqual(p) == p \in ready /\ tick[p] >= greatest_ticks
BetterByTwo(p) == p \in ready /\ tick[p] > greatest_ticks + 1
BetterAnybody(p) == tick[p] > greatest_ticks
Better(p) == p \in ready /\ tick[p] > greatest_ticks

ScanStep ==
  /\ Scanning /\ i < N
  /\ i' = i + 1
  /\ IF Better(i) THEN greatest_ticks' = tick[i] /\ p_proc_ready' = i
                  ELSE UNCHANGED <<greatest_ticks, p_proc_ready>>
  /\ UNCHANGED <<ready, tick, pc>>

ScanEnds ==
  /\ Scanning /\ i = N
  /\ IF greatest_ticks # 0
     THEN pc' = "user" /\ UNCHANGED i
     ELSE pc' = (IF pc = "scan" THEN "refill" ELSE "refill!") /\ i' = 0
  /\ UNCHANGED <<ready, tick, p_proc_ready, greatest_ticks>>

\* One iteration of the loop that gives out the next slices.
\* Mutants of Refilled: slices are added up; the loop ends one slot early.
RefilledOnTop == IF i \in ready THEN [tick EXCEPT ![i] = @ + priority[i]] ELSE tick
RefilledShort ==
  IF i \in ready /\ i < N - 1 THEN [tick EXCEPT ![i] = priority[i]] ELSE tick
Refilled == IF i \in ready THEN [tick EXCEPT ![i] = priority[i]] ELSE tick

RefillStep ==
  /\ Refilling /\ i < N
  /\ i' = i + 1
  /\ tick' = Refilled
  /\ UNCHANGED <<ready, p_proc_ready, greatest_ticks, pc>>

RefillEnds ==
  /\ Refilling /\ i = N
  /\ StartScan(IF pc = "refill" THEN "scan" ELSE "scan!")
  /\ UNCHANGED <<ready, tick, p_proc_ready>>

Schedule == ScanStep \/ ScanEnds \/ RefillStep \/ RefillEnds
-----------------------------------------------------------------------------
RunNext == ClockUser \/ ClockNested \/ Call \/ CallReturns \/ CallBlocks \/ Schedule
SchedNext == RunNext \/ \E q \in Procs : Stop(q) \/ Fork(q)

SchedSpec == SchedInit /\ [][SchedNext]_schedVars

(* The clock keeps ticking, and not always inside a system call; calls and *)
(* schedule() itself go on.  Nothing is assumed of Stop and Fork, nor of   *)
(* where the nested ticks fall.                                            *)
FairSched ==
  /\ SchedSpec
  /\ SF_schedVars(ClockUser)
  /\ WF_schedVars(CallReturns \/ CallBlocks) /\ WF_schedVars(Schedule)
-----------------------------------------------------------------------------
(* Properties.                                                             *)

(* Type invariant of the process table fields and the locals of schedule().*)
SchedTypeInv ==
  /\ ready \subseteq Procs /\ i \in 0 .. N
  /\ tick \in [Procs -> Int]
  /\ p_proc_ready \in Procs
  /\ greatest_ticks \in Nat
  /\ pc \in {"user", "call", "scan", "scan!", "refill", "refill!"}

(* The pick so far is a process that can run, and no process passed over   *)
(* has more ticks than it was picked for, whatever nested ticks took away  *)
(* from it meanwhile.                                                      *)
PickIsBest ==
  Scanning =>
    /\ greatest_ticks # 0 =>
         p_proc_ready \in ready /\ tick[p_proc_ready] <= greatest_ticks
    /\ \A q \in ready : q < i => tick[q] <= greatest_ticks

(* Where no nested tick falls into schedule(), it picks what Slices!Pick   *)
(* says, the first of the best: InitDemo is built on it.                   *)
PickIsFirstBest ==
  pc = "scan!" /\ i = N /\ greatest_ticks # 0 => p_proc_ready = Pick(ready, tick)

(* New slices are handed out only when no process that can run has any     *)
(* tick left: a process keeps its turn until it has had it.                *)
RefillOnlyWhenSpent ==
  Refilling => greatest_ticks = 0 /\ \A q \in ready : q >= i => tick[q] <= 0

TicksStep ==
  \A q \in Procs :
    /\ tick'[q] > tick[q] /\ q \in ready
         => Refilling /\ tick[q] <= 0 /\ tick'[q] = priority[q]
    /\ tick'[q] < tick[q] => q = p_proc_ready \/ q \notin ready

(* A process gets new ticks from schedule() only in such a refill, and     *)
(* nothing but a clock tick takes any from it.                             *)
TicksOnlyFromRefill == [][TicksStep]_schedVars

\* The abstract scheduler: the cpu belongs to somebody outside schedule().
Running == IF pc \in {"user", "call"} THEN p_proc_ready ELSE Nobody

\* A tick nested in the scan has gone to the tentative pick p: it has fewer
\* ticks now than it was picked for, and a process after it may win.
Robbed(p) == Scanning /\ p_proc_ready = p /\ tick[p] < greatest_ticks

ForksForEver == []<><<\E q \in Procs : Fork(q)>>_schedVars

(* There are two ways to starve, and no other.  A process that can run     *)
(* gets the cpu, and uses it outside schedule(), unless it is blocked or   *)
(* killed first, or a tick nested in a scan falls just while it is the     *)
(* tentative pick - again and again, for the claim holds anew after each - *)
(* or children with ForkTicks are forked without end.  In particular       *)
(* schedule() returns whenever anybody can run.                            *)
NoStarvation ==
  ForksForEver
    \/ \A p \in Procs : p \in ready ~> Running = p \/ p \notin ready \/ Robbed(p)

D == INSTANCE Dispatch WITH running <- Running

(* Every step of the calls, the clock and schedule() is one that Dispatch  *)
(* allows: the cpu goes from a process only to one that can run.           *)
ImplementsDispatch == D!Safe
=============================================================================
