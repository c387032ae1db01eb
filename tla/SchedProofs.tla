---------------------------- MODULE SchedProofs ----------------------------
(* Proofs about Sched for every number of slots, all priorities and any    *)
(* number of nested clock ticks.                                           *)
EXTENDS Sched, TLAPS

SchedInv == SchedTypeInv /\ PickIsBest /\ RefillOnlyWhenSpent

USE SchedAssumption
-----------------------------------------------------------------------------
(* Whatever process the loop has picked so far, a step keeps it the best.  *)
LEMMA SchedInvStep == SchedInv /\ [SchedNext]_schedVars => SchedInv'
<1> SUFFICES ASSUME SchedInv, [SchedNext]_schedVars PROVE SchedInv'
  OBVIOUS
<1> USE DEF Scanning, Refilling, Procs
<1>0. /\ SchedTypeInv /\ PickIsBest /\ RefillOnlyWhenSpent
  BY DEF SchedInv
<1>1. CASE ClockUser
  <2>1. /\ tick' \in [Procs -> Int]
        /\ UNCHANGED <<ready, p_proc_ready>>
        /\ \/ pc = "user" /\ UNCHANGED <<greatest_ticks, i, pc>>
           \/ greatest_ticks' = 0 /\ i' = 0 /\ pc' = "scan!"
    BY <1>0, <1>1 DEF ClockUser, StartScan, SchedTypeInv
  <2> QED
    BY <1>0, <2>1 DEF SchedInv, SchedTypeInv, PickIsBest, RefillOnlyWhenSpent
<1>2. CASE ClockNested
  <2>1. /\ tick' \in [Procs -> Int]
        /\ \A q \in Procs : tick'[q] <= tick[q]
        /\ UNCHANGED <<ready, p_proc_ready, greatest_ticks, i, pc>>
    BY <1>0, <1>2 DEF ClockNested, SchedTypeInv
  <2>2. SchedTypeInv'
    BY <1>0, <2>1 DEF SchedTypeInv
  <2>3. PickIsBest'
    <3> SUFFICES ASSUME Scanning
                 PROVE  /\ greatest_ticks # 0 =>
                             /\ p_proc_ready \in ready
                             /\ tick'[p_proc_ready] <= greatest_ticks
                        /\ \A q \in ready : q < i => tick'[q] <= greatest_ticks
      BY <2>1 DEF PickIsBest
    <3>1. \A q \in Procs : tick'[q] \in Int /\ tick[q] \in Int
      BY <1>0, <2>1 DEF SchedTypeInv
    <3> QED
      BY <1>0, <2>1, <3>1 DEF PickIsBest, SchedTypeInv
  <2>4. RefillOnlyWhenSpent'
    <3>1. \A q \in Procs : tick'[q] \in Int /\ tick[q] \in Int
      BY <1>0, <2>1 DEF SchedTypeInv
    <3> QED
      BY <1>0, <2>1, <3>1 DEF RefillOnlyWhenSpent, SchedTypeInv
  <2> QED
    BY <2>2, <2>3, <2>4 DEF SchedInv
<1>3. CASE Call \/ CallReturns
  BY <1>0, <1>3 DEF Call, CallReturns, SchedInv, SchedTypeInv, PickIsBest,
                    RefillOnlyWhenSpent
<1>4. CASE ScanStep
  <2>1. /\ i < N /\ Scanning /\ i' = i + 1 /\ i \in Procs /\ i' \in 0 .. N
        /\ UNCHANGED <<ready, tick, pc>>
    BY <1>0, <1>4 DEF ScanStep, SchedTypeInv
  <2>2. CASE Better(i)
    <3>1. greatest_ticks' = tick[i] /\ p_proc_ready' = i /\ greatest_ticks' \in Nat
      BY <1>0, <1>4, <2>1, <2>2 DEF ScanStep, Better, SchedTypeInv
    <3>2. i \in ready /\ tick[i] > greatest_ticks
      BY <2>2 DEF Better
    <3> QED
      BY SMTT(30), <1>0, <2>1, <3>1, <3>2 DEF SchedInv, SchedTypeInv, PickIsBest,
                                    RefillOnlyWhenSpent
  <2>3. CASE ~Better(i)
    <3>1. UNCHANGED <<greatest_ticks, p_proc_ready>>
      BY <1>4, <2>3 DEF ScanStep
    <3>2. i \in ready => tick[i] <= greatest_ticks
      BY <1>0, <2>1, <2>3 DEF Better, SchedTypeInv
    <3> QED
      BY SMTT(30), <1>0, <2>1, <3>1, <3>2 DEF SchedInv, SchedTypeInv, PickIsBest,
                                    RefillOnlyWhenSpent
  <2> QED
    BY <2>2, <2>3
<1>5. CASE ScanEnds
  BY SMTT(30), <1>0, <1>5 DEF ScanEnds, SchedInv, SchedTypeInv, PickIsBest,
                    RefillOnlyWhenSpent
<1>6. CASE RefillStep
  <2>1. /\ Refilling /\ ~Scanning /\ i' = i + 1 /\ i' \in 0 .. N
        /\ tick' \in [Procs -> Int]
        /\ \A q \in Procs : q # i => tick'[q] = tick[q]
        /\ UNCHANGED <<ready, p_proc_ready, greatest_ticks, pc>>
    BY <1>0, <1>6 DEF RefillStep, Refilled, SchedTypeInv
  <2>2. SchedTypeInv' /\ PickIsBest'
    BY <1>0, <2>1 DEF SchedTypeInv, PickIsBest
  <2>3. \A q \in ready : q >= i + 1 => q # i /\ q >= i /\ q \in Procs
    BY <1>0 DEF SchedTypeInv
  <2>4. RefillOnlyWhenSpent'
    BY <1>0, <2>1, <2>3 DEF RefillOnlyWhenSpent
  <2> QED
    BY <2>2, <2>4 DEF SchedInv
<1>7. CASE CallBlocks \/ RefillEnds
  <2>1. /\ ready' \subseteq Procs /\ greatest_ticks' = 0 /\ i' = 0
        /\ pc' \in {"scan", "scan!"}
        /\ UNCHANGED <<tick, p_proc_ready>>
    BY <1>0, <1>7 DEF CallBlocks, RefillEnds, StartScan, SchedTypeInv
  <2>2. \A q \in ready' : ~(q < i')
    BY <2>1
  <2>3. SchedTypeInv' /\ RefillOnlyWhenSpent'
    BY <1>0, <2>1 DEF SchedTypeInv, RefillOnlyWhenSpent
  <2>4. PickIsBest'
    BY <2>1, <2>2 DEF PickIsBest
  <2> QED
    BY <2>3, <2>4 DEF SchedInv
<1>8. CASE \E q \in Procs : Stop(q) \/ Fork(q)
  <2>1. /\ ready' \subseteq Procs /\ tick' \in [Procs -> Int]
        /\ pc = "user"
        /\ UNCHANGED <<p_proc_ready, greatest_ticks, i, pc>>
    <3>1. PICK q \in Procs : Stop(q) \/ Fork(q)
      BY <1>8
    <3>2. CASE Stop(q)
      BY <1>0, <3>2 DEF Stop, SchedTypeInv
    <3>3. CASE Fork(q)
      <4>1. [tick EXCEPT ![q] = ForkTicks] \in [Procs -> Int]
        BY <1>0 DEF SchedTypeInv
      <4> QED
        BY <1>0, <3>3, <4>1 DEF Fork, SchedTypeInv
    <3> QED
      BY <3>1, <3>2, <3>3
  <2> QED
    BY <1>0, <2>1 DEF SchedInv, SchedTypeInv, PickIsBest, RefillOnlyWhenSpent
<1>9. CASE UNCHANGED schedVars
  BY <1>0, <1>9 DEF schedVars, SchedInv, SchedTypeInv, PickIsBest,
                    RefillOnlyWhenSpent
<1> QED
  BY <1>1, <1>2, <1>3, <1>4, <1>5, <1>6, <1>7, <1>8, <1>9
     DEF SchedNext, RunNext, Schedule

(* The table kernel_main leaves satisfies the invariant.                   *)
LEMMA SchedInvInit == SchedInit => SchedInv
  BY DEF SchedInit, SchedInv, SchedTypeInv, PickIsBest, RefillOnlyWhenSpent,
         Scanning, Refilling, Procs

(* SchedInv holds in every reachable state.                                *)
LEMMA SchedInductive == SchedSpec => []SchedInv
  BY SchedInvInit, SchedInvStep, PTL DEF SchedSpec
-----------------------------------------------------------------------------
(* The fields of the process table and the locals of schedule() keep their *)
(* ranges: no index leaves the table, whatever ticks fall into the loops.  *)
THEOREM SchedTypeCorrect == SchedSpec => []SchedTypeInv
<1>1. SchedInv => SchedTypeInv
  BY DEF SchedInv
<1> QED
  BY <1>1, SchedInductive, PTL

(* The process picked so far can run and has the most ticks, even with     *)
(* clock ticks arriving in the middle of the loop.                         *)
THEOREM PickStaysBest == SchedSpec => []PickIsBest
<1>1. SchedInv => PickIsBest
  BY DEF SchedInv
<1> QED
  BY <1>1, SchedInductive, PTL

(* Under clock_handler no tick falls into the loop: the pick so far is the *)
(* first of the slots visited that has the greatest number of ticks.       *)
FirstSoFar ==
  pc = "scan!" /\ greatest_ticks # 0 =>
    /\ p_proc_ready \in ready /\ p_proc_ready < i
    /\ tick[p_proc_ready] = greatest_ticks
    /\ \A q \in ready : q < i =>
         tick[q] < greatest_ticks \/ (tick[q] = greatest_ticks /\ p_proc_ready <= q)

(* A step of the loop visits slots in ascending order and replaces the     *)
(* pick only by a better one, so that FirstSoFar is kept.                  *)
LEMMA FirstSoFarStep ==
  SchedInv /\ FirstSoFar /\ [SchedNext]_schedVars => FirstSoFar'
<1> SUFFICES ASSUME SchedInv, FirstSoFar, [SchedNext]_schedVars,
                    pc' = "scan!", greatest_ticks' # 0
             PROVE  FirstSoFar'
  BY DEF FirstSoFar
<1> USE DEF Scanning, Refilling, Procs
<1>0. SchedTypeInv /\ PickIsBest
  BY DEF SchedInv
<1>1. CASE ScanStep
  <2>1. /\ i < N /\ pc = "scan!" /\ i' = i + 1 /\ i \in Procs
        /\ UNCHANGED <<ready, tick>>
        /\ \A q \in ready : q \in Int /\ tick[q] \in Int
    BY <1>0, <1>1 DEF ScanStep, SchedTypeInv
  <2>2. CASE Better(i)
    <3>1. /\ greatest_ticks' = tick[i] /\ p_proc_ready' = i /\ i \in ready
          /\ \A q \in ready : q < i => tick[q] < tick[i]
      BY <1>0, <1>1, <2>1, <2>2 DEF ScanStep, Better, PickIsBest, SchedTypeInv
    <3> QED
      BY <1>0, <2>1, <3>1 DEF FirstSoFar, SchedTypeInv
  <2>3. CASE ~Better(i)
    <3>1. UNCHANGED <<greatest_ticks, p_proc_ready>>
      BY <1>1, <2>3 DEF ScanStep
    <3>2. i \in ready => tick[i] <= greatest_ticks
      BY <1>0, <2>1, <2>3 DEF Better, SchedTypeInv
    <3> QED
      BY <1>0, <2>1, <3>1, <3>2 DEF FirstSoFar, SchedTypeInv
  <2> QED
    BY <2>2, <2>3
<1>2. CASE ClockNested \/ UNCHANGED schedVars
  BY <1>2 DEF ClockNested, schedVars, FirstSoFar
<1>3. CASE \E q \in Procs : Stop(q) \/ Fork(q)
  BY <1>3 DEF Stop, Fork
<1>4. CASE ClockUser \/ RefillEnds \/ CallBlocks
  BY <1>4 DEF ClockUser, RefillEnds, CallBlocks, StartScan
<1>5. CASE Call \/ CallReturns \/ ScanEnds \/ RefillStep
  BY <1>5 DEF Call, CallReturns, ScanEnds, RefillStep
<1> QED
  BY <1>1, <1>2, <1>3, <1>4, <1>5 DEF SchedNext, RunNext, Schedule

\* What Slices!Pick chooses by.
Best(p) == \A q \in ready : tick[q] < tick[p] \/ (tick[q] = tick[p] /\ p <= q)

(* A slice that ends in user mode goes to the process that Slices!Pick     *)
(* names: the demonstration may use Pick for schedule().                   *)
THEOREM PickIsFirst == SchedSpec => []PickIsFirstBest
<1>1. SchedInit => FirstSoFar
  BY DEF SchedInit, FirstSoFar
<1>2. SchedInv /\ FirstSoFar => PickIsFirstBest
  <2> SUFFICES ASSUME SchedInv, FirstSoFar, pc = "scan!", i = N, greatest_ticks # 0
               PROVE  p_proc_ready = Pick(ready, tick)
    BY DEF PickIsFirstBest
  <2>1. \A q \in ready : q \in Int /\ tick[q] \in Int /\ q < i
    BY DEF SchedInv, SchedTypeInv, Procs
  <2>2. p_proc_ready \in ready /\ Best(p_proc_ready)
    BY <2>1 DEF FirstSoFar, Best
  <2>3. \A p \in ready : Best(p) => p = p_proc_ready
    BY <2>1, <2>2 DEF Best
  <2> QED
    BY <2>2, <2>3 DEF Pick, Best
<1> QED
  BY <1>1, <1>2, FirstSoFarStep, SchedInductive, PTL DEF SchedSpec

(* No process gets a second slice while another still has its first.       *)
THEOREM NoEarlyRefill == SchedSpec => []RefillOnlyWhenSpent
<1>1. SchedInv => RefillOnlyWhenSpent
  BY DEF SchedInv
<1> QED
  BY <1>1, SchedInductive, PTL

(* New ticks come from a refill of the spent, and only the clock takes any.*)
THEOREM TicksAccounted == SchedSpec => TicksOnlyFromRefill
<1>1. SchedInv /\ [SchedNext]_schedVars => [TicksStep]_schedVars
  <2> SUFFICES ASSUME SchedInv, SchedNext, NEW q \in Procs
               PROVE  /\ tick'[q] > tick[q] /\ q \in ready
                           => Refilling /\ tick[q] <= 0 /\ tick'[q] = priority[q]
                      /\ tick'[q] < tick[q] => q = p_proc_ready \/ q \notin ready
    BY DEF TicksStep
  <2>0. SchedTypeInv /\ RefillOnlyWhenSpent /\ tick[q] \in Int
    BY DEF SchedInv, SchedTypeInv
  <2>1. CASE ClockUser \/ ClockNested
    BY <2>0, <2>1 DEF ClockUser, ClockNested, SchedTypeInv
  <2>2. CASE RefillStep
    BY <2>0, <2>2 DEF RefillStep, Refilled, RefillOnlyWhenSpent, SchedTypeInv, Procs
  <2>3. CASE \E r \in Procs : Fork(r)
    BY <2>0, <2>3 DEF Fork, SchedTypeInv
  <2>4. CASE tick' = tick
    BY <2>0, <2>4
  <2> QED
    BY <2>1, <2>2, <2>3, <2>4 DEF SchedNext, RunNext, Call, CallReturns,
       CallBlocks, Schedule, ScanStep, ScanEnds, RefillEnds, Stop
<1> QED
  BY <1>1, SchedInductive, PTL DEF SchedSpec, TicksOnlyFromRefill

(* schedule() implements the abstract scheduler: outside it the cpu        *)
(* belongs to one process, and it is given only to one that can run.       *)
THEOREM SchedImplementsDispatch == SchedSpec => ImplementsDispatch
<1>1. SchedInit => D!Init
  BY DEF SchedInit, D!Init, Running
<1>2. SchedInv /\ [SchedNext]_schedVars => [D!Next]_(D!dispatchVars)
  <2> SUFFICES ASSUME SchedInv, [SchedNext]_schedVars
               PROVE  D!Next \/ UNCHANGED D!dispatchVars
    OBVIOUS
  <2> USE DEF Scanning, Refilling
  <2>0. SchedTypeInv /\ PickIsBest
    BY DEF SchedInv
  <2>1. CASE ClockUser
    BY <2>0, <2>1 DEF ClockUser, StartScan, SchedTypeInv, Running, D!Next,
                      D!Release, D!dispatchVars
  <2>2. CASE CallBlocks
    BY <2>0, <2>2 DEF CallBlocks, StartScan, SchedTypeInv, Running, D!Next,
                      D!Release
  <2>3. CASE CallReturns
    BY <2>0, <2>3 DEF CallReturns, SchedTypeInv, Running, D!Next,
                      D!Influence, D!dispatchVars
  <2>4. CASE ScanEnds
    <3>1. CASE greatest_ticks # 0
      <4>1. Running = Nobody /\ Running' = p_proc_ready /\ p_proc_ready \in ready
        BY <2>0, <2>4, <3>1 DEF ScanEnds, PickIsBest, Running
      <4>2. UNCHANGED ready
        BY <2>4 DEF ScanEnds
      <4> QED
        BY <2>0, <4>1, <4>2 DEF SchedTypeInv, D!Next, D!Run
    <3>2. CASE greatest_ticks = 0
      BY <2>4, <3>2 DEF ScanEnds, Running, D!dispatchVars
    <3> QED
      BY <3>1, <3>2
  <2>5. CASE \E q \in Procs : Stop(q) \/ Fork(q)
    BY <2>0, <2>5 DEF Stop, Fork, SchedTypeInv, Running, D!Next, D!Influence
  <2>6. CASE ClockNested \/ Call \/ ScanStep \/ RefillStep \/ RefillEnds
    BY <2>6 DEF ClockNested, Call, ScanStep, RefillStep, Refilled, RefillEnds, StartScan,
                Running, D!dispatchVars
  <2>7. CASE UNCHANGED schedVars
    BY <2>7 DEF schedVars, Running, D!dispatchVars
  <2> QED
    BY <2>1, <2>2, <2>3, <2>4, <2>5, <2>6, <2>7 DEF SchedNext, RunNext, Schedule
<1> QED
  BY <1>1, <1>2, SchedInductive, PTL DEF SchedSpec, ImplementsDispatch, D!Safe
=============================================================================
