----------------------------- MODULE DemoProofs -----------------------------
(* Proofs about InitDemo: the clock may tick anywhere in Init, its child,  *)
(* task_mm and the kernel's calls, and wait still reports the right child. *)
(* If it ticks only in programs, task_mm is never preempted: the child is  *)
(* whole before it runs and learns that it is the child, and somebody can  *)
(* always run.                                                             *)
EXTENDS InitDemo, ProcProofs

\* What the library call of INIT_PROC has, or will have, in its buffer.
Heard == mem[Loc(INIT_PROC, "u")].body
Pending == mem[Loc(MM, p_msg[MM])].body

Fresh == \A c \in Vacant : IsEmpty(c)
Forked == \E c \in Vacant : p_parent[c] = INIT_PROC

\* An answer to the call INIT_PROC is in.
Right(body) == body.pid \in Vacant /\ (call[INIT_PROC] = "WAIT" => body.val = 7)

(* Init forks once and then waits once, having a child.                    *)
InitWhere ==
  /\ ldt_base[INIT_PROC] = FlatSeg
  /\ prog[INIT_PROC] \in {"start", "parent", "loop"}
  /\ upc[INIT_PROC] # "user" =>
       <<prog[INIT_PROC], call[INIT_PROC]>> \in {<<"start", "FORK">>, <<"parent", "WAIT">>}
  /\ prog[INIT_PROC] = "start" /\ upc[INIT_PROC] = "user" => Fresh
  /\ prog[INIT_PROC] # "start" => Forked
  /\ "RECEIVING" \in p_flags[INIT_PROC] => p_msg[INIT_PROC] = "u"

(* What it has been answered.                                              *)
InitHears ==
  /\ kernel = "up" /\ upc[INIT_PROC] = "back" /\ "RECEIVING" \notin p_flags[INIT_PROC] =>
       Forked /\ Right(Heard)
  /\ prog[INIT_PROC] = "loop" =>
       upc[INIT_PROC] = "user" /\ Heard.val = 7 /\ Heard.pid \in Vacant

(* A child never forks, and leaves the memory of its parent once it has    *)
(* its own.                                                                *)
ChildWhere ==
  \A c \in Vacant : ~IsEmpty(c) =>
    /\ prog[c] = "start" => upc[c] # "user"
    /\ upc[c] # "user" => call[c] \in {"FORK", "WAIT", "EXIT"}
    /\ ldt_base[c] = c \/ (mpc = "forkmem" /\ mvar.proc = c)

(* What task_mm has in hand for INIT_PROC.                                 *)
InitServed ==
  /\ mpc = "got" /\ p_flags[MM] = {} /\ mm_msg.body.type = "FORK" =>
       mm_msg.source = INIT_PROC /\ Fresh
  /\ mpc \in {"forkmem", "forksend", "reply"} =>
       mvar.src = INIT_PROC /\ call[INIT_PROC] = "FORK" /\ Forked
  /\ mpc \in {"forksend", "reply"} => mm_msg.body.pid \in Vacant
  /\ mpc = "nochild" => mvar.src # INIT_PROC
  /\ INIT_PROC \in To => Forked /\ p_msg[MM] \in {"mm", "c"} /\ Right(Pending)

ProgTyped == prog \in [Slots -> {"start", "parent", "child", "loop"}]

DemoInv == PInv /\ ProgTyped /\ InitWhere /\ InitHears /\ ChildWhere /\ InitServed

USE SlotsAssumption, MemoryAssumption, ProcMgrAssumption, BodyAssumption, InitAssumption DEF Users
-----------------------------------------------------------------------------
(* kernel_main leaves Init at the start of its program, with no child.     *)
LEMMA InitDemoInv == DemoInit => DemoInv
<1> SUFFICES ASSUME DemoInit PROVE DemoInv
  OBVIOUS
<1>1. PInv
  BY InitPInv DEF DemoInit
<1>2. /\ p_flags = [p \in Slots |-> IF p \in Vacant THEN {"EMPTY"}
                                    ELSE IF p \in Started THEN {} ELSE {"UNSTARTED"}]
      /\ ldt_base = [p \in Slots |-> FlatSeg] /\ upc = [p \in Slots |-> "user"]
      /\ prog = [p \in Slots |-> "start"] /\ mpc = "idle"
  BY DEF DemoInit, ProcInit, IpcInit
<1>3. InitWhere /\ InitHears /\ ChildWhere
  BY <1>2 DEF InitWhere, InitHears, ChildWhere, Fresh, IsEmpty
<1>4. InitServed
  BY <1>2 DEF InitServed, To
<1> QED
  BY <1>1, <1>2, <1>3, <1>4 DEF DemoInv, ProgTyped
-----------------------------------------------------------------------------
(* What holds of Init still does if its process is left alone.             *)
LEMMA Quiet ==
  ASSUME InitWhere, InitHears,
         prog'[INIT_PROC] = prog[INIT_PROC], upc'[INIT_PROC] = upc[INIT_PROC],
         call'[INIT_PROC] = call[INIT_PROC], ldt_base'[INIT_PROC] = ldt_base[INIT_PROC],
         "RECEIVING" \in p_flags'[INIT_PROC] <=> "RECEIVING" \in p_flags[INIT_PROC],
         "RECEIVING" \in p_flags[INIT_PROC] => p_msg'[INIT_PROC] = p_msg[INIT_PROC],
         Heard' = Heard, kernel' = "up" => kernel = "up",
         \A c \in Vacant : /\ IsEmpty(c) => IsEmpty(c)'
                           /\ p_parent[c] = INIT_PROC => p_parent'[c] = INIT_PROC
  PROVE  InitWhere' /\ InitHears'
<1>1. (Fresh => Fresh') /\ (Forked => Forked') /\ \A b : Right(b)' = Right(b)
  BY DEF Fresh, Forked, Right
<1>2. InitWhere'
  BY <1>1 DEF InitWhere
<1>3. (Right(Heard) => Right(Heard)')
  BY <1>1 DEF Right
<1>4. InitHears'
  BY <1>1, <1>3 DEF InitHears
<1> QED
  BY <1>2, <1>4

(* Of the processes only Init and its child ever run.                      *)
LEMMA Running ==
  ASSUME DemoInv, NEW p \in Users, kernel = "up", p_proc_ready = p
  PROVE  p_flags[p] = {} /\ (p = INIT_PROC \/ (p \in Vacant /\ ~IsEmpty(p)))
<1>1. p_flags[p] = {}
  BY DEF DemoInv, PInv, CpuRuns
<1>2. p \in Started \cup Vacant
  BY <1>1 DEF DemoInv, PInv, FixedSlots
<1> QED
  BY <1>1, <1>2 DEF IsEmpty

(* Where the two segments in play differ.                                  *)
LEMMA Places ==
  ASSUME DemoInv
  PROVE  /\ Loc(INIT_PROC, "u") = <<FlatSeg, "u">> /\ <<FlatSeg, "u">> \in Location
         /\ \A a : Loc(MM, a) = <<FlatSeg, a>>
         /\ \A p, a : Loc(p, a) = <<ldt_base[p], a>>
         /\ mm_msg = mem[<<FlatSeg, "mm">>]
         /\ Heard = mem[<<FlatSeg, "u">>].body
         /\ Pending = mem[<<FlatSeg, p_msg[MM]>>].body
  BY DEF DemoInv, PInv, FixedSlots, InitWhere, Loc, Location, mm_msg, Heard, Pending
-----------------------------------------------------------------------------
(* What the calls write into buffers and pointers.                         *)

(* A request changes the caller's buffer, and that of task_mm if it waits. *)
LEMMA RequestWrites ==
  ASSUME PInv, NEW p \in Users, NEW request \in Bodies, p_flags[p] = {},
         SysSend(p, MM, "u", request)
  PROVE  /\ \A l \in Location : l \notin {Loc(p, "u"), Loc(MM, "mm")} => mem'[l] = mem[l]
         /\ \A q \in Slots : q \notin {p, p - 1, MM} => p_msg'[q] = p_msg[q]
         /\ "SENDING" \in p_flags[MM] /\ MM # p - 1 => p_msg'[MM] = p_msg[MM]
<1> USE DEF PInv, KernelTyped
<1>1. CASE SendDeliver(p, MM, "u", request)
  <2>1. p_flags[MM] = {"RECEIVING"} /\ p_msg[MM] = "mm"
    BY <1>1 DEF SendDeliver, CanDeliver, FixedSlots, ServerBits
  <2>2. /\ mem' = [mem EXCEPT ![Loc(p, "u")] = Stamp(p, request), ![Loc(MM, "mm")] = Stamp(p, request)]
        /\ p_msg' = SysReturn(p, [p_msg EXCEPT ![MM] = NULL])
    BY <1>1, <2>1 DEF SendDeliver
  <2> QED
    BY <2>1, <2>2 DEF SysReturn
<1>2. CASE SendBlock(p, MM, "u", request)
  <2>1. /\ mem' = [mem EXCEPT ![Loc(p, "u")] = Stamp(p, request)]
        /\ BlockAndSchedule(p, [p_flags EXCEPT ![p] = @ \cup {"SENDING"}], [p_msg EXCEPT ![p] = "u"])
    BY <1>2 DEF SendBlock
  <2> QED
    BY <2>1 DEF BlockAndSchedule, SysReturn
<1> QED
  BY <1>1, <1>2 DEF SysSend

(* A receive takes what task_mm offers, or keeps the caller's body.        *)
LEMMA ReceiveWrites ==
  ASSUME PInv, NEW p \in Users, SysReceive(p, MM, "u", mem[Loc(p, "u")].body), p_flags[p] = {}
  PROVE  /\ \A l \in Location : l # Loc(p, "u") => mem'[l] = mem[l]
         /\ p \notin To => mem'[Loc(p, "u")].body = mem[Loc(p, "u")].body
         /\ p \in To /\ kernel' = "up" => mem'[Loc(p, "u")] = mem[Loc(MM, p_msg[MM])]
         /\ p \notin To => p_msg'[p] = "u"
         /\ \A q \in Slots : q \notin {p, p - 1, MM} => p_msg'[q] = p_msg[q]
         /\ "SENDING" \in p_flags'[MM] /\ MM # p - 1 => p_msg'[MM] = p_msg[MM]
         /\ kernel' = "trap" => UNCHANGED <<p_msg, p_sendto>>
<1> DEFINE body == mem[Loc(p, "u")].body
<1> USE DEF PInv, KernelTyped
<1>1. /\ From(p, MM) = IF p \in To THEN MM ELSE NULL
      /\ MM # NULL /\ MM # ANY
  BY DEF From, To
<1>2. Loc(p, "u") \in Location
  BY ServerBuffer
<1>3. CASE ReceiveTake(p, MM, "u")
  <2>1. p \in To
    BY <1>1, <1>3 DEF ReceiveTake
  <2>2. /\ mem' = [mem EXCEPT ![Loc(p, "u")] = mem[Loc(MM, p_msg[MM])]]
        /\ p_msg' = SysReturn(p, [p_msg EXCEPT ![MM] = NULL])
        /\ p_flags' = [p_flags EXCEPT ![MM] = @ \ {"SENDING"}]
    BY <1>1, <1>3, <2>1 DEF ReceiveTake
  <2>3. "SENDING" \notin p_flags'[MM] /\ kernel' = "up"
    BY <1>3, <2>2 DEF ReceiveTake, Calls
  <2> QED
    BY <1>2, <2>1, <2>2, <2>3 DEF SysReturn
<1>4. CASE ReceiveTrap(p, MM, "u", body)
  <2>1. p \in To /\ kernel' = "trap" /\ UNCHANGED <<p_msg, p_sendto>>
        /\ mem' = [mem EXCEPT ![Loc(p, "u")] = Stamp(p, body)]
    BY <1>1, <1>4 DEF ReceiveTrap
  <2> QED
    BY <1>2, <2>1
<1>5. CASE ReceiveBlock(p, MM, "u", body)
  <2>1. p \notin To
    BY <1>1, <1>5 DEF ReceiveBlock
  <2>2. /\ mem' = [mem EXCEPT ![Loc(p, "u")] = Stamp(p, body)]
        /\ BlockAndSchedule(p, [p_flags EXCEPT ![p] = @ \cup {"RECEIVING"}], [p_msg EXCEPT ![p] = "u"])
    BY <1>5 DEF ReceiveBlock
  <2>3. mem'[Loc(p, "u")].body = body
    BY <1>2, <2>2 DEF Stamp
  <2>4. \A l \in Location : l # Loc(p, "u") => mem'[l] = mem[l]
    BY <2>2
  <2> HIDE DEF body
  <2>5. p \in Nat /\ p_msg \in [Slots -> Addr \cup {NULL}]
    OBVIOUS
  <2>7. kernel' # "trap"
    BY <1>5, <2>2 DEF BlockAndSchedule, ReceiveBlock, Calls
  <2>6. /\ p_msg'[p] = "u"
        /\ \A q \in Slots : q \notin {p, p - 1} => p_msg'[q] = p_msg[q]
    <3> HIDE DEF PInv, KernelTyped
    <3>1. \/ p_msg' = SysReturn(p, [p_msg EXCEPT ![p] = "u"])
          \/ p_msg' = [p_msg EXCEPT ![p] = "u"]
      BY <2>2 DEF BlockAndSchedule
    <3> QED
      BY <2>5, <3>1 DEF SysReturn
  <2> QED
    BY <2>1, <2>3, <2>4, <2>6, <2>7 DEF body
<1> QED
  BY <1>3, <1>4, <1>5 DEF SysReceive

(* What task_mm sends goes into its buffer, and the receiver's if it waits.*)
LEMMA AnswerWrites ==
  ASSUME PInv, NEW d \in Users, NEW a \in {"mm", "m", "c"}, NEW body \in Bodies,
         p_flags[MM] = {}, SysSend(MM, d, a, body)
  PROVE  /\ \A l \in Location : l \notin {Loc(MM, a), Loc(d, p_msg[d])} => mem'[l] = mem[l]
         /\ "RECEIVING" \notin p_flags[d] => 
              /\ \A l \in Location : l # Loc(MM, a) => mem'[l] = mem[l]
              /\ mem'[Loc(MM, a)] = Stamp(MM, body)
              /\ p_msg'[MM] = a
         /\ "RECEIVING" \in p_flags[d] => mem'[Loc(d, p_msg[d])] = Stamp(MM, body)
         /\ \A q \in Users : q # d /\ q # MM - 1 => p_msg'[q] = p_msg[q]
         /\ d # MM - 1 /\ "RECEIVING" \notin p_flags[d] => p_msg'[d] = p_msg[d]
<1> USE DEF PInv, KernelTyped
<1>1. Loc(MM, a) \in Location /\ Loc(d, p_msg[d]) \in Location
  BY ServerBuffer
<1>2. CASE SendDeliver(MM, d, a, body)
  <2>1. "RECEIVING" \in p_flags[d]
    BY <1>2 DEF SendDeliver, CanDeliver
  <2>2. /\ mem' = [mem EXCEPT ![Loc(MM, a)] = Stamp(MM, body), ![Loc(d, p_msg[d])] = Stamp(MM, body)]
        /\ p_msg' = SysReturn(MM, [p_msg EXCEPT ![d] = NULL])
    BY <1>2 DEF SendDeliver
  <2> QED
    BY <1>1, <2>1, <2>2 DEF SysReturn
<1>3. CASE SendBlock(MM, d, a, body)
  <2>1. "RECEIVING" \notin p_flags[d]
    BY <1>3 DEF SendBlock, CanDeliver, UserBits, BitsOf
  <2>2. /\ mem' = [mem EXCEPT ![Loc(MM, a)] = Stamp(MM, body)]
        /\ BlockAndSchedule(MM, [p_flags EXCEPT ![MM] = @ \cup {"SENDING"}], [p_msg EXCEPT ![MM] = a])
    BY <1>3 DEF SendBlock
  <2>3. MM \in Nat /\ p_msg \in [Slots -> Addr \cup {NULL}]
    OBVIOUS
  <2>4. /\ p_msg'[MM] = a
        /\ \A q \in Slots : q \notin {MM, MM - 1} => p_msg'[q] = p_msg[q]
    <3> HIDE DEF PInv, KernelTyped
    <3>1. \/ p_msg' = SysReturn(MM, [p_msg EXCEPT ![MM] = a])
          \/ p_msg' = [p_msg EXCEPT ![MM] = a]
      BY <2>2 DEF BlockAndSchedule
    <3> QED
      BY <2>3, <3>1 DEF SysReturn
  <2> QED
    BY <1>1, <2>1, <2>2, <2>4
<1> QED
  BY <1>2, <1>3 DEF SysSend
-----------------------------------------------------------------------------
(* task_mm.                                                                *)

\* What DemoInv says beyond PInv.
DemoRest == InitWhere /\ InitHears /\ ChildWhere /\ InitServed

\* Who a call of a user process can be owed to.
LEMMA OwedWho ==
  ASSUME DemoInv, NEW s \in Owed
  PROVE  /\ s \in Users /\ (s = INIT_PROC \/ s \in Vacant) /\ ~IsEmpty(s)
         /\ upc[s] # "user" /\ call[s] \in {"FORK", "WAIT", "EXIT"}
         /\ upc[s] = "back" => "RECEIVING" \in p_flags[s]
<1>1. s \in Users /\ p_flags[s] \subseteq {"RECEIVING"} /\ upc[s] # "user" /\ ~IsEmpty(s)
  BY DEF Owed, DemoInv, PInv, UserBits, BitsOf, IsEmpty
<1>2. s = INIT_PROC \/ s \in Vacant
  BY <1>1 DEF DemoInv, PInv, FixedSlots
<1>3. call[s] \in {"FORK", "WAIT", "EXIT"}
  BY <1>1, <1>2 DEF DemoInv, InitWhere, ChildWhere
<1> QED
  BY <1>1, <1>2, <1>3 DEF Owed

\* The request task_mm has is one of Init, or of a child that does not fork.
LEMMA AtWork ==
  ASSUME DemoInv, InMM("got")
  PROVE  LET s == mm_msg.source
         IN  /\ mpc = "got" /\ kernel = "up" /\ p_flags[MM] = {} /\ To = {}
             /\ s \in Owed /\ Owed \subseteq {s} /\ call[s] = mm_msg.body.type
             /\ mm_msg.body.type \in {"FORK", "WAIT", "EXIT"}
             /\ mm_msg.body.type = "FORK" => s = INIT_PROC /\ Fresh
<1>1. mpc = "got" /\ p_flags[MM] = {} /\ To = {} /\ Served(mm_msg.source)
  BY ServerRuns DEF DemoInv
<1>2. mm_msg.source \in Owed
  BY <1>1 DEF Served
<1> QED
  BY <1>1, <1>2, OwedWho DEF Served, DemoInv, InitServed, InMM

\* While task_mm is not blocked it offers nothing to anybody.
LEMMA NotOffering == ASSUME "SENDING" \notin p_flags'[MM] PROVE To' = {}
  BY DEF To

(* task_mm waits for the next request.                                     *)
LEMMA MMReceiveRest == DemoInv /\ MMReceive /\ UNCHANGED prog => DemoRest'
<1> SUFFICES ASSUME DemoInv, MMReceive, UNCHANGED prog PROVE DemoRest'
  OBVIOUS
<1> USE DEF DemoInv
<1>1. mpc = "idle" /\ p_flags[MM] = {} /\ kernel = "up" /\ p_proc_ready \in Slots
  BY ServerRuns DEF MMReceive, InMM, PInv, KernelTyped
<1>2. ReceiveBlock(MM, ANY, "mm", Zero) /\ mpc' = "got" /\ UNCHANGED <<p_parent, mvar, upc, call>>
  BY DEF MMReceive, SysReceive, ReceiveTake, ReceiveTrap, From, PInv, KernelTyped, userVars
<1>3. /\ mem' = [mem EXCEPT ![Loc(MM, "mm")] = Stamp(MM, Zero)] /\ UNCHANGED ldt_base
      /\ BlockAndSchedule(MM, [p_flags EXCEPT ![MM] = @ \cup {"RECEIVING"}], [p_msg EXCEPT ![MM] = "mm"])
  BY <1>2 DEF ReceiveBlock
<1>4. /\ p_flags' = [p_flags EXCEPT ![MM] = {"RECEIVING"}]
      /\ p_msg'[INIT_PROC] = p_msg[INIT_PROC]
  <2>1. p_flags' = [p_flags EXCEPT ![MM] = @ \cup {"RECEIVING"}]
    BY <1>3 DEF BlockAndSchedule
  <2>2. \/ p_msg' = SysReturn(MM, [p_msg EXCEPT ![MM] = "mm"])
        \/ p_msg' = [p_msg EXCEPT ![MM] = "mm"]
    BY <1>3 DEF BlockAndSchedule
  <2>3. p_msg'[INIT_PROC] = p_msg[INIT_PROC]
    <3>1. p_msg \in [Slots -> Addr \cup {NULL}] /\ INIT_PROC # MM - 1 /\ INIT_PROC # MM
      BY DEF PInv, KernelTyped
    <3> HIDE DEF DemoInv
    <3> QED
      BY <2>2, <3>1 DEF SysReturn
  <2> QED
    BY <1>1, <2>1, <2>3
<1>5. Heard' = Heard
  <2>1. mem \in [Location -> Message]
    BY DEF PInv, KernelTyped
  <2> QED
    BY <1>3, <2>1, Places DEF Heard, Loc
<1>6. \A c \in Vacant : IsEmpty(c)' = IsEmpty(c)
  BY <1>4 DEF IsEmpty, PInv, KernelTyped
<1>7. "RECEIVING" \in p_flags'[INIT_PROC] <=> "RECEIVING" \in p_flags[INIT_PROC]
  BY <1>4 DEF PInv, KernelTyped
<1>8. InitWhere' /\ InitHears'
  BY <1>1, <1>2, <1>3, <1>4, <1>5, <1>6, <1>7, Quiet
<1>9. ChildWhere'
  BY <1>1, <1>2, <1>3, <1>6 DEF ChildWhere
<1>10. InitServed'
  BY <1>1, <1>2, <1>4, NotOffering DEF InitServed, PInv, KernelTyped
<1> QED
  BY <1>8, <1>9, <1>10 DEF DemoRest

(* Neither Init nor a child sends anything task_mm answers at once, and    *)
(* there is a free slot when Init forks.                                   *)
LEMMA NoAnswerAtOnce ==
  ASSUME DemoInv PROVE ~MMDefault /\ ~MMExec /\ ~ForkNoSlot
<1>1. ~MMDefault /\ ~MMExec
  BY AtWork DEF MMDefault, MMExec
<1>2. ASSUME ForkNoSlot PROVE FALSE
  <2>1. Fresh
    BY <1>2, AtWork DEF ForkNoSlot
  <2> QED
    BY <1>2, <2>1 DEF ForkNoSlot, Fresh
<1> QED
  BY <1>1, <1>2

(* The steps of task_mm that send nothing and touch no buffer.             *)
LEMMA StillMemory ==
  ASSUME DemoInv, UNCHANGED <<mem, ldt_base, p_msg>>
  PROVE  Heard' = Heard /\ mm_msg' = mm_msg
  BY DEF Heard, mm_msg, Loc

(* cleanup ends: the slot of the child is free, which Init's never is.     *)
LEMMA CleanupFreeRest == DemoInv /\ CleanupFree /\ UNCHANGED prog => DemoRest'
<1> SUFFICES ASSUME DemoInv, CleanupFree, UNCHANGED prog PROVE DemoRest'
  OBVIOUS
<1>1. mpc = "free" /\ p_flags[MM] = {} /\ To = {}
  BY ServerRuns DEF CleanupFree, DemoInv
<1> USE DEF DemoInv
<1>2. /\ p_flags' = [p_flags EXCEPT ![mvar.proc] = {"EMPTY"}]
      /\ mpc' \in {"idle", "reparent"} /\ mvar.proc \in Vacant
      /\ UNCHANGED <<p_msg, ldt_base, mem, kernel, p_parent, mvar, upc, call>>
  BY <1>1 DEF CleanupFree, PInv, JobInHand, Leaving, userVars
<1>3. Heard' = Heard
  BY <1>2, StillMemory
<1>4. p_flags'[MM] = {} /\ p_flags'[INIT_PROC] = p_flags[INIT_PROC]
  BY <1>1, <1>2 DEF PInv, KernelTyped
<1>5. \A c \in Vacant : IsEmpty(c) => IsEmpty(c)'
  BY <1>2 DEF IsEmpty, PInv, KernelTyped
<1>6. InitWhere' /\ InitHears'
  BY <1>2, <1>3, <1>4, <1>5, Quiet
<1>7. ChildWhere'
  BY <1>1, <1>2, <1>5 DEF ChildWhere
<1>8. InitServed'
  BY <1>2, <1>4, NotOffering DEF InitServed
<1> QED
  BY <1>6, <1>7, <1>8 DEF DemoRest

(* do_exit changes the bit WAITING of one process and HANGING of another.  *)
LEMMA DoExitRest == DemoInv /\ DoExit /\ UNCHANGED prog => DemoRest'
<1> SUFFICES ASSUME DemoInv, DoExit, UNCHANGED prog PROVE DemoRest'
  OBVIOUS
<1> DEFINE pid == mm_msg.source
           parent == p_parent[pid]
<1>1. mpc = "got" /\ p_flags[MM] = {} /\ To = {} /\ pid \in Owed
  BY AtWork DEF DoExit
<1>2. pid \in Users /\ ~IsEmpty(pid)
  BY <1>1, OwedWho
<1> USE DEF DemoInv
<1>3. /\ \/ p_flags' = [p_flags EXCEPT ![parent] = @ \ {"WAITING"}] /\ Waits(parent)
         \/ p_flags' = [p_flags EXCEPT ![pid] = @ \cup {"HANGING"}]
      /\ mpc' \in {"cleanup", "reparent"}
      /\ UNCHANGED <<p_msg, ldt_base, mem, kernel, p_parent, upc, call>>
  BY DEF DoExit, userVars
<1>4. Heard' = Heard
  BY <1>3, StillMemory
<1> HIDE DEF pid, parent
<1>5. p_flags \in [Slots -> SUBSET Flag]
  BY DEF PInv, KernelTyped
<1>6. /\ p_flags'[MM] = {}
      /\ "RECEIVING" \in p_flags'[INIT_PROC] <=> "RECEIVING" \in p_flags[INIT_PROC]
  BY <1>1, <1>2, <1>3, <1>5
<1>7. \A c \in Vacant : IsEmpty(c) => IsEmpty(c)'
  BY <1>2, <1>3, <1>5 DEF IsEmpty, Waits
<1>8. InitWhere' /\ InitHears'
  BY <1>3, <1>4, <1>6, <1>7, Quiet
<1>9. ChildWhere'
  BY <1>1, <1>3, <1>7 DEF ChildWhere
<1>10. InitServed'
  BY <1>3, <1>6, NotOffering DEF InitServed
<1> QED
  BY <1>8, <1>9, <1>10 DEF DemoRest

(* The children of whoever exits go to Init, which loses none.             *)
LEMMA DoExitReparentRest == DemoInv /\ DoExitReparent /\ UNCHANGED prog => DemoRest'
<1> SUFFICES ASSUME DemoInv, DoExitReparent, UNCHANGED prog PROVE DemoRest'
  OBVIOUS
<1>1. mpc = "reparent" /\ p_flags[MM] = {} /\ To = {}
  BY ServerRuns DEF DoExitReparent, DemoInv
<1> USE DEF DemoInv
<1>2. p_flags \in [Slots -> SUBSET Flag] /\ p_parent \in [Slots -> Slots \cup {NO_TASK}]
  BY DEF PInv, KernelTyped, ServerTyped
<1>3. /\ p_flags' \in {p_flags, [p_flags EXCEPT ![INIT_PROC] = @ \ {"WAITING"}]}
      /\ \A c \in Slots : p_parent'[c] \in {p_parent[c], INIT_PROC}
      /\ mpc' \in {"cleanup", "idle"}
      /\ UNCHANGED <<p_msg, ldt_base, mem, kernel, upc, call>>
  BY DEF DoExitReparent, userVars
<1>4. Heard' = Heard
  BY <1>3, StillMemory
<1>5. /\ p_flags'[MM] = {}
      /\ "RECEIVING" \in p_flags'[INIT_PROC] <=> "RECEIVING" \in p_flags[INIT_PROC]
      /\ \A c \in Vacant : p_flags'[c] = p_flags[c]
  BY <1>1, <1>2, <1>3
<1>6. \A c \in Vacant : IsEmpty(c)' = IsEmpty(c)
  BY <1>5 DEF IsEmpty
<1>7. InitWhere' /\ InitHears'
  BY <1>3, <1>4, <1>5, <1>6, Quiet
<1>8. ChildWhere'
  BY <1>1, <1>3, <1>6 DEF ChildWhere
<1>9. InitServed'
  BY <1>3, <1>5, NotOffering DEF InitServed
<1> QED
  BY <1>7, <1>8, <1>9 DEF DemoRest

(* wait finds a child of Init, for it has one.                             *)
LEMMA DoWaitRest == DemoInv /\ DoWait /\ UNCHANGED prog => DemoRest'
<1> SUFFICES ASSUME DemoInv, DoWait, UNCHANGED prog PROVE DemoRest'
  OBVIOUS
<1> DEFINE pid == mm_msg.source
<1>1. mpc = "got" /\ p_flags[MM] = {} /\ To = {} /\ pid \in Owed /\ call[pid] = "WAIT"
  BY AtWork DEF DoWait
<1>2. pid \in Users /\ ~IsEmpty(pid) /\ upc[pid] # "user"
  BY <1>1, OwedWho
<1> USE DEF DemoInv
<1>3. /\ \/ p_flags' = p_flags
         \/ p_flags' = [p_flags EXCEPT ![pid] = @ \cup {"WAITING"}]
      /\ mpc' \in {"cleanup", "idle", "nochild"}
      /\ mpc' = "nochild" => Children(pid) = {} /\ mvar'.src = pid
      /\ UNCHANGED <<p_msg, ldt_base, mem, kernel, p_parent, upc, call>>
  BY DEF DoWait, userVars
<1>4. Heard' = Heard
  BY <1>3, StillMemory
<1>5. pid = INIT_PROC => Children(pid) # {}
  <2>1. pid = INIT_PROC => Forked
    BY <1>1, <1>2 DEF InitWhere
  <2> QED
    BY <2>1 DEF Forked, Children
<1> HIDE DEF pid
<1>6. p_flags \in [Slots -> SUBSET Flag]
  BY DEF PInv, KernelTyped
<1>7. /\ p_flags'[MM] = {}
      /\ "RECEIVING" \in p_flags'[INIT_PROC] <=> "RECEIVING" \in p_flags[INIT_PROC]
  <2> HIDE DEF DemoInv
  <2>1. CASE p_flags' = p_flags
    BY <1>1, <2>1
  <2>2. CASE p_flags' = [p_flags EXCEPT ![pid] = @ \cup {"WAITING"}]
    BY <1>1, <1>2, <1>6, <2>2
  <2> QED
    BY <1>3, <2>1, <2>2
<1>8. \A c \in Vacant : IsEmpty(c) => IsEmpty(c)'
  BY <1>2, <1>3, <1>6 DEF IsEmpty
<1>9. InitWhere' /\ InitHears'
  BY <1>3, <1>4, <1>7, <1>8, Quiet
<1>10. ChildWhere'
  BY <1>1, <1>3, <1>8 DEF ChildWhere
<1>11. InitServed'
  BY <1>3, <1>5, <1>7, NotOffering DEF InitServed
<1> QED
  BY <1>9, <1>10, <1>11 DEF DemoRest

(* The slot of the child is Init's copy, inside fork.                      *)
LEMMA ForkCopyRest == DemoInv /\ ServerForks => DemoRest'
<1> SUFFICES ASSUME DemoInv, ServerForks PROVE DemoRest'
  OBVIOUS
<1> DEFINE parent == mm_msg.source
           child == Least({p \in Slots : IsEmpty(p)})
<1>1. /\ mpc = "got" /\ kernel = "up" /\ p_flags[MM] = {} /\ To = {} /\ parent \in Owed
      /\ parent = INIT_PROC /\ call[INIT_PROC] = "FORK" /\ Fresh
  BY AtWork DEF ServerForks, ForkCopy
<1>2. upc[INIT_PROC] # "user" /\ ~IsEmpty(INIT_PROC)
  BY <1>1, OwedWho
<1> USE DEF DemoInv
<1>3. child \in Vacant
  <2>1. \E p \in Slots : IsEmpty(p)
    BY DEF ServerForks, ForkCopy
  <2>2. child \in Slots /\ IsEmpty(child)
    <3> DEFINE free == {p \in Slots : IsEmpty(p)}
    <3>1. free \in SUBSET Nat /\ free # {}
      BY <2>1
    <3> HIDE DEF free
    <3>2. Least(free) \in free
      BY <3>1, LeastIsLeast
    <3> QED
      BY <3>2 DEF free
  <2>3. child \in Users
    BY <2>2 DEF PInv, FixedSlots, IsEmpty
  <2> HIDE DEF child
  <2> QED
    BY <2>2, <2>3 DEF PInv, UserBits, BitsOf, IsEmpty
<1>4. /\ p_flags' = [p_flags EXCEPT ![child] = p_flags[parent]]
      /\ p_msg' = [p_msg EXCEPT ![child] = p_msg[parent]]
      /\ ldt_base' = [ldt_base EXCEPT ![child] = ldt_base[parent]]
      /\ p_parent' = [p_parent EXCEPT ![child] = parent]
      /\ upc' = [upc EXCEPT ![child] = upc[parent]]
      /\ call' = [call EXCEPT ![child] = call[parent]]
      /\ mpc' = "forkmem" /\ mvar'.src = parent /\ mvar'.proc = child
      /\ UNCHANGED <<mem, kernel>>
  BY DEF ServerForks, ForkCopy
<1>5. prog' = [prog EXCEPT ![child] = prog[INIT_PROC]]
  BY <1>1, <1>4 DEF ServerForks
<1> HIDE DEF parent, child
<1>6. /\ p_flags \in [Slots -> SUBSET Flag] /\ p_msg \in [Slots -> Addr \cup {NULL}]
      /\ ldt_base \in [Slots -> Segs] /\ p_parent \in [Slots -> Slots \cup {NO_TASK}]
      /\ upc \in [Slots -> {"user", "mid", "back"}]
      /\ call \in [Slots -> {"NONE", "FORK", "EXIT", "WAIT", "EXEC", "GET_TICKS"}]
  BY DEF PInv, KernelTyped, ServerTyped
<1>7. /\ ldt_base'[INIT_PROC] = FlatSeg /\ prog'[INIT_PROC] = "start"
      /\ upc'[INIT_PROC] = upc[INIT_PROC] /\ call'[INIT_PROC] = "FORK"
      /\ p_flags'[INIT_PROC] = p_flags[INIT_PROC] /\ p_msg'[INIT_PROC] = p_msg[INIT_PROC]
      /\ p_flags'[MM] = {} /\ Forked'
      /\ upc[INIT_PROC] = "back" => "RECEIVING" \in p_flags[INIT_PROC]
  <2>1. ldt_base[INIT_PROC] = FlatSeg /\ prog[INIT_PROC] = "start"
    BY <1>1, <1>2 DEF InitWhere
  <2>2. Forked'
    BY <1>1, <1>3, <1>4, <1>6 DEF Forked
  <2>3. upc[INIT_PROC] = "back" => "RECEIVING" \in p_flags[INIT_PROC]
    BY <1>1, OwedWho
  <2> QED
    BY <1>1, <1>3, <1>4, <1>5, <1>6, <2>1, <2>2, <2>3
<1>8. InitWhere'
  BY <1>2, <1>7 DEF InitWhere
<1>9. InitHears'
  BY <1>7 DEF InitHears
<1>10. ChildWhere'
  <2> SUFFICES ASSUME NEW c \in Vacant, ~IsEmpty(c)'
               PROVE  /\ prog'[c] = "start" => upc'[c] # "user"
                      /\ upc'[c] # "user" => call'[c] \in {"FORK", "WAIT", "EXIT"}
                      /\ ldt_base'[c] = c \/ (mpc' = "forkmem" /\ mvar'.proc = c)
    BY DEF ChildWhere
  <2>1. c = child
    BY <1>1, <1>4, <1>6 DEF Fresh, IsEmpty
  <2> QED
    BY <1>1, <1>2, <1>3, <1>4, <1>6, <2>1
<1>11. InitServed'
  BY <1>1, <1>4, <1>7, NotOffering DEF InitServed
<1> QED
  BY <1>8, <1>9, <1>10, <1>11 DEF DemoRest

(* The child gets its own memory, task_mm the child's number to answer.    *)
LEMMA ForkMemoryRest == DemoInv /\ ForkMemory /\ UNCHANGED prog => DemoRest'
<1> SUFFICES ASSUME DemoInv, ForkMemory, UNCHANGED prog PROVE DemoRest'
  OBVIOUS
<1>1. mpc = "forkmem" /\ p_flags[MM] = {} /\ To = {}
  BY ServerRuns DEF ForkMemory, DemoInv
<1> USE DEF DemoInv
<1> DEFINE child == mvar.proc
           base == ldt_base[mvar.src]
           copy == [l \in Location |-> IF l[1] = child THEN mem[<<base, l[2]>>] ELSE mem[l]]
<1>2. /\ mem' = [copy EXCEPT ![Loc(MM, "mm")].body.pid = child]
      /\ ldt_base' = [ldt_base EXCEPT ![child] = child]
      /\ mpc' = "forksend"
      /\ UNCHANGED <<p_flags, p_msg, p_sendto, kernel, p_parent, mvar, upc, call>>
  BY DEF ForkMemory, ChildBase, userVars
<1>3. child \in Vacant /\ child # FlatSeg
  BY <1>1 DEF PInv, JobInHand
<1>4. /\ ldt_base \in [Slots -> Segs] /\ mem \in [Location -> Message]
      /\ <<FlatSeg, "u">> \in Location /\ <<FlatSeg, "mm">> \in Location
  BY DEF PInv, KernelTyped, Location
<1>5. ldt_base'[INIT_PROC] = ldt_base[INIT_PROC] /\ ldt_base'[MM] = ldt_base[MM]
  BY <1>2, <1>3, <1>4
<1>6. /\ Loc(MM, "mm") = <<FlatSeg, "mm">> /\ Loc(MM, "mm")' = <<FlatSeg, "mm">>
      /\ Loc(INIT_PROC, "u") = <<FlatSeg, "u">> /\ Loc(INIT_PROC, "u")' = <<FlatSeg, "u">>
  BY <1>5 DEF Loc, PInv, FixedSlots, InitWhere
<1> HIDE DEF child, base
<1>7. /\ copy[<<FlatSeg, "u">>] = mem[<<FlatSeg, "u">>]
      /\ copy[<<FlatSeg, "mm">>] = mem[<<FlatSeg, "mm">>]
      /\ copy = [l \in Location |-> copy[l]]
  BY <1>3, <1>4
<1>8. mem[<<FlatSeg, "mm">>].body \in Bodies /\ mem[<<FlatSeg, "mm">>] \in Message
  BY <1>4 DEF Message, Body
<1> HIDE DEF copy
<1>9. /\ mem'[<<FlatSeg, "u">>] = mem[<<FlatSeg, "u">>]
      /\ mem'[<<FlatSeg, "mm">>].body.pid = child
  <2>1. mem'[<<FlatSeg, "u">>] = mem[<<FlatSeg, "u">>]
    BY <1>2, <1>4, <1>6, <1>7
  <2>2. mem'[<<FlatSeg, "mm">>] = [mem[<<FlatSeg, "mm">>] EXCEPT !.body.pid = child]
    BY <1>2, <1>4, <1>6, <1>7
  <2> QED
    BY <1>8, <2>1, <2>2 DEF Message, Bodies
<1>10. Heard' = Heard /\ mm_msg'.body.pid = child
  BY <1>6, <1>9 DEF Heard, mm_msg
<1>11. \A c \in Vacant : IsEmpty(c)' = IsEmpty(c)
  BY <1>2 DEF IsEmpty
<1>12. InitWhere' /\ InitHears'
  BY <1>2, <1>5, <1>10, <1>11, Quiet
<1>13. ChildWhere'
  <2> SUFFICES ASSUME NEW c \in Vacant, ~IsEmpty(c)'
               PROVE  /\ prog'[c] = "start" => upc'[c] # "user"
                      /\ upc'[c] # "user" => call'[c] \in {"FORK", "WAIT", "EXIT"}
                      /\ ldt_base'[c] = c
    BY DEF ChildWhere
  <2>1. c = child => ldt_base'[c] = c
    BY <1>2, <1>3, <1>4
  <2>2. c # child => ldt_base'[c] = ldt_base[c]
    BY <1>2, <1>3, <1>4
  <2> QED
    BY <1>2, <1>11, <2>1, <2>2 DEF ChildWhere, child
<1>14. InitServed'
  <2>1. Forked' = Forked /\ To' = To
    BY <1>2 DEF Forked, To
  <2> QED
    BY <1>1, <1>2, <1>3, <1>10, <2>1 DEF InitServed
<1> QED
  BY <1>12, <1>13, <1>14 DEF DemoRest

(* A send of task_mm: Init gets a right answer or is offered one, and what *)
(* a child gets does not touch it.                                         *)
LEMMA SendRest ==
  ASSUME DemoInv, NEW d \in Owed, NEW a \in {"mm", "m", "c"}, NEW body \in Bodies,
         p_flags[MM] = {}, SysSend(MM, d, a, body), call[d] # "EXIT", mpc # "forkmem",
         d = INIT_PROC => a # "m" /\ Forked /\ Right(body),
         UNCHANGED <<prog, p_parent, exit_status, upc, call>>
  PROVE  /\ InitWhere' /\ InitHears'
         /\ mpc' # "forkmem" => ChildWhere'
         /\ INIT_PROC \in To' => Forked' /\ p_msg'[MM] \in {"mm", "c"} /\ Right(Pending)'
         /\ a # "mm" => mm_msg' = mm_msg
<1>1. /\ d \in Users /\ (d = INIT_PROC \/ d \in Vacant) /\ ~IsEmpty(d) /\ upc[d] # "user"
      /\ upc[d] = "back" => "RECEIVING" \in p_flags[d]
  BY OwedWho
<1>2. /\ \A q \in Users : IsEmpty(q)' = IsEmpty(q)
      /\ To' \subseteq {d} /\ "RECEIVING" \notin p_flags'[d]
  <2>1. PInv /\ UNCHANGED p_parent /\ UNCHANGED exit_status /\ UNCHANGED upc /\ UNCHANGED call
    BY DEF DemoInv
  <2> QED
    BY <1>1, <2>1, SendKeeps
<1> USE DEF DemoInv
<1>3. (Answered(d) \/ Awaited(d)) /\ UNCHANGED ldt_base
  BY <1>1, ServerSend
<1>4. /\ \A l \in Location : l \notin {Loc(MM, a), Loc(d, p_msg[d])} => mem'[l] = mem[l]
      /\ "RECEIVING" \notin p_flags[d] =>
           /\ mem'[Loc(MM, a)] = Stamp(MM, body)
           /\ p_msg'[MM] = a
      /\ "RECEIVING" \in p_flags[d] => mem'[Loc(d, p_msg[d])] = Stamp(MM, body)
      /\ \A q \in Users : q # d /\ q # MM - 1 => p_msg'[q] = p_msg[q]
      /\ d # MM - 1 /\ "RECEIVING" \notin p_flags[d] => p_msg'[d] = p_msg[d]
  BY <1>1, AnswerWrites
<1>5. /\ Heard = mem[<<FlatSeg, "u">>].body /\ Heard' = mem'[<<FlatSeg, "u">>].body
      /\ Loc(INIT_PROC, "u") = <<FlatSeg, "u">> /\ <<FlatSeg, "u">> \in Location
      /\ Loc(MM, a) = <<FlatSeg, a>> /\ Loc(d, p_msg[d]) = <<ldt_base[d], p_msg[d]>>
      /\ Pending' = mem'[<<FlatSeg, p_msg'[MM]>>].body
  BY <1>3, Places DEF Heard, Pending, Loc
<1>6. p_flags \in [Slots -> SUBSET Flag] /\ INIT_PROC # MM - 1 /\ kernel = "up"
  BY DEF PInv, KernelTyped, SysSend, SendDeliver, SendBlock, Calls
<1>7. InitWhere' /\ InitHears' /\
      (INIT_PROC \in To' => Forked' /\ p_msg'[MM] \in {"mm", "c"} /\ Right(Pending)')
  <2>1. CASE d # INIT_PROC
    <3>1. d \in Vacant /\ ldt_base[d] = d /\ d # FlatSeg
      BY <1>1, <2>1 DEF ChildWhere
    <3>2. Heard' = Heard
      BY <1>4, <1>5, <3>1
    <3>3. p_flags'[INIT_PROC] = p_flags[INIT_PROC]
      BY <1>3, <1>6, <2>1 DEF Answered, Awaited
    <3>4. p_msg'[INIT_PROC] = p_msg[INIT_PROC]
      BY <1>4, <1>6, <2>1
    <3>5. InitWhere' /\ InitHears'
      BY <1>2, <1>3, <1>6, <3>2, <3>3, <3>4, Quiet
    <3> QED
      BY <1>2, <2>1, <3>5
  <2>2. CASE d = INIT_PROC
    <3>1. Forked' /\ upc'[INIT_PROC] # "user" /\ prog'[INIT_PROC] # "loop"
      BY <1>1, <2>2 DEF InitWhere, Forked
    <3>2. \A b : Right(b)' = Right(b)
      BY DEF Right
    <3>3. Stamp(MM, body).body = body
      BY DEF Stamp
    <3>4. "RECEIVING" \in p_flags'[INIT_PROC] => p_msg'[INIT_PROC] = "u"
      BY <1>2, <2>2
    <3>5. InitWhere'
      <4>1. Fresh' = Fresh
        BY <1>2 DEF Fresh
      <4> QED
        BY <1>3, <3>1, <3>4, <4>1 DEF InitWhere
    <3>6. CASE Answered(d)
      <4>1. Heard' = body
        BY <1>4, <1>5, <2>2, <3>3, <3>6 DEF Answered, InitWhere
      <4>2. "SENDING" \notin p_flags'[MM]
        BY <1>6, <2>2, <3>6 DEF Answered
      <4>3. To' = {}
        BY <4>2, NotOffering
      <4> QED
        BY <2>2, <3>1, <3>2, <3>5, <4>1, <4>3 DEF InitHears
    <3>7. CASE Awaited(d)
      <4>1. upc'[INIT_PROC] = "mid"
        BY <1>1, <2>2, <3>7 DEF Awaited, PInv, ServerTyped
      <4>2. Pending' = body /\ p_msg'[MM] \in {"mm", "c"}
        BY <1>4, <1>5, <2>2, <3>3, <3>7 DEF Awaited
      <4>3. InitHears'
        BY <3>1, <4>1 DEF InitHears
      <4> QED
        BY <2>2, <3>1, <3>2, <3>5, <4>2, <4>3
    <3> QED
      BY <1>3, <3>6, <3>7
  <2> QED
    BY <2>1, <2>2
<1>8. mpc' # "forkmem" => ChildWhere'
  BY <1>2, <1>3 DEF ChildWhere
<1>9. a # "mm" => mm_msg' = mm_msg
  <2>1. Loc(MM, "mm") \in Location /\ Loc(d, p_msg[d]) # Loc(MM, "mm")
    <3>1. p_msg[d] \in Addr \cup {NULL} /\ p_msg[d] # "mm" /\ d \in Slots
      BY <1>1 DEF PInv, KernelTyped, UserBits, BitsOf
    <3> QED
      BY <3>1, ServerBuffer DEF PInv
  <2>2. mm_msg = mem[Loc(MM, "mm")] /\ mm_msg' = mem'[Loc(MM, "mm")]
    BY <1>3 DEF mm_msg, Loc
  <2> QED
    BY <1>4, <1>5, <2>1, <2>2 DEF Loc
<1> QED
  BY <1>7, <1>8, <1>9

(* The four places where task_mm sends.                                    *)
LEMMA SendsRest ==
  ASSUME DemoInv, MMReply \/ ForkSend \/ CleanupSend \/ DoWaitNoChild, UNCHANGED prog
  PROVE  DemoRest'
<1> USE DEF DemoInv
<1>1. \E at : InMM(at)
  BY DEF MMReply, ForkSend, CleanupSend, DoWaitNoChild
<1>2. /\ p_flags[MM] = {} /\ To = {}
      /\ mm_msg \in [source : Slots \cup {NO_TASK}, body : Bodies]
  BY <1>1, ServerRuns
<1>3. UNCHANGED <<prog, p_parent, exit_status, mvar, upc, call>>
  BY DEF MMReply, ForkSend, CleanupSend, DoWaitNoChild, userVars
<1>4. mvar \in Jobs /\ exit_status \in [Slots -> Ints] /\ Forked' = Forked
  BY <1>3 DEF PInv, ServerTyped, Forked
<1>5. CASE MMReply
  <2>1. /\ mpc = "reply" /\ mpc' = "idle" /\ mvar.src = INIT_PROC /\ mvar.src \in Owed
        /\ call[INIT_PROC] = "FORK" /\ Forked /\ mm_msg.body.pid \in Vacant
    BY <1>5 DEF MMReply, InMM, InitServed, PInv, JobInHand
  <2>2. Ret(mvar.ret, mm_msg.body.pid) \in Bodies /\ Right(Ret(mvar.ret, mm_msg.body.pid))
    BY <1>2, <1>4, <2>1 DEF Ret, Bodies, Jobs, Right
  <2>3. SysSend(MM, mvar.src, "mm", Ret(mvar.ret, mm_msg.body.pid))
    BY <1>5 DEF MMReply
  <2>4. /\ InitWhere' /\ InitHears' /\ ChildWhere'
        /\ INIT_PROC \in To' => Forked' /\ p_msg'[MM] \in {"mm", "c"} /\ Right(Pending)'
    BY <1>2, <1>3, <2>1, <2>2, <2>3, SendRest
  <2> QED
    BY <2>1, <2>4 DEF DemoRest, InitServed
<1>6. CASE ForkSend
  <2>1. /\ mpc = "forksend" /\ mpc' = "reply" /\ mvar.src = INIT_PROC
        /\ call[INIT_PROC] = "FORK" /\ Forked /\ mm_msg.body.pid \in Vacant
        /\ mvar.proc \in Owed /\ mvar.proc \in Vacant /\ call[mvar.proc] # "EXIT"
    BY <1>6 DEF ForkSend, InMM, InitServed, PInv, JobInHand
  <2>2. Ret(0, 0) \in Bodies /\ SysSend(MM, mvar.proc, "m", Ret(0, 0)) /\ mvar.proc # INIT_PROC
    BY <1>6, <2>1 DEF ForkSend, Ret, Bodies, Ints
  <2>3. /\ InitWhere' /\ InitHears' /\ ChildWhere' /\ mm_msg' = mm_msg
        /\ INIT_PROC \in To' => Forked' /\ p_msg'[MM] \in {"mm", "c"} /\ Right(Pending)'
    BY <1>2, <1>3, <2>1, <2>2, SendRest
  <2> QED
    BY <1>3, <1>4, <2>1, <2>3 DEF DemoRest, InitServed
<1>7. CASE CleanupSend
  <2>1. /\ mpc = "cleanup" /\ mpc' = "free" /\ p_parent[mvar.proc] \in Owed
        /\ call[p_parent[mvar.proc]] = "WAIT" /\ exit_status[mvar.proc] = 7
        /\ mvar.proc \in Vacant
    BY <1>7 DEF CleanupSend, InMM, PInv, JobInHand, Leaving
  <2>2. /\ Report(mvar.proc) \in Bodies /\ Right(Report(mvar.proc))
        /\ SysSend(MM, p_parent[mvar.proc], "c", Report(mvar.proc))
    BY <1>4, <1>7, <2>1 DEF CleanupSend, Report, Ret, Bodies, Ints, Right
  <2>3. p_parent[mvar.proc] = INIT_PROC => Forked
    BY <2>1 DEF Forked
  <2>4. /\ InitWhere' /\ InitHears' /\ ChildWhere'
        /\ INIT_PROC \in To' => Forked' /\ p_msg'[MM] \in {"mm", "c"} /\ Right(Pending)'
    BY <1>2, <1>3, <2>1, <2>2, <2>3, SendRest
  <2> QED
    BY <2>1, <2>4 DEF DemoRest, InitServed
<1>8. CASE DoWaitNoChild
  <2>1. /\ mpc = "nochild" /\ mpc' = "idle" /\ mvar.src \in Owed /\ call[mvar.src] = "WAIT"
        /\ mvar.src # INIT_PROC
    BY <1>8 DEF DoWaitNoChild, InMM, InitServed, PInv, JobInHand
  <2>2. Ret(Garbage, NO_TASK) \in Bodies /\ SysSend(MM, mvar.src, "c", Ret(Garbage, NO_TASK))
    BY <1>8 DEF DoWaitNoChild, Ret, Bodies, Ints
  <2>3. /\ InitWhere' /\ InitHears' /\ ChildWhere'
        /\ INIT_PROC \in To' => Forked' /\ p_msg'[MM] \in {"mm", "c"} /\ Right(Pending)'
    BY <1>2, <1>3, <2>1, <2>2, SendRest
  <2> QED
    BY <2>1, <2>3 DEF DemoRest, InitServed
<1> QED
  BY <1>5, <1>6, <1>7, <1>8

(* Whatever task_mm does.                                                  *)
LEMMA ServerRest == DemoInv /\ Server => DemoRest'
  BY ForkCopyRest, MMReceiveRest, NoAnswerAtOnce, ForkMemoryRest, SendsRest, CleanupFreeRest,
     DoExitRest, DoExitReparentRest, DoWaitRest DEF Server, Serve
-----------------------------------------------------------------------------
(* task_sys and the clock.                                                 *)

LEMMA TaskSysRest == DemoInv /\ TaskSys /\ UNCHANGED prog => DemoRest'
<1> SUFFICES ASSUME DemoInv, TaskSys, UNCHANGED prog PROVE DemoRest'
  OBVIOUS
<1> USE DEF DemoInv
<1>1. ReceiveBlock(SYS, ANY, "s", Zero) /\ kernel = "up"
  BY DEF TaskSys, SysReceive, ReceiveTake, ReceiveTrap, ReceiveBlock, Calls, From, PInv, KernelTyped
<1>2. /\ mem' = [mem EXCEPT ![Loc(SYS, "s")] = Stamp(SYS, Zero)]
      /\ BlockAndSchedule(SYS, [p_flags EXCEPT ![SYS] = @ \cup {"RECEIVING"}], [p_msg EXCEPT ![SYS] = "s"])
      /\ UNCHANGED <<p_sendto, ldt_base, p_parent, mpc, mvar, call>>
      /\ upc' = [upc EXCEPT ![SYS] = "back"]
  BY <1>1 DEF ReceiveBlock, TaskSys, mmVars
<1>3. /\ p_flags \in [Slots -> SUBSET Flag] /\ p_msg \in [Slots -> Addr \cup {NULL}]
      /\ mem \in [Location -> Message] /\ upc \in [Slots -> {"user", "mid", "back"}]
      /\ p_msg[MM] \in {"mm", "c"} => <<FlatSeg, p_msg[MM]>> \in Location
      /\ <<FlatSeg, "mm">> \in Location
  BY DEF PInv, KernelTyped, ServerTyped, Location
<1>4. /\ \A l \in Location : l[2] # "s" => mem'[l] = mem[l]
      /\ \A q \in Slots : q # SYS => p_flags'[q] = p_flags[q] /\ p_msg'[q] = p_msg[q] /\ upc'[q] = upc[q]
  <2>1. \A l \in Location : l[2] # "s" => mem'[l] = mem[l]
    BY <1>2, <1>3 DEF Loc
  <2>2. ASSUME NEW q \in Slots, q # SYS PROVE p_msg'[q] = p_msg[q]
    <3>1. \/ p_msg' = SysReturn(SYS, [p_msg EXCEPT ![SYS] = "s"])
          \/ p_msg' = [p_msg EXCEPT ![SYS] = "s"]
      BY <1>2 DEF BlockAndSchedule
    <3> HIDE DEF DemoInv
    <3>2. q # SYS - 1
      OBVIOUS
    <3>3. p_msg' = [p_msg EXCEPT ![SYS] = "s"] => p_msg'[q] = p_msg[q]
      BY <1>3, <2>2
    <3>4. p_msg' = SysReturn(SYS, [p_msg EXCEPT ![SYS] = "s"]) => p_msg'[q] = p_msg[q]
      BY <1>3, <2>2, <3>2 DEF SysReturn
    <3> QED
      BY <3>1, <3>3, <3>4
  <2>3. p_flags' = [p_flags EXCEPT ![SYS] = @ \cup {"RECEIVING"}]
    BY <1>2 DEF BlockAndSchedule
  <2> QED
    BY <1>2, <1>3, <2>1, <2>2, <2>3
<1>5. Heard' = Heard /\ mm_msg' = mm_msg /\ p_msg'[MM] = p_msg[MM]
      /\ (p_msg[MM] \in {"mm", "c"} => Pending' = Pending)
  BY <1>2, <1>3, <1>4, Places DEF Heard, mm_msg, Pending, Loc
<1>6. \A c \in Vacant : IsEmpty(c)' = IsEmpty(c) /\ upc'[c] = upc[c]
  BY <1>4 DEF IsEmpty
<1>7. InitWhere' /\ InitHears'
  BY <1>1, <1>2, <1>4, <1>5, <1>6, Quiet
<1>8. ChildWhere'
  BY <1>2, <1>6 DEF ChildWhere
<1>9. InitServed'
  <2>1. Forked' = Forked /\ To' = To /\ (Fresh => Fresh') /\ p_flags'[MM] = p_flags[MM]
    BY <1>2, <1>4, <1>6 DEF Forked, To, Fresh
  <2>2. \A b : Right(b)' = Right(b)
    BY <1>2 DEF Right
  <2> QED
    BY <1>2, <1>5, <2>1, <2>2 DEF InitServed, Right
<1> QED
  BY <1>7, <1>8, <1>9 DEF DemoRest

(* A tick changes nothing of this but whose turn it is.                    *)
LEMMA TickRest ==
  ASSUME DemoInv, UNCHANGED <<p_flags, p_msg, p_sendto, ldt_base, mem, kernel,
                              p_parent, mpc, mvar, upc, call, prog>>
  PROVE  DemoRest'
<1> USE DEF DemoInv
<1>1. Heard' = Heard /\ mm_msg' = mm_msg /\ Pending' = Pending
  BY DEF Heard, mm_msg, Pending, Loc
<1>2. \A c \in Vacant : IsEmpty(c)' = IsEmpty(c)
  BY DEF IsEmpty
<1>3. InitWhere' /\ InitHears'
  BY <1>1, <1>2, Quiet
<1>4. ChildWhere'
  BY <1>2 DEF ChildWhere
<1>5. InitServed'
  <2>1. Forked' = Forked /\ To' = To /\ Fresh' = Fresh
    BY <1>2 DEF Forked, To, Fresh
  <2> QED
    BY <1>1, <2>1 DEF InitServed, Right
<1> QED
  BY <1>3, <1>4, <1>5 DEF DemoRest
-----------------------------------------------------------------------------
(* The child.                                                              *)

(* What the child does is felt by task_mm as a request that is no fork, if *)
(* at all, and by Init not.                                                *)
LEMMA ChildApart ==
  ASSUME DemoInv, NEW p \in Vacant,
         UNCHANGED <<p_parent, mpc, mvar, ldt_base>>, kernel = "up",
         \A q \in Users : q # p =>
           /\ prog'[q] = prog[q] /\ upc'[q] = upc[q] /\ call'[q] = call[q]
           /\ p_flags'[q] = p_flags[q],
         IsEmpty(p)' = IsEmpty(p),
         p_msg'[INIT_PROC] = p_msg[INIT_PROC], Heard' = Heard,
         prog'[p] = "start" => upc'[p] # "user",
         upc'[p] # "user" => call'[p] \in {"FORK", "WAIT", "EXIT"},
         \/ /\ mm_msg' = mm_msg
            /\ mpc = "got" /\ p_flags'[MM] = {} => p_flags[MM] = {}
            /\ "SENDING" \in p_flags'[MM] =>
                 /\ "SENDING" \in p_flags[MM] /\ p_sendto'[MM] = p_sendto[MM]
                 /\ p_msg'[MM] = p_msg[MM]
                 /\ p_msg[MM] \in {"mm", "c"} => Pending' = Pending
         \/ /\ mpc = "got" /\ "SENDING" \notin p_flags'[MM]
            /\ mm_msg'.body.type # "FORK"
  PROVE  DemoRest'
<1> USE DEF DemoInv
<1>1. INIT_PROC # p /\ \A c \in Vacant : IsEmpty(c)' = IsEmpty(c)
  BY DEF IsEmpty
<1>2. InitWhere' /\ InitHears'
  BY <1>1, Quiet
<1>3. ChildWhere'
  <2> SUFFICES ASSUME NEW c \in Vacant, ~IsEmpty(c)'
               PROVE  /\ prog'[c] = "start" => upc'[c] # "user"
                      /\ upc'[c] # "user" => call'[c] \in {"FORK", "WAIT", "EXIT"}
                      /\ ldt_base'[c] = c \/ (mpc' = "forkmem" /\ mvar'.proc = c)
    BY DEF ChildWhere
  <2>1. c \in Users /\ ~IsEmpty(c) /\ ChildWhere
    BY <1>1
  <2> HIDE DEF DemoInv
  <2>2. CASE c = p
    BY <2>1, <2>2 DEF ChildWhere
  <2>3. CASE c # p
    BY <2>1, <2>3 DEF ChildWhere
  <2> QED
    BY <2>2, <2>3
<1>4. Forked' = Forked /\ Fresh' = Fresh /\ \A b : Right(b)' = Right(b)
  BY <1>1 DEF Forked, Fresh, Right
<1>5. InitServed'
  <2>1. CASE mpc = "got" /\ "SENDING" \notin p_flags'[MM] /\ mm_msg'.body.type # "FORK"
    BY <2>1, NotOffering DEF InitServed
  <2>2. CASE /\ mm_msg' = mm_msg
             /\ mpc = "got" /\ p_flags'[MM] = {} => p_flags[MM] = {}
             /\ "SENDING" \in p_flags'[MM] =>
                 /\ "SENDING" \in p_flags[MM] /\ p_sendto'[MM] = p_sendto[MM]
                 /\ p_msg'[MM] = p_msg[MM]
                 /\ p_msg[MM] \in {"mm", "c"} => Pending' = Pending
    <3>1. INIT_PROC \in To' =>
            Forked' /\ p_msg'[MM] \in {"mm", "c"} /\ Right(Pending)'
      <4> SUFFICES ASSUME INIT_PROC \in To'
                   PROVE  Forked' /\ p_msg'[MM] \in {"mm", "c"} /\ Right(Pending)'
        OBVIOUS
      <4>1. "SENDING" \in p_flags'[MM] /\ p_sendto'[MM] = INIT_PROC
        BY DEF To
      <4>2. INIT_PROC \in To
        BY <2>2, <4>1 DEF To
      <4>3. Forked /\ p_msg[MM] \in {"mm", "c"} /\ Right(Pending)
        BY <4>2 DEF InitServed
      <4> QED
        BY <1>1, <1>4, <2>2, <4>1, <4>3 DEF Right
    <3> QED
      BY <1>1, <1>4, <2>2, <3>1 DEF InitServed
  <2> QED
    BY <2>1, <2>2
<1> QED
  BY <1>2, <1>3, <1>5 DEF DemoRest

\* The child's buffer is not Init's, but while its memory is being made.
LEMMA ChildBuffer ==
  ASSUME DemoInv, NEW p \in Vacant, ~IsEmpty(p)
  PROVE  /\ Loc(p, "u") \in Location /\ Loc(p, "u")[2] = "u"
         /\ Loc(p, "u") # <<FlatSeg, "u">> \/ (mpc = "forkmem" /\ mvar.proc = p)
  BY DEF DemoInv, PInv, KernelTyped, ChildWhere, Loc, Location

\* While it is, the child is inside fork and its next step is to wait.
LEMMA Newborn ==
  ASSUME DemoInv, mpc = "forkmem"
  PROVE  To = {} /\ upc[mvar.proc] # "user" /\ mvar.proc \in Owed
<1>1. mvar.proc \in Owed /\ "SENDING" \notin p_flags[MM]
  BY DEF DemoInv, PInv, JobInHand, ServerBits
<1> QED
  BY <1>1, OwedWho DEF To

\* A child's slot is above those of task_mm and Init, and not next to them.
LEMMA ChildNumber ==
  ASSUME NEW p \in Vacant
  PROVE  /\ p \in Nat /\ INIT_PROC \in Nat /\ MM \in Nat /\ p > INIT_PROC
         /\ INIT_PROC # p - 1 /\ MM # p - 1
         /\ INIT_PROC # MM /\ INIT_PROC # p /\ MM # p
<1>1. p \in Nat /\ INIT_PROC \in Nat /\ MM \in Nat /\ p > INIT_PROC /\ MM < INIT_PROC
  OBVIOUS
<1>2. p # INIT_PROC + 1
  OBVIOUS
<1> QED
  BY <1>1, <1>2

(* The child asks for one thing or the other, and does not fork.           *)
LEMMA ChildSends ==
  ASSUME DemoInv, NEW p \in Vacant, NEW request \in Bodies, CallSend(p, request),
         request.type \in {"WAIT", "EXIT"}, prog[p] # "start", UNCHANGED prog
  PROVE  DemoRest'
<1> USE DEF DemoInv
<1>1. /\ p \in Users /\ upc[p] = "user" /\ SysSend(p, MM, "u", request)
      /\ upc' = [upc EXCEPT ![p] = "mid"]
      /\ call' = [call EXCEPT ![p] = request.type]
      /\ UNCHANGED <<p_parent, mpc, mvar>>
  BY DEF CallSend, mmVars
<1>2. kernel = "up" /\ p_flags[p] = {} /\ ~IsEmpty(p)
  BY <1>1, Running DEF SysSend, SendDeliver, SendBlock, Calls
<1>3. /\ Taken(p, request) \/ Stuck(p)
      /\ UNCHANGED ldt_base
      /\ p_sendto'[MM] = p_sendto[MM]
  BY <1>1, <1>2, ClientSend
<1>4. /\ \A l \in Location : l \notin {Loc(p, "u"), Loc(MM, "mm")} => mem'[l] = mem[l]
      /\ \A q \in Slots : q \notin {p, p - 1, MM} => p_msg'[q] = p_msg[q]
      /\ "SENDING" \in p_flags[MM] /\ MM # p - 1 => p_msg'[MM] = p_msg[MM]
  BY <1>1, <1>2, RequestWrites
<1>5. /\ p \in Nat /\ INIT_PROC \in Nat /\ MM \in Nat /\ p > INIT_PROC /\ INIT_PROC # p - 1 /\ MM # p - 1
      /\ INIT_PROC # MM /\ INIT_PROC # p /\ MM # p
  BY ChildNumber
<1>6. /\ Loc(p, "u") # <<FlatSeg, "u">> /\ Loc(p, "u") \in Location /\ Loc(p, "u")[2] = "u"
      /\ Loc(MM, "mm") = <<FlatSeg, "mm">> /\ <<FlatSeg, "u">> \in Location
      /\ p_msg[MM] = "c" => <<FlatSeg, "c">> \in Location
  BY <1>1, <1>2, ChildBuffer, Newborn, Places DEF Location, PInv, KernelTyped
<1>7. Heard' = Heard
  BY <1>3, <1>4, <1>6, Places DEF Heard, Loc
<1>8. /\ p_flags \in [Slots -> SUBSET Flag] /\ upc \in [Slots -> {"user", "mid", "back"}]
      /\ call \in [Slots -> {"NONE", "FORK", "EXIT", "WAIT", "EXEC", "GET_TICKS"}]
  BY DEF PInv, KernelTyped, ServerTyped
<1>9. /\ \A q \in Users : q # p =>
           /\ prog'[q] = prog[q] /\ upc'[q] = upc[q] /\ call'[q] = call[q]
           /\ p_flags'[q] = p_flags[q]
      /\ IsEmpty(p)' = IsEmpty(p)
  <2>1. ASSUME NEW q \in Users, q # p
        PROVE  /\ prog'[q] = prog[q] /\ upc'[q] = upc[q] /\ call'[q] = call[q]
               /\ p_flags'[q] = p_flags[q]
    BY <1>1, <1>3, <1>8, <2>1 DEF Taken, Stuck
  <2>2. p_flags'[p] \in {{}, {"SENDING"}}
    BY <1>2, <1>3, <1>5, <1>8 DEF Taken, Stuck
  <2> QED
    BY <1>2, <2>1, <2>2 DEF IsEmpty
<1>10. p_msg'[INIT_PROC] = p_msg[INIT_PROC]
  BY <1>4, <1>5
<1>11. upc'[p] = "mid" /\ call'[p] \in {"WAIT", "EXIT"}
  BY <1>1, <1>8
<1>12. CASE Taken(p, request)
  <2>1. mpc = "got" /\ p_flags'[MM] = {} /\ mm_msg'.body.type # "FORK"
    BY <1>8, <1>12 DEF Taken, PInv, ServerBits, Stamp
  <2> QED
    BY <1>1, <1>2, <1>3, <1>7, <1>9, <1>10, <1>11, <2>1, ChildApart
<1>13. CASE Stuck(p)
  <2>1. mm_msg' = mm_msg /\ p_flags'[MM] = p_flags[MM]
    BY <1>5, <1>8, <1>13 DEF Stuck
  <2>2. "SENDING" \in p_flags[MM] => p_msg'[MM] = p_msg[MM]
    BY <1>4, <1>5
  <2>3. ASSUME p_msg'[MM] = p_msg[MM], p_msg[MM] \in {"mm", "c"} PROVE Pending' = Pending
    <3>1. p_msg[MM] = "c" => mem'[<<FlatSeg, "c">>] = mem[<<FlatSeg, "c">>]
      BY <1>4, <1>6
    <3>2. mem'[<<FlatSeg, "mm">>] = mem[<<FlatSeg, "mm">>]
      BY <1>3, <2>1, Places DEF mm_msg, Loc
    <3> QED
      BY <1>3, <2>3, <3>1, <3>2, Places DEF Pending, Loc
  <2> QED
    BY <1>1, <1>2, <1>3, <1>7, <1>9, <1>10, <1>11, <2>1, <2>2, <2>3, ChildApart
<1> QED
  BY <1>3, <1>12, <1>13

(* The child waits for its answer or takes it.                             *)
LEMMA ChildReceives ==
  ASSUME DemoInv, NEW p \in Vacant, CallReceive(p), UNCHANGED prog PROVE DemoRest'
<1> USE DEF DemoInv
<1>1. /\ p \in Users /\ upc[p] = "mid" /\ SysReceive(p, MM, "u", mem[Loc(p, "u")].body)
      /\ upc' = [upc EXCEPT ![p] = "back"]
      /\ UNCHANGED <<p_parent, mpc, mvar, call>>
  BY DEF CallReceive, mmVars
<1>2. kernel = "up" /\ p_flags[p] = {} /\ ~IsEmpty(p)
  BY <1>1, Running DEF SysReceive, ReceiveTake, ReceiveTrap, ReceiveBlock, Calls
<1>3. mem[Loc(p, "u")].body \in Bodies
  <2>1. mem[Loc(p, "u")] \in Message
    BY <1>1, ServerBuffer DEF PInv, KernelTyped
  <2> QED
    BY <2>1 DEF Message, Body
<1>4. /\ Fetched(p) \/ Trapped(p) \/ Waiting(p)
      /\ UNCHANGED ldt_base
      /\ "SENDING" \in p_flags'[MM] => p_sendto'[MM] = p_sendto[MM]
      /\ mm_msg' = mm_msg
  BY <1>1, <1>2, <1>3, ClientReceive
<1>5. /\ \A l \in Location : l # Loc(p, "u") => mem'[l] = mem[l]
      /\ p \notin To => mem'[Loc(p, "u")].body = mem[Loc(p, "u")].body
      /\ \A q \in Slots : q \notin {p, p - 1, MM} => p_msg'[q] = p_msg[q]
      /\ "SENDING" \in p_flags'[MM] /\ MM # p - 1 => p_msg'[MM] = p_msg[MM]
  BY <1>1, <1>2, ReceiveWrites
<1>6. /\ INIT_PROC # p - 1 /\ MM # p - 1 /\ INIT_PROC # MM /\ INIT_PROC # p /\ MM # p
  BY ChildNumber
<1>7. /\ Loc(p, "u") # <<FlatSeg, "u">> \/ p \notin To
      /\ Loc(p, "u") \in Location /\ Loc(p, "u")[2] = "u"
      /\ <<FlatSeg, "u">> \in Location
      /\ p_msg[MM] = "c" => <<FlatSeg, "c">> \in Location
  BY <1>1, <1>2, ChildBuffer, Newborn DEF Location, PInv, KernelTyped
<1>8. Heard' = Heard
  <2>1. mem'[<<FlatSeg, "u">>].body = mem[<<FlatSeg, "u">>].body
    BY <1>5, <1>7
  <2> QED
    BY <1>4, <2>1, Places DEF Heard, Loc
<1>9. /\ p_flags \in [Slots -> SUBSET Flag] /\ upc \in [Slots -> {"user", "mid", "back"}]
  BY DEF PInv, KernelTyped, ServerTyped
<1>10. /\ \A q \in Users : q # p =>
           /\ prog'[q] = prog[q] /\ upc'[q] = upc[q] /\ call'[q] = call[q]
           /\ p_flags'[q] = p_flags[q]
      /\ IsEmpty(p)' = IsEmpty(p)
  <2>1. ASSUME NEW q \in Users, q # p
        PROVE  upc'[q] = upc[q] /\ p_flags'[q] = p_flags[q]
    BY <1>1, <1>4, <1>9, <2>1 DEF Fetched, Trapped, Waiting
  <2>2. p_flags'[p] \in {{}, {"RECEIVING"}}
    BY <1>2, <1>4, <1>6, <1>9 DEF Fetched, Trapped, Waiting
  <2> QED
    BY <1>1, <1>2, <2>1, <2>2 DEF IsEmpty
<1>11. p_msg'[INIT_PROC] = p_msg[INIT_PROC]
  BY <1>5, <1>6
<1>12. upc'[p] = "back" /\ call'[p] \in {"FORK", "WAIT", "EXIT"}
  BY <1>1, <1>2, <1>9 DEF ChildWhere
<1>13. mpc = "got" /\ p_flags'[MM] = {} => p_flags[MM] = {}
  BY <1>4, <1>6, <1>9 DEF Fetched, Trapped, Waiting, To, PInv, ServerBits
<1>14. ASSUME "SENDING" \in p_flags'[MM]
       PROVE  /\ "SENDING" \in p_flags[MM] /\ p_sendto'[MM] = p_sendto[MM]
              /\ p_msg'[MM] = p_msg[MM]
              /\ p_msg[MM] \in {"mm", "c"} => Pending' = Pending
  <2>1. Waiting(p) \/ Trapped(p)
    BY <1>4, <1>9, <1>14 DEF Fetched
  <2>2. p_flags'[MM] = p_flags[MM]
    BY <1>6, <1>9, <2>1 DEF Waiting, Trapped
  <2>3. p_msg'[MM] = p_msg[MM]
    BY <1>5, <1>6, <1>14
  <2>4. p_msg[MM] = "c" => mem'[<<FlatSeg, "c">>] = mem[<<FlatSeg, "c">>]
    BY <1>5, <1>7
  <2>5. mem'[<<FlatSeg, "mm">>] = mem[<<FlatSeg, "mm">>]
    BY <1>4, Places DEF mm_msg, Loc
  <2> QED
    BY <1>4, <1>14, <2>2, <2>3, <2>4, <2>5, Places DEF Pending, Loc
<1> QED
  BY <1>1, <1>2, <1>4, <1>8, <1>10, <1>11, <1>12, <1>13, <1>14, ChildApart

(* Every step of the child's program.                                      *)
LEMMA ChildRest ==
  ASSUME DemoInv, NEW p \in Vacant, Program(p) PROVE DemoRest'
<1> USE DEF DemoInv
<1>1. CASE CallReceive(p) /\ UNCHANGED prog
  BY <1>1, ChildReceives
<1>2. CASE prog[p] = "start" /\ ForkCall(p)
  <2>1. PICK stale \in StalePids : CallSend(p, Request("FORK", Garbage, stale))
    BY <1>2 DEF ForkCall
  <2>2. upc[p] = "user" /\ ~IsEmpty(p)
    BY <2>1, Running DEF CallSend, SysSend, SendDeliver, SendBlock, Calls
  <2> QED
    BY <1>2, <2>2 DEF ChildWhere
<1>3. CASE prog[p] = "parent" /\ WaitCall(p) /\ UNCHANGED prog
  <2>1. Request("WAIT", Garbage, Garbage) \in Bodies /\ Request("WAIT", Garbage, Garbage).type = "WAIT"
    BY DEF Request, Bodies, Ints
  <2> QED
    BY <1>3, <2>1, ChildSends DEF WaitCall
<1>4. CASE prog[p] = "child" /\ ExitCall(p, 7) /\ UNCHANGED prog
  <2>1. Request("EXIT", 7, Garbage) \in Bodies /\ Request("EXIT", 7, Garbage).type = "EXIT"
    BY DEF Request, Bodies, Ints
  <2> QED
    BY <1>4, <2>1, ChildSends DEF ExitCall
<1>5. CASE CallReturn(p) /\ \E at \in {"loop", "parent", "child"} : prog' = [prog EXCEPT ![p] = at]
  <2>1. /\ kernel = "up" /\ p_flags[p] = {} /\ ~IsEmpty(p)
        /\ upc' = [upc EXCEPT ![p] = "user"]
        /\ UNCHANGED <<p_flags, p_msg, p_sendto, ldt_base, mem, kernel, p_parent, mpc, mvar, call>>
    BY <1>5, Running DEF CallReturn, Calls, ipcVars, mmVars
  <2>2. upc \in [Slots -> {"user", "mid", "back"}]
    BY DEF PInv, ServerTyped
  <2>3. Heard' = Heard /\ mm_msg' = mm_msg /\ Pending' = Pending /\ IsEmpty(p)' = IsEmpty(p)
    BY <2>1 DEF Heard, mm_msg, Pending, Loc, IsEmpty
  <2>4. /\ \A q \in Users : q # p =>
             /\ prog'[q] = prog[q] /\ upc'[q] = upc[q] /\ call'[q] = call[q]
             /\ p_flags'[q] = p_flags[q]
        /\ upc'[p] = "user" 
    BY <1>5, <2>1, <2>2
  <2>5. prog'[p] # "start"
    BY <1>5 DEF ProgTyped
  <2> QED
    BY <2>1, <2>3, <2>4, <2>5, ChildApart
<1> QED
  BY <1>1, <1>2, <1>3, <1>4, <1>5 DEF Program
-----------------------------------------------------------------------------
(* Init.                                                                   *)

\* Init's first call is fork, before which it has no child; its second wait.
LEMMA InitSends ==
  ASSUME DemoInv, NEW request \in Bodies, CallSend(INIT_PROC, request),
         \/ prog[INIT_PROC] = "start" /\ request.type = "FORK"
         \/ prog[INIT_PROC] = "parent" /\ request.type = "WAIT",
         UNCHANGED prog
  PROVE  DemoRest'
<1> USE DEF DemoInv
<1> DEFINE p == INIT_PROC
<1>1. /\ p \in Users /\ upc[p] = "user" /\ SysSend(p, MM, "u", request)
      /\ upc' = [upc EXCEPT ![p] = "mid"]
      /\ call' = [call EXCEPT ![p] = request.type]
      /\ UNCHANGED <<p_parent, mpc, mvar>>
  BY DEF CallSend, mmVars
<1>2. kernel = "up" /\ p_flags[p] = {}
  BY <1>1, Running DEF SysSend, SendDeliver, SendBlock, Calls
<1>3. /\ Taken(p, request) \/ Stuck(p)
      /\ UNCHANGED ldt_base
      /\ p_sendto'[MM] = p_sendto[MM]
  BY <1>1, <1>2, ClientSend
<1>4. /\ p_flags \in [Slots -> SUBSET Flag] /\ upc \in [Slots -> {"user", "mid", "back"}]
      /\ call \in [Slots -> {"NONE", "FORK", "EXIT", "WAIT", "EXEC", "GET_TICKS"}]
  BY DEF PInv, KernelTyped, ServerTyped
<1>5. /\ \A q \in Vacant : q # p /\ p_flags'[q] = p_flags[q] /\ upc'[q] = upc[q] /\ call'[q] = call[q]
      /\ p_flags'[p] \in {{}, {"SENDING"}} /\ upc'[p] = "mid" /\ call'[p] = request.type
  BY <1>1, <1>2, <1>3, <1>4, ChildNumber DEF Taken, Stuck
<1>6. \A c \in Vacant : IsEmpty(c)' = IsEmpty(c)
  BY <1>5 DEF IsEmpty
<1>7. Forked' = Forked /\ Fresh' = Fresh
  BY <1>1, <1>6 DEF Forked, Fresh
<1>8. p \notin To /\ p \notin Owed
  BY <1>1, <1>2 DEF PInv, ServerBits, Owed
<1>9. mpc \notin {"forkmem", "forksend", "reply"}
  BY <1>8 DEF InitServed, PInv, JobInHand
<1>10. InitWhere'
  BY <1>3, <1>5, <1>7 DEF InitWhere
<1>11. InitHears'
  BY <1>5 DEF InitHears
<1>12. ChildWhere'
  BY <1>1, <1>3, <1>5, <1>6 DEF ChildWhere
<1>13. InitServed'
  <2>1. INIT_PROC \notin To'
    BY <1>3, <1>4, <1>8 DEF To, Taken, Stuck
  <2>2. CASE Taken(p, request)
    <3>1. mm_msg'.source = p /\ mm_msg'.body = request
      BY <2>2 DEF Taken, Stamp
    <3>2. mpc = "got"
      BY <2>2 DEF Taken, PInv, ServerBits
    <3>3. request.type = "FORK" => Fresh'
      BY <1>1, <1>7 DEF InitWhere
    <3> QED
      BY <1>1, <2>1, <3>1, <3>2, <3>3 DEF InitServed
  <2>3. CASE Stuck(p)
    <3>1. mm_msg' = mm_msg /\ p_flags'[MM] = p_flags[MM]
      BY <1>4, <2>3 DEF Stuck
    <3> QED
      BY <1>1, <1>7, <1>9, <2>1, <3>1 DEF InitServed
  <2> QED
    BY <1>3, <2>2, <2>3
<1> QED
  BY <1>10, <1>11, <1>12, <1>13 DEF DemoRest

\* Init waits for its answer, or takes the one task_mm has for it.
LEMMA InitReceives ==
  ASSUME DemoInv, CallReceive(INIT_PROC), UNCHANGED prog PROVE DemoRest'
<1> USE DEF DemoInv
<1> DEFINE p == INIT_PROC
<1>1. /\ p \in Users /\ upc[p] = "mid" /\ SysReceive(p, MM, "u", mem[Loc(p, "u")].body)
      /\ upc' = [upc EXCEPT ![p] = "back"]
      /\ UNCHANGED <<p_parent, mpc, mvar, call>>
  BY DEF CallReceive, mmVars
<1>2. kernel = "up" /\ p_flags[p] = {}
  BY <1>1, Running DEF SysReceive, ReceiveTake, ReceiveTrap, ReceiveBlock, Calls
<1>3. mem[Loc(p, "u")].body \in Bodies
  <2>1. mem[Loc(p, "u")] \in Message
    BY <1>1, ServerBuffer DEF PInv, KernelTyped
  <2> QED
    BY <2>1 DEF Message, Body
<1>4. /\ Fetched(p) \/ Trapped(p) \/ Waiting(p)
      /\ UNCHANGED ldt_base
      /\ "SENDING" \in p_flags'[MM] => p_sendto'[MM] = p_sendto[MM]
      /\ mm_msg' = mm_msg
  BY <1>1, <1>2, <1>3, ClientReceive
<1>5. /\ \A l \in Location : l # Loc(p, "u") => mem'[l] = mem[l]
      /\ kernel' = "trap" => UNCHANGED <<p_msg, p_sendto>>
      /\ p \in To /\ kernel' = "up" => mem'[Loc(p, "u")] = mem[Loc(MM, p_msg[MM])]
      /\ p \notin To => p_msg'[p] = "u"
      /\ "SENDING" \in p_flags'[MM] /\ MM # p - 1 => p_msg'[MM] = p_msg[MM]
  BY <1>1, <1>2, ReceiveWrites
<1>6. /\ p_flags \in [Slots -> SUBSET Flag] /\ upc \in [Slots -> {"user", "mid", "back"}]
  BY DEF PInv, KernelTyped, ServerTyped
<1>7. /\ \A q \in Vacant : q # p /\ p_flags'[q] = p_flags[q] /\ upc'[q] = upc[q]
      /\ upc'[p] = "back"
      /\ prog[p] # "loop"
  BY <1>1, <1>4, <1>6, ChildNumber DEF Fetched, Trapped, Waiting, InitHears
<1>8. \A c \in Vacant : IsEmpty(c)' = IsEmpty(c)
  BY <1>7 DEF IsEmpty
<1>9. Forked' = Forked /\ Fresh' = Fresh /\ \A b : Right(b)' = Right(b)
  BY <1>1, <1>8 DEF Forked, Fresh, Right
<1>10. "RECEIVING" \in p_flags'[p] => p_msg'[p] = "u"
  BY <1>2, <1>4, <1>5, <1>6 DEF Fetched, Trapped, Waiting
<1>11. InitWhere'
  BY <1>1, <1>4, <1>7, <1>9, <1>10 DEF InitWhere
<1>12. InitHears'
  <2>1. CASE Waiting(p)
    BY <1>6, <1>7, <2>1 DEF InitHears, Waiting
  <2>2. CASE Trapped(p)
    BY <1>7, <2>2 DEF InitHears, Trapped
  <2>3. CASE Fetched(p)
    <3>1. p \in To /\ kernel' = "up"
      BY <1>2, <2>3 DEF Fetched
    <3>2. Forked /\ Right(Pending)
      BY <3>1 DEF InitServed
    <3>3. Heard' = Pending
      BY <1>4, <1>5, <3>1 DEF Heard, Pending, Loc
    <3> QED
      BY <1>7, <1>9, <3>2, <3>3 DEF InitHears
  <2> QED
    BY <1>4, <2>1, <2>2, <2>3
<1>13. ChildWhere'
  BY <1>1, <1>4, <1>7, <1>8 DEF ChildWhere
<1>14. mpc = "got" /\ p_flags'[MM] = {} => p_flags[MM] = {}
  BY <1>4, <1>6, ChildNumber DEF Fetched, Trapped, Waiting, To, PInv, ServerBits
<1>15. INIT_PROC \in To' => Forked /\ p_msg'[MM] \in {"mm", "c"} /\ Right(Pending')
  <2>1. CASE Fetched(p)
    BY <1>6, <2>1 DEF Fetched, To
  <2>2. CASE Waiting(p)
    BY <1>4, <1>6, <2>2, ChildNumber DEF Waiting, To
  <2>3. CASE Trapped(p)
    <3>1. /\ p \in To /\ p_msg' = p_msg
          /\ Forked /\ p_msg[MM] \in {"mm", "c"} /\ Right(Pending)
      BY <1>5, <2>3 DEF Trapped, InitServed
    <3>2. Loc(p, "u")[2] = "u" /\ <<FlatSeg, p_msg[MM]>>[2] # "u"
      BY <3>1, Places
    <3>3. <<FlatSeg, p_msg[MM]>> \in Location
      BY <3>1, Places DEF Location
    <3>4. mem'[<<FlatSeg, p_msg[MM]>>] = mem[<<FlatSeg, p_msg[MM]>>]
      BY <1>5, <3>2, <3>3
    <3> QED
      BY <1>4, <3>1, <3>4, Places DEF Pending, Loc
  <2> QED
    BY <1>4, <2>1, <2>2, <2>3
<1>16. InitServed'
  BY <1>1, <1>4, <1>9, <1>14, <1>15 DEF InitServed, Right
<1> QED
  BY <1>11, <1>12, <1>13, <1>16 DEF DemoRest

\* A call of Init returns: fork gives it a pid, wait a pid and the status.
LEMMA InitReturns ==
  ASSUME DemoInv, CallReturn(INIT_PROC),
         prog' = [prog EXCEPT ![INIT_PROC] =
                    IF call[INIT_PROC] # "FORK" THEN "loop"
                    ELSE IF Heard.pid # 0 THEN "parent" ELSE "child"]
  PROVE  DemoRest'
<1> USE DEF DemoInv
<1> DEFINE p == INIT_PROC
<1>1. /\ kernel = "up" /\ p_proc_ready = p /\ p \in Users /\ upc[p] = "back"
      /\ upc' = [upc EXCEPT ![p] = "user"]
      /\ UNCHANGED <<p_flags, p_msg, p_sendto, ldt_base, mem, kernel, p_parent, mpc, mvar, call>>
  BY DEF CallReturn, Calls, ipcVars, mmVars
<1>2. p_flags[p] = {} /\ Forked /\ Right(Heard)
  BY <1>1, Running DEF InitHears
<1>3. /\ upc'[p] = "user" /\ \A q \in Vacant : q # p /\ upc'[q] = upc[q] /\ prog'[q] = prog[q]
      /\ call'[p] = call[p] /\ call[p] \in {"FORK", "WAIT"}
  BY <1>1, ChildNumber DEF PInv, ServerTyped, InitWhere
<1>4. /\ Heard' = Heard /\ mm_msg' = mm_msg /\ Pending' = Pending /\ To' = To
      /\ \A c \in Vacant : IsEmpty(c)' = IsEmpty(c)
      /\ Forked' = Forked /\ Fresh' = Fresh /\ \A b : Right(b)' = Right(b)
  BY <1>1 DEF Heard, mm_msg, Pending, Loc, To, IsEmpty, Forked, Fresh, Right
<1>5. prog'[p] = IF call[p] = "WAIT" THEN "loop" ELSE "parent"
  <2>1. Heard.pid # 0
    BY <1>2, ChildNumber DEF Right
  <2> QED
    BY <1>3, <2>1 DEF ProgTyped
<1>6. InitWhere'
  BY <1>1, <1>2, <1>3, <1>4, <1>5 DEF InitWhere
<1>7. InitHears'
  BY <1>2, <1>3, <1>4, <1>5 DEF InitHears, Right
<1>8. ChildWhere'
  BY <1>1, <1>3, <1>4 DEF ChildWhere
<1>9. InitServed'
  BY <1>1, <1>4 DEF InitServed
<1> QED
  BY <1>6, <1>7, <1>8, <1>9 DEF DemoRest

(* Every step of Init's program.                                           *)
LEMMA InitRest ==
  ASSUME DemoInv, Program(INIT_PROC) PROVE DemoRest'
<1> DEFINE p == INIT_PROC
<1>1. CASE CallReceive(p) /\ UNCHANGED prog
  BY <1>1, InitReceives
<1>2. CASE prog[p] = "start" /\ ForkCall(p) /\ UNCHANGED prog
  <2>1. PICK stale \in StalePids : CallSend(p, Request("FORK", Garbage, stale))
    BY <1>2 DEF ForkCall
  <2>2. /\ Request("FORK", Garbage, stale) \in Bodies
        /\ Request("FORK", Garbage, stale).type = "FORK"
    BY DEF Request, Bodies, Ints
  <2> QED
    BY <1>2, <2>1, <2>2, InitSends
<1>3. CASE prog[p] = "parent" /\ WaitCall(p) /\ UNCHANGED prog
  <2>1. Request("WAIT", Garbage, Garbage) \in Bodies /\ Request("WAIT", Garbage, Garbage).type = "WAIT"
    BY DEF Request, Bodies, Ints
  <2> QED
    BY <1>3, <2>1, InitSends DEF WaitCall
<1>4. prog[p] # "child"
  BY DEF DemoInv, InitWhere
<1> QED
  BY <1>1, <1>2, <1>3, <1>4, InitReturns DEF Program, Heard
-----------------------------------------------------------------------------
(* Every step keeps the invariant.                                         *)

(* A process makes the calls PInv allows.                                  *)
LEMMA ProgramPInv ==
  ASSUME DemoInv, NEW p \in Users, Program(p) PROVE PInv'
<1>1. PInv /\ prog[INIT_PROC] # "child"
  BY DEF DemoInv, InitWhere
<1>2. CASE CallReceive(p) \/ CallReturn(p)
  BY <1>1, <1>2, CallReceivePInv, CallReturnPInv
<1>3. CASE ForkCall(p)
  <2>1. PICK stale \in StalePids : CallSend(p, Request("FORK", Garbage, stale))
    BY <1>3 DEF ForkCall
  <2>2. /\ Request("FORK", Garbage, stale) \in Bodies
        /\ Request("FORK", Garbage, stale).type = "FORK"
    BY DEF Request, Bodies, Ints
  <2> QED
    BY <1>1, <2>1, <2>2, CallSendPInv
<1>4. CASE WaitCall(p)
  <2>1. Request("WAIT", Garbage, Garbage) \in Bodies /\ Request("WAIT", Garbage, Garbage).type = "WAIT"
    BY DEF Request, Bodies, Ints
  <2> QED
    BY <1>1, <1>4, <2>1, CallSendPInv DEF WaitCall
<1>5. CASE prog[p] = "child" /\ ExitCall(p, 7)
  <2>1. /\ Request("EXIT", 7, Garbage) \in Bodies /\ Request("EXIT", 7, Garbage).type = "EXIT"
        /\ Request("EXIT", 7, Garbage).val \in Statuses
    BY DEF Request, Bodies, Ints
  <2> QED
    BY <1>1, <1>5, <2>1, CallSendPInv DEF ExitCall
<1> QED
  BY <1>2, <1>3, <1>4, <1>5 DEF Program

(* The program that runs is Init or its child.                             *)
LEMMA ProgramRest ==
  ASSUME DemoInv, NEW p \in Users, Program(p) PROVE DemoRest'
<1>1. kernel = "up" /\ p_proc_ready = p
  BY DEF Program, ForkCall, WaitCall, ExitCall, CallSend, CallReceive, CallReturn, Calls,
         SysSend, SendDeliver, SendBlock, SysReceive, ReceiveTake, ReceiveTrap, ReceiveBlock
<1> QED
  BY <1>1, Running, ChildRest, InitRest

LEMMA DemoInvStep == DemoInv /\ [DemoNext]_demoVars => DemoInv'
<1> SUFFICES ASSUME DemoInv, [DemoNext]_demoVars PROVE DemoInv'
  OBVIOUS
<1>1. PInv /\ ProgTyped
  BY DEF DemoInv
<1>2. CASE ServerForks
  <2>1. PInv' /\ DemoRest'
    BY <1>1, <1>2, ForkCopyPInv, ServerRest DEF ServerForks, Server
  <2>2. mvar'.src \in Slots
    <3>1. InMM("got") /\ mvar'.src = mm_msg.source
      BY <1>2 DEF ServerForks, ForkCopy
    <3> QED
      BY <3>1, AtWork, OwedWho
  <2>3. ProgTyped'
    BY <1>1, <1>2, <2>2 DEF ServerForks, ProgTyped
  <2> QED
    BY <2>1, <2>3 DEF DemoInv, DemoRest
<1>3. CASE Serve /\ Dispatch /\ UNCHANGED prog
  <2>1. PInv' /\ DemoRest'
    BY <1>1, <1>3, ServePInv, ServerRest DEF Server
  <2> QED
    BY <1>1, <1>3, <2>1 DEF DemoInv, DemoRest, ProgTyped
<1>4. CASE TaskSys /\ UNCHANGED prog
  BY <1>1, <1>4, TaskSysPInv, TaskSysRest DEF DemoInv, DemoRest, ProgTyped
<1>5. ASSUME NEW p \in Users, Program(p) PROVE DemoInv'
  <2>1. ProgTyped'
    <3>1. ASSUME NEW at \in {"loop", "parent", "child"}, prog' = [prog EXCEPT ![p] = at]
          PROVE  ProgTyped'
      BY <1>1, <3>1 DEF ProgTyped
    <3> QED
      BY <1>1, <1>5, <3>1 DEF Program, ProgTyped
  <2> QED
    BY <1>5, <2>1, ProgramPInv, ProgramRest DEF DemoInv, DemoRest
<1>6. CASE /\ Preempt \/ UNCHANGED ipcVars
           /\ UNCHANGED <<mmVars, userVars, prog>>
  <2>1. PInv'
    BY <1>1, <1>6, PreemptPInv, StutterPInv DEF procVars
  <2>2. DemoRest'
    BY <1>6, TickRest DEF Preempt, ipcVars, mmVars, userVars
  <2> QED
    BY <1>1, <1>6, <2>1, <2>2 DEF DemoInv, DemoRest, ProgTyped
<1>7. ASSUME UNCHANGED <<procVars, prog>> PROVE DemoInv'
  BY <1>6, <1>7 DEF procVars
<1>8. CASE Clock
  BY <1>6, <1>8 DEF Clock
<1>9. CASE ClockNested \/ UNCHANGED demoVars
  BY <1>7, <1>9 DEF ClockNested, demoVars
<1> QED
  BY <1>2, <1>3, <1>4, <1>5, <1>8, <1>9 DEF DemoNext, Work, Server

(* While the processes kernel_main starts run, and the clock ticks where   *)
(* it likes, Init, its child and task_mm are where the invariant says.     *)
THEOREM DemoInvInductive == DemoSpec => []DemoInv
<1>1. DemoInit => DemoInv
  BY InitDemoInv
<1> QED
  BY <1>1, DemoInvStep, PTL DEF DemoSpec

(* The line Init prints after its wait (main.c:179) has the status 7 and   *)
(* the pid of its child, wherever the clock ticked in fork, wait, exit and *)
(* task_mm.                                                                *)
THEOREM StatusIsRight == DemoSpec => []StatusIsReported
<1>1. DemoInv => StatusIsReported
  BY DEF DemoInv, InitHears, Heard, StatusIsReported
<1> QED
  BY <1>1, DemoInvInductive, PTL
-----------------------------------------------------------------------------
(* While the clock ticks only in programs.  A request is taken at once, the *)
(* caller waits, and then task_mm has the cpu, which nobody outranks, until *)
(* it waits too.                                                           *)

\* Init is not yet back from the wait for the child it made.
Unreaped ==
  \/ prog[INIT_PROC] = "start" /\ Forked
  \/ prog[INIT_PROC] = "parent" /\ (upc[INIT_PROC] = "back" => "RECEIVING" \in p_flags[INIT_PROC])

(* Only Init is a parent and only its children exit.                       *)
Lineage ==
  /\ \A c \in Slots : p_parent[c] \in {SYS, NO_TASK, INIT_PROC}
  /\ \A p \in Users : "WAITING" \in p_flags[p] => p = INIT_PROC
  /\ \A c \in Vacant : "UNSTARTED" \notin p_flags[c]
  /\ mpc = "reparent" \/ (mpc \in {"cleanup", "free"} /\ mvar.i # 0) => mvar.src \in Vacant

(* Nobody is kept from sending, and task_mm, when it can run, does.        *)
Turns ==
  /\ kernel = "up"
  /\ \A p \in Slots : "SENDING" \notin p_flags[p]
  /\ \A p \in Users : upc[p] = "mid" => p_proc_ready = p /\ p_flags[MM] = {} /\ mpc = "got"
  /\ p_flags[MM] = {} => \/ p_proc_ready \in {MM, SYS}
                         \/ p_proc_ready \in Users /\ upc[p_proc_ready] = "mid"
  /\ p_proc_ready = SYS => upc[SYS] = "user" /\ mpc = "idle" /\ p_flags[MM] = {}

(* task_mm never uses up its slice, and no slice is longer.                *)
TicksKept ==
  /\ tick \in [Slots -> Int]
  /\ tick[MM] = priority[MM] /\ \A p \in Slots : tick[p] <= priority[MM]

(* The slot of the child is freed when Init has its status, not before.    *)
ChildLives ==
  /\ Unreaped => \E c \in Vacant : ~IsEmpty(c)
  /\ mpc = "free" => /\ prog[INIT_PROC] = "parent" /\ upc[INIT_PROC] = "back"
                     /\ "RECEIVING" \notin p_flags[INIT_PROC]

CalmRest == Lineage /\ Turns /\ TicksKept /\ ChildLives
CalmInv == calm => CalmRest

USE DemoAssumption, PriorityAssumption
-----------------------------------------------------------------------------
(* schedule() picks task_mm whenever it can run.                           *)
LEMMA ServerOutranks ==
  ASSUME NEW runnable \in SUBSET (Started \cup Vacant), MM \in runnable, TicksKept
  PROVE  NextSlices(runnable, tick, priority) = tick /\ Pick(runnable, tick) = MM
<1>1. /\ runnable \subseteq Slots /\ Slots \subseteq Nat
      /\ MM \in Slots /\ INIT_PROC \in Slots /\ MM < INIT_PROC
  OBVIOUS
<1>2. \A q \in runnable : q # MM => MM < q
  <2>1. \A q \in runnable : q # MM => q = INIT_PROC \/ q > INIT_PROC
    OBVIOUS
  <2> SUFFICES ASSUME NEW q \in runnable, q # MM PROVE MM < q
    OBVIOUS
  <2>2. q \in Nat /\ MM \in Nat /\ INIT_PROC \in Nat
    BY <1>1
  <2> QED
    BY <1>1, <2>1, <2>2
<1>3. \A q \in runnable : q \in Nat /\ tick[q] \in Int /\ tick[q] <= tick[MM]
  BY <1>1 DEF TicksKept
<1>4. MM \in Nat /\ tick[MM] \in Nat /\ tick[MM] > 0
  BY <1>1 DEF TicksKept
<1>5. NextSlices(runnable, tick, priority) = tick
  BY <1>4 DEF NextSlices, Spent, TicksKept
<1>6. \A q \in runnable : tick[q] < tick[MM] \/ (tick[q] = tick[MM] /\ MM <= q)
  BY <1>2, <1>3, <1>4
<1>7. ASSUME NEW p \in runnable, p # MM,
             \A q \in runnable : tick[q] < tick[p] \/ (tick[q] = tick[p] /\ p <= q)
      PROVE  FALSE
  BY <1>2, <1>3, <1>4, <1>7
<1> QED
  BY <1>5, <1>6, <1>7 DEF Pick

\* Whoever can run was started, or made by fork.
LEMMA RunnableKnown == ASSUME PInv PROVE Runnable(p_flags) \subseteq Started \cup Vacant
  BY DEF PInv, FixedSlots, Runnable

LEMMA ServerNext ==
  ASSUME DemoInv', TicksKept, p_flags'[MM] = {}, Schedule(tick)
  PROVE  tick' = tick /\ p_proc_ready' = MM
<1> DEFINE runnable == Runnable(p_flags')
<1>1. runnable \subseteq Started \cup Vacant /\ MM \in runnable
  BY DEF DemoInv, PInv, FixedSlots, Runnable
<1>2. tick' = NextSlices(runnable, tick, priority)
      /\ p_proc_ready' = Pick(runnable, NextSlices(runnable, tick, priority))
  BY DEF Schedule
<1> HIDE DEF runnable
<1> QED
  BY <1>1, <1>2, ServerOutranks

(* A process that blocks while task_mm can run hands it the cpu.           *)
LEMMA BlockToServer ==
  ASSUME DemoInv', TicksKept, NEW p \in Slots, NEW flags, NEW pm, p_proc_ready = p, kernel = "up",
         BlockAndSchedule(p, flags, pm), flags[MM] = {}, "RECEIVING" \in flags[p], Undisturbed
  PROVE  kernel' = "up" /\ tick' = tick /\ p_proc_ready' = MM
<1>1. MM \in Runnable(flags) /\ p_flags' = flags
  BY DEF Runnable, BlockAndSchedule
<1>2. kernel' = "up"
  BY <1>1 DEF BlockAndSchedule
<1> QED
  BY <1>1, <1>2, ServerNext DEF Undisturbed, Blocks

(* Somebody else runs, if anybody can, when task_mm does not.              *)
LEMMA OthersNext ==
  ASSUME NEW tk \in [Slots -> Int], tk[MM] = priority[MM], \A p \in Slots : tk[p] <= priority[MM],
         Schedule(tk)
  PROVE  TicksKept'
  BY DEF TicksKept, Schedule, NextSlices, Runnable

(* When task_mm is at work nobody is between the halves of a call.         *)
LEMMA CalmAtWork ==
  ASSUME DemoInv, CalmRest, NEW at, InMM(at)
  PROVE  /\ p_flags[MM] = {} /\ To = {} /\ mpc = at /\ p_proc_ready = MM /\ kernel = "up"
         /\ \A p \in Users : upc[p] # "mid"
<1>1. p_flags[MM] = {} /\ To = {} /\ mpc = at /\ p_proc_ready = MM /\ kernel = "up"
  BY ServerRuns DEF DemoInv, InMM
<1> QED
  BY <1>1 DEF CalmRest, Turns

(* When a program is, task_mm waits for a request.                         *)
LEMMA CalmInProgram ==
  ASSUME DemoInv, CalmRest, p_proc_ready \in Users, upc[p_proc_ready] # "mid"
  PROVE  /\ p_flags[MM] = {"RECEIVING"} /\ p_recvfrom[MM] = ANY /\ mpc = "got"
         /\ \A p \in Users : upc[p] # "mid"
<1>1. p_flags[MM] = {"RECEIVING"}
  BY DEF CalmRest, Turns, DemoInv, PInv, FixedSlots
<1> QED
  BY <1>1 DEF CalmRest, Turns, DemoInv, PInv, ServerBits

\* Nothing but task_mm's place and the flags moves.
LEMMA ServerGoesOn ==
  ASSUME DemoInv, CalmRest, NEW at, InMM(at),
         UNCHANGED <<kernel, p_proc_ready, tick, upc>>,
         \A p \in Slots : "SENDING" \notin p_flags'[p]
  PROVE  Turns' /\ TicksKept'
<1>1. p_proc_ready = MM /\ kernel = "up" /\ \A p \in Users : upc[p] # "mid"
  BY CalmAtWork
<1>2. Turns'
  BY <1>1 DEF Turns
<1>3. TicksKept'
  BY DEF TicksKept, CalmRest
<1> QED
  BY <1>2, <1>3

LEMMA ChildStays ==
  ASSUME ChildLives, Unreaped' => Unreaped, mpc' # "free",
         \A c \in Vacant : IsEmpty(c)' => IsEmpty(c)
  PROVE  ChildLives'
<1>1. ASSUME Unreaped' PROVE \E c \in Vacant : ~IsEmpty(c)'
  <2>1. PICK c \in Vacant : ~IsEmpty(c)
    BY <1>1 DEF ChildLives
  <2> QED
    BY <2>1
<1> QED
  BY <1>1 DEF ChildLives
-----------------------------------------------------------------------------
(* kernel_main.                                                            *)
LEMMA InitCalm == DemoInit => CalmRest
<1> SUFFICES ASSUME DemoInit PROVE CalmRest
  OBVIOUS
<1>1. /\ p_flags = [p \in Slots |-> IF p \in Vacant THEN {"EMPTY"}
                                    ELSE IF p \in Started THEN {} ELSE {"UNSTARTED"}]
      /\ p_parent = [p \in Slots |-> IF p \in Vacant THEN 0 ELSE NO_TASK]
      /\ upc = [p \in Slots |-> "user"] /\ prog = [p \in Slots |-> "start"]
      /\ mpc = "idle" /\ kernel = "up" /\ p_proc_ready = SYS
      /\ tick = [p \in Slots |-> IF p \in Vacant THEN 0 ELSE priority[p]]
  BY DEF DemoInit, ProcInit, IpcInit
<1>2. Lineage
  BY <1>1 DEF Lineage
<1>3. Turns
  BY <1>1 DEF Turns
<1>4. TicksKept
  BY <1>1 DEF TicksKept
<1>5. ChildLives
  BY <1>1 DEF ChildLives, Unreaped, Forked
<1> QED
  BY <1>2, <1>3, <1>4, <1>5 DEF CalmRest

(* task_mm waits, and Init or its child goes on: Init waits for a child    *)
(* that is there, which is no zombie and is owed no answer.                *)
LEMMA SomebodyRuns ==
  ASSUME DemoInv, CalmRest, mpc = "idle", p_proc_ready = MM, p_flags[MM] = {}
  PROVE  \E p \in Users : p_flags[p] = {}
<1>1. Owed = {} /\ \A p \in Users : upc[p] # "mid" /\ "SENDING" \notin p_flags[p]
  BY DEF DemoInv, PInv, JobInHand, To, CalmRest, Turns
<1>2. \A p \in Users : p_flags[p] # {"RECEIVING"}
  BY <1>1 DEF Owed
<1>3. "HANGING" \notin p_flags[INIT_PROC] /\ p_flags[INIT_PROC] \subseteq {"RECEIVING", "WAITING"}
  BY <1>1 DEF DemoInv, PInv, UserBits, BitsOf, FixedSlots, Alive
<1>4. CASE "WAITING" \notin p_flags[INIT_PROC]
  <2>1. INIT_PROC \in Users /\ p_flags[INIT_PROC] \subseteq {"RECEIVING"}
    BY <1>3, <1>4
  <2>2. p_flags[INIT_PROC] # {"RECEIVING"}
    BY <1>2, <2>1
  <2>3. p_flags[INIT_PROC] = {}
    BY <2>1, <2>2
  <2> QED
    BY <2>1, <2>3
<1>5. CASE "WAITING" \in p_flags[INIT_PROC]
  <2>1. "RECEIVING" \in p_flags[INIT_PROC] /\ call[INIT_PROC] = "WAIT" /\ upc[INIT_PROC] = "back"
    BY <1>1, <1>5 DEF DemoInv, PInv, UserBits, BitsOf
  <2>2. Unreaped
    BY <2>1 DEF Unreaped, DemoInv, InitWhere
  <2>3. PICK c \in Vacant : ~IsEmpty(c)
    BY <2>2 DEF CalmRest, ChildLives
  <2>4. c \in Users /\ p_parent[c] = INIT_PROC
    BY <2>3 DEF DemoInv, PInv, ParentsAlive, CalmRest, Lineage
  <2>5. "HANGING" \notin p_flags[c]
    BY <1>5, <2>4 DEF DemoInv, PInv, NeverMissed
  <2>6. "WAITING" \notin p_flags[c] /\ "UNSTARTED" \notin p_flags[c]
    BY <2>4 DEF CalmRest, Lineage
  <2>7. p_flags[c] \subseteq {"RECEIVING"}
    BY <1>1, <2>3, <2>4, <2>5, <2>6 DEF DemoInv, PInv, UserBits, BitsOf, IsEmpty
  <2> QED
    BY <1>2, <2>4, <2>7
<1> QED
  BY <1>4, <1>5

LEMMA MMReceiveCalm ==
  DemoInv /\ DemoInv' /\ CalmRest /\ MMReceive /\ Undisturbed /\ UNCHANGED prog => CalmRest'
<1> SUFFICES ASSUME DemoInv, DemoInv', CalmRest, MMReceive, Undisturbed, UNCHANGED prog
             PROVE  CalmRest'
  OBVIOUS
<1>1. /\ mpc = "idle" /\ p_flags[MM] = {} /\ kernel = "up" /\ p_proc_ready = MM
      /\ \A p \in Users : upc[p] # "mid"
  BY CalmAtWork DEF MMReceive
<1>2. ReceiveBlock(MM, ANY, "mm", Zero) /\ mpc' = "got" /\ UNCHANGED <<p_parent, mvar, upc>>
  BY DEF MMReceive, SysReceive, ReceiveTake, ReceiveTrap, From, DemoInv, PInv, KernelTyped, userVars
<1>3. BlockAndSchedule(MM, [p_flags EXCEPT ![MM] = @ \cup {"RECEIVING"}], [p_msg EXCEPT ![MM] = "mm"])
  BY <1>2 DEF ReceiveBlock
<1>4. p_flags \in [Slots -> SUBSET Flag]
  BY DEF DemoInv, PInv, KernelTyped
<1>5. p_flags' = [p_flags EXCEPT ![MM] = {"RECEIVING"}]
  BY <1>1, <1>3, <1>4 DEF BlockAndSchedule
<1>6. kernel' = "up"
  <2>1. PICK p \in Users : p_flags[p] = {}
    BY <1>1, SomebodyRuns
  <2>2. p_flags'[p] = {}
    BY <1>4, <1>5, <2>1
  <2> QED
    BY <1>1, <1>3, <2>2 DEF BlockAndSchedule, Runnable
<1>7. p_proc_ready' \in Runnable(p_flags')
  BY <1>1, <1>3, <1>6 DEF BlockAndSchedule
<1>8. /\ p_flags'[MM] = {"RECEIVING"} /\ p_proc_ready' # SYS
      /\ \A p \in Slots : p # MM => p_flags'[p] = p_flags[p]
  BY <1>4, <1>5, <1>7 DEF DemoInv, PInv, FixedSlots, Runnable
<1>9. Lineage'
  BY <1>2, <1>8 DEF CalmRest, Lineage
<1>10. Turns'
  BY <1>1, <1>2, <1>6, <1>8 DEF CalmRest, Turns
<1>11. TicksKept'
  <2>1. CASE UNCHANGED tick
    BY <2>1 DEF CalmRest, TicksKept
  <2>2. CASE Schedule(tick)
    BY <2>2, OthersNext DEF CalmRest, TicksKept
  <2> QED
    BY <2>1, <2>2 DEF Undisturbed
<1>12. ChildLives'
  <2>1. Unreaped' = Unreaped /\ \A c \in Vacant : IsEmpty(c)' = IsEmpty(c)
    BY <1>2, <1>8 DEF Unreaped, Forked, IsEmpty
  <2> QED
    BY <1>2, <2>1, ChildStays DEF CalmRest
<1> QED
  BY <1>9, <1>10, <1>11, <1>12 DEF CalmRest

(* Whoever task_mm answers is waiting for it, so that it goes on.          *)
LEMMA SendCalm ==
  ASSUME DemoInv, DemoInv', CalmRest, NEW at, InMM(at), NEW d \in Owed, NEW a \in {"mm", "m", "c"},
         NEW body \in Bodies, SysSend(MM, d, a, body), Undisturbed,
         UNCHANGED <<prog, p_parent, mvar, upc>>,
         mpc' \notin {"reparent", "cleanup"}, mpc' = "free" => mpc = "cleanup",
         mpc' = "free" => d = INIT_PROC /\ call[d] = "WAIT"
  PROVE  CalmRest'
<1>1. /\ p_flags[MM] = {} /\ p_proc_ready = MM /\ kernel = "up"
      /\ \A p \in Users : upc[p] # "mid"
  BY CalmAtWork
<1>2. d \in Users /\ upc[d] = "back" /\ "RECEIVING" \in p_flags[d] /\ d \in Slots /\ d # MM
  BY <1>1, OwedWho DEF DemoInv, PInv, UserBits, BitsOf, Owed
<1>3. Answered(d)
  BY <1>1, <1>2, ServerSend DEF DemoInv, Awaited
<1>4. p_flags \in [Slots -> SUBSET Flag]
  BY DEF DemoInv, PInv, KernelTyped
<1>5. /\ p_flags' = [p_flags EXCEPT ![d] = @ \ {"RECEIVING"}]
      /\ UNCHANGED <<kernel, p_proc_ready>>
      /\ p_flags'[MM] = {}
  BY <1>1, <1>2, <1>3, <1>4 DEF Answered
<1>6. UNCHANGED tick
  BY <1>1, <1>5 DEF Undisturbed, Blocks
<1>7. \A p \in Slots : p_flags'[p] \subseteq p_flags[p]
  BY <1>4, <1>5
<1>8. Lineage'
  BY <1>7 DEF CalmRest, Lineage
<1>9. Turns' /\ TicksKept'
  BY <1>5, <1>6, <1>7, ServerGoesOn DEF CalmRest, Turns
<1>10. ChildLives'
  <2>1. \A c \in Vacant : IsEmpty(c)' => IsEmpty(c)
    <3>1. "RECEIVING" \notin p_flags'[d] /\ p_flags[d] = {"RECEIVING"}
      BY <1>2, <1>4, <1>5 DEF Owed
    <3>2. p_flags'[d] = {}
      BY <1>2, <1>4, <1>5, <3>1
    <3> QED
      BY <1>4, <1>5, <3>2 DEF IsEmpty
  <2>2. Unreaped' => Unreaped
    BY <1>7 DEF Unreaped, Forked
  <2>3. CASE mpc' # "free"
    BY <2>1, <2>2, <2>3, ChildStays DEF CalmRest
  <2>4. CASE mpc' = "free"
    <3>1. d = INIT_PROC /\ prog[INIT_PROC] = "parent" /\ "RECEIVING" \notin p_flags'[INIT_PROC]
      BY <1>2, <1>4, <1>5, <2>4 DEF DemoInv, InitWhere
    <3> QED
      BY <1>2, <3>1 DEF ChildLives, Unreaped
  <2> QED
    BY <2>3, <2>4
<1> QED
  BY <1>8, <1>9, <1>10 DEF CalmRest

(* The steps of task_mm that send nothing: they leave it the cpu, and      *)
(* everybody the bits SENDING and RECEIVING.                               *)
LEMMA QuietCalm ==
  ASSUME DemoInv, CalmRest, NEW at, InMM(at),
         UNCHANGED <<kernel, p_proc_ready, prog, upc>>, Undisturbed,
         p_flags'[MM] = {}, \A p \in Slots : "SENDING" \notin p_flags'[p]
  PROVE  Turns' /\ TicksKept'
<1>1. p_proc_ready = MM
  BY CalmAtWork
<1>2. UNCHANGED tick
  BY <1>1 DEF Undisturbed, Blocks
<1> QED
  BY <1>2, ServerGoesOn

LEMMA CleanupFreeCalm ==
  DemoInv /\ CalmRest /\ CleanupFree /\ Undisturbed /\ UNCHANGED prog => CalmRest'
<1> SUFFICES ASSUME DemoInv, CalmRest, CleanupFree, Undisturbed, UNCHANGED prog PROVE CalmRest'
  OBVIOUS
<1>1. mpc = "free" /\ p_flags[MM] = {} /\ InMM("free")
  BY CalmAtWork DEF CleanupFree
<1>2. /\ p_flags' = [p_flags EXCEPT ![mvar.proc] = {"EMPTY"}]
      /\ mpc' = IF mvar.i = 0 THEN "idle" ELSE "reparent"
      /\ mvar.proc \in Vacant
      /\ UNCHANGED <<kernel, p_proc_ready, p_parent, mvar, upc>>
  BY <1>1 DEF CleanupFree, DemoInv, PInv, JobInHand, Leaving, userVars
<1>3. p_flags \in [Slots -> SUBSET Flag]
  BY DEF DemoInv, PInv, KernelTyped
<1>4. p_flags'[MM] = {} /\ p_flags'[INIT_PROC] = p_flags[INIT_PROC]
  BY <1>1, <1>2, <1>3
<1>5. \A p \in Slots : p_flags'[p] = p_flags[p] \/ p_flags'[p] = {"EMPTY"}
  BY <1>2, <1>3
<1>6. Lineage'
  BY <1>1, <1>2, <1>5 DEF CalmRest, Lineage
<1>7. Turns' /\ TicksKept'
  BY <1>1, <1>2, <1>4, <1>5, QuietCalm DEF CalmRest, Turns
<1>8. ChildLives'
  <2>1. ~Unreaped'
    BY <1>1, <1>2, <1>4 DEF CalmRest, ChildLives, Unreaped
  <2> QED
    BY <1>2, <2>1 DEF ChildLives
<1> QED
  BY <1>6, <1>7, <1>8 DEF CalmRest

LEMMA ForkMemoryCalm ==
  DemoInv /\ CalmRest /\ ForkMemory /\ Undisturbed /\ UNCHANGED prog => CalmRest'
<1> SUFFICES ASSUME DemoInv, CalmRest, ForkMemory, Undisturbed, UNCHANGED prog PROVE CalmRest'
  OBVIOUS
<1>1. /\ mpc = "forkmem" /\ p_flags[MM] = {} /\ InMM("forkmem") /\ mpc' = "forksend"
      /\ UNCHANGED <<p_flags, kernel, p_proc_ready, p_parent, mvar, upc>>
  BY CalmAtWork DEF ForkMemory, userVars
<1>2. Lineage'
  BY <1>1 DEF CalmRest, Lineage
<1>3. Turns' /\ TicksKept'
  BY <1>1, QuietCalm DEF CalmRest, Turns
<1>4. Unreaped' = Unreaped /\ \A c \in Vacant : IsEmpty(c)' = IsEmpty(c)
  BY <1>1 DEF Unreaped, Forked, IsEmpty
<1>5. ChildLives'
  BY <1>1, <1>4, ChildStays DEF CalmRest
<1> QED
  BY <1>2, <1>3, <1>5 DEF CalmRest

LEMMA DoExitCalm ==
  DemoInv /\ CalmRest /\ DoExit /\ Undisturbed /\ UNCHANGED prog => CalmRest'
<1> SUFFICES ASSUME DemoInv, CalmRest, DoExit, Undisturbed, UNCHANGED prog PROVE CalmRest'
  OBVIOUS
<1> DEFINE pid == mm_msg.source
           parent == p_parent[pid]
<1>1. /\ InMM("got") /\ p_flags[MM] = {} /\ pid \in Owed /\ call[pid] = "EXIT"
  BY AtWork DEF DoExit
<1>2. pid \in Users /\ pid \in Vacant /\ ~IsEmpty(pid) /\ p_flags[pid] \subseteq {"RECEIVING"}
  BY <1>1, OwedWho DEF DemoInv, PInv, FixedSlots, Owed
<1>3. /\ \/ p_flags' = [p_flags EXCEPT ![parent] = @ \ {"WAITING"}] /\ Waits(parent)
         \/ p_flags' = [p_flags EXCEPT ![pid] = @ \cup {"HANGING"}]
      /\ mpc' \in {"cleanup", "reparent"} /\ mvar'.src = pid
      /\ UNCHANGED <<kernel, p_proc_ready, p_parent, upc>>
  BY DEF DoExit, userVars
<1> HIDE DEF pid, parent
<1>4. p_flags \in [Slots -> SUBSET Flag]
  BY DEF DemoInv, PInv, KernelTyped
<1>5. /\ p_flags'[MM] = {}
      /\ "RECEIVING" \in p_flags'[INIT_PROC] <=> "RECEIVING" \in p_flags[INIT_PROC]
      /\ \A p \in Slots : p_flags'[p] \subseteq p_flags[p] \cup {"HANGING"}
  BY <1>1, <1>2, <1>3, <1>4
<1>6. \A c \in Vacant : IsEmpty(c)' => IsEmpty(c)
  <2> SUFFICES ASSUME NEW c \in Vacant, IsEmpty(c)' PROVE IsEmpty(c)
    OBVIOUS
  <2>1. c \in Users /\ "EMPTY" \in p_flags[c]
    BY <1>5 DEF IsEmpty
  <2>2. BitsOf(c)
    BY <2>1 DEF DemoInv, PInv, UserBits
  <2> HIDE DEF Users
  <2> QED
    BY <2>1, <2>2, Zenon DEF IsEmpty, BitsOf
<1>7. Lineage'
  <2>1. \A c \in Slots : p_parent'[c] \in {SYS, NO_TASK, INIT_PROC}
    BY <1>3 DEF CalmRest, Lineage
  <2>2. \A p \in Slots : \A f \in {"WAITING", "UNSTARTED"} : f \in p_flags'[p] => f \in p_flags[p]
    BY <1>5
  <2> QED
    BY <1>2, <1>3, <2>1, <2>2 DEF CalmRest, Lineage
<1>8. Turns' /\ TicksKept'
  <2>1. \A p \in Slots : "SENDING" \notin p_flags'[p]
    BY <1>5 DEF CalmRest, Turns
  <2> QED
    BY <1>1, <1>3, <1>5, <2>1, QuietCalm
<1>9. Unreaped' => Unreaped
  BY <1>3, <1>5 DEF Unreaped, Forked
<1>10. ChildLives'
  BY <1>3, <1>6, <1>9, ChildStays DEF CalmRest
<1> QED
  BY <1>7, <1>8, <1>10 DEF CalmRest

(* A child has no children to give to Init.                                *)
LEMMA DoExitReparentCalm ==
  DemoInv /\ CalmRest /\ DoExitReparent /\ Undisturbed /\ UNCHANGED prog => CalmRest'
<1> SUFFICES ASSUME DemoInv, CalmRest, DoExitReparent, Undisturbed, UNCHANGED prog PROVE CalmRest'
  OBVIOUS
<1>1. InMM("reparent") /\ mpc = "reparent" /\ p_flags[MM] = {}
  BY CalmAtWork DEF DoExitReparent
<1>2. Children(mvar.src) = {}
  BY <1>1 DEF Children, CalmRest, Lineage
<1>3. Reaped({}) = {}
  BY DEF Reaped, Zombies
<1>4. {c \in Children(mvar.src) : c >= mvar.i - 1} = {}
  BY <1>2
<1>5. /\ p_parent' = [c \in Slots |-> p_parent[c]] /\ mpc' = "idle"
      /\ UNCHANGED <<p_flags, mvar, kernel, p_proc_ready, upc>>
  BY <1>3, <1>4 DEF DoExitReparent, userVars
<1>6. p_parent' = p_parent
  BY <1>5 DEF DemoInv, PInv, ServerTyped
<1>7. Lineage'
  BY <1>5, <1>6 DEF CalmRest, Lineage
<1>8. Turns' /\ TicksKept'
  BY <1>1, <1>5, QuietCalm DEF CalmRest, Turns
<1>9. Unreaped' = Unreaped /\ \A c \in Vacant : IsEmpty(c)' = IsEmpty(c)
  BY <1>5, <1>6 DEF Unreaped, Forked, IsEmpty
<1>10. ChildLives'
  BY <1>5, <1>9, ChildStays DEF CalmRest
<1> QED
  BY <1>7, <1>8, <1>10 DEF CalmRest

LEMMA DoWaitCalm ==
  DemoInv /\ CalmRest /\ DoWait /\ Undisturbed /\ UNCHANGED prog => CalmRest'
<1> SUFFICES ASSUME DemoInv, CalmRest, DoWait, Undisturbed, UNCHANGED prog PROVE CalmRest'
  OBVIOUS
<1> DEFINE pid == mm_msg.source
<1>1. InMM("got") /\ p_flags[MM] = {} /\ pid \in Owed
  BY AtWork DEF DoWait
<1>2. pid \in Users /\ p_flags[pid] \subseteq {"RECEIVING"}
  BY <1>1 DEF Owed
<1>3. /\ \/ p_flags' = p_flags
         \/ p_flags' = [p_flags EXCEPT ![pid] = @ \cup {"WAITING"}] /\ Children(pid) # {}
      /\ mpc' \in {"cleanup", "idle", "nochild"} /\ mvar'.i = 0
      /\ UNCHANGED <<kernel, p_proc_ready, p_parent, upc>>
  BY DEF DoWait, userVars
<1> HIDE DEF pid
<1>4. p_flags \in [Slots -> SUBSET Flag]
  BY DEF DemoInv, PInv, KernelTyped
<1>5. Children(pid) # {} => pid = INIT_PROC
  BY <1>2 DEF Children, CalmRest, Lineage
<1>6. /\ p_flags'[MM] = {}
      /\ "RECEIVING" \in p_flags'[INIT_PROC] <=> "RECEIVING" \in p_flags[INIT_PROC]
      /\ \A p \in Slots : p # INIT_PROC => p_flags'[p] = p_flags[p]
      /\ \A p \in Slots : p_flags'[p] \subseteq p_flags[p] \cup {"WAITING"}
  <2>1. CASE p_flags' = p_flags
    BY <1>1, <2>1
  <2>2. CASE p_flags' = [p_flags EXCEPT ![pid] = @ \cup {"WAITING"}] /\ pid = INIT_PROC
    BY <1>1, <1>4, <2>2
  <2> QED
    BY <1>3, <1>5, <2>1, <2>2
<1>7. Lineage'
  BY <1>3, <1>6 DEF CalmRest, Lineage
<1>8. Turns' /\ TicksKept'
  <2>1. \A p \in Slots : "SENDING" \notin p_flags'[p]
    BY <1>6 DEF CalmRest, Turns
  <2> QED
    BY <1>1, <1>3, <1>6, <2>1, QuietCalm
<1>9. (Unreaped' => Unreaped) /\ \A c \in Vacant : IsEmpty(c)' = IsEmpty(c)
  BY <1>3, <1>6 DEF Unreaped, Forked, IsEmpty
<1>10. ChildLives'
  BY <1>3, <1>9, ChildStays DEF CalmRest
<1> QED
  BY <1>7, <1>8, <1>10 DEF CalmRest

(* Init makes its child while it waits for the answer, and so does the     *)
(* child, whose slice is no longer than task_mm's.                         *)
LEMMA ForkCopyCalm ==
  DemoInv /\ CalmRest /\ ServerForks => CalmRest'
<1> SUFFICES ASSUME DemoInv, CalmRest, ServerForks PROVE CalmRest'
  OBVIOUS
<1> DEFINE parent == mm_msg.source
           child == Least({p \in Slots : IsEmpty(p)})
<1>1. /\ InMM("got") /\ p_flags[MM] = {} /\ p_proc_ready = MM /\ kernel = "up"
      /\ parent = INIT_PROC /\ INIT_PROC \in Owed
      /\ \A p \in Users : upc[p] # "mid"
  BY AtWork, CalmAtWork DEF ServerForks, ForkCopy
<1>2. p_flags[INIT_PROC] \subseteq {"RECEIVING"}
  BY <1>1 DEF Owed
<1>3. child \in Vacant
  <2>1. \E p \in Slots : IsEmpty(p)
    BY DEF ServerForks, ForkCopy
  <2>2. child \in Slots /\ IsEmpty(child)
    <3> DEFINE free == {p \in Slots : IsEmpty(p)}
    <3>1. free \in SUBSET Nat /\ free # {}
      BY <2>1
    <3> HIDE DEF free
    <3>2. Least(free) \in free
      BY <3>1, LeastIsLeast
    <3> QED
      BY <3>2 DEF free
  <2>3. child \in Users
    BY <2>2 DEF DemoInv, PInv, FixedSlots, IsEmpty
  <2> HIDE DEF child
  <2> QED
    BY <2>2, <2>3 DEF DemoInv, PInv, UserBits, BitsOf, IsEmpty
<1>4. /\ p_flags' = [p_flags EXCEPT ![child] = p_flags[parent]]
      /\ p_parent' = [p_parent EXCEPT ![child] = parent]
      /\ upc' = [upc EXCEPT ![child] = upc[parent]]
      /\ mpc' = "forkmem" /\ mvar'.src = parent /\ mvar'.proc = child
      /\ UNCHANGED <<p_proc_ready, kernel>>
  BY DEF ServerForks, ForkCopy
<1>5. tick' = [tick EXCEPT ![child] = ForkTicks]
  BY <1>4 DEF ServerForks
<1> HIDE DEF parent, child
<1>6. /\ p_flags \in [Slots -> SUBSET Flag] /\ p_parent \in [Slots -> Slots \cup {NO_TASK}]
      /\ upc \in [Slots -> {"user", "mid", "back"}]
  BY DEF DemoInv, PInv, KernelTyped, ServerTyped
<1>7. /\ p_flags'[child] \subseteq {"RECEIVING"} /\ p_parent'[child] = INIT_PROC
      /\ \A p \in Slots : p # child => p_flags'[p] = p_flags[p] /\ p_parent'[p] = p_parent[p]
      /\ \A p \in Users : upc'[p] # "mid"
      /\ p_flags'[MM] = {}
  BY <1>1, <1>2, <1>3, <1>4, <1>6
<1>8. Lineage'
  <2>1. \A c \in Slots : p_parent'[c] \in {SYS, NO_TASK, INIT_PROC}
    BY <1>7 DEF CalmRest, Lineage
  <2>2. \A p \in Users : "WAITING" \in p_flags'[p] => p = INIT_PROC
    BY <1>7 DEF CalmRest, Lineage
  <2>3. \A c \in Vacant : "UNSTARTED" \notin p_flags'[c]
    BY <1>7 DEF CalmRest, Lineage
  <2> QED
    BY <1>4, <2>1, <2>2, <2>3 DEF Lineage
<1>9. Turns'
  <2>1. \A p \in Slots : "SENDING" \notin p_flags'[p]
    BY <1>7 DEF CalmRest, Turns
  <2> QED
    BY <1>1, <1>4, <1>7, <2>1 DEF Turns
<1>10. TicksKept'
  <2>1. child # MM /\ child \in Slots /\ ForkTicks \in Int /\ ForkTicks <= priority[MM]
    BY <1>3
  <2> QED
    BY <1>5, <2>1 DEF CalmRest, TicksKept
<1>11. ChildLives'
  BY <1>3, <1>4, <1>7 DEF ChildLives, IsEmpty
<1> QED
  BY <1>8, <1>9, <1>10, <1>11 DEF CalmRest

(* The four places where task_mm sends.  Only Init is told of an exit.     *)
LEMMA SendsCalm ==
  ASSUME DemoInv, DemoInv', CalmRest, MMReply \/ ForkSend \/ CleanupSend \/ DoWaitNoChild,
         Undisturbed, UNCHANGED prog
  PROVE  CalmRest'
<1>1. PICK at : InMM(at)
  BY DEF MMReply, ForkSend, CleanupSend, DoWaitNoChild
<1>2. /\ p_flags[MM] = {} /\ To = {}
      /\ mm_msg \in [source : Slots \cup {NO_TASK}, body : Bodies]
  BY <1>1, ServerRuns DEF DemoInv
<1>3. UNCHANGED <<prog, p_parent, mvar, upc>>
  BY DEF MMReply, ForkSend, CleanupSend, DoWaitNoChild, userVars
<1>4. mvar \in Jobs /\ exit_status \in [Slots -> Ints]
  BY DEF DemoInv, PInv, ServerTyped
<1>5. CASE MMReply
  <2>1. mpc = "reply" /\ mpc' = "idle" /\ mvar.src \in Owed
    BY <1>5 DEF MMReply, InMM, DemoInv, PInv, JobInHand
  <2>2. Ret(mvar.ret, mm_msg.body.pid) \in Bodies
    BY <1>2, <1>4 DEF Ret, Bodies, Jobs
  <2>3. SysSend(MM, mvar.src, "mm", Ret(mvar.ret, mm_msg.body.pid))
    BY <1>5 DEF MMReply
  <2> QED
    BY <1>1, <1>3, <2>1, <2>2, <2>3, SendCalm
<1>6. CASE ForkSend
  <2>1. mpc = "forksend" /\ mpc' = "reply" /\ mvar.proc \in Owed
    BY <1>6 DEF ForkSend, InMM, DemoInv, PInv, JobInHand
  <2>2. Ret(0, 0) \in Bodies /\ SysSend(MM, mvar.proc, "m", Ret(0, 0))
    BY <1>6 DEF ForkSend, Ret, Bodies, Ints
  <2> QED
    BY <1>1, <1>3, <2>1, <2>2, SendCalm
<1>7. CASE CleanupSend
  <2>1. /\ mpc = "cleanup" /\ mpc' = "free" /\ p_parent[mvar.proc] \in Owed
        /\ call[p_parent[mvar.proc]] = "WAIT" /\ mvar.proc \in Vacant
    BY <1>7 DEF CleanupSend, InMM, DemoInv, PInv, JobInHand, Leaving
  <2>2. p_parent[mvar.proc] = INIT_PROC
    BY <2>1 DEF Owed, CalmRest, Lineage
  <2>3. /\ Report(mvar.proc) \in Bodies
        /\ SysSend(MM, p_parent[mvar.proc], "c", Report(mvar.proc))
    BY <1>4, <1>7, <2>1 DEF CleanupSend, Report, Ret, Bodies, Ints
  <2> QED
    BY <1>1, <1>3, <2>1, <2>2, <2>3, SendCalm
<1>8. CASE DoWaitNoChild
  <2>1. mpc = "nochild" /\ mpc' = "idle" /\ mvar.src \in Owed
    BY <1>8 DEF DoWaitNoChild, InMM, DemoInv, PInv, JobInHand
  <2>2. Ret(Garbage, NO_TASK) \in Bodies /\ SysSend(MM, mvar.src, "c", Ret(Garbage, NO_TASK))
    BY <1>8 DEF DoWaitNoChild, Ret, Bodies, Ints
  <2> QED
    BY <1>1, <1>3, <2>1, <2>2, SendCalm
<1> QED
  BY <1>5, <1>6, <1>7, <1>8

LEMMA ServeCalm ==
  ASSUME DemoInv, DemoInv', CalmRest, Serve, Undisturbed, UNCHANGED prog PROVE CalmRest'
  BY MMReceiveCalm, NoAnswerAtOnce, ForkMemoryCalm, SendsCalm, CleanupFreeCalm,
     DoExitCalm, DoExitReparentCalm, DoWaitCalm DEF Serve
-----------------------------------------------------------------------------
(* task_sys, the programs and the clock.                                   *)

(* task_sys leaves the cpu for good, to task_mm.                           *)
LEMMA TaskSysCalm ==
  ASSUME DemoInv, DemoInv', CalmRest, TaskSys, Undisturbed, UNCHANGED prog PROVE CalmRest'
<1>1. ReceiveBlock(SYS, ANY, "s", Zero) /\ kernel = "up" /\ p_proc_ready = SYS
  BY DEF TaskSys, SysReceive, ReceiveTake, ReceiveTrap, ReceiveBlock, Calls, From,
         DemoInv, PInv, KernelTyped
<1>2. mpc = "idle" /\ p_flags[MM] = {} /\ \A p \in Users : upc[p] # "mid"
  BY <1>1 DEF CalmRest, Turns
<1>3. /\ BlockAndSchedule(SYS, [p_flags EXCEPT ![SYS] = @ \cup {"RECEIVING"}], [p_msg EXCEPT ![SYS] = "s"])
      /\ UNCHANGED <<p_parent, mpc, mvar>>
      /\ upc' = [upc EXCEPT ![SYS] = "back"]
  BY <1>1 DEF ReceiveBlock, TaskSys, mmVars
<1>4. p_flags \in [Slots -> SUBSET Flag]
  BY DEF DemoInv, PInv, KernelTyped
<1>5. /\ p_flags' = [p_flags EXCEPT ![SYS] = @ \cup {"RECEIVING"}]
      /\ p_flags'[MM] = {}
  BY <1>2, <1>3, <1>4 DEF BlockAndSchedule
<1>6. kernel' = "up" /\ tick' = tick /\ p_proc_ready' = MM
  <2> DEFINE flags == [p_flags EXCEPT ![SYS] = @ \cup {"RECEIVING"}]
             pm == [p_msg EXCEPT ![SYS] = "s"]
  <2>1. flags[MM] = {} /\ "RECEIVING" \in flags[SYS]
    BY <1>2, <1>4
  <2>2. BlockAndSchedule(SYS, flags, pm) /\ SYS \in Slots /\ TicksKept
    BY <1>3 DEF CalmRest
  <2> HIDE DEF flags, pm
  <2> QED
    BY <1>1, <2>1, <2>2, BlockToServer
<1>7. \A q \in Users : p_flags'[q] = p_flags[q] /\ upc'[q] = upc[q]
  BY <1>3, <1>5
<1>8. Lineage'
  BY <1>3, <1>7 DEF CalmRest, Lineage
<1>9. Turns'
  <2>1. \A p \in Slots : "SENDING" \notin p_flags'[p]
    BY <1>4, <1>5 DEF CalmRest, Turns
  <2> QED
    BY <1>2, <1>6, <1>7, <2>1 DEF Turns
<1>10. TicksKept'
  BY <1>6 DEF CalmRest, TicksKept
<1>11. Unreaped' = Unreaped /\ \A c \in Vacant : IsEmpty(c)' = IsEmpty(c)
  BY <1>3, <1>7 DEF Unreaped, Forked, IsEmpty
<1>12. ChildLives'
  BY <1>2, <1>3, <1>11, ChildStays DEF CalmRest
<1> QED
  BY <1>8, <1>9, <1>10, <1>12 DEF CalmRest

(* task_mm takes the request at once, and the caller keeps the cpu.        *)
LEMMA CallSendCalm ==
  ASSUME DemoInv, CalmRest, NEW p \in Users, NEW request \in Bodies, CallSend(p, request),
         Undisturbed, UNCHANGED prog
  PROVE  CalmRest'
<1>1. /\ upc[p] = "user" /\ SysSend(p, MM, "u", request)
      /\ upc' = [upc EXCEPT ![p] = "mid"]
      /\ UNCHANGED <<p_parent, mpc, mvar>>
  BY DEF CallSend, mmVars
<1>2. kernel = "up" /\ p_proc_ready = p /\ p_flags[p] = {}
  BY <1>1, Running DEF SysSend, SendDeliver, SendBlock, Calls
<1>3. p_flags[MM] = {"RECEIVING"} /\ p_recvfrom[MM] = ANY /\ mpc = "got"
      /\ \A q \in Users : upc[q] # "mid"
  BY <1>1, <1>2, CalmInProgram
<1>4. SendDeliver(p, MM, "u", request)
  BY <1>1, <1>3 DEF SysSend, SendBlock, CanDeliver
<1>5. /\ p_flags \in [Slots -> SUBSET Flag] /\ upc \in [Slots -> {"user", "mid", "back"}]
  BY DEF DemoInv, PInv, KernelTyped, ServerTyped
<1>6. /\ p_flags' = [p_flags EXCEPT ![MM] = {}]
      /\ UNCHANGED <<p_proc_ready, kernel>>
      /\ p_flags'[MM] = {} /\ \A q \in Slots : q # MM => p_flags'[q] = p_flags[q]
  BY <1>3, <1>4, <1>5 DEF SendDeliver
<1>7. UNCHANGED tick
  BY <1>2, <1>6 DEF Undisturbed, Blocks
<1>8. /\ upc'[p] = "mid" /\ \A q \in Slots : q # p => upc'[q] = upc[q]
  BY <1>1, <1>5
<1>9. Lineage'
  BY <1>1, <1>6 DEF CalmRest, Lineage
<1>10. Turns'
  <2>1. \A q \in Slots : "SENDING" \notin p_flags'[q]
    BY <1>6 DEF CalmRest, Turns
  <2>2. \A q \in Users : upc'[q] = "mid" => q = p
    BY <1>3, <1>8
  <2>3. kernel' = "up" /\ p_proc_ready' = p /\ p # SYS /\ mpc' = "got"
    BY <1>1, <1>2, <1>3, <1>6
  <2> QED
    BY <1>6, <1>8, <2>1, <2>2, <2>3 DEF Turns
<1>11. TicksKept'
  BY <1>7 DEF CalmRest, TicksKept
<1>12. Unreaped' => Unreaped
  BY <1>1, <1>6, <1>8 DEF Unreaped, Forked
<1>13. \A c \in Vacant : IsEmpty(c)' = IsEmpty(c)
  BY <1>6 DEF IsEmpty
<1>14. ChildLives'
  BY <1>1, <1>3, <1>12, <1>13, ChildStays DEF CalmRest
<1> QED
  BY <1>9, <1>10, <1>11, <1>14 DEF CalmRest

(* The caller waits for its answer, and task_mm gets the cpu.              *)
LEMMA CallReceiveCalm ==
  ASSUME DemoInv, DemoInv', CalmRest, NEW p \in Users, CallReceive(p), Undisturbed, UNCHANGED prog
  PROVE  CalmRest'
<1>1. /\ upc[p] = "mid" /\ SysReceive(p, MM, "u", mem[Loc(p, "u")].body)
      /\ upc' = [upc EXCEPT ![p] = "back"]
      /\ UNCHANGED <<p_parent, mpc, mvar>>
  BY DEF CallReceive, mmVars
<1>2. /\ kernel = "up" /\ p_proc_ready = p /\ p_flags[MM] = {} /\ mpc = "got"
      /\ \A q \in Users : q # p => upc[q] # "mid"
  BY <1>1 DEF CalmRest, Turns
<1>3. From(p, MM) = NULL
  BY <1>2 DEF From
<1>4. ReceiveBlock(p, MM, "u", mem[Loc(p, "u")].body)
  BY <1>1, <1>3 DEF SysReceive, ReceiveTake, ReceiveTrap
<1>5. /\ p_flags \in [Slots -> SUBSET Flag] /\ upc \in [Slots -> {"user", "mid", "back"}]
      /\ p \in Slots /\ p # MM /\ p # SYS
  BY DEF DemoInv, PInv, KernelTyped, ServerTyped
<1>6. BlockAndSchedule(p, [p_flags EXCEPT ![p] = @ \cup {"RECEIVING"}], [p_msg EXCEPT ![p] = "u"])
  BY <1>4 DEF ReceiveBlock
<1>7. /\ p_flags' = [p_flags EXCEPT ![p] = @ \cup {"RECEIVING"}]
      /\ p_flags'[MM] = {} /\ p_flags'[p] = p_flags[p] \cup {"RECEIVING"}
      /\ \A q \in Slots : q # p => p_flags'[q] = p_flags[q]
  BY <1>2, <1>5, <1>6 DEF BlockAndSchedule
<1>8. kernel' = "up" /\ tick' = tick /\ p_proc_ready' = MM
  <2> DEFINE flags == [p_flags EXCEPT ![p] = @ \cup {"RECEIVING"}]
             pm == [p_msg EXCEPT ![p] = "u"]
  <2>1. flags[MM] = {} /\ "RECEIVING" \in flags[p]
    BY <1>2, <1>5
  <2>2. BlockAndSchedule(p, flags, pm) /\ TicksKept
    BY <1>6 DEF CalmRest
  <2> HIDE DEF flags, pm
  <2> QED
    BY <1>2, <1>5, <2>1, <2>2, BlockToServer
<1>9. upc'[p] = "back" /\ \A q \in Slots : q # p => upc'[q] = upc[q]
  BY <1>1, <1>5
<1>10. Lineage'
  BY <1>1, <1>7 DEF CalmRest, Lineage
<1>11. Turns'
  BY <1>2, <1>7, <1>8, <1>9 DEF CalmRest, Turns
<1>12. TicksKept'
  BY <1>8 DEF CalmRest, TicksKept
<1>13. Unreaped' => Unreaped
  BY <1>1, <1>7, <1>9 DEF Unreaped, Forked
<1>14. \A c \in Vacant : IsEmpty(c)' => IsEmpty(c)
  BY <1>7 DEF IsEmpty
<1>15. ChildLives'
  BY <1>1, <1>2, <1>13, <1>14, ChildStays DEF CalmRest
<1> QED
  BY <1>10, <1>11, <1>12, <1>15 DEF CalmRest

(* Back in its program, which goes on: Init from fork with a child.        *)
LEMMA CallReturnCalm ==
  ASSUME DemoInv, CalmRest, NEW p \in Users, CallReturn(p), Undisturbed,
         prog' = [prog EXCEPT ![p] =
                    IF call[p] # "FORK" THEN "loop"
                    ELSE IF mem[Loc(p, "u")].body.pid # 0 THEN "parent" ELSE "child"]
  PROVE  CalmRest'
<1>1. /\ kernel = "up" /\ p_proc_ready = p /\ upc[p] = "back" /\ p_flags[p] = {}
      /\ upc' = [upc EXCEPT ![p] = "user"]
      /\ UNCHANGED <<p_flags, kernel, p_proc_ready, p_parent, mpc, mvar, call>>
  BY Running DEF CallReturn, Calls, ipcVars, mmVars
<1>2. p_flags[MM] = {"RECEIVING"} /\ mpc = "got" /\ \A q \in Users : upc[q] # "mid"
  BY <1>1, CalmInProgram
<1>3. UNCHANGED tick
  BY <1>1 DEF Undisturbed, Blocks
<1>4. /\ upc \in [Slots -> {"user", "mid", "back"}]
      /\ prog \in [Slots -> {"start", "parent", "child", "loop"}]
  BY DEF DemoInv, PInv, ServerTyped, ProgTyped
<1>5. upc'[p] = "user" /\ \A q \in Slots : q # p => upc'[q] = upc[q] /\ prog'[q] = prog[q]
  BY <1>1, <1>4
<1>6. Lineage'
  BY <1>1 DEF CalmRest, Lineage
<1>7. Turns'
  BY <1>1, <1>2, <1>5 DEF CalmRest, Turns
<1>8. TicksKept'
  BY <1>3 DEF CalmRest, TicksKept
<1>9. Unreaped' => Unreaped
  <2>1. CASE p # INIT_PROC
    BY <1>1, <1>5, <2>1 DEF Unreaped, Forked
  <2>2. CASE p = INIT_PROC
    <3>1. Forked /\ Heard.pid # 0
      <4>1. Forked /\ Heard.pid \in Vacant
        BY <1>1, <2>2 DEF DemoInv, InitHears, Right
      <4> QED
        BY <4>1, ChildNumber
    <3>2. <<prog[p], call[p]>> \in {<<"start", "FORK">>, <<"parent", "WAIT">>}
      BY <1>1, <2>2 DEF DemoInv, InitWhere
    <3>3. prog'[p] = IF call[p] = "WAIT" THEN "loop" ELSE "parent"
      BY <1>4, <2>2, <3>1, <3>2 DEF Heard
    <3> QED
      BY <2>2, <3>1, <3>2, <3>3 DEF Unreaped
  <2> QED
    BY <2>1, <2>2
<1>10. \A c \in Vacant : IsEmpty(c)' = IsEmpty(c)
  BY <1>1 DEF IsEmpty
<1>11. ChildLives'
  BY <1>1, <1>2, <1>9, <1>10, ChildStays DEF CalmRest
<1> QED
  BY <1>6, <1>7, <1>8, <1>11 DEF CalmRest

LEMMA ProgramCalm ==
  ASSUME DemoInv, DemoInv', CalmRest, NEW p \in Users, Program(p), Undisturbed PROVE CalmRest'
<1>1. CASE CallReceive(p) /\ UNCHANGED prog
  BY <1>1, CallReceiveCalm
<1>2. CASE prog[p] = "start" /\ ForkCall(p) /\ UNCHANGED prog
  <2>1. PICK stale \in StalePids : CallSend(p, Request("FORK", Garbage, stale))
    BY <1>2 DEF ForkCall
  <2>2. Request("FORK", Garbage, stale) \in Bodies
    BY DEF Request, Bodies, Ints
  <2> QED
    BY <1>2, <2>1, <2>2, CallSendCalm
<1>3. CASE prog[p] = "parent" /\ WaitCall(p) /\ UNCHANGED prog
  <2>1. Request("WAIT", Garbage, Garbage) \in Bodies
    BY DEF Request, Bodies, Ints
  <2> QED
    BY <1>3, <2>1, CallSendCalm DEF WaitCall
<1>4. CASE prog[p] = "child" /\ ExitCall(p, 7) /\ UNCHANGED prog
  <2>1. Request("EXIT", 7, Garbage) \in Bodies
    BY DEF Request, Bodies, Ints
  <2> QED
    BY <1>4, <2>1, CallSendCalm DEF ExitCall
<1> QED
  BY <1>1, <1>2, <1>3, <1>4, CallReturnCalm DEF Program

(* A tick in a program costs its process a tick, or the cpu.               *)
LEMMA ClockCalm ==
  ASSUME DemoInv, CalmRest, Clock, calm' PROVE CalmRest'
<1>1. /\ p_proc_ready \in Users /\ upc[p_proc_ready] = "user"
      /\ UNCHANGED <<p_flags, kernel, p_parent, mpc, mvar, upc, prog>>
  BY DEF Clock, Preempt, ipcVars, mmVars, userVars
<1>2. p_flags[MM] = {"RECEIVING"} /\ mpc = "got" /\ \A q \in Users : upc[q] # "mid"
  BY <1>1, CalmInProgram
<1>3. /\ Ticked \in [Slots -> Int] /\ Ticked[MM] = priority[MM]
      /\ \A p \in Slots : Ticked[p] <= priority[MM]
  <2>1. /\ tick \in [Slots -> Int] /\ p_proc_ready \in Slots /\ p_proc_ready # MM
        /\ tick[MM] = priority[MM] /\ \A p \in Slots : tick[p] <= priority[MM]
        /\ priority[MM] \in Nat
    BY <1>1 DEF CalmRest, TicksKept
  <2> QED
    BY <2>1 DEF Ticked
<1>4. /\ TicksKept'
      /\ p_proc_ready' # SYS
  <2>1. CASE tick' = Ticked /\ UNCHANGED ipcVars
    BY <1>1, <1>3, <2>1 DEF TicksKept, ipcVars
  <2>2. CASE Preempt /\ Schedule(Ticked)
    <3>1. TicksKept'
      BY <1>3, <2>2, OthersNext
    <3>2. p_proc_ready' # SYS
      BY <2>2 DEF Preempt, Runnable, DemoInv, PInv, FixedSlots
    <3> QED
      BY <3>1, <3>2
  <2> QED
    BY <2>1, <2>2 DEF Clock
<1>5. Lineage'
  BY <1>1 DEF CalmRest, Lineage
<1>6. Turns'
  BY <1>1, <1>2, <1>4 DEF CalmRest, Turns
<1>7. Unreaped' = Unreaped /\ \A c \in Vacant : IsEmpty(c)' = IsEmpty(c)
  BY <1>1 DEF Unreaped, Forked, IsEmpty
<1>8. ChildLives'
  BY <1>1, <1>2, <1>7, ChildStays DEF CalmRest
<1> QED
  BY <1>4, <1>5, <1>6, <1>8 DEF CalmRest

LEMMA CalmStutter ==
  ASSUME CalmRest, UNCHANGED demoVars PROVE CalmRest'
<1>1. Unreaped' = Unreaped /\ \A c \in Vacant : IsEmpty(c)' = IsEmpty(c)
  BY DEF demoVars, procVars, ipcVars, mmVars, userVars, Unreaped, Forked, IsEmpty
<1>2. Lineage' /\ Turns' /\ TicksKept'
  BY DEF demoVars, procVars, ipcVars, mmVars, userVars, CalmRest, Lineage, Turns, TicksKept
<1>3. UNCHANGED <<mpc, prog, upc, p_flags>>
  BY DEF demoVars, procVars, ipcVars, mmVars, userVars
<1>4. ChildLives'
  BY <1>1, <1>3 DEF CalmRest, ChildLives
<1> QED
  BY <1>2, <1>4 DEF CalmRest

\* Work with no tick nested in schedule().
CalmWork ==
  /\ calm
  /\ \/ ServerForks
     \/ Serve /\ Undisturbed /\ UNCHANGED prog
     \/ TaskSys /\ Undisturbed /\ UNCHANGED prog
     \/ \E p \in Users : Program(p) /\ Undisturbed

LEMMA CalmSteps ==
  ASSUME calm', DemoNext PROVE CalmWork \/ (calm /\ Clock)
<1>1. Dispatch => Undisturbed /\ calm
  BY DEF Dispatch
<1>2. ServerForks => calm
  BY DEF ServerForks
<1>3. Clock => calm
  BY DEF Clock
<1>4. ~ClockNested
  BY DEF ClockNested
<1>5. ASSUME Work PROVE CalmWork
  <2>1. CASE ServerForks
    BY <1>2, <2>1 DEF CalmWork
  <2>2. CASE Serve /\ Dispatch /\ UNCHANGED prog
    BY <1>1, <2>2 DEF CalmWork
  <2>3. CASE TaskSys /\ Dispatch /\ UNCHANGED prog
    BY <1>1, <2>3 DEF CalmWork
  <2>4. CASE \E p \in Users : Program(p) /\ Dispatch
    BY <1>1, <2>4 DEF CalmWork
  <2> QED
    BY <1>5, <2>1, <2>2, <2>3, <2>4 DEF Work, Server
<1> QED
  BY <1>3, <1>4, <1>5 DEF DemoNext

LEMMA CalmStep ==
  ASSUME DemoInv, CalmInv, [DemoNext]_demoVars PROVE CalmInv'
<1> SUFFICES ASSUME calm' PROVE CalmRest'
  BY DEF CalmInv
<1>1. DemoInv'
  BY DemoInvStep
<1>2. CASE CalmWork
  <2>1. CASE ServerForks
    BY <1>2, <2>1, ForkCopyCalm DEF CalmWork, CalmInv
  <2>2. CASE Serve /\ Undisturbed /\ UNCHANGED prog
    BY <1>1, <1>2, <2>2, ServeCalm DEF CalmWork, CalmInv
  <2>3. CASE TaskSys /\ Undisturbed /\ UNCHANGED prog
    BY <1>1, <1>2, <2>3, TaskSysCalm DEF CalmWork, CalmInv
  <2>4. ASSUME NEW p \in Users, Program(p), Undisturbed PROVE CalmRest'
    BY <1>1, <1>2, <2>4, ProgramCalm DEF CalmWork, CalmInv
  <2> QED
    BY <1>2, <2>1, <2>2, <2>3, <2>4 DEF CalmWork
<1>3. CASE calm /\ Clock
  BY <1>3, ClockCalm DEF CalmInv
<1>4. CASE UNCHANGED demoVars
  BY <1>4, CalmStutter DEF CalmInv, demoVars
<1> QED
  BY <1>2, <1>3, <1>4, CalmSteps

(* While the clock ticks only in programs, no step finds the child able to *)
(* run in Init's memory (fork.c:78) or schedule() without anybody to pick  *)
(* (proc.c:19), whatever the priorities below that of task_mm.             *)
THEOREM CalmStaysSafe == DemoSpec => []CalmIsSafe
<1>1. DemoInit => CalmInv
  BY InitCalm DEF CalmInv
<1>2. DemoInv /\ CalmInv => CalmIsSafe
  <2> SUFFICES ASSUME DemoInv, CalmRest PROVE ChildOwnsMemory /\ kernel = "up"
    BY DEF CalmInv, CalmIsSafe
  <2>1. ASSUME NEW c \in Vacant, p_flags[c] = {} PROVE ldt_base[c] = c
    <3>1. ~(mpc = "forkmem" /\ mvar.proc = c)
      <4> SUFFICES ASSUME mpc = "forkmem", mvar.proc = c PROVE FALSE
        OBVIOUS
      <4>1. upc[c] = "mid" /\ c \in Users
        BY <2>1 DEF DemoInv, PInv, JobInHand, Owed
      <4> QED
        BY <4>1 DEF CalmRest, Turns
    <3> QED
      BY <2>1, <3>1 DEF DemoInv, ChildWhere, IsEmpty
  <2> QED
    BY <2>1 DEF ChildOwnsMemory, CalmRest, Turns
<1>3. DemoInv /\ CalmInv /\ [DemoNext]_demoVars => CalmInv'
  BY CalmStep
<1> QED
  BY <1>1, <1>2, <1>3, DemoInvInductive, PTL DEF DemoSpec
-----------------------------------------------------------------------------
(* Who reports, while the clock ticks only in programs: a child is told    *)
(* that it is one before it runs, and once told it exits.                  *)

\* What the fork of c answers, from the time it is told.
Word(c) == mem[Loc(c, "u")].body

\* c is in the fork it was born in: told, or with task_mm at work on it.
InFork(c) ==
  /\ upc[c] = "back" /\ call[c] = "FORK"
  /\ \/ /\ "RECEIVING" \in p_flags[c] /\ p_msg[c] = "u"
        /\ mpc \in {"forkmem", "forksend"} /\ mvar.proc = c
     \/ /\ "RECEIVING" \notin p_flags[c]
        /\ ldt_base[c] = c /\ Word(c).pid = 0

Told(c) ==
  /\ prog[c] \in {"start", "child"}
  /\ ~IsEmpty(c) /\ prog[c] = "start" => InFork(c)
  /\ ~IsEmpty(c) /\ prog[c] = "child" /\ upc[c] # "user" => call[c] = "EXIT"

ToldInv == calm => \A c \in Vacant : Told(c)

(* A step that is about somebody else.                                     *)
LEMMA ToldKept ==
  ASSUME NEW c \in Vacant, Told(c), IsEmpty(c) => IsEmpty(c)',
         prog'[c] = prog[c], upc'[c] = upc[c], call'[c] = call[c],
         InFork(c) => InFork(c)'
  PROVE  Told(c)'
  BY DEF Told

\* Once told, c only has to be left alone.
LEMMA WordKept ==
  ASSUME NEW c \in Vacant, InFork(c), "RECEIVING" \notin p_flags[c],
         upc'[c] = upc[c], call'[c] = call[c], "RECEIVING" \notin p_flags'[c],
         ldt_base'[c] = ldt_base[c], mem'[<<c, "u">>] = mem[<<c, "u">>]
  PROVE  InFork(c)'
  BY DEF InFork, Word, Loc

LEMMA ToldPlaces ==
  ASSUME DemoInv, NEW c \in Vacant
  PROVE  /\ <<c, "u">> \in Location /\ c # FlatSeg /\ c \in Users
         /\ \A a : Loc(MM, a) # <<c, "u">> /\ Loc(INIT_PROC, a) # <<c, "u">>
         /\ \A d \in Vacant : d # c /\ ~IsEmpty(d) /\ ~(mpc = "forkmem" /\ mvar.proc = d) =>
              \A a : Loc(d, a) # <<c, "u">>
<1>1. c \in Segs \ {FlatSeg} /\ c \in Users /\ ldt_base[MM] = FlatSeg /\ ldt_base[INIT_PROC] = FlatSeg
  BY DEF DemoInv, PInv, FixedSlots, InitWhere
<1>2. \A d \in Vacant : ~IsEmpty(d) /\ ~(mpc = "forkmem" /\ mvar.proc = d) => ldt_base[d] = d
  BY DEF DemoInv, ChildWhere
<1> QED
  BY <1>1, <1>2 DEF Loc, Location

(* The answers of task_mm.                                                 *)
LEMMA SendTold ==
  ASSUME DemoInv, CalmRest, NEW at, InMM(at), at # "forkmem", NEW d \in Owed, NEW a \in {"mm", "m", "c"},
         NEW body \in Bodies, SysSend(MM, d, a, body), NEW c \in Vacant, Told(c),
         UNCHANGED <<prog, upc, call, ldt_base>>,
         d = c => body.pid = 0,
         at = "forksend" => d = mvar.proc
  PROVE  Told(c)'
<1>1. /\ p_flags[MM] = {} /\ mpc = at /\ \A p \in Users : upc[p] # "mid"
  BY CalmAtWork
<1>2. /\ d \in Users /\ "RECEIVING" \in p_flags[d] /\ (d = INIT_PROC \/ d \in Vacant) /\ ~IsEmpty(d)
      /\ d \in Slots
  BY <1>1, OwedWho DEF Owed
<1>3. Answered(d)
  BY <1>1, <1>2, ServerSend DEF DemoInv, Awaited
<1>4. p_flags \in [Slots -> SUBSET Flag] /\ c \in Slots
  BY DEF DemoInv, PInv, KernelTyped
<1>5. /\ p_flags' = [p_flags EXCEPT ![d] = @ \ {"RECEIVING"}]
      /\ IsEmpty(c) => IsEmpty(c)'
      /\ "RECEIVING" \notin p_flags[c] => "RECEIVING" \notin p_flags'[c]
  BY <1>2, <1>3, <1>4 DEF Answered, IsEmpty
<1>6. /\ \A l \in Location : l \notin {Loc(MM, a), Loc(d, p_msg[d])} => mem'[l] = mem[l]
      /\ mem'[Loc(d, p_msg[d])] = Stamp(MM, body)
  BY <1>1, <1>2, AnswerWrites DEF DemoInv
<1>7. ASSUME InFork(c) PROVE InFork(c)'
  <2>1. CASE d = c
    <3>1. p_msg[c] = "u" /\ "RECEIVING" \in p_flags[c]
      BY <1>2, <1>7, <2>1 DEF InFork
    <3>2. ldt_base[c] = c
      BY <1>1, <1>2, <2>1 DEF DemoInv, ChildWhere
    <3>3. Word(c)' = body
      BY <1>6, <2>1, <3>1, <3>2 DEF Word, Loc, Stamp
    <3>4. "RECEIVING" \notin p_flags'[c]
      BY <1>4, <1>5, <2>1
    <3> QED
      BY <1>7, <2>1, <3>2, <3>3, <3>4 DEF InFork
  <2>2. CASE d # c
    <3>1. "RECEIVING" \notin p_flags[c]
      BY <1>1, <1>7, <2>2 DEF InFork
    <3>2. Loc(d, p_msg[d]) # <<c, "u">> /\ Loc(MM, a) # <<c, "u">> /\ <<c, "u">> \in Location
      BY <1>1, <1>2, <2>2, ToldPlaces
    <3> QED
      BY <1>5, <1>6, <1>7, <3>1, <3>2, WordKept
  <2> QED
    BY <2>1, <2>2
<1> QED
  BY <1>5, <1>7, ToldKept

LEMMA SendsTold ==
  ASSUME DemoInv, CalmRest, MMReply \/ ForkSend \/ CleanupSend \/ DoWaitNoChild,
         UNCHANGED prog, NEW c \in Vacant, Told(c)
  PROVE  Told(c)'
<1>1. PICK at : InMM(at) /\ at = mpc
  BY DEF MMReply, ForkSend, CleanupSend, DoWaitNoChild, InMM
<1>2. /\ p_flags[MM] = {} /\ To = {}
      /\ mm_msg \in [source : Slots \cup {NO_TASK}, body : Bodies]
      /\ mvar \in Jobs /\ exit_status \in [Slots -> Ints]
  BY <1>1, ServerRuns DEF DemoInv, PInv, ServerTyped
<1>3. UNCHANGED <<prog, upc, call>>
  BY DEF MMReply, ForkSend, CleanupSend, DoWaitNoChild, userVars
<1>4. c # INIT_PROC
  OBVIOUS
<1>5. \A d, a, body : SysSend(MM, d, a, body) => UNCHANGED ldt_base
  BY DEF SysSend, SendDeliver, SendBlock
<1>6. CASE MMReply
  <2>1. mpc = "reply" /\ mvar.src \in Owed /\ mvar.src = INIT_PROC
    BY <1>6 DEF MMReply, InMM, DemoInv, PInv, JobInHand, InitServed
  <2>2. Ret(mvar.ret, mm_msg.body.pid) \in Bodies
    BY <1>2 DEF Ret, Bodies, Jobs
  <2>3. SysSend(MM, mvar.src, "mm", Ret(mvar.ret, mm_msg.body.pid))
    BY <1>6 DEF MMReply
  <2> QED
    BY <1>1, <1>3, <1>4, <1>5, <2>1, <2>2, <2>3, SendTold
<1>7. CASE ForkSend
  <2>1. mpc = "forksend" /\ mvar.proc \in Owed
    BY <1>7 DEF ForkSend, InMM, DemoInv, PInv, JobInHand
  <2>2. Ret(0, 0) \in Bodies /\ Ret(0, 0).pid = 0 /\ SysSend(MM, mvar.proc, "m", Ret(0, 0))
    BY <1>7 DEF ForkSend, Ret, Bodies, Ints
  <2> QED
    BY <1>1, <1>3, <1>5, <2>1, <2>2, SendTold
<1>8. CASE CleanupSend
  <2>1. /\ mpc = "cleanup" /\ p_parent[mvar.proc] \in Owed
        /\ call[p_parent[mvar.proc]] = "WAIT" /\ mvar.proc \in Vacant
    BY <1>8 DEF CleanupSend, InMM, DemoInv, PInv, JobInHand, Leaving
  <2>2. p_parent[mvar.proc] = INIT_PROC
    BY <2>1 DEF Owed, CalmRest, Lineage
  <2>3. /\ Report(mvar.proc) \in Bodies
        /\ SysSend(MM, p_parent[mvar.proc], "c", Report(mvar.proc))
    BY <1>2, <1>8, <2>1 DEF CleanupSend, Report, Ret, Bodies, Ints
  <2> QED
    BY <1>1, <1>3, <1>4, <1>5, <2>1, <2>2, <2>3, SendTold
<1>9. CASE DoWaitNoChild
  <2>1. mpc = "nochild" /\ mvar.src \in Owed /\ call[mvar.src] = "WAIT" /\ mvar.src # INIT_PROC
    BY <1>9 DEF DoWaitNoChild, InMM, DemoInv, PInv, JobInHand, InitServed
  <2>2. Ret(Garbage, NO_TASK) \in Bodies /\ SysSend(MM, mvar.src, "c", Ret(Garbage, NO_TASK))
    BY <1>9 DEF DoWaitNoChild, Ret, Bodies, Ints
  <2>3. mvar.src # c
    <3> SUFFICES ASSUME mvar.src = c PROVE FALSE
      OBVIOUS
    <3>1. ~IsEmpty(c) /\ upc[c] # "user" /\ call[c] = "WAIT"
      BY <2>1, OwedWho
    <3> QED
      BY <3>1 DEF Told, InFork
  <2> QED
    BY <1>1, <1>3, <1>5, <2>1, <2>2, <2>3, SendTold
<1> QED
  BY <1>6, <1>7, <1>8, <1>9

(* The steps of task_mm that send nothing.                                 *)
LEMMA QuietTold ==
  ASSUME DemoInv, NEW c \in Vacant, Told(c), UNCHANGED <<prog, upc, call, ldt_base>>,
         mpc \notin {"forkmem", "forksend"},
         mem'[<<c, "u">>] = mem[<<c, "u">>],
         IsEmpty(c) => IsEmpty(c)',
         "RECEIVING" \in p_flags'[c] => "RECEIVING" \in p_flags[c]
  PROVE  Told(c)'
<1>1. ASSUME InFork(c) PROVE InFork(c)'
  BY <1>1, WordKept DEF InFork
<1> QED
  BY <1>1, ToldKept

LEMMA ServeTold ==
  ASSUME DemoInv, DemoInv', CalmRest, Serve, UNCHANGED prog, NEW c \in Vacant, Told(c)
  PROVE  Told(c)'
<1>1. p_flags \in [Slots -> SUBSET Flag] /\ c \in Slots /\ c # MM
  BY DEF DemoInv, PInv, KernelTyped
<1>2. c \in Users /\ <<c, "u">> \in Location /\ \A a : Loc(MM, a) # <<c, "u">>
  BY ToldPlaces
<1>3. CASE MMReceive
  <2>1. mpc = "idle" /\ UNCHANGED <<upc, call>>
    BY <1>3 DEF MMReceive, InMM, userVars
  <2>2. ReceiveBlock(MM, ANY, "mm", Zero)
    BY <1>3 DEF MMReceive, SysReceive, ReceiveTake, ReceiveTrap, From, DemoInv, PInv, KernelTyped
  <2>3. /\ mem' = [mem EXCEPT ![Loc(MM, "mm")] = Stamp(MM, Zero)] /\ UNCHANGED ldt_base
        /\ p_flags' = [p_flags EXCEPT ![MM] = @ \cup {"RECEIVING"}]
    BY <2>2 DEF ReceiveBlock, BlockAndSchedule
  <2> QED
    BY <1>1, <1>2, <2>1, <2>3, QuietTold DEF IsEmpty
<1>4. CASE ForkMemory
  <2>1. /\ mpc = "forkmem" /\ InMM("forkmem") /\ mpc' = "forksend"
        /\ UNCHANGED <<p_flags, p_msg, mvar, upc, call>>
        /\ mvar.proc \in Vacant
    BY <1>4 DEF ForkMemory, InMM, userVars, DemoInv, PInv, JobInHand
  <2>2. /\ ldt_base' = [ldt_base EXCEPT ![mvar.proc] = mvar.proc]
        /\ mvar.proc # c => mem'[<<c, "u">>] = mem[<<c, "u">>]
    BY <1>2, <1>4, <2>1, ToldPlaces DEF ForkMemory, ChildBase, mm_msg
  <2>3. ASSUME InFork(c) PROVE InFork(c)'
    <3>1. CASE "RECEIVING" \in p_flags[c]
      BY <2>1, <2>3, <3>1 DEF InFork
    <3>2. CASE "RECEIVING" \notin p_flags[c]
      <4>1. mvar.proc # c
        BY <2>1, <3>2, CalmAtWork DEF DemoInv, PInv, JobInHand, Owed
      <4>2. ldt_base'[c] = ldt_base[c]
        BY <1>1, <2>2, <4>1 DEF DemoInv, PInv, KernelTyped
      <4> QED
        BY <2>1, <2>2, <2>3, <3>2, <4>1, <4>2, WordKept
    <3> QED
      BY <3>1, <3>2
  <2> QED
    BY <2>1, <2>3, ToldKept DEF IsEmpty
<1>5. CASE CleanupFree
  <2>1. /\ mpc = "free" /\ p_flags' = [p_flags EXCEPT ![mvar.proc] = {"EMPTY"}]
        /\ UNCHANGED <<upc, call, mem, ldt_base>>
    BY <1>5 DEF CleanupFree, InMM, userVars
  <2> QED
    BY <1>1, <2>1, QuietTold DEF IsEmpty
<1>6. CASE DoExit
  <2> DEFINE pid == mm_msg.source
             parent == p_parent[pid]
  <2>1. /\ mpc = "got" /\ UNCHANGED <<upc, call, mem, ldt_base>>
        /\ \/ p_flags' = [p_flags EXCEPT ![parent] = @ \ {"WAITING"}]
           \/ p_flags' = [p_flags EXCEPT ![pid] = @ \cup {"HANGING"}]
    BY <1>6 DEF DoExit, InMM, userVars
  <2>2. pid \in Owed
    BY <1>6, AtWork DEF DoExit
  <2>3. ~IsEmpty(pid)
    BY <2>2, OwedWho
  <2> HIDE DEF pid, parent
  <2> QED
    BY <1>1, <2>1, <2>3, QuietTold DEF IsEmpty
<1>7. CASE DoExitReparent
  <2>1. InMM("reparent") /\ mpc = "reparent"
    BY <1>7 DEF DoExitReparent, InMM
  <2>2. {q \in Children(mvar.src) : q >= mvar.i - 1} = {}
    BY <2>1 DEF Children, CalmRest, Lineage
  <2>3. Reaped({}) = {}
    BY DEF Reaped, Zombies
  <2>4. UNCHANGED <<p_flags, upc, call, mem, ldt_base>>
    BY <1>7, <2>2, <2>3 DEF DoExitReparent, userVars
  <2> QED
    BY <2>1, <2>4, QuietTold DEF IsEmpty
<1>8. CASE DoWait
  <2> DEFINE pid == mm_msg.source
  <2>1. /\ mpc = "got" /\ UNCHANGED <<upc, call, mem, ldt_base>>
        /\ \/ p_flags' = p_flags
           \/ p_flags' = [p_flags EXCEPT ![pid] = @ \cup {"WAITING"}]
    BY <1>8 DEF DoWait, InMM, userVars
  <2>2. ~IsEmpty(pid)
    BY <1>8, AtWork, OwedWho DEF DoWait
  <2> HIDE DEF pid
  <2> QED
    BY <1>1, <2>1, <2>2, QuietTold DEF IsEmpty
<1> QED
  BY <1>3, <1>4, <1>5, <1>6, <1>7, <1>8, NoAnswerAtOnce, SendsTold DEF Serve

(* The child is made while Init waits for the answer of its fork.          *)
LEMMA ForkCopyTold ==
  ASSUME DemoInv, CalmRest, ServerForks, NEW c \in Vacant, Told(c)
  PROVE  Told(c)'
<1> DEFINE child == Least({p \in Slots : IsEmpty(p)})
<1>1. /\ InMM("got") /\ mpc = "got" /\ mm_msg.source = INIT_PROC /\ INIT_PROC \in Owed
      /\ mm_msg.body.type = "FORK" /\ p_flags[MM] = {}
      /\ \A p \in Users : upc[p] # "mid"
  BY AtWork, CalmAtWork DEF ServerForks, ForkCopy, InMM
<1>2. /\ call[INIT_PROC] = "FORK" /\ prog[INIT_PROC] = "start" /\ upc[INIT_PROC] = "back"
      /\ "RECEIVING" \in p_flags[INIT_PROC] /\ p_msg[INIT_PROC] = "u"
  <2>1. call[INIT_PROC] = "FORK"
    BY <1>1 DEF DemoInv, PInv, JobInHand
  <2>2. upc[INIT_PROC] # "user" /\ upc[INIT_PROC] # "mid" /\ INIT_PROC \in Slots
    BY <1>1, OwedWho
  <2>3. upc[INIT_PROC] = "back"
    BY <2>2 DEF DemoInv, PInv, ServerTyped
  <2>4. "RECEIVING" \in p_flags[INIT_PROC]
    BY <1>1, <2>3, OwedWho
  <2> QED
    BY <2>1, <2>3, <2>4 DEF DemoInv, InitWhere
<1>3. /\ p_flags' = [p_flags EXCEPT ![child] = p_flags[INIT_PROC]]
      /\ p_msg' = [p_msg EXCEPT ![child] = p_msg[INIT_PROC]]
      /\ ldt_base' = [ldt_base EXCEPT ![child] = ldt_base[INIT_PROC]]
      /\ upc' = [upc EXCEPT ![child] = upc[INIT_PROC]]
      /\ call' = [call EXCEPT ![child] = call[INIT_PROC]]
      /\ prog' = [prog EXCEPT ![child] = prog[INIT_PROC]]
      /\ mpc' = "forkmem" /\ mvar'.proc = child
      /\ UNCHANGED mem
  BY <1>1 DEF ServerForks, ForkCopy
<1> HIDE DEF child
<1>4. /\ p_flags \in [Slots -> SUBSET Flag] /\ p_msg \in [Slots -> Addr \cup {NULL}]
      /\ ldt_base \in [Slots -> Segs] /\ c \in Slots
      /\ upc \in [Slots -> {"user", "mid", "back"}] /\ call \in [Slots -> {"NONE", "FORK", "EXIT", "WAIT", "EXEC", "GET_TICKS"}]
      /\ prog \in [Slots -> {"start", "parent", "child", "loop"}]
  BY DEF DemoInv, PInv, KernelTyped, ServerTyped, ProgTyped
<1>5. CASE child = c
  BY <1>2, <1>3, <1>4, <1>5 DEF Told, InFork
<1>6. CASE child # c
  <2>1. /\ p_flags'[c] = p_flags[c] /\ ldt_base'[c] = ldt_base[c]
        /\ upc'[c] = upc[c] /\ call'[c] = call[c] /\ prog'[c] = prog[c]
    BY <1>3, <1>4, <1>6
  <2>2. InFork(c) => InFork(c)'
    BY <1>1, <1>3, <2>1, WordKept DEF InFork
  <2> QED
    BY <2>1, <2>2, ToldKept DEF IsEmpty
<1> QED
  BY <1>5, <1>6
-----------------------------------------------------------------------------
(* A user process in its program or in a call: nobody is in the middle of  *)
(* being forked, and it writes only where it lives.                        *)
LEMMA ProgramPlaces ==
  ASSUME DemoInv, CalmRest, NEW p \in Users, kernel = "up", p_proc_ready = p,
         NEW c \in Vacant
  PROVE  /\ mpc = "got" /\ p_flags[p] = {} /\ ~IsEmpty(p) /\ c # MM
         /\ \A a : Loc(MM, a) # <<c, "u">>
         /\ p # c => Loc(p, "u") # <<c, "u">>
         /\ <<c, "u">> \in Location
<1>1. p_flags[p] = {} /\ (p = INIT_PROC \/ (p \in Vacant /\ ~IsEmpty(p)))
  BY Running
<1>2. mpc = "got"
  BY CalmInProgram DEF CalmRest, Turns
<1> QED
  BY <1>1, <1>2, ToldPlaces DEF IsEmpty

LEMMA CallSendTold ==
  ASSUME DemoInv, CalmRest, NEW p \in Users, NEW request \in Bodies, CallSend(p, request),
         UNCHANGED prog, NEW c \in Vacant, Told(c),
         prog[p] = "child" => request.type = "EXIT"
  PROVE  Told(c)'
<1>1. /\ upc[p] = "user" /\ SysSend(p, MM, "u", request)
      /\ upc' = [upc EXCEPT ![p] = "mid"] /\ call' = [call EXCEPT ![p] = request.type]
  BY DEF CallSend
<1>2. kernel = "up" /\ p_proc_ready = p
  BY <1>1 DEF SysSend, SendDeliver, SendBlock, Calls
<1>3. /\ mpc = "got" /\ p_flags[p] = {} /\ ~IsEmpty(p) /\ c # MM
      /\ \A a : Loc(MM, a) # <<c, "u">>
      /\ p # c => Loc(p, "u") # <<c, "u">>
      /\ <<c, "u">> \in Location
  BY <1>2, ProgramPlaces
<1>4. Taken(p, request) \/ Stuck(p)
  BY <1>1, <1>3, ClientSend DEF DemoInv
<1>5. /\ p_flags \in [Slots -> SUBSET Flag] /\ c \in Slots
      /\ upc \in [Slots -> {"user", "mid", "back"}]
      /\ call \in [Slots -> {"NONE", "FORK", "EXIT", "WAIT", "EXEC", "GET_TICKS"}]
  BY DEF DemoInv, PInv, KernelTyped, ServerTyped
<1>6. CASE p # c
  <2>1. p_flags'[c] = p_flags[c] /\ upc'[c] = upc[c] /\ call'[c] = call[c]
    BY <1>1, <1>3, <1>4, <1>5, <1>6 DEF Taken, Stuck
  <2>2. mem'[<<c, "u">>] = mem[<<c, "u">>]
    BY <1>1, <1>3, <1>6, RequestWrites DEF DemoInv
  <2>3. UNCHANGED ldt_base
    BY <1>1 DEF SysSend, SendDeliver, SendBlock
  <2> QED
    BY <1>3, <2>1, <2>2, <2>3, QuietTold, ToldKept, WordKept DEF InFork, IsEmpty
<1>7. CASE p = c
  <2>1. prog[c] = "child"
    BY <1>1, <1>3, <1>7 DEF Told, InFork
  <2>2. call'[c] = "EXIT" /\ prog'[c] = "child"
    BY <1>5, <1>1, <1>7, <2>1
  <2> QED
    BY <2>2 DEF Told
<1> QED
  BY <1>6, <1>7

LEMMA CallReceiveTold ==
  ASSUME DemoInv, CalmRest, NEW p \in Users, CallReceive(p), UNCHANGED prog,
         NEW c \in Vacant, Told(c)
  PROVE  Told(c)'
<1>1. /\ upc[p] = "mid" /\ SysReceive(p, MM, "u", mem[Loc(p, "u")].body)
      /\ upc' = [upc EXCEPT ![p] = "back"] /\ UNCHANGED call
  BY DEF CallReceive
<1>2. kernel = "up" /\ p_proc_ready = p /\ p_flags[MM] = {}
  BY <1>1 DEF CalmRest, Turns
<1>3. /\ mpc = "got" /\ p_flags[p] = {} /\ ~IsEmpty(p) /\ c # MM
      /\ p # c => Loc(p, "u") # <<c, "u">>
      /\ <<c, "u">> \in Location
  BY <1>2, ProgramPlaces
<1>4. ReceiveBlock(p, MM, "u", mem[Loc(p, "u")].body)
  BY <1>1, <1>2 DEF SysReceive, ReceiveTake, ReceiveTrap, From
<1>5. /\ p_flags' = [p_flags EXCEPT ![p] = @ \cup {"RECEIVING"}] /\ UNCHANGED ldt_base
  BY <1>4 DEF ReceiveBlock, BlockAndSchedule
<1>6. /\ p_flags \in [Slots -> SUBSET Flag] /\ c \in Slots
      /\ upc \in [Slots -> {"user", "mid", "back"}]
  BY DEF DemoInv, PInv, KernelTyped, ServerTyped
<1>7. CASE p # c
  <2>1. p_flags'[c] = p_flags[c] /\ upc'[c] = upc[c]
    BY <1>1, <1>5, <1>6, <1>7
  <2>2. mem'[<<c, "u">>] = mem[<<c, "u">>]
    BY <1>1, <1>3, <1>7, ReceiveWrites DEF DemoInv
  <2> QED
    BY <1>1, <1>3, <1>5, <2>1, <2>2, ToldKept, WordKept DEF InFork, IsEmpty
<1>8. CASE p = c
  <2>1. prog[c] = "child" /\ call[c] = "EXIT"
    BY <1>1, <1>3, <1>8 DEF Told, InFork
  <2> QED
    BY <1>1, <2>1 DEF Told
<1> QED
  BY <1>7, <1>8

(* Fork tells the child 0, and exit does not return.                       *)
LEMMA CallReturnTold ==
  ASSUME DemoInv, CalmRest, NEW p \in Users, CallReturn(p), NEW c \in Vacant, Told(c),
         prog' = [prog EXCEPT ![p] =
                    IF call[p] # "FORK" THEN "loop"
                    ELSE IF mem[Loc(p, "u")].body.pid # 0 THEN "parent" ELSE "child"]
  PROVE  Told(c)'
<1>1. /\ kernel = "up" /\ p_proc_ready = p /\ upc[p] = "back"
      /\ upc' = [upc EXCEPT ![p] = "user"]
      /\ UNCHANGED <<p_flags, p_msg, mem, ldt_base, mpc, mvar, call>>
  BY DEF CallReturn, Calls, ipcVars, mmVars
<1>2. p_flags[p] = {} /\ ~IsEmpty(p)
  BY <1>1, ProgramPlaces
<1>3. /\ upc \in [Slots -> {"user", "mid", "back"}] /\ c \in Slots
      /\ prog \in [Slots -> {"start", "parent", "child", "loop"}]
  BY DEF DemoInv, PInv, ServerTyped, ProgTyped
<1>4. CASE p # c
  BY <1>1, <1>3, <1>4, ToldKept DEF InFork, Word, Loc, IsEmpty
<1>5. CASE p = c
  <2>1. prog[c] # "child"
    BY <1>1, <1>2, <1>5 DEF Told, DemoInv, PInv, ExitBlocks
  <2>2. call[c] = "FORK" /\ mem[Loc(c, "u")].body.pid = 0
    BY <1>2, <1>5, <2>1 DEF Told, InFork, Word
  <2>3. prog'[c] = "child" /\ upc'[c] = "user"
    BY <1>1, <1>3, <1>5, <2>2
  <2> QED
    BY <2>3 DEF Told
<1> QED
  BY <1>4, <1>5

LEMMA ProgramTold ==
  ASSUME DemoInv, CalmRest, NEW p \in Users, Program(p), NEW c \in Vacant, Told(c)
  PROVE  Told(c)'
<1>1. CASE CallReceive(p) /\ UNCHANGED prog
  BY <1>1, CallReceiveTold
<1>2. CASE prog[p] = "start" /\ ForkCall(p) /\ UNCHANGED prog
  <2>1. PICK stale \in StalePids : CallSend(p, Request("FORK", Garbage, stale))
    BY <1>2 DEF ForkCall
  <2>2. Request("FORK", Garbage, stale) \in Bodies
    BY DEF Request, Bodies, Ints
  <2> QED
    BY <1>2, <2>1, <2>2, CallSendTold
<1>3. CASE prog[p] = "parent" /\ WaitCall(p) /\ UNCHANGED prog
  <2>1. Request("WAIT", Garbage, Garbage) \in Bodies
    BY DEF Request, Bodies, Ints
  <2> QED
    BY <1>3, <2>1, CallSendTold DEF WaitCall
<1>4. CASE prog[p] = "child" /\ ExitCall(p, 7) /\ UNCHANGED prog
  <2>1. Request("EXIT", 7, Garbage) \in Bodies /\ Request("EXIT", 7, Garbage).type = "EXIT"
    BY DEF Request, Bodies, Ints
  <2> QED
    BY <1>4, <2>1, CallSendTold DEF ExitCall
<1> QED
  BY <1>1, <1>2, <1>3, <1>4, CallReturnTold DEF Program

(* A step that leaves the processes and their memory as they are.          *)
LEMMA StillTold ==
  ASSUME NEW c \in Vacant, Told(c),
         UNCHANGED <<p_flags, p_msg, ldt_base, mem, mmVars, userVars, prog>>
  PROVE  Told(c)'
  BY DEF mmVars, userVars, Told, InFork, Word, Loc, IsEmpty

LEMMA ToldStep ==
  ASSUME DemoInv, CalmInv, ToldInv, [DemoNext]_demoVars PROVE ToldInv'
<1> SUFFICES ASSUME calm', NEW c \in Vacant PROVE Told(c)'
  BY DEF ToldInv
<1>1. DemoInv'
  BY DemoInvStep
<1>2. CASE CalmWork
  <2>1. CalmRest /\ Told(c)
    BY <1>2 DEF CalmWork, CalmInv, ToldInv
  <2>2. CASE ServerForks
    BY <2>1, <2>2, ForkCopyTold
  <2>3. CASE Serve /\ Undisturbed /\ UNCHANGED prog
    BY <1>1, <2>1, <2>3, ServeTold
  <2>4. CASE TaskSys /\ UNCHANGED prog
    <3>1. ReceiveBlock(SYS, ANY, "s", Zero) /\ p_proc_ready = SYS
      BY <2>4 DEF TaskSys, SysReceive, ReceiveTake, ReceiveTrap, ReceiveBlock, Calls, From,
                  DemoInv, PInv, KernelTyped
    <3>2. mpc = "idle" /\ c # SYS /\ c \in Slots
      BY <3>1, <2>1 DEF CalmRest, Turns
    <3>3. /\ mem' = [mem EXCEPT ![Loc(SYS, "s")] = Stamp(SYS, Zero)] /\ UNCHANGED ldt_base
          /\ p_flags' = [p_flags EXCEPT ![SYS] = @ \cup {"RECEIVING"}]
      BY <3>1 DEF ReceiveBlock, BlockAndSchedule
    <3>4. mem'[<<c, "u">>] = mem[<<c, "u">>]
      BY <3>3, ToldPlaces, <2>1 DEF Loc
    <3>5. /\ p_flags'[c] = p_flags[c]
          /\ upc' = [upc EXCEPT ![SYS] = "back"] /\ UNCHANGED call
      BY <2>4, <3>2, <3>3 DEF TaskSys, DemoInv, PInv, KernelTyped
    <3>6. upc'[c] = upc[c]
      BY <3>2, <3>5 DEF DemoInv, PInv, ServerTyped
    <3> QED
      BY <2>1, <2>4, <3>2, <3>3, <3>4, <3>5, <3>6, ToldKept, WordKept DEF InFork, IsEmpty
  <2>5. ASSUME NEW p \in Users, Program(p) PROVE Told(c)'
    BY <2>1, <2>5, ProgramTold
  <2> QED
    BY <1>2, <2>2, <2>3, <2>4, <2>5 DEF CalmWork
<1>3. CASE calm /\ Clock
  <2>1. UNCHANGED <<p_flags, p_msg, ldt_base, mem, mmVars, userVars, prog>>
    BY <1>3 DEF Clock, Preempt, ipcVars
  <2> QED
    BY <1>3, <2>1, StillTold DEF ToldInv
<1>4. CASE UNCHANGED demoVars
  <2>1. UNCHANGED <<p_flags, p_msg, ldt_base, mem, mmVars, userVars, prog>> /\ calm
    BY <1>4 DEF demoVars, procVars, ipcVars
  <2> QED
    BY <2>1, StillTold DEF ToldInv
<1> QED
  BY <1>2, <1>3, <1>4, CalmSteps

(* As long as the clock ticks only in programs, no child ever takes the    *)
(* branch of the parent (main.c:175): line 179 is printed by Init alone,   *)
(* of whose wait StatusIsRight speaks.                                     *)
THEOREM InitReports == DemoSpec => []OnlyInitReports
<1>1. DemoInit => CalmInv /\ ToldInv
  <2>1. ASSUME DemoInit, NEW c \in Vacant PROVE Told(c)
    BY <2>1 DEF DemoInit, ProcInit, IpcInit, Told, IsEmpty
  <2> QED
    BY <2>1, InitCalm DEF CalmInv, ToldInv
<1>2. ToldInv => OnlyInitReports
  BY DEF ToldInv, Told, OnlyInitReports
<1>3. DemoInv /\ CalmInv /\ ToldInv /\ [DemoNext]_demoVars => CalmInv' /\ ToldInv'
  BY CalmStep, ToldStep
<1> QED
  BY <1>1, <1>2, <1>3, DemoInvInductive, PTL DEF DemoSpec
=============================================================================
