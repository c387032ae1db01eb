----------------------------- MODULE ProcProofs -----------------------------
(* Proofs about ProcClients: the process manager under any number of       *)
(* clients that fork, wait, exec and exit as often as they like, with the  *)
(* clock free to preempt them and task_mm between any two steps.           *)
EXTENDS ProcClients, WellFoundedInduction, TLAPS

(* Types of what the kernel keeps, and of what task_mm and its clients do. *)
(* No slot ever gets a send queue, as in IpcProofs.                        *)
KernelTyped ==
  /\ p_flags \in [Slots -> SUBSET Flag]
  /\ p_msg \in [Slots -> Addr \cup {NULL}]
  /\ p_recvfrom \in [Slots -> Slots \cup {ANY, NO_TASK}]
  /\ p_sendto \in [Slots -> Slots \cup {NO_TASK}]
  /\ q_sending = [p \in Slots |-> NULL]
  /\ ldt_base \in [Slots -> Segs]
  /\ mem \in [Location -> Message]
  /\ p_proc_ready \in Slots

Jobs == [src : Slots, ret : Ints, proc : Slots, i : Nat]

ServerTyped ==
  /\ p_parent \in [Slots -> Slots \cup {NO_TASK}]
  /\ exit_status \in [Slots -> Ints]
  /\ upc \in [Slots -> {"user", "mid", "back"}]
  /\ call \in [Slots -> {"NONE", "FORK", "EXIT", "WAIT", "EXEC", "GET_TICKS"}]
  /\ mpc \in {"idle", "got", "reply", "forkmem", "forksend", "cleanup", "free",
              "reparent", "nochild"}
  /\ mvar \in Jobs

Alive(p) == \A f \in p_flags[p] : f \notin {"UNSTARTED", "EMPTY", "HANGING"}

(* task_sys and whatever kernel_main did not start never run; task_mm and  *)
(* INIT_PROC are there for good, task_mm in the segment at 0.              *)
FixedSlots ==
  /\ \A p \in Slots \ (Started \cup Vacant) : "UNSTARTED" \in p_flags[p]
  /\ p_flags[SYS] \subseteq {"UNSTARTED", "RECEIVING"}
  /\ p_flags[MM] \in {{}, {"RECEIVING"}, {"SENDING"}}
  /\ Alive(INIT_PROC) /\ call[INIT_PROC] # "EXIT"
  /\ ldt_base[MM] = FlatSeg

(* How the bits of a user process go with the place where it is in a call. *)
BitsOf(p) ==
  /\ \/ p_flags[p] \in {{"SENDING"}, {"EMPTY"}, {"UNSTARTED"}}
     \/ p_flags[p] \subseteq {"RECEIVING", "WAITING"}
     \/ p_flags[p] \subseteq {"RECEIVING", "HANGING"}
  /\ "EMPTY" \in p_flags[p] => p \in Vacant
  /\ "SENDING" \in p_flags[p] => upc[p] = "mid"
  /\ "RECEIVING" \in p_flags[p] => upc[p] = "back" /\ p_recvfrom[p] = MM
  /\ "WAITING" \in p_flags[p] =>
       (upc[p] = "mid" \/ "RECEIVING" \in p_flags[p]) /\ call[p] = "WAIT"
  /\ "HANGING" \in p_flags[p] =>
       upc[p] # "user" /\ call[p] = "EXIT" /\ exit_status[p] \in Statuses
  /\ p_msg[p] # "mm"

UserBits == \A p \in Users : BitsOf(p)

(* A process inside exit never gets an answer.                             *)
ExitBlocks ==
  \A p \in Users : call[p] = "EXIT" /\ upc[p] = "back" =>
    "RECEIVING" \in p_flags[p] \/ "EMPTY" \in p_flags[p]

\* Only a process that can run has the cpu, or task_sys at the start.
CpuRuns == kernel = "up" => p_proc_ready = SYS \/ p_flags[p_proc_ready] = {}

(* The callers task_mm has still to do something for.                      *)
Owed == {p \in Users : /\ p_flags[p] \subseteq {"RECEIVING"}
                       /\ upc[p] = "mid" \/ "RECEIVING" \in p_flags[p]}

\* Who task_mm is blocked sending to.
To == IF "SENDING" \in p_flags[MM] THEN {p_sendto[MM]} ELSE {}

(* task_mm blocks only in receive, and in a send to a user process that    *)
(* has yet to receive and that is not in exit.                             *)
ServerBits ==
  /\ "RECEIVING" \in p_flags[MM] =>
       mpc = "got" /\ p_recvfrom[MM] = ANY /\ p_msg[MM] = "mm"
  /\ "SENDING" \in p_flags[MM] => mpc \in {"idle", "reply", "free"}
  /\ \A d \in To : /\ d \in Users /\ call[d] # "EXIT"
                   /\ "RECEIVING" \notin p_flags[d] /\ upc[d] # "user"
                   /\ kernel = "up" => upc[d] = "mid"

(* A process in an exit that task_mm is at work on.                        *)
Leaving(p) == p \in Vacant /\ call[p] = "EXIT" /\ upc[p] # "user"

(* What task_mm has in hand, and that it owes nothing to anybody else.     *)
JobInHand ==
  /\ mpc = "idle" => Owed \subseteq To
  /\ mpc = "got" /\ p_flags[MM] # {} => Owed = {}
  /\ mpc = "got" /\ p_flags[MM] = {} =>
       LET s == mm_msg.source
       IN  /\ s \in Owed /\ Owed \subseteq {s} /\ call[s] = mm_msg.body.type
           /\ mm_msg.body.type = "EXIT" => mm_msg.body.val \in Statuses
  /\ mpc = "reply" => /\ mvar.src \in Owed \ To /\ call[mvar.src] # "EXIT"
                      /\ Owed \subseteq {mvar.src} \cup To
  /\ mpc \in {"forkmem", "forksend"} =>
       /\ mvar.src \in Owed /\ call[mvar.src] # "EXIT"
       /\ mvar.proc \in Owed \cap Vacant /\ call[mvar.proc] # "EXIT"
       /\ mvar.src # mvar.proc
       /\ Owed \subseteq {mvar.src, mvar.proc}
  /\ mpc = "nochild" => /\ mvar.src \in Owed /\ call[mvar.src] = "WAIT"
                        /\ Owed \subseteq {mvar.src}
  /\ mpc = "cleanup" =>
       LET parent == p_parent[mvar.proc]
       IN  /\ parent \in Owed /\ call[parent] = "WAIT"
           /\ exit_status[mvar.proc] \in Statuses
           /\ Owed \subseteq {parent, mvar.proc}
  /\ mpc = "free" => Owed \subseteq {mvar.proc} \cup To
  /\ mpc \in {"cleanup", "free"} =>
       /\ Leaving(mvar.proc)
       /\ "HANGING" \in p_flags[mvar.proc] \/ (mvar.i = 1 /\ mvar.proc = mvar.src)
  /\ mpc = "reparent" => Owed = {}

(* The children the loop of do_exit has not come to yet.                   *)
LeftBehind(c) ==
  /\ mpc \in {"cleanup", "free", "reparent"} /\ mvar.i # 0
  /\ p_parent[c] = mvar.src /\ c >= mvar.i - 1

(* Every process but INIT has a parent that is alive, or is about to get   *)
(* INIT for one.                                                           *)
ParentsAlive ==
  \A c \in Vacant : ~IsEmpty(c) =>
    /\ p_parent[c] \in Users
    /\ Alive(p_parent[c]) \/ LeftBehind(c)

(* NoMissedZombie, at any time.                                            *)
NeverMissed ==
  \A p, c \in Slots :
    ~("WAITING" \in p_flags[p] /\ "HANGING" \in p_flags[c] /\ p_parent[c] = p)

PInv ==
  /\ KernelTyped /\ ServerTyped
  /\ FixedSlots
  /\ UserBits
  /\ ExitBlocks
  /\ CpuRuns
  /\ ServerBits
  /\ JobInHand
  /\ ParentsAlive
  /\ NeverMissed

USE SlotsAssumption, MemoryAssumption, ProcMgrAssumption, BodyAssumption DEF Users
-----------------------------------------------------------------------------
(* What kernel_main leaves satisfies the invariant.                        *)
LEMMA InitPInv == ProcInit => PInv
<1> SUFFICES ASSUME ProcInit PROVE PInv
  OBVIOUS
<1> USE DEF ProcInit, IpcInit
<1>1. KernelTyped /\ ServerTyped
  BY DEF KernelTyped, ServerTyped, Jobs, Flag, Location, Message, Body, Stamp, Ints
<1>2. FixedSlots /\ UserBits /\ ExitBlocks /\ CpuRuns
  BY DEF FixedSlots, UserBits, BitsOf, ExitBlocks, CpuRuns, Alive
<1>3. ServerBits
  BY DEF ServerBits, To
<1>4. JobInHand
  BY DEF JobInHand, Owed, To
<1>5. ParentsAlive /\ NeverMissed
  BY DEF ParentsAlive, NeverMissed, IsEmpty
<1> QED
  BY <1>1, <1>2, <1>3, <1>4, <1>5 DEF PInv

(* A step that leaves all but the running process as it was.               *)
LEMMA PreemptPInv ==
  PInv /\ Preempt /\ UNCHANGED <<mmVars, userVars>> => PInv'
<1> SUFFICES ASSUME PInv, Preempt, UNCHANGED <<mmVars, userVars>>
             PROVE  PInv'
  OBVIOUS
<1>1. /\ UNCHANGED <<p_flags, p_msg, p_recvfrom, p_sendto, q_sending, next_sending,
                     ldt_base, mem, kernel, p_parent, exit_status, mpc, mvar, upc, call>>
      /\ p_proc_ready' \in Slots /\ p_flags[p_proc_ready'] = {}
  BY DEF Preempt, mmVars, userVars, Runnable
<1>2. KernelTyped' /\ ServerTyped'
  BY <1>1 DEF PInv, KernelTyped, ServerTyped
<1>3. FixedSlots' /\ UserBits' /\ ExitBlocks' /\ CpuRuns'
  BY <1>1 DEF PInv, FixedSlots, UserBits, BitsOf, ExitBlocks, CpuRuns, Alive
<1>4. Owed' = Owed /\ To' = To /\ mm_msg' = mm_msg /\ \A q : Leaving(q)' = Leaving(q)
  BY <1>1 DEF Owed, To, mm_msg, Loc, Leaving
<1>5. ServerBits'
  BY <1>1, <1>4 DEF PInv, ServerBits
<1>6. JobInHand'
  BY <1>1, <1>4 DEF PInv, JobInHand
<1>7. ParentsAlive' /\ NeverMissed'
  BY <1>1 DEF PInv, ParentsAlive, NeverMissed, IsEmpty, Alive, LeftBehind
<1> QED
  BY <1>2, <1>3, <1>5, <1>6, <1>7 DEF PInv
(* Nor does a step of something else touch what PInv is about.             *)
LEMMA StutterPInv == PInv /\ UNCHANGED procVars => PInv'
<1> SUFFICES ASSUME PInv, UNCHANGED procVars PROVE PInv'
  OBVIOUS
<1>1. /\ UNCHANGED <<p_flags, p_msg, p_recvfrom, p_sendto, q_sending, ldt_base, mem,
                     p_proc_ready, kernel, p_parent, exit_status, mpc, mvar, upc, call>>
  BY DEF procVars, ipcVars, mmVars, userVars
<1> USE DEF PInv
<1>2. KernelTyped' /\ ServerTyped' /\ FixedSlots' /\ UserBits' /\ ExitBlocks' /\ CpuRuns'
  BY <1>1 DEF KernelTyped, ServerTyped, FixedSlots, UserBits, BitsOf, ExitBlocks, CpuRuns, Alive
<1>3. Owed' = Owed /\ To' = To /\ mm_msg' = mm_msg /\ \A q : Leaving(q)' = Leaving(q)
  BY <1>1 DEF Owed, To, mm_msg, Loc, Leaving
<1>4. ServerBits'
  BY <1>1, <1>3 DEF ServerBits
<1>5. JobInHand'
  BY <1>1, <1>3 DEF JobInHand
<1>6. ParentsAlive' /\ NeverMissed'
  BY <1>1 DEF ParentsAlive, NeverMissed, IsEmpty, Alive, LeftBehind
<1> QED
  BY <1>2, <1>4, <1>5, <1>6
-----------------------------------------------------------------------------
(* Nothing about a process changes if its fields do not.                   *)
LEMMA BitsKept ==
  ASSUME NEW q, BitsOf(q), p_msg'[q] # "mm",
         p_flags'[q] = p_flags[q], p_recvfrom'[q] = p_recvfrom[q], exit_status'[q] = exit_status[q],
         upc'[q] = upc[q], call'[q] = call[q]
  PROVE  BitsOf(q)'
  BY DEF BitsOf
-----------------------------------------------------------------------------
(* The calls of the kernel, as task_mm and its clients use them.           *)

(* The buffer of task_mm is one word of memory nobody else's is.           *)
LEMMA ServerBuffer ==
  ASSUME KernelTyped, FixedSlots
  PROVE  /\ Loc(MM, "mm") = <<FlatSeg, "mm">> /\ <<FlatSeg, "mm">> \in Location
         /\ \A p \in Slots : \A a \in Addr \cup {NULL} :
              /\ Loc(p, a) \in Location
              /\ a # "mm" => Loc(p, a) # Loc(MM, "mm")
  BY DEF KernelTyped, FixedSlots, Loc, Location

(* A blocking call ends in a state in which somebody else runs, or hangs   *)
(* in schedule().                                                          *)
LEMMA BlockEffect ==
  ASSUME NEW p \in Slots, NEW flags \in [Slots -> SUBSET Flag],
         NEW pm \in [Slots -> Addr \cup {NULL}], p_proc_ready \in Slots,
         BlockAndSchedule(p, flags, pm)
  PROVE  /\ p_flags' = flags
         /\ p_msg' \in [Slots -> Addr \cup {NULL}]
         /\ \A q \in Slots : p_msg'[q] = pm[q] \/ (q = p - 1 /\ p_msg'[q] = NULL)
         /\ p_proc_ready' \in Slots
         /\ CpuRuns'
  BY DEF BlockAndSchedule, Runnable, SysReturn, CpuRuns

(* task_mm sends to a client: it is answered, or task_mm waits for it.     *)
Answered(d) ==
  /\ "RECEIVING" \in p_flags[d]
  /\ p_flags' = [p_flags EXCEPT ![d] = @ \ {"RECEIVING"}]
  /\ UNCHANGED <<p_sendto, kernel, p_proc_ready>>

Awaited(d) ==
  /\ "RECEIVING" \notin p_flags[d]
  /\ p_flags' = [p_flags EXCEPT ![MM] = {"SENDING"}]
  /\ p_sendto' = [p_sendto EXCEPT ![MM] = d]

(* A send of task_mm keeps types and pointers, and has one of these effects.*)
LEMMA ServerSend ==
  ASSUME PInv, NEW d \in Users, NEW a \in {"mm", "m", "c"}, NEW body \in Bodies,
         p_flags[MM] = {}, SysSend(MM, d, a, body)
  PROVE  /\ KernelTyped' /\ CpuRuns'
         /\ Answered(d) \/ Awaited(d)
         /\ UNCHANGED ldt_base
         /\ \A q \in Users : /\ p_msg'[q] # "mm"
                             /\ "RECEIVING" \in p_flags'[q] => p_recvfrom'[q] = p_recvfrom[q]
<1> USE DEF PInv, KernelTyped
<1>1. Stamp(MM, body) \in Message
  BY DEF Message, Stamp, Body
<1>2. Loc(MM, a) \in Location /\ Loc(d, p_msg[d]) \in Location
  BY ServerBuffer
<1>3. CASE SendDeliver(MM, d, a, body)
  <2>1. mem' \in [Location -> Message]
    BY <1>1, <1>2, <1>3 DEF SendDeliver
  <2>2. Answered(d)
    BY <1>3 DEF SendDeliver, Answered, CanDeliver
  <2>3. p_msg' \in [Slots -> Addr \cup {NULL}] /\ \A q \in Slots : p_msg'[q] \in {p_msg[q], NULL}
    BY <1>3 DEF SendDeliver, SysReturn
  <2>4. UNCHANGED <<p_sendto, q_sending, ldt_base>> /\ p_recvfrom' = [p_recvfrom EXCEPT ![d] = NO_TASK]
    BY <1>3 DEF SendDeliver
  <2>5. p_flags' \in [Slots -> SUBSET Flag] /\ CpuRuns'
    BY <2>2 DEF Answered, CpuRuns
  <2> QED
    BY <2>1, <2>2, <2>3, <2>4, <2>5 DEF Answered, UserBits, BitsOf
<1>4. CASE SendBlock(MM, d, a, body)
  <2>1. mem' \in [Location -> Message]
    BY <1>1, <1>2, <1>4 DEF SendBlock
  <2>2. "RECEIVING" \notin p_flags[d]
    BY <1>4 DEF SendBlock, CanDeliver, UserBits, BitsOf
  <2>3. BlockAndSchedule(MM, [p_flags EXCEPT ![MM] = {"SENDING"}], [p_msg EXCEPT ![MM] = a])
    BY <1>4 DEF SendBlock
  <2>4. /\ [p_flags EXCEPT ![MM] = {"SENDING"}] \in [Slots -> SUBSET Flag]
        /\ [p_msg EXCEPT ![MM] = a] \in [Slots -> Addr \cup {NULL}]
    BY DEF Flag
  <2>5. /\ p_flags' = [p_flags EXCEPT ![MM] = {"SENDING"}]
        /\ p_msg' \in [Slots -> Addr \cup {NULL}]
        /\ \A q \in Slots : p_msg'[q] = [p_msg EXCEPT ![MM] = a][q] \/ (q = MM - 1 /\ p_msg'[q] = NULL)
        /\ p_proc_ready' \in Slots /\ CpuRuns'
    <3>1. p_proc_ready \in Slots
      OBVIOUS
    <3> HIDE DEF PInv, KernelTyped
    <3> QED
      BY <2>3, <2>4, <3>1, BlockEffect
  <2>6. /\ p_sendto' = [p_sendto EXCEPT ![MM] = d]
        /\ UNCHANGED <<p_recvfrom, q_sending, ldt_base>>
    BY <1>4 DEF SendBlock
  <2> QED
    BY <2>1, <2>2, <2>4, <2>5, <2>6 DEF Awaited, UserBits, BitsOf
<1> QED
  BY <1>3, <1>4 DEF SysSend

(* A client sends its request: task_mm takes it, or the client is blocked  *)
(* for good.                                                               *)
Taken(p, request) ==
  /\ "RECEIVING" \in p_flags[MM]
  /\ p_flags' = [p_flags EXCEPT ![MM] = {}]
  /\ mm_msg' = Stamp(p, request)

Stuck(p) ==
  /\ "RECEIVING" \notin p_flags[MM]
  /\ p_flags' = [p_flags EXCEPT ![p] = {"SENDING"}]
  /\ mm_msg' = mm_msg

(* So does a request, and what it leaves in the buffer of task_mm is whole.*)
LEMMA ClientSend ==
  ASSUME PInv, NEW p \in Users, NEW request \in Bodies,
         p_flags[p] = {}, SysSend(p, MM, "u", request)
  PROVE  /\ KernelTyped' /\ CpuRuns'
         /\ Taken(p, request) \/ Stuck(p)
         /\ UNCHANGED ldt_base
         /\ p_sendto'[MM] = p_sendto[MM]
         /\ \A q \in Users : p_msg'[q] # "mm" /\ p_recvfrom'[q] = p_recvfrom[q]
<1> USE DEF PInv, KernelTyped
<1>1. Stamp(p, request) \in Message
  BY DEF Message, Stamp, Body
<1>2. /\ Loc(p, "u") \in Location /\ Loc(MM, p_msg[MM]) \in Location
      /\ Loc(p, "u") # Loc(MM, "mm") /\ Loc(MM, "mm") \in Location
  BY ServerBuffer
<1>3. /\ UNCHANGED ldt_base
      /\ mm_msg = mem[Loc(MM, "mm")] /\ mm_msg' = mem'[Loc(MM, "mm")]
  BY DEF SysSend, SendDeliver, SendBlock, Loc, mm_msg
<1>4. CASE SendDeliver(p, MM, "u", request)
  <2>1. "RECEIVING" \in p_flags[MM] /\ p_flags[MM] = {"RECEIVING"} /\ p_msg[MM] = "mm"
    BY <1>4 DEF SendDeliver, CanDeliver, FixedSlots, ServerBits
  <2>2. mem' \in [Location -> Message] /\ mem'[Loc(MM, "mm")] = Stamp(p, request)
    BY <1>1, <1>2, <1>4, <2>1 DEF SendDeliver
  <2>3. p_flags' = [p_flags EXCEPT ![MM] = {}]
    BY <1>4, <2>1 DEF SendDeliver
  <2>4. p_msg' \in [Slots -> Addr \cup {NULL}] /\ \A q \in Slots : p_msg'[q] \in {p_msg[q], NULL}
    BY <1>4 DEF SendDeliver, SysReturn
  <2>5. /\ UNCHANGED <<p_sendto, q_sending, ldt_base, kernel, p_proc_ready>>
        /\ p_recvfrom' = [p_recvfrom EXCEPT ![MM] = NO_TASK]
    BY <1>4 DEF SendDeliver
  <2>6. Taken(p, request)
    BY <1>3, <2>1, <2>2, <2>3 DEF Taken
  <2> QED
    BY <2>2, <2>3, <2>4, <2>5, <2>6 DEF UserBits, BitsOf, CpuRuns
<1>5. CASE SendBlock(p, MM, "u", request)
  <2>1. mem' \in [Location -> Message] /\ mem'[Loc(MM, "mm")] = mem[Loc(MM, "mm")]
    BY <1>1, <1>2, <1>5 DEF SendBlock
  <2>2. "RECEIVING" \notin p_flags[MM]
    BY <1>5 DEF SendBlock, CanDeliver, ServerBits
  <2>3. BlockAndSchedule(p, [p_flags EXCEPT ![p] = {"SENDING"}], [p_msg EXCEPT ![p] = "u"])
    BY <1>5 DEF SendBlock
  <2>4. /\ [p_flags EXCEPT ![p] = {"SENDING"}] \in [Slots -> SUBSET Flag]
        /\ [p_msg EXCEPT ![p] = "u"] \in [Slots -> Addr \cup {NULL}]
    BY DEF Flag
  <2>5. /\ p_flags' = [p_flags EXCEPT ![p] = {"SENDING"}]
        /\ p_msg' \in [Slots -> Addr \cup {NULL}]
        /\ \A q \in Slots : p_msg'[q] = [p_msg EXCEPT ![p] = "u"][q] \/ (q = p - 1 /\ p_msg'[q] = NULL)
        /\ p_proc_ready' \in Slots /\ CpuRuns'
    <3>1. p_proc_ready \in Slots
      OBVIOUS
    <3> HIDE DEF PInv, KernelTyped
    <3> QED
      BY <2>3, <2>4, <3>1, BlockEffect
  <2>6. /\ p_sendto' = [p_sendto EXCEPT ![p] = MM]
        /\ UNCHANGED <<p_recvfrom, q_sending, ldt_base>>
    BY <1>5 DEF SendBlock
  <2>7. Stuck(p)
    BY <1>3, <2>1, <2>2, <2>5 DEF Stuck
  <2> QED
    BY <2>1, <2>4, <2>5, <2>6, <2>7 DEF UserBits, BitsOf
<1> QED
  BY <1>4, <1>5 DEF SysSend

(* A client receives: what task_mm is blocked sending to it, or it waits.  *)
(* The trap is the store through the null prev of proc.c:177.              *)
Fetched(p) ==
  /\ p \in To
  /\ p_flags' = [p_flags EXCEPT ![MM] = {}]
  /\ UNCHANGED <<p_recvfrom, kernel, p_proc_ready>>

Trapped(p) ==
  /\ p \in To
  /\ UNCHANGED <<p_flags, p_recvfrom, p_proc_ready>> /\ kernel' = "trap"

Waiting(p) ==
  /\ p \notin To
  /\ p_flags' = [p_flags EXCEPT ![p] = {"RECEIVING"}]
  /\ p_recvfrom' = [p_recvfrom EXCEPT ![p] = MM]

(* A client that asks for its reply gets it, waits for it, or traps.       *)
LEMMA ClientReceive ==
  ASSUME PInv, NEW p \in Users, NEW body \in Bodies,
         p_flags[p] = {}, SysReceive(p, MM, "u", body)
  PROVE  /\ KernelTyped' /\ CpuRuns'
         /\ Fetched(p) \/ Trapped(p) \/ Waiting(p)
         /\ UNCHANGED ldt_base
         /\ "SENDING" \in p_flags'[MM] => p_sendto'[MM] = p_sendto[MM]
         /\ mm_msg' = mm_msg
         /\ \A q \in Users : p_msg'[q] # "mm"
<1> USE DEF PInv, KernelTyped
<1>1. Stamp(p, body) \in Message
  BY DEF Message, Stamp, Body
<1>2. /\ Loc(p, "u") \in Location /\ Loc(MM, p_msg[MM]) \in Location
      /\ Loc(p, "u") # Loc(MM, "mm") /\ Loc(MM, "mm") \in Location
  BY ServerBuffer
<1>3. /\ UNCHANGED ldt_base
      /\ mm_msg = mem[Loc(MM, "mm")] /\ mm_msg' = mem'[Loc(MM, "mm")]
  BY DEF SysReceive, ReceiveTake, ReceiveTrap, ReceiveBlock, Loc, mm_msg
<1>4. From(p, MM) = IF p \in To THEN MM ELSE NULL
  BY DEF From, To
<1>5. MM # NULL /\ MM # ANY
  OBVIOUS
<1>6. CASE ReceiveTake(p, MM, "u")
  <2>1. p \in To /\ From(p, MM) = MM
    BY <1>4, <1>6 DEF ReceiveTake
  <2>2. p_flags[MM] = {"SENDING"}
    BY <2>1 DEF To, FixedSlots
  <2>3. /\ p_flags' = [p_flags EXCEPT ![MM] = {}]
        /\ p_sendto' = [p_sendto EXCEPT ![MM] = NO_TASK]
        /\ UNCHANGED <<p_recvfrom, ldt_base, kernel, p_proc_ready>>
    <3>1. /\ p_flags' = [p_flags EXCEPT ![MM] = @ \ {"SENDING"}]
          /\ p_sendto' = [p_sendto EXCEPT ![MM] = NO_TASK]
          /\ UNCHANGED <<p_recvfrom, ldt_base, kernel, p_proc_ready>>
      BY <1>6, <2>1 DEF ReceiveTake
    <3>2. p_flags[MM] \ {"SENDING"} = {}
      BY <2>2
    <3> HIDE DEF PInv, KernelTyped
    <3> QED
      BY <3>1, <3>2
  <2>4. q_sending' = q_sending
    BY <1>5, <1>6, <2>1 DEF ReceiveTake
  <2>5. p_msg' \in [Slots -> Addr \cup {NULL}] /\ \A q \in Slots : p_msg'[q] \in {p_msg[q], NULL}
    BY <1>6, <2>1 DEF ReceiveTake, SysReturn
  <2>6. mem' \in [Location -> Message] /\ mem'[Loc(MM, "mm")] = mem[Loc(MM, "mm")]
    BY <1>2, <1>5, <1>6, <2>1 DEF ReceiveTake
  <2>7. Fetched(p)
    BY <2>1, <2>3 DEF Fetched
  <2>8. CpuRuns' /\ p_flags' \in [Slots -> SUBSET Flag]
    BY <2>3 DEF CpuRuns
  <2> QED
    BY <1>3, <2>3, <2>4, <2>5, <2>6, <2>7, <2>8 DEF UserBits, BitsOf
<1>7. CASE ReceiveTrap(p, MM, "u", body)
  <2>1. p \in To /\ Trapped(p)
    BY <1>4, <1>7 DEF ReceiveTrap, Trapped
  <2>2. mem' \in [Location -> Message] /\ mem'[Loc(MM, "mm")] = mem[Loc(MM, "mm")]
    BY <1>1, <1>2, <1>7 DEF ReceiveTrap
  <2> QED
    BY <1>3, <1>7, <2>1, <2>2 DEF ReceiveTrap, UserBits, BitsOf, CpuRuns
<1>8. CASE ReceiveBlock(p, MM, "u", body)
  <2>1. p \notin To
    BY <1>4, <1>5, <1>8 DEF ReceiveBlock
  <2>2. mem' \in [Location -> Message] /\ mem'[Loc(MM, "mm")] = mem[Loc(MM, "mm")]
    BY <1>1, <1>2, <1>8 DEF ReceiveBlock
  <2>3. BlockAndSchedule(p, [p_flags EXCEPT ![p] = {"RECEIVING"}], [p_msg EXCEPT ![p] = "u"])
    BY <1>8 DEF ReceiveBlock
  <2>4. /\ [p_flags EXCEPT ![p] = {"RECEIVING"}] \in [Slots -> SUBSET Flag]
        /\ [p_msg EXCEPT ![p] = "u"] \in [Slots -> Addr \cup {NULL}]
    BY DEF Flag
  <2>5. /\ p_flags' = [p_flags EXCEPT ![p] = {"RECEIVING"}]
        /\ p_msg' \in [Slots -> Addr \cup {NULL}]
        /\ \A q \in Slots : p_msg'[q] = [p_msg EXCEPT ![p] = "u"][q] \/ (q = p - 1 /\ p_msg'[q] = NULL)
        /\ p_proc_ready' \in Slots /\ CpuRuns'
    <3>1. p_proc_ready \in Slots
      OBVIOUS
    <3> HIDE DEF PInv, KernelTyped
    <3> QED
      BY <2>3, <2>4, <3>1, BlockEffect
  <2>6. /\ p_recvfrom' = [p_recvfrom EXCEPT ![p] = MM]
        /\ UNCHANGED <<p_sendto, q_sending, ldt_base>>
    BY <1>8 DEF ReceiveBlock
  <2>7. Waiting(p)
    BY <2>1, <2>5, <2>6 DEF Waiting
  <2> QED
    BY <1>3, <2>2, <2>4, <2>5, <2>6, <2>7 DEF UserBits, BitsOf
<1> QED
  BY <1>6, <1>7, <1>8 DEF SysReceive
-----------------------------------------------------------------------------
(* task_mm.                                                                *)

\* The caller whose request task_mm has.
Served(s) ==
  /\ s \in Owed /\ Owed \subseteq {s} /\ call[s] = mm_msg.body.type
  /\ mm_msg.body.type = "EXIT" => mm_msg.body.val \in Statuses

LEMMA ServerRuns ==
  ASSUME PInv, NEW at, InMM(at)
  PROVE  /\ mpc = at /\ p_flags[MM] = {} /\ To = {}
         /\ mm_msg \in [source : Slots \cup {NO_TASK}, body : Bodies]
         /\ at = "got" => Served(mm_msg.source)
<1>1. mpc = at /\ p_flags[MM] = {}
  BY DEF InMM, PInv, CpuRuns
<1>2. mm_msg \in Message
  BY ServerBuffer DEF PInv, KernelTyped, mm_msg
<1> QED
  BY <1>1, <1>2 DEF To, PInv, JobInHand, Served, Message, Body

(* The requests that task_mm answers at once.                              *)
LEMMA AnswerPInv ==
  ASSUME PInv, MMDefault \/ MMExec \/ ForkNoSlot PROVE PInv'
<1>1. InMM("got")
  BY DEF MMDefault, MMExec, ForkNoSlot
<1>2. /\ mpc = "got" /\ p_flags[MM] = {} /\ To = {} /\ Served(mm_msg.source)
      /\ mm_msg \in [source : Slots \cup {NO_TASK}, body : Bodies]
  BY <1>1, ServerRuns
<1>3. /\ UNCHANGED <<p_flags, p_msg, p_recvfrom, p_sendto, q_sending, ldt_base, mem,
                     p_proc_ready, kernel, p_parent, exit_status, upc, call>>
      /\ mpc' = "reply" /\ mvar'.src = mm_msg.source /\ mm_msg.body.type # "EXIT"
  BY DEF MMDefault, MMExec, ForkNoSlot, Reply, ipcVars, userVars
<1>4. mvar' \in Jobs
  BY <1>2 DEF MMDefault, MMExec, ForkNoSlot, Reply, Jobs, Bodies, Ints, Served, Owed
<1>5. KernelTyped' /\ ServerTyped'
  BY <1>3, <1>4 DEF PInv, KernelTyped, ServerTyped
<1>6. FixedSlots' /\ UserBits' /\ ExitBlocks' /\ CpuRuns'
  BY <1>3 DEF PInv, FixedSlots, UserBits, BitsOf, ExitBlocks, CpuRuns, Alive
<1>7. ServerBits' /\ JobInHand'
  BY <1>2, <1>3 DEF PInv, ServerBits, JobInHand, Owed, To, Served
<1>8. ParentsAlive' /\ NeverMissed'
  BY <1>2, <1>3 DEF PInv, ParentsAlive, NeverMissed, IsEmpty, Alive, LeftBehind
<1> QED
  BY <1>5, <1>6, <1>7, <1>8 DEF PInv

(* A send of task_mm to a client that is not in exit: it owes that client  *)
(* nothing more but the delivery.                                          *)
LEMMA SendKeeps ==
  ASSUME PInv, NEW d \in Users, NEW a \in {"mm", "m", "c"}, NEW body \in Bodies,
         p_flags[MM] = {}, SysSend(MM, d, a, body), d \in Owed, call[d] # "EXIT",
         UNCHANGED <<p_parent, exit_status, upc, call>>
  PROVE  /\ KernelTyped' /\ FixedSlots' /\ UserBits' /\ ExitBlocks' /\ CpuRuns' /\ NeverMissed'
         /\ Owed' \subseteq (Owed \ {d}) \cup To'
         /\ Owed \ {d} \subseteq Owed'
         /\ To' \subseteq {d} /\ "RECEIVING" \notin p_flags'[d] /\ "RECEIVING" \notin p_flags'[MM]
         /\ d \in To' => upc[d] = "mid"
         /\ \A q \in Users : /\ IsEmpty(q)' = IsEmpty(q)
                             /\ "HANGING" \in p_flags'[q] <=> "HANGING" \in p_flags[q]
                             /\ Alive(q)' = Alive(q)
<1>1. /\ KernelTyped' /\ CpuRuns'
      /\ Answered(d) \/ Awaited(d)
      /\ UNCHANGED ldt_base
      /\ \A q \in Users : /\ p_msg'[q] # "mm"
                          /\ "RECEIVING" \in p_flags'[q] => p_recvfrom'[q] = p_recvfrom[q]
  BY ServerSend
<1> USE DEF PInv, KernelTyped
<1>2. CASE Answered(d)
  <2>1. /\ p_flags' = [p_flags EXCEPT ![d] = @ \ {"RECEIVING"}] /\ p_flags'[MM] = {}
        /\ p_flags[d] = {"RECEIVING"} /\ upc[d] = "back"
    BY <1>2 DEF Answered, UserBits, BitsOf, Owed
  <2>2. FixedSlots' /\ ExitBlocks' /\ NeverMissed'
    BY <1>1, <2>1 DEF FixedSlots, ExitBlocks, NeverMissed, Alive
  <2>3. UserBits'
    BY <1>1, <2>1 DEF UserBits, BitsOf
  <2>4. Owed' = Owed \ {d} /\ To' = {}
    BY <2>1 DEF Owed, To, UserBits, BitsOf
  <2> QED
    BY <1>1, <2>1, <2>2, <2>3, <2>4 DEF IsEmpty, Alive, UserBits, BitsOf
<1>3. CASE Awaited(d)
  <2>1. /\ p_flags' = [p_flags EXCEPT ![MM] = {"SENDING"}] /\ p_sendto'[MM] = d
        /\ "RECEIVING" \notin p_flags[d]
    BY <1>3 DEF Awaited
  <2>2. FixedSlots' /\ ExitBlocks' /\ NeverMissed'
    BY <1>1, <2>1 DEF FixedSlots, ExitBlocks, NeverMissed, Alive
  <2>3. UserBits'
    BY <1>1, <2>1 DEF UserBits, BitsOf
  <2>4. Owed' = Owed /\ To' = {d}
    BY <2>1 DEF Owed, To, UserBits, BitsOf
  <2>5. upc[d] = "mid"
    BY <2>1 DEF Owed
  <2> QED
    BY <1>1, <2>1, <2>2, <2>3, <2>4, <2>5 DEF IsEmpty, Alive
<1> QED
  BY <1>1, <1>2, <1>3

(* What task_mm still does after a send, in each of the four places.       *)
LEMMA SendPInv ==
  ASSUME PInv, MMReply \/ ForkSend \/ CleanupSend \/ DoWaitNoChild
  PROVE  PInv'
<1> DEFINE Sends(d, a, body) == d \in Users /\ a \in {"mm", "m", "c"} /\ body \in Bodies
                                /\ SysSend(MM, d, a, body) /\ d \in Owed /\ call[d] # "EXIT"
           Kept(d) ==
             /\ KernelTyped' /\ FixedSlots' /\ UserBits' /\ ExitBlocks' /\ CpuRuns' /\ NeverMissed'
             /\ Owed' \subseteq (Owed \ {d}) \cup To'
             /\ Owed \ {d} \subseteq Owed'
             /\ To' \subseteq {d} /\ "RECEIVING" \notin p_flags'[d] /\ "RECEIVING" \notin p_flags'[MM]
             /\ d \in To' => upc[d] = "mid"
             /\ \A q \in Users : /\ IsEmpty(q)' = IsEmpty(q)
                                 /\ "HANGING" \in p_flags'[q] <=> "HANGING" \in p_flags[q]
                                 /\ Alive(q)' = Alive(q)
<1>1. \E at : InMM(at)
  BY DEF MMReply, ForkSend, CleanupSend, DoWaitNoChild
<1>2. /\ p_flags[MM] = {} /\ To = {}
      /\ mm_msg \in [source : Slots \cup {NO_TASK}, body : Bodies]
  BY <1>1, ServerRuns
<1>3. UNCHANGED <<p_parent, exit_status, mvar, upc, call>>
  BY DEF MMReply, ForkSend, CleanupSend, DoWaitNoChild, userVars
<1>4. ASSUME NEW d, NEW a, NEW body, Sends(d, a, body) PROVE Kept(d)
  BY <1>2, <1>3, <1>4, SendKeeps
<1> HIDE DEF Sends
<1>5. mvar \in Jobs /\ p_parent \in [Slots -> Slots \cup {NO_TASK}] /\ exit_status \in [Slots -> Ints]
  BY DEF PInv, ServerTyped
<1>6. CASE MMReply
  <2>1. Sends(mvar.src, "mm", Ret(mvar.ret, mm_msg.body.pid)) /\ mpc = "reply" /\ mpc' = "idle"
    BY <1>2, <1>5, <1>6 DEF MMReply, InMM, PInv, JobInHand, Jobs, Ret, Bodies, Owed, Sends
  <2>2. Owed \subseteq {mvar.src}
    BY <1>2, <2>1 DEF PInv, JobInHand
  <2>3. Kept(mvar.src) /\ mvar.src \in Slots
    <3> HIDE DEF Kept
    <3> QED
      BY <1>4, <1>5, <2>1 DEF Jobs
  <2>4. ServerTyped'
    BY <1>3, <2>1 DEF PInv, ServerTyped
  <2>5. ServerBits' /\ JobInHand'
    <3>1. ServerBits'
      BY <1>3, <2>1, <2>3 DEF ServerBits, To, Sends
    <3>2. JobInHand'
      BY <1>3, <2>1, <2>2, <2>3 DEF JobInHand, To, Leaving, Sends
    <3> QED
      BY <3>1, <3>2
  <2>6. ParentsAlive'
    BY <1>3, <2>1, <2>3 DEF PInv, ParentsAlive, LeftBehind
  <2> QED
    BY <2>3, <2>4, <2>5, <2>6 DEF PInv
<1>7. CASE ForkSend
  <2>1. Sends(mvar.proc, "m", Ret(0, 0)) /\ mpc = "forksend" /\ mpc' = "reply"
    BY <1>2, <1>5, <1>7 DEF ForkSend, InMM, PInv, JobInHand, Jobs, Ret, Bodies, Ints, Owed, Sends
  <2>2. /\ Owed \subseteq {mvar.src, mvar.proc} /\ mvar.src # mvar.proc
        /\ mvar.src \in Owed /\ call[mvar.src] # "EXIT"
    BY <1>2, <2>1 DEF PInv, JobInHand
  <2>3. Kept(mvar.proc) /\ mvar.src \in Slots
    <3> HIDE DEF Kept
    <3> QED
      BY <1>4, <1>5, <2>1 DEF Jobs
  <2>4. ServerTyped'
    BY <1>3, <2>1 DEF PInv, ServerTyped
  <2>5. ServerBits' /\ JobInHand'
    <3>1. ServerBits'
      BY <1>3, <2>1, <2>3 DEF ServerBits, To, Sends
    <3>2. JobInHand'
      BY <1>3, <2>1, <2>2, <2>3 DEF JobInHand, To, Leaving, Sends
    <3> QED
      BY <3>1, <3>2
  <2>6. ParentsAlive'
    BY <1>3, <2>1, <2>3 DEF PInv, ParentsAlive, LeftBehind
  <2> QED
    BY <2>3, <2>4, <2>5, <2>6 DEF PInv
<1>8. CASE CleanupSend
  <2>1. Sends(p_parent[mvar.proc], "c", Report(mvar.proc)) /\ mpc = "cleanup" /\ mpc' = "free"
    BY <1>2, <1>5, <1>8 DEF CleanupSend, InMM, PInv, JobInHand, Jobs, Report, Ret, Bodies, Ints, Owed, Sends
  <2>2. /\ Owed \subseteq {p_parent[mvar.proc], mvar.proc} /\ Leaving(mvar.proc)
        /\ "HANGING" \in p_flags[mvar.proc] \/ (mvar.i = 1 /\ mvar.proc = mvar.src)
    BY <1>2, <2>1 DEF PInv, JobInHand
  <2>3. Kept(p_parent[mvar.proc]) /\ mvar.src \in Slots
    <3> HIDE DEF Kept
    <3> QED
      BY <1>4, <1>5, <2>1 DEF Jobs
  <2>4. ServerTyped'
    BY <1>3, <2>1 DEF PInv, ServerTyped
  <2>5. ServerBits' /\ JobInHand'
    <3>1. ServerBits'
      BY <1>3, <2>1, <2>3 DEF ServerBits, To, Sends
    <3>2. JobInHand'
      BY <1>3, <2>1, <2>2, <2>3 DEF JobInHand, To, Leaving, Sends
    <3> QED
      BY <3>1, <3>2
  <2>6. ParentsAlive'
    BY <1>3, <2>1, <2>3 DEF PInv, ParentsAlive, LeftBehind
  <2> QED
    BY <2>3, <2>4, <2>5, <2>6 DEF PInv
<1>9. CASE DoWaitNoChild
  <2>1. Sends(mvar.src, "c", Ret(Garbage, NO_TASK)) /\ mpc = "nochild" /\ mpc' = "idle"
    BY <1>2, <1>5, <1>9 DEF DoWaitNoChild, InMM, PInv, JobInHand, Jobs, Ret, Bodies, Ints, Owed, Sends
  <2>2. Owed \subseteq {mvar.src}
    BY <1>2, <2>1 DEF PInv, JobInHand
  <2>3. Kept(mvar.src) /\ mvar.src \in Slots
    <3> HIDE DEF Kept
    <3> QED
      BY <1>4, <1>5, <2>1 DEF Jobs
  <2>4. ServerTyped'
    BY <1>3, <2>1 DEF PInv, ServerTyped
  <2>5. ServerBits' /\ JobInHand'
    <3>1. ServerBits'
      BY <1>3, <2>1, <2>3 DEF ServerBits, To, Sends
    <3>2. JobInHand'
      BY <1>3, <2>1, <2>2, <2>3 DEF JobInHand, To, Leaving, Sends
    <3> QED
      BY <3>1, <3>2
  <2>6. ParentsAlive'
    BY <1>3, <2>1, <2>3 DEF PInv, ParentsAlive, LeftBehind
  <2> QED
    BY <2>3, <2>4, <2>5, <2>6 DEF PInv
<1> QED
  BY <1>6, <1>7, <1>8, <1>9

(* task_mm asks for the next request.  Nobody is ever in its queue, so it  *)
(* waits, with its own buffer for the message.                             *)
LEMMA MMReceivePInv == PInv /\ MMReceive => PInv'
<1> SUFFICES ASSUME PInv, MMReceive PROVE PInv'
  OBVIOUS
<1>1. mpc = "idle" /\ p_flags[MM] = {} /\ To = {}
  BY ServerRuns DEF MMReceive
<1>2. Loc(MM, "mm") \in Location
  BY ServerBuffer DEF PInv
<1>3. p_proc_ready \in Slots
  BY DEF PInv, KernelTyped
<1>4. ReceiveBlock(MM, ANY, "mm", Zero)
  BY DEF MMReceive, SysReceive, ReceiveTake, ReceiveTrap, From, PInv, KernelTyped
<1>5. /\ [p_flags EXCEPT ![MM] = {"RECEIVING"}] \in [Slots -> SUBSET Flag]
      /\ [p_msg EXCEPT ![MM] = "mm"] \in [Slots -> Addr \cup {NULL}]
      /\ BlockAndSchedule(MM, [p_flags EXCEPT ![MM] = {"RECEIVING"}], [p_msg EXCEPT ![MM] = "mm"])
  BY <1>1, <1>4 DEF ReceiveBlock, Flag, PInv, KernelTyped
<1>6. /\ p_flags' = [p_flags EXCEPT ![MM] = {"RECEIVING"}]
      /\ p_msg' \in [Slots -> Addr \cup {NULL}]
      /\ \A q \in Slots : p_msg'[q] = [p_msg EXCEPT ![MM] = "mm"][q] \/ (q = MM - 1 /\ p_msg'[q] = NULL)
      /\ p_proc_ready' \in Slots /\ CpuRuns'
  BY <1>3, <1>5, BlockEffect
<1>7. /\ p_recvfrom' = [p_recvfrom EXCEPT ![MM] = ANY] /\ mpc' = "got"
      /\ mem' = [mem EXCEPT ![Loc(MM, "mm")] = Stamp(MM, Zero)]
      /\ UNCHANGED <<p_sendto, q_sending, ldt_base, p_parent, exit_status, mvar, upc, call>>
  BY <1>4 DEF MMReceive, ReceiveBlock, userVars
<1> USE DEF PInv
<1>8. KernelTyped' /\ ServerTyped'
  <2>1. Stamp(MM, Zero) \in Message
    BY DEF Message, Stamp, Body, Zero, Bodies, Ints
  <2> QED
    BY <1>2, <1>5, <1>6, <1>7, <2>1 DEF KernelTyped, ServerTyped
<1>9. FixedSlots' /\ ExitBlocks' /\ NeverMissed'
  BY <1>6, <1>7 DEF KernelTyped, FixedSlots, ExitBlocks, NeverMissed, Alive
<1>10. UserBits'
  BY <1>6, <1>7 DEF KernelTyped, UserBits, BitsOf
<1>11. ServerBits'
  <2>1. p_flags'[MM] = {"RECEIVING"} /\ p_msg'[MM] = "mm" /\ p_recvfrom'[MM] = ANY
    <3>1. MM # MM - 1
      <4>1. MM \in Nat
        OBVIOUS
      <4> QED
        BY <4>1
    <3> QED
      BY <1>6, <1>7, <3>1 DEF KernelTyped
  <2>2. To' = {}
    BY <2>1 DEF To
  <2> QED
    BY <1>7, <2>1, <2>2 DEF ServerBits
<1>12. JobInHand'
  BY <1>1, <1>6, <1>7 DEF KernelTyped, JobInHand, Owed
<1>13. ParentsAlive'
  BY <1>1, <1>6, <1>7 DEF KernelTyped, ServerTyped, ParentsAlive, LeftBehind, IsEmpty, Alive
<1> QED
  BY <1>6, <1>8, <1>9, <1>10, <1>11, <1>12, <1>13
-----------------------------------------------------------------------------
(* The clients, and task_sys at the start.                                 *)

(* task_sys asks for its first message, for which it waits for ever.       *)
LEMMA TaskSysPInv == PInv /\ TaskSys => PInv'
<1> SUFFICES ASSUME PInv, TaskSys PROVE PInv'
  OBVIOUS
<1>1. p_proc_ready \in Slots /\ p_flags \in [Slots -> SUBSET Flag]
  BY DEF PInv, KernelTyped
<1>2. ReceiveBlock(SYS, ANY, "s", Zero)
  BY DEF TaskSys, SysReceive, ReceiveTake, ReceiveTrap, From, PInv, KernelTyped
<1>3. /\ [p_flags EXCEPT ![SYS] = @ \cup {"RECEIVING"}] \in [Slots -> SUBSET Flag]
      /\ [p_msg EXCEPT ![SYS] = "s"] \in [Slots -> Addr \cup {NULL}]
      /\ BlockAndSchedule(SYS, [p_flags EXCEPT ![SYS] = @ \cup {"RECEIVING"}], [p_msg EXCEPT ![SYS] = "s"])
  BY <1>1, <1>2 DEF ReceiveBlock, Flag, PInv, KernelTyped
<1>4. /\ p_flags' = [p_flags EXCEPT ![SYS] = @ \cup {"RECEIVING"}]
      /\ p_msg' \in [Slots -> Addr \cup {NULL}]
      /\ \A q \in Slots : p_msg'[q] = [p_msg EXCEPT ![SYS] = "s"][q] \/ (q = SYS - 1 /\ p_msg'[q] = NULL)
      /\ p_proc_ready' \in Slots /\ CpuRuns'
  BY <1>1, <1>3, BlockEffect
<1>5. \A q \in Slots \ {SYS} : p_msg'[q] = p_msg[q] /\ p_flags'[q] = p_flags[q]
  BY <1>1, <1>4 DEF PInv, KernelTyped
<1>6. /\ p_recvfrom' = [p_recvfrom EXCEPT ![SYS] = ANY]
      /\ mem' = [mem EXCEPT ![Loc(SYS, "s")] = Stamp(SYS, Zero)]
      /\ UNCHANGED <<p_sendto, q_sending, ldt_base, p_parent, exit_status, mpc, mvar, call>>
      /\ upc' = [upc EXCEPT ![SYS] = "back"]
      /\ kernel = "up"
  BY <1>2 DEF TaskSys, ReceiveBlock, Calls, mmVars
<1>7. Loc(SYS, "s") \in Location /\ Loc(SYS, "s") # Loc(MM, "mm") /\ Loc(MM, "mm") \in Location
  BY ServerBuffer DEF PInv
<1> USE DEF PInv
<1>8. KernelTyped' /\ ServerTyped'
  <2>1. Stamp(SYS, Zero) \in Message
    BY DEF Message, Stamp, Body, Zero, Bodies, Ints
  <2> QED
    BY <1>3, <1>4, <1>6, <1>7, <2>1 DEF KernelTyped, ServerTyped
<1>9. mm_msg' = mm_msg
  BY <1>6, <1>7 DEF KernelTyped, mm_msg, Loc
<1>10. FixedSlots' /\ ExitBlocks' /\ NeverMissed'
  BY <1>1, <1>4, <1>6 DEF ServerTyped, FixedSlots, ExitBlocks, NeverMissed, Alive
<1>11. UserBits'
  BY <1>5, <1>6 DEF KernelTyped, ServerTyped, UserBits, BitsOf
<1>12. Owed' = Owed /\ To' = To
  BY <1>5, <1>6 DEF Owed, To, ServerTyped
<1>13. ServerBits'
  <2>1. /\ p_flags'[MM] = p_flags[MM] /\ p_msg'[MM] = p_msg[MM] /\ p_recvfrom'[MM] = p_recvfrom[MM]
        /\ \A q \in Users : p_flags'[q] = p_flags[q] /\ upc'[q] = upc[q]
    BY <1>5, <1>6 DEF KernelTyped, ServerTyped
  <2> QED
    BY <1>6, <1>12, <2>1 DEF ServerBits
<1>14. JobInHand'
  <2>1. p_flags'[MM] = p_flags[MM] /\ (\A q \in Users : upc'[q] = upc[q])
    BY <1>5, <1>6 DEF ServerTyped
  <2>2. \A q \in Vacant : p_flags'[q] = p_flags[q] /\ Leaving(q)' = Leaving(q)
    BY <1>5, <1>6, <2>1 DEF Leaving
  <2> QED
    BY <1>6, <1>9, <1>12, <2>1, <2>2 DEF JobInHand, Leaving
<1>15. ParentsAlive'
  <2>1. \A q \in Users : IsEmpty(q)' = IsEmpty(q) /\ Alive(q)' = Alive(q)
    BY <1>5 DEF IsEmpty, Alive
  <2> QED
    BY <1>6, <2>1 DEF ParentsAlive, LeftBehind
<1> QED
  BY <1>4, <1>8, <1>10, <1>11, <1>13, <1>14, <1>15

(* A client that can run is not blocked, and it makes its calls in order.  *)
LEMMA CallReturnPInv ==
  ASSUME PInv, NEW p, CallReturn(p) PROVE PInv'
<1>1. /\ p \in Users /\ p_flags[p] = {} /\ upc[p] = "back" /\ kernel = "up"
      /\ upc' = [upc EXCEPT ![p] = "user"]
      /\ UNCHANGED <<p_flags, p_msg, p_recvfrom, p_sendto, q_sending, ldt_base, mem,
                     p_proc_ready, kernel, p_parent, exit_status, mpc, mvar, call>>
  BY DEF CallReturn, Calls, ipcVars, mmVars, PInv, CpuRuns
<1> USE DEF PInv
<1>2. KernelTyped' /\ ServerTyped'
  BY <1>1 DEF KernelTyped, ServerTyped
<1>3. FixedSlots' /\ UserBits' /\ ExitBlocks' /\ CpuRuns' /\ NeverMissed'
  <2>1. FixedSlots' /\ CpuRuns' /\ NeverMissed'
    BY <1>1 DEF FixedSlots, CpuRuns, NeverMissed, Alive
  <2>2. UserBits'
    BY <1>1 DEF UserBits, BitsOf, ServerTyped
  <2>3. ExitBlocks'
    BY <1>1 DEF ExitBlocks, ServerTyped
  <2> QED
    BY <2>1, <2>2, <2>3
<1>4. Owed' = Owed /\ To' = To
  BY <1>1 DEF Owed, To, ServerTyped
<1>5. p \notin To /\ call[p] # "EXIT"
  BY <1>1 DEF ServerBits, ExitBlocks
<1>6. ServerBits'
  BY <1>1, <1>4, <1>5 DEF ServerBits, ServerTyped
<1>7. \A q : Leaving(q) => Leaving(q)'
  BY <1>1, <1>5 DEF Leaving, ServerTyped
<1>8. JobInHand'
  BY <1>1, <1>4, <1>7 DEF JobInHand, mm_msg, Loc
<1>9. ParentsAlive'
  BY <1>1 DEF ParentsAlive, IsEmpty, Alive, LeftBehind
<1> QED
  BY <1>2, <1>3, <1>6, <1>8, <1>9

(* The request of a library call: task_mm has it in hand, or it is blocked.*)
LEMMA CallSendPInv ==
  ASSUME PInv, NEW p, NEW request \in Bodies, CallSend(p, request),
         request.type # "SYSCALL_RET",
         request.type = "EXIT" => p # INIT_PROC /\ request.val \in Statuses
  PROVE  PInv'
<1>1. /\ p \in Users /\ upc[p] = "user" /\ SysSend(p, MM, "u", request)
      /\ upc' = [upc EXCEPT ![p] = "mid"]
      /\ call' = [call EXCEPT ![p] = request.type]
      /\ UNCHANGED <<p_parent, exit_status, mpc, mvar>>
  BY DEF CallSend, mmVars
<1>2. kernel = "up" /\ p_flags[p] = {}
  BY <1>1 DEF SysSend, SendDeliver, SendBlock, Calls, PInv, CpuRuns
<1>3. /\ KernelTyped' /\ CpuRuns'
      /\ Taken(p, request) \/ Stuck(p)
      /\ UNCHANGED ldt_base
      /\ p_sendto'[MM] = p_sendto[MM]
      /\ \A q \in Users : p_msg'[q] # "mm" /\ p_recvfrom'[q] = p_recvfrom[q]
  BY <1>1, <1>2, ClientSend
<1> USE DEF PInv
<1>4. ServerTyped'
  BY <1>1 DEF ServerTyped, Bodies
<1>5. /\ \A q \in Users : upc'[q] = IF q = p THEN "mid" ELSE upc[q]
      /\ \A q \in Users : call'[q] = IF q = p THEN request.type ELSE call[q]
  BY <1>1 DEF ServerTyped
<1>6. p \notin Owed /\ p \notin To
  BY <1>1, <1>2 DEF Owed, ServerBits
<1>7. \A q : Leaving(q) => q # p /\ Leaving(q)'
  BY <1>1, <1>5 DEF Leaving
<1>8. CASE Taken(p, request)
  <2>1. /\ p_flags[MM] = {"RECEIVING"} /\ mpc = "got" /\ Owed = {}
        /\ p_flags' = [p_flags EXCEPT ![MM] = {}] /\ mm_msg' = Stamp(p, request)
    BY <1>8 DEF Taken, FixedSlots, ServerBits, JobInHand
  <2>2. /\ p_flags'[MM] = {}
        /\ \A q \in Slots \ {MM} : p_flags'[q] = p_flags[q]
    BY <2>1 DEF KernelTyped
  <2>3. FixedSlots' /\ ExitBlocks' /\ NeverMissed'
    <3>1. FixedSlots'
      <4>1. p_flags'[SYS] = p_flags[SYS] /\ call'[INIT_PROC] # "EXIT" /\ Alive(INIT_PROC)'
        BY <1>5, <2>2 DEF FixedSlots, Alive
      <4> QED
        BY <1>3, <2>2, <4>1 DEF FixedSlots
    <3>2. ExitBlocks'
      BY <1>1, <1>2, <1>3, <1>5, <2>2 DEF ExitBlocks
    <3>3. NeverMissed'
      BY <1>1, <1>2, <1>3, <1>5, <2>2 DEF NeverMissed
    <3> QED
      BY <3>1, <3>2, <3>3
  <2>4. UserBits'
    BY <1>1, <1>2, <1>3, <1>5, <2>2 DEF UserBits, BitsOf
  <2>5. Owed' = {p} /\ To' = {}
    BY <1>1, <1>2, <1>5, <2>1, <2>2 DEF Owed, To
  <2>6. ServerBits'
    BY <2>2, <2>5 DEF ServerBits
  <2>7. JobInHand'
    BY <1>1, <1>5, <2>1, <2>2, <2>5 DEF JobInHand, Stamp
  <2>8. ParentsAlive'
    BY <1>1, <2>2 DEF ParentsAlive, IsEmpty, Alive, LeftBehind
  <2> QED
    BY <1>3, <1>4, <2>3, <2>4, <2>6, <2>7, <2>8
<1>9. CASE Stuck(p)
  <2>1. /\ p_flags'[p] = {"SENDING"} /\ mm_msg' = mm_msg
        /\ \A q \in Slots \ {p} : p_flags'[q] = p_flags[q]
        /\ p_flags'[MM] = p_flags[MM] /\ "RECEIVING" \notin p_flags[MM]
    BY <1>1, <1>9 DEF Stuck, KernelTyped
  <2>2. /\ \A q \in Users : IsEmpty(q)' = IsEmpty(q) /\ Alive(q)' = Alive(q)
        /\ \A q \in Slots, f \in {"WAITING", "HANGING", "UNSTARTED"} :
             f \in p_flags'[q] <=> f \in p_flags[q]
    <3>1. ~IsEmpty(p) /\ ~IsEmpty(p)' /\ Alive(p) /\ Alive(p)'
      BY <1>2, <2>1 DEF IsEmpty, Alive
    <3>2. \A q \in Users : IsEmpty(q)' = IsEmpty(q) /\ Alive(q)' = Alive(q)
      BY <2>1, <3>1 DEF IsEmpty, Alive
    <3> QED
      BY <1>2, <2>1, <3>2
  <2>3. FixedSlots'
    <3>1. call'[INIT_PROC] # "EXIT" /\ Alive(INIT_PROC)'
      BY <1>5, <2>2 DEF FixedSlots
    <3> QED
      BY <1>3, <2>1, <2>2, <3>1 DEF FixedSlots
  <2>4. NeverMissed' /\ ExitBlocks'
    <3>1. NeverMissed'
      BY <1>1, <2>2 DEF NeverMissed
    <3>2. ExitBlocks'
      BY <1>1, <1>5, <2>1 DEF ExitBlocks
    <3> QED
      BY <3>1, <3>2
  <2>5. UserBits'
    <3>1. BitsOf(p)'
      BY <1>1, <1>3, <1>5, <2>1 DEF BitsOf
    <3>2. ASSUME NEW q \in Users, q # p PROVE BitsOf(q)'
      <4>1. BitsOf(q) /\ p_msg'[q] # "mm"
        BY <1>3 DEF UserBits
      <4>2. /\ p_flags'[q] = p_flags[q] /\ p_recvfrom'[q] = p_recvfrom[q]
            /\ upc'[q] = upc[q] /\ call'[q] = call[q] /\ exit_status'[q] = exit_status[q]
        BY <1>1, <1>3, <1>5, <2>1, <3>2
      <4> QED
        BY <4>1, <4>2, BitsKept
    <3> QED
      BY <3>1, <3>2 DEF UserBits
  <2>6. Owed' = Owed
    <3>1. p \notin Owed'
      BY <2>1 DEF Owed
    <3>2. \A q \in Users \ {p} : q \in Owed' <=> q \in Owed
      BY <1>1, <1>5, <2>1 DEF Owed
    <3>3. Owed \subseteq Users /\ Owed' \subseteq Users
      BY DEF Owed
    <3>4. \A q : q \in Owed' <=> q \in Owed
      BY <1>1, <1>6, <3>1, <3>2, <3>3
    <3> HIDE DEF PInv
    <3> QED
      BY <3>4
  <2>7. To' = To
    BY <1>3, <2>1 DEF To
  <2>8. ServerBits'
    <3>1. \A d \in To : d \in Users /\ d # p
      BY <1>6 DEF ServerBits
    <3>2. ASSUME NEW d \in To
          PROVE  /\ call'[d] # "EXIT" /\ "RECEIVING" \notin p_flags'[d] /\ upc'[d] # "user"
                 /\ kernel' = "up" => upc'[d] = "mid"
      BY <1>2, <1>5, <2>1, <3>1 DEF ServerBits
    <3> QED
      BY <1>1, <2>1, <2>7, <3>1, <3>2 DEF ServerBits
  <2>9. JobInHand'
    <3>1. \A q \in Owed : q \in Users /\ call'[q] = call[q]
      BY <1>5, <1>6 DEF Owed
    <3>2. \A q : Leaving(q) => p_flags'[q] = p_flags[q]
      BY <1>7, <2>1 DEF Leaving
    <3> HIDE DEF PInv
    <3>3. JobInHand
      BY DEF PInv
    <3> QED
      BY <1>1, <1>7, <2>1, <2>6, <2>7, <3>1, <3>2, <3>3 DEF JobInHand
  <2>10. ParentsAlive'
    BY <1>1, <2>2 DEF ParentsAlive, LeftBehind
  <2> QED
    BY <1>3, <1>4, <2>3, <2>4, <2>5, <2>8, <2>9, <2>10
<1> QED
  BY <1>3, <1>8, <1>9

(* The second half of a call: the caller is owed an answer, or got it.     *)
LEMMA CallReceivePInv ==
  ASSUME PInv, NEW p, CallReceive(p) PROVE PInv'
<1> DEFINE body == mem[Loc(p, "u")].body
<1>1. /\ p \in Users /\ upc[p] = "mid" /\ SysReceive(p, MM, "u", body)
      /\ upc' = [upc EXCEPT ![p] = "back"]
      /\ UNCHANGED <<p_parent, exit_status, mpc, mvar, call>>
  BY DEF CallReceive, mmVars
<1>2. kernel = "up" /\ p_flags[p] = {}
  BY <1>1 DEF SysReceive, ReceiveTake, ReceiveTrap, ReceiveBlock, Calls, PInv, CpuRuns
<1>3. body \in Bodies
  <2>1. mem[Loc(p, "u")] \in Message
    BY <1>1, ServerBuffer DEF PInv, KernelTyped
  <2> QED
    BY <2>1 DEF Message, Body
<1>4. /\ KernelTyped' /\ CpuRuns'
      /\ Fetched(p) \/ Trapped(p) \/ Waiting(p)
      /\ UNCHANGED ldt_base
      /\ "SENDING" \in p_flags'[MM] => p_sendto'[MM] = p_sendto[MM]
      /\ mm_msg' = mm_msg
      /\ \A q \in Users : p_msg'[q] # "mm"
  <2> HIDE DEF body
  <2> QED
    BY <1>1, <1>2, <1>3, ClientReceive
<1> USE DEF PInv
<1>5. ServerTyped' /\ \A q \in Users : upc'[q] = IF q = p THEN "back" ELSE upc[q]
  BY <1>1 DEF ServerTyped
<1>6. p \in Owed /\ "RECEIVING" \notin p_flags[MM]
  BY <1>1, <1>2 DEF Owed, ServerBits, JobInHand
<1>7. \A q : Leaving(q) => Leaving(q)'
  BY <1>1, <1>5 DEF Leaving
<1>8. CASE Fetched(p)
  <2>1. /\ p \in To /\ To = {p} /\ call[p] # "EXIT" /\ mpc \in {"idle", "reply", "free"}
        /\ p_flags'[MM] = {} /\ \A q \in Slots \ {MM} : p_flags'[q] = p_flags[q]
        /\ p_recvfrom' = p_recvfrom
    BY <1>8 DEF Fetched, To, ServerBits, KernelTyped
  <2>2. FixedSlots' /\ ExitBlocks' /\ NeverMissed'
    <3>1. FixedSlots'
      BY <1>1, <1>2, <1>4, <1>5, <2>1 DEF FixedSlots, Alive
    <3>2. ExitBlocks'
      <4>1. \A q \in Users : call'[q] = call[q] /\ p_flags'[q] = p_flags[q]
        BY <1>1, <2>1
      <4> QED
        BY <1>5, <2>1, <4>1 DEF ExitBlocks
    <3>3. NeverMissed'
      BY <1>1, <2>1 DEF NeverMissed
    <3> QED
      BY <3>1, <3>2, <3>3
  <2>3. UserBits'
    <3>1. BitsOf(p)'
      BY <1>1, <1>2, <1>4, <1>5, <2>1 DEF BitsOf
    <3>2. ASSUME NEW q \in Users, q # p PROVE BitsOf(q)'
      <4>1. BitsOf(q) /\ p_msg'[q] # "mm"
        BY <1>4 DEF UserBits
      <4>2. /\ p_flags'[q] = p_flags[q] /\ p_recvfrom'[q] = p_recvfrom[q]
            /\ upc'[q] = upc[q] /\ call'[q] = call[q] /\ exit_status'[q] = exit_status[q]
        BY <1>1, <1>4, <1>5, <2>1, <3>2
      <4> QED
        BY <4>1, <4>2, BitsKept
    <3> QED
      BY <3>1, <3>2 DEF UserBits
  <2>4. Owed' = Owed \ {p} /\ To' = {}
    <3>1. upc'[p] = "back" /\ "RECEIVING" \notin p_flags'[p]
      BY <1>1, <1>2, <1>5, <2>1
    <3>2. p \notin Owed' /\ To' = {}
      BY <2>1, <3>1 DEF Owed, To
    <3>3. \A q \in Users \ {p} : q \in Owed' <=> q \in Owed
      BY <1>5, <2>1 DEF Owed
    <3>4. Owed \subseteq Users /\ Owed' \subseteq Users
      BY DEF Owed
    <3> HIDE DEF PInv
    <3> QED
      BY <3>2, <3>3, <3>4
  <2>5. ServerBits'
    BY <2>1, <2>4 DEF ServerBits
  <2>6. JobInHand'
    BY <1>1, <1>7, <2>1, <2>4 DEF JobInHand, Leaving
  <2>7. ParentsAlive'
    BY <1>1, <2>1 DEF ParentsAlive, LeftBehind, IsEmpty, Alive
  <2> QED
    BY <1>4, <1>5, <2>2, <2>3, <2>5, <2>6, <2>7
<1>9. CASE Trapped(p)
  <2>1. /\ To = {p} /\ call[p] # "EXIT" /\ mpc \in {"idle", "reply", "free"}
        /\ UNCHANGED <<p_flags, p_recvfrom>> /\ kernel' = "trap"
    BY <1>9 DEF Trapped, To, ServerBits
  <2>2. FixedSlots' /\ ExitBlocks' /\ NeverMissed'
    <3>1. FixedSlots' /\ NeverMissed'
      BY <1>1, <1>4, <2>1 DEF FixedSlots, NeverMissed, Alive
    <3>2. ExitBlocks'
      BY <1>1, <1>5, <2>1 DEF ExitBlocks
    <3> QED
      BY <3>1, <3>2
  <2>3. UserBits'
    <3>1. BitsOf(p)'
      BY <1>1, <1>2, <1>4, <1>5, <2>1 DEF BitsOf
    <3>2. ASSUME NEW q \in Users, q # p PROVE BitsOf(q)'
      <4>1. BitsOf(q) /\ p_msg'[q] # "mm"
        BY <1>4 DEF UserBits
      <4>2. /\ p_flags'[q] = p_flags[q] /\ p_recvfrom'[q] = p_recvfrom[q]
            /\ upc'[q] = upc[q] /\ call'[q] = call[q] /\ exit_status'[q] = exit_status[q]
        BY <1>1, <1>4, <1>5, <2>1, <3>2
      <4> QED
        BY <4>1, <4>2, BitsKept
    <3> QED
      BY <3>1, <3>2 DEF UserBits
  <2>4. Owed' = Owed \ {p}
    <3>1. upc'[p] = "back" /\ "RECEIVING" \notin p_flags'[p]
      BY <1>1, <1>2, <1>5, <2>1
    <3>2. p \notin Owed'
      BY <3>1 DEF Owed
    <3>3. \A q \in Users \ {p} : q \in Owed' <=> q \in Owed
      BY <1>5, <2>1 DEF Owed
    <3>4. Owed \subseteq Users /\ Owed' \subseteq Users
      BY DEF Owed
    <3> HIDE DEF PInv
    <3> QED
      BY <3>2, <3>3, <3>4
  <2>5. To' = To
    BY <1>4, <2>1 DEF To
  <2>6. ServerBits'
    BY <1>1, <1>2, <1>5, <1>6, <2>1, <2>5 DEF ServerBits
  <2>7. JobInHand'
    BY <1>1, <1>7, <2>1, <2>4, <2>5 DEF JobInHand, Leaving
  <2>8. ParentsAlive'
    BY <1>1, <2>1 DEF ParentsAlive, LeftBehind, IsEmpty, Alive
  <2> QED
    BY <1>4, <1>5, <2>2, <2>3, <2>6, <2>7, <2>8
<1>10. CASE Waiting(p)
  <2>1. /\ p \notin To /\ p_flags'[p] = {"RECEIVING"} /\ p_recvfrom'[p] = MM
        /\ \A q \in Slots \ {p} : p_flags'[q] = p_flags[q] /\ p_recvfrom'[q] = p_recvfrom[q]
        /\ p_flags'[MM] = p_flags[MM]
    BY <1>1, <1>10 DEF Waiting, KernelTyped
  <2>2. /\ \A q \in Users : IsEmpty(q)' = IsEmpty(q) /\ Alive(q)' = Alive(q)
        /\ \A q \in Slots, f \in {"WAITING", "HANGING", "UNSTARTED"} :
             f \in p_flags'[q] <=> f \in p_flags[q]
    <3>1. ~IsEmpty(p) /\ ~IsEmpty(p)' /\ Alive(p) /\ Alive(p)'
      BY <1>2, <2>1 DEF IsEmpty, Alive
    <3>2. \A q \in Users : IsEmpty(q)' = IsEmpty(q) /\ Alive(q)' = Alive(q)
      BY <2>1, <3>1 DEF IsEmpty, Alive
    <3> QED
      BY <1>2, <2>1, <3>2
  <2>3. FixedSlots'
    BY <1>1, <1>4, <2>1, <2>2 DEF FixedSlots
  <2>4. ExitBlocks' /\ NeverMissed'
    BY <1>1, <1>5, <2>1, <2>2 DEF ExitBlocks, NeverMissed
  <2>5. UserBits'
    <3>1. BitsOf(p)'
      BY <1>1, <1>4, <1>5, <2>1 DEF BitsOf
    <3>2. ASSUME NEW q \in Users, q # p PROVE BitsOf(q)'
      <4>1. BitsOf(q) /\ p_msg'[q] # "mm"
        BY <1>4 DEF UserBits
      <4>2. /\ p_flags'[q] = p_flags[q] /\ p_recvfrom'[q] = p_recvfrom[q]
            /\ upc'[q] = upc[q] /\ call'[q] = call[q] /\ exit_status'[q] = exit_status[q]
        BY <1>1, <1>4, <1>5, <2>1, <3>2
      <4> QED
        BY <4>1, <4>2, BitsKept
    <3> QED
      BY <3>1, <3>2 DEF UserBits
  <2>6. Owed' = Owed
    <3>1. p \in Owed'
      BY <1>1, <1>5, <2>1 DEF Owed
    <3>2. \A q \in Users \ {p} : q \in Owed' <=> q \in Owed
      BY <1>5, <2>1 DEF Owed
    <3>3. Owed \subseteq Users /\ Owed' \subseteq Users
      BY DEF Owed
    <3>4. \A q : q \in Owed' <=> q \in Owed
      BY <1>1, <1>6, <3>1, <3>2, <3>3
    <3> HIDE DEF PInv
    <3> QED
      BY <3>4
  <2>7. To' = To
    BY <1>4, <2>1 DEF To
  <2>8. ServerBits'
    <3>1. \A d \in To : d \in Users /\ d # p
      BY <2>1 DEF ServerBits
    <3>2. ASSUME NEW d \in To
          PROVE  /\ "RECEIVING" \notin p_flags'[d] /\ upc'[d] # "user"
                 /\ kernel' = "up" => upc'[d] = "mid"
      <4>1. "RECEIVING" \notin p_flags[d] /\ upc[d] = "mid"
        BY <1>2, <3>2 DEF ServerBits
      <4>2. d \in Users /\ d # p
        BY <3>1, <3>2
      <4> HIDE DEF PInv
      <4> QED
        BY <1>5, <2>1, <4>1, <4>2
    <3> QED
      BY <1>1, <1>6, <2>1, <2>7, <3>1, <3>2 DEF ServerBits
  <2>9. JobInHand'
    <3>1. \A q : Leaving(q) => p_flags'[q] = p_flags[q] \/ "HANGING" \notin p_flags[q]
      BY <1>2, <2>1 DEF Leaving
    <3> HIDE DEF PInv
    <3>2. JobInHand
      BY DEF PInv
    <3> QED
      BY <1>1, <1>4, <1>7, <2>1, <2>6, <2>7, <3>1, <3>2 DEF JobInHand
  <2>10. ParentsAlive'
    BY <1>1, <2>2 DEF ParentsAlive, LeftBehind
  <2> QED
    BY <1>4, <1>5, <2>3, <2>4, <2>5, <2>8, <2>9, <2>10
<1> QED
  BY <1>4, <1>8, <1>9, <1>10
-----------------------------------------------------------------------------
(* The steps of task_mm that write the process table.                      *)

(* The search for the first slot of some kind finds it, if there is one.   *)
LEMMA LeastIsLeast ==
  ASSUME NEW S \in SUBSET Nat, S # {}
  PROVE  Least(S) \in S /\ \A y \in S : Least(S) <= y
<1> DEFINE R == OpToRel(<, Nat)
<1>1. PICK x \in S : \A y \in S : <<y, x>> \notin R
  <2>1. IsWellFoundedOn(R, Nat)
    BY NatLessThanWellFounded
  <2> HIDE DEF R
  <2> QED
    BY <2>1, WFMin, Zenon
<1>2. \A y \in S : x <= y
  <2>1. \A y \in S : ~(y < x)
    BY <1>1 DEF OpToRel
  <2> QED
    BY <2>1
<1> QED
  BY <1>1, <1>2 DEF Least

(* Who is owed something, and is not INIT, was made by fork.               *)
LEMMA OwedIsVacant ==
  ASSUME PInv, NEW p \in Owed, p # INIT_PROC
  PROVE  p \in Vacant /\ ~IsEmpty(p)
  BY DEF PInv, FixedSlots, Owed, IsEmpty

(* A zombie is a process made by fork, inside exit, with its status set.   *)
LEMMA ZombieLeaves ==
  ASSUME PInv, NEW z \in Slots, "HANGING" \in p_flags[z]
  PROVE  Leaving(z) /\ exit_status[z] \in Statuses /\ z # INIT_PROC
<1>1. z \in Users /\ z # INIT_PROC
  BY DEF PInv, FixedSlots, Alive
<1>2. BitsOf(z)
  BY <1>1 DEF PInv, UserBits
<1>3. z \in Vacant
  BY <1>1, <1>2 DEF PInv, FixedSlots, BitsOf
<1> QED
  BY <1>1, <1>2, <1>3 DEF BitsOf, Leaving

(* The slot is copied while the parent waits for the answer to fork, so    *)
(* that the child is owed one like it.                                     *)
LEMMA ForkCopyPInv == PInv /\ ForkCopy => PInv'
<1> SUFFICES ASSUME PInv, ForkCopy PROVE PInv'
  OBVIOUS
<1>0. PICK child, parent : child = Least({p \in Slots : IsEmpty(p)}) /\ parent = mm_msg.source
  OBVIOUS
<1>1. InMM("got") /\ (\E p \in Slots : IsEmpty(p)) /\ mm_msg.body.type = "FORK"
  BY DEF ForkCopy
<1>2. /\ mpc = "got" /\ p_flags[MM] = {} /\ To = {} /\ Served(parent)
  BY <1>0, <1>1, ServerRuns
<1>3. child \in Slots /\ IsEmpty(child)
  <2> DEFINE free == {p \in Slots : IsEmpty(p)}
  <2>1. free \in SUBSET Nat /\ free # {}
    BY <1>1
  <2>2. Least(free) \in free
    <3> HIDE DEF free
    <3> QED
      BY <2>1, LeastIsLeast
  <2> QED
    BY <1>0, <2>2
<1>4. /\ p_flags' = [p_flags EXCEPT ![child] = p_flags[parent]]
      /\ p_msg' = [p_msg EXCEPT ![child] = p_msg[parent]]
      /\ p_recvfrom' = [p_recvfrom EXCEPT ![child] = p_recvfrom[parent]]
      /\ p_sendto' = [p_sendto EXCEPT ![child] = p_sendto[parent]]
      /\ q_sending' = [q_sending EXCEPT ![child] = q_sending[parent]]
      /\ ldt_base' = [ldt_base EXCEPT ![child] = ldt_base[parent]]
      /\ exit_status' = [exit_status EXCEPT ![child] = exit_status[parent]]
      /\ p_parent' = [p_parent EXCEPT ![child] = parent]
      /\ upc' = [upc EXCEPT ![child] = upc[parent]]
      /\ call' = [call EXCEPT ![child] = call[parent]]
      /\ mpc' = "forkmem"
      /\ mvar' = [src |-> parent, ret |-> 0, proc |-> child, i |-> 0]
      /\ UNCHANGED <<mem, p_proc_ready, kernel>>
  BY <1>0 DEF ForkCopy
<1> USE DEF PInv
<1>5. child \in Vacant /\ child \in Users /\ child # INIT_PROC /\ p_flags[child] = {"EMPTY"}
  BY <1>3 DEF IsEmpty, FixedSlots, UserBits, BitsOf
<1>6. /\ parent \in Users /\ p_flags[parent] \subseteq {"RECEIVING"}
      /\ upc[parent] = "mid" \/ "RECEIVING" \in p_flags[parent]
      /\ Owed = {parent} /\ call[parent] = "FORK" /\ parent # child
  BY <1>0, <1>1, <1>2, <1>5 DEF Served, Owed
<1>7. KernelTyped' /\ ServerTyped'
  BY <1>4, <1>5, <1>6 DEF KernelTyped, ServerTyped, Jobs, Ints
<1>8. /\ p_flags'[child] = p_flags[parent] /\ p_msg'[child] = p_msg[parent]
      /\ p_recvfrom'[child] = p_recvfrom[parent] /\ exit_status'[child] = exit_status[parent]
      /\ upc'[child] = upc[parent] /\ call'[child] = call[parent] /\ p_parent'[child] = parent
      /\ \A q \in Slots \ {child} :
           /\ p_flags'[q] = p_flags[q] /\ p_msg'[q] = p_msg[q] /\ p_recvfrom'[q] = p_recvfrom[q]
           /\ exit_status'[q] = exit_status[q] /\ upc'[q] = upc[q] /\ call'[q] = call[q]
           /\ p_parent'[q] = p_parent[q] /\ ldt_base'[q] = ldt_base[q]
  BY <1>4, <1>5 DEF KernelTyped, ServerTyped
<1>9. FixedSlots' /\ CpuRuns'
  <2>1. p_proc_ready = MM
    BY <1>1 DEF InMM
  <2> QED
    BY <1>2, <1>4, <1>5, <1>8, <2>1 DEF FixedSlots, CpuRuns, Alive
<1>10. UserBits' /\ ExitBlocks'
  <2>1. BitsOf(child)'
    <3>1. BitsOf(parent)
      BY <1>6 DEF UserBits
    <3> QED
      BY <1>6, <1>8, <3>1 DEF BitsOf
  <2>2. ASSUME NEW q \in Users, q # child PROVE BitsOf(q)'
    <3>1. BitsOf(q)
      BY DEF UserBits
    <3>2. /\ p_flags'[q] = p_flags[q] /\ p_msg'[q] = p_msg[q] /\ p_recvfrom'[q] = p_recvfrom[q]
          /\ exit_status'[q] = exit_status[q] /\ upc'[q] = upc[q] /\ call'[q] = call[q]
      BY <1>8, <2>2
    <3>3. p_msg[q] # "mm"
      BY <3>1 DEF BitsOf
    <3> QED
      BY <3>1, <3>2, <3>3, BitsKept
  <2>3. UserBits'
    BY <2>1, <2>2 DEF UserBits
  <2>4. call'[child] # "EXIT"
    BY <1>6, <1>8
  <2>5. ExitBlocks'
    <3>1. ASSUME NEW q \in Users, q # child, call'[q] = "EXIT", upc'[q] = "back"
          PROVE  "RECEIVING" \in p_flags'[q] \/ "EMPTY" \in p_flags'[q]
      <4>1. p_flags'[q] = p_flags[q] /\ call[q] = "EXIT" /\ upc[q] = "back"
        BY <1>8, <3>1
      <4> QED
        BY <4>1 DEF ExitBlocks
    <3> QED
      BY <2>4, <3>1 DEF ExitBlocks
  <2> QED
    BY <2>3, <2>5
<1>11. p_flags'[MM] = {} /\ To' = {}
  BY <1>2, <1>5, <1>8 DEF To
<1>12. Owed' = {parent, child}
  <2>1. child \in Owed' /\ parent \in Owed'
    BY <1>5, <1>6, <1>8 DEF Owed
  <2>2. ASSUME NEW q \in Owed', q # child PROVE q \in Owed
    BY <1>8, <2>2 DEF Owed
  <2> QED
    BY <1>6, <2>1, <2>2
<1>13. ServerBits' /\ JobInHand'
  BY <1>4, <1>5, <1>6, <1>8, <1>11, <1>12 DEF ServerBits, JobInHand
<1>14. NeverMissed'
  BY <1>5, <1>6, <1>8 DEF NeverMissed
<1>15. ParentsAlive'
  <2>1. \A q \in Users : Alive(q) => Alive(q)'
    BY <1>5, <1>8 DEF Alive
  <2>2. Alive(parent)
    BY <1>6 DEF Alive
  <2>3. \A q \in Users \ {child} : IsEmpty(q)' = IsEmpty(q)
    BY <1>8 DEF IsEmpty
  <2> QED
    BY <1>2, <1>6, <1>8, <2>1, <2>2, <2>3 DEF ParentsAlive, LeftBehind
<1> QED
  BY <1>7, <1>9, <1>10, <1>13, <1>14, <1>15

(* The child gets memory of its own; the buffer of task_mm lies in none of *)
(* the segments given to children.                                         *)
LEMMA ForkMemoryPInv == PInv /\ ForkMemory => PInv'
<1> SUFFICES ASSUME PInv, ForkMemory PROVE PInv'
  OBVIOUS
<1> DEFINE child == mvar.proc
           base == ldt_base[mvar.src]
           copy == [l \in Location |-> IF l[1] = child THEN mem[<<base, l[2]>>] ELSE mem[l]]
<1>1. /\ InMM("forkmem")
      /\ mem' = [copy EXCEPT ![Loc(MM, "mm")].body.pid = child]
      /\ ldt_base' = [ldt_base EXCEPT ![child] = child]
      /\ mpc' = "forksend"
      /\ UNCHANGED <<p_flags, p_msg, p_recvfrom, p_sendto, q_sending, p_proc_ready, kernel,
                     p_parent, exit_status, mvar, upc, call>>
  BY DEF ForkMemory, ChildBase, userVars
<1>2. mpc = "forkmem"
  BY <1>1 DEF InMM
<1> USE DEF PInv
<1>3. child \in Vacant /\ child \in Slots /\ base \in Segs /\ mvar \in Jobs
  <2>1. mvar \in Jobs /\ ldt_base \in [Slots -> Segs]
    BY DEF KernelTyped, ServerTyped
  <2>2. child \in Vacant
    BY <1>2 DEF JobInHand
  <2> QED
    BY <2>1, <2>2 DEF Jobs
<1>4. copy \in [Location -> Message]
  BY <1>3 DEF KernelTyped, Location
<1>5. mem' \in [Location -> Message]
  <2>1. Loc(MM, "mm") \in Location
    BY ServerBuffer
  <2>2. copy[Loc(MM, "mm")] \in Message
    BY <1>4, <2>1
  <2> HIDE DEF copy
  <2>3. [copy[Loc(MM, "mm")] EXCEPT !.body.pid = child] \in Message
    BY <1>3, <2>2 DEF Message, Body, Bodies, Ints
  <2> QED
    BY <1>1, <1>4, <2>3
<1>6. ldt_base' \in [Slots -> Segs] /\ ldt_base'[MM] = FlatSeg
  BY <1>1, <1>3 DEF KernelTyped, FixedSlots
<1>7. KernelTyped' /\ ServerTyped'
  BY <1>1, <1>5, <1>6 DEF KernelTyped, ServerTyped
<1>8. FixedSlots' /\ UserBits' /\ ExitBlocks' /\ CpuRuns' /\ NeverMissed'
  <2>1. FixedSlots' /\ CpuRuns'
    BY <1>1, <1>6 DEF FixedSlots, CpuRuns, Alive
  <2>2. UserBits'
    BY <1>1 DEF UserBits, BitsOf
  <2>3. ExitBlocks' /\ NeverMissed'
    BY <1>1 DEF ExitBlocks, NeverMissed
  <2> QED
    BY <2>1, <2>2, <2>3
<1>9. ServerBits' /\ JobInHand'
  BY <1>1, <1>2 DEF ServerBits, JobInHand, To, Owed
<1>10. ParentsAlive'
  BY <1>1, <1>2 DEF ParentsAlive, IsEmpty, Alive, LeftBehind
<1> QED
  BY <1>7, <1>8, <1>9, <1>10

(* cleanup frees the slot of a process that left.  If that process had no  *)
(* time to become a zombie, its children are the next thing task_mm does.  *)
LEMMA CleanupFreePInv == PInv /\ CleanupFree => PInv'
<1> SUFFICES ASSUME PInv, CleanupFree PROVE PInv'
  OBVIOUS
<1>1. /\ InMM("free")
      /\ p_flags' = [p_flags EXCEPT ![mvar.proc] = {"EMPTY"}]
      /\ mpc' = IF mvar.i = 0 THEN "idle" ELSE "reparent"
      /\ UNCHANGED <<p_msg, p_recvfrom, p_sendto, q_sending, ldt_base, mem, p_proc_ready,
                     kernel, p_parent, exit_status, mvar, upc, call>>
  BY DEF CleanupFree, userVars
<1>2. mpc = "free" /\ p_flags[MM] = {} /\ To = {} /\ p_proc_ready = MM
  BY <1>1, ServerRuns DEF InMM
<1>0. PICK proc : proc = mvar.proc
  OBVIOUS
<1> USE DEF PInv
<1>3. /\ Leaving(proc) /\ Owed \subseteq {proc} /\ proc \in Users /\ proc # INIT_PROC
      /\ "HANGING" \in p_flags[proc] \/ (mvar.i = 1 /\ proc = mvar.src)
  BY <1>0, <1>2 DEF JobInHand, Leaving
<1>4. p_flags'[proc] = {"EMPTY"} /\ \A q \in Slots \ {proc} : p_flags'[q] = p_flags[q]
  BY <1>0, <1>1, <1>3 DEF KernelTyped
<1>5. KernelTyped' /\ ServerTyped'
  BY <1>0, <1>1, <1>3 DEF KernelTyped, ServerTyped, Flag
<1>6. FixedSlots' /\ CpuRuns'
  BY <1>1, <1>2, <1>3, <1>4 DEF FixedSlots, CpuRuns, Alive, Leaving
<1>7. UserBits'
  <2>1. BitsOf(proc)'
    BY <1>1, <1>3, <1>4 DEF UserBits, BitsOf, Leaving
  <2>2. ASSUME NEW q \in Users, q # proc PROVE BitsOf(q)'
    BY <1>1, <1>4, <2>2 DEF UserBits, BitsOf
  <2> QED
    BY <2>1, <2>2 DEF UserBits
<1>8. ExitBlocks' /\ NeverMissed'
  BY <1>1, <1>3, <1>4 DEF ExitBlocks, NeverMissed
<1>9. Owed' = {} /\ To' = {} /\ p_flags'[MM] = {}
  BY <1>1, <1>2, <1>3, <1>4 DEF Owed, To
<1>10. ServerBits' /\ JobInHand'
  BY <1>1, <1>9 DEF ServerBits, JobInHand
<1>11. ParentsAlive'
  <2> SUFFICES ASSUME NEW c \in Vacant, ~IsEmpty(c)'
               PROVE  p_parent[c] \in Users /\ (Alive(p_parent[c])' \/ LeftBehind(c)')
    BY <1>1 DEF ParentsAlive
  <2>1. c # proc /\ ~IsEmpty(c)
    BY <1>4 DEF IsEmpty
  <2>2. p_parent[c] \in Users /\ (Alive(p_parent[c]) \/ LeftBehind(c))
    BY <2>1 DEF ParentsAlive
  <2>3. LeftBehind(c) => LeftBehind(c)'
    BY <1>1 DEF LeftBehind
  <2>4. CASE Alive(p_parent[c]) /\ p_parent[c] # proc
    BY <1>1, <1>4, <2>2, <2>4 DEF Alive
  <2>5. CASE Alive(p_parent[c]) /\ p_parent[c] = proc
    <3>1. mvar.i = 1 /\ proc = mvar.src
      BY <1>3, <2>5 DEF Alive
    <3>2. c \in Nat
      OBVIOUS
    <3> QED
      BY <1>1, <2>2, <2>5, <3>1, <3>2 DEF LeftBehind
  <2> QED
    BY <2>2, <2>3, <2>4, <2>5
<1> QED
  BY <1>5, <1>6, <1>7, <1>8, <1>10, <1>11

(* exit: the parent is told if it waits, else the process becomes a zombie *)
LEMMA DoExitPInv == PInv /\ DoExit => PInv'
<1> SUFFICES ASSUME PInv, DoExit PROVE PInv'
  OBVIOUS
<1>0. PICK pid, parent, val : pid = mm_msg.source /\ parent = p_parent[pid] /\ val = mm_msg.body.val
  OBVIOUS
<1>1. InMM("got") /\ mm_msg.body.type = "EXIT"
  BY DEF DoExit
<1>2. /\ mpc = "got" /\ p_flags[MM] = {} /\ To = {} /\ p_proc_ready = MM
      /\ Served(pid) /\ val \in Statuses
  BY <1>0, <1>1, ServerRuns DEF InMM, Served
<1>3. /\ exit_status' = [exit_status EXCEPT ![pid] = val]
      /\ \/ /\ "WAITING" \in p_flags[parent]
            /\ p_flags' = [p_flags EXCEPT ![parent] = @ \ {"WAITING"}] /\ mpc' = "cleanup"
         \/ /\ "WAITING" \notin p_flags[parent]
            /\ p_flags' = [p_flags EXCEPT ![pid] = @ \cup {"HANGING"}] /\ mpc' = "reparent"
      /\ mvar' = [src |-> pid, ret |-> 0, proc |-> pid, i |-> 1]
      /\ UNCHANGED <<p_msg, p_recvfrom, p_sendto, q_sending, ldt_base, mem, p_proc_ready,
                     kernel, p_parent, upc, call>>
  BY <1>0 DEF DoExit, Waits, userVars
<1>4. /\ pid \in Owed /\ Owed = {pid} /\ pid \in Users /\ p_flags[pid] \subseteq {"RECEIVING"}
      /\ call[pid] = "EXIT" /\ pid # INIT_PROC
  BY <1>0, <1>1, <1>2 DEF Served, Owed, PInv, FixedSlots
<1>5. pid \in Vacant /\ ~IsEmpty(pid)
  BY <1>4, OwedIsVacant
<1> USE DEF PInv
<1>6. parent \in Users /\ Alive(parent) /\ upc[pid] # "user"
  BY <1>0, <1>2, <1>4, <1>5 DEF ParentsAlive, LeftBehind, Owed, UserBits, BitsOf
<1>7. /\ ServerTyped' /\ exit_status'[pid] = val
      /\ \A q \in Slots \ {pid} : exit_status'[q] = exit_status[q]
  BY <1>2, <1>3, <1>4 DEF ServerTyped, Jobs, Ints
<1>8. CASE mpc' = "cleanup"
  <2>1. /\ "WAITING" \in p_flags[parent] /\ p_flags' = [p_flags EXCEPT ![parent] = @ \ {"WAITING"}]
        /\ parent # pid
    BY <1>3, <1>4, <1>8
  <2>2. /\ p_flags'[parent] = p_flags[parent] \ {"WAITING"}
        /\ \A q \in Slots \ {parent} : p_flags'[q] = p_flags[q]
    BY <1>6, <2>1 DEF KernelTyped
  <2>3. /\ BitsOf(parent) /\ call[parent] = "WAIT" /\ p_flags[parent] \subseteq {"RECEIVING", "WAITING"}
        /\ upc[parent] = "mid" \/ "RECEIVING" \in p_flags[parent]
    BY <1>6, <2>1 DEF UserBits, BitsOf
  <2>4. KernelTyped'
    BY <1>3, <2>1 DEF KernelTyped
  <2>5. FixedSlots' /\ CpuRuns' /\ ExitBlocks' /\ NeverMissed'
    BY <1>2, <1>3, <1>6, <2>2, <2>3 DEF FixedSlots, CpuRuns, ExitBlocks, NeverMissed, Alive
  <2>6. UserBits'
    <3>1. BitsOf(parent)'
      BY <1>3, <1>7, <2>1, <2>2, <2>3 DEF BitsOf
    <3>2. ASSUME NEW q \in Users, q # parent PROVE BitsOf(q)'
      <4>1. BitsOf(q) /\ p_flags'[q] = p_flags[q]
        BY <2>2, <3>2 DEF UserBits
      <4>2. q = pid => BitsOf(q)'
        BY <1>3, <1>4, <4>1 DEF BitsOf
      <4>3. q # pid => BitsOf(q)'
        BY <1>3, <1>7, <4>1 DEF BitsOf
      <4> QED
        BY <4>2, <4>3
    <3> QED
      BY <3>1, <3>2 DEF UserBits
  <2>7. Owed' = {pid, parent} /\ p_flags'[MM] = {} /\ To' = {}
    <3>1. pid \in Owed' /\ parent \in Owed'
      BY <1>3, <1>4, <1>6, <2>1, <2>2, <2>3 DEF Owed
    <3>2. ASSUME NEW q \in Owed', q # parent PROVE q \in Owed
      BY <1>3, <2>2, <3>2 DEF Owed
    <3>3. p_flags'[MM] = {}
      BY <1>2, <1>6, <2>2
    <3> QED
      BY <1>4, <3>1, <3>2, <3>3 DEF To
  <2>8. ServerBits' /\ JobInHand'
    <3>1. mvar'.proc = pid /\ mvar'.src = pid /\ mvar'.i = 1 /\ p_parent'[pid] = parent
      BY <1>0, <1>3
    <3>2. Leaving(pid)'
      BY <1>3, <1>4, <1>5, <1>6 DEF Leaving
    <3> QED
      BY <1>2, <1>3, <1>7, <1>8, <2>3, <2>7, <3>1, <3>2 DEF ServerBits, JobInHand
  <2>9. ParentsAlive'
    <3>1. \A q \in Users : Alive(q) => Alive(q)'
      BY <1>6, <2>2 DEF Alive
    <3>2. ~IsEmpty(parent) /\ ~IsEmpty(parent)'
      BY <1>6, <2>2 DEF IsEmpty, Alive
    <3>3. \A q \in Users : IsEmpty(q)' = IsEmpty(q)
      BY <2>2, <3>2 DEF IsEmpty
    <3> QED
      BY <1>2, <1>3, <3>1, <3>3 DEF ParentsAlive, LeftBehind
  <2> QED
    BY <1>7, <2>4, <2>5, <2>6, <2>8, <2>9
<1>9. CASE mpc' = "reparent"
  <2>1. /\ "WAITING" \notin p_flags[parent]
        /\ p_flags' = [p_flags EXCEPT ![pid] = @ \cup {"HANGING"}]
    BY <1>3, <1>9
  <2>2. /\ p_flags'[pid] = p_flags[pid] \cup {"HANGING"}
        /\ \A q \in Slots \ {pid} : p_flags'[q] = p_flags[q]
    BY <1>4, <2>1 DEF KernelTyped
  <2>3. KernelTyped'
    BY <1>3, <2>1 DEF KernelTyped, Flag
  <2>4. FixedSlots' /\ CpuRuns' /\ ExitBlocks'
    BY <1>2, <1>3, <1>4, <1>5, <2>2 DEF FixedSlots, CpuRuns, ExitBlocks, Alive
  <2>5. NeverMissed'
    BY <1>0, <1>3, <1>4, <2>1, <2>2 DEF NeverMissed
  <2>6. UserBits'
    <3>1. BitsOf(pid)'
      <4>1. BitsOf(pid)
        BY <1>4 DEF UserBits
      <4>2. /\ p_flags'[pid] \subseteq {"RECEIVING", "HANGING"} /\ "EMPTY" \notin p_flags'[pid]
            /\ "RECEIVING" \in p_flags'[pid] => "RECEIVING" \in p_flags[pid]
            /\ exit_status'[pid] \in Statuses
        BY <1>2, <1>4, <1>7, <2>2
      <4> QED
        BY <1>3, <1>4, <1>6, <4>1, <4>2 DEF BitsOf
    <3>2. ASSUME NEW q \in Users, q # pid PROVE BitsOf(q)'
      <4>1. BitsOf(q) /\ p_flags'[q] = p_flags[q]
        BY <2>2, <3>2 DEF UserBits
      <4> QED
        BY <1>3, <1>7, <3>2, <4>1 DEF BitsOf
    <3> QED
      BY <3>1, <3>2 DEF UserBits
  <2>7. Owed' = {} /\ p_flags'[MM] = {} /\ To' = {}
    <3>1. \A q \in Owed' : q \in Owed /\ q # pid
      <4>1. "HANGING" \in p_flags'[pid]
        BY <2>2
      <4>2. pid \notin Owed'
        BY <4>1 DEF Owed
      <4>3. ASSUME NEW q \in Owed' PROVE q \in Owed
        BY <1>3, <2>2, <4>2, <4>3 DEF Owed
      <4> QED
        BY <4>2, <4>3
    <3>2. p_flags'[MM] = {}
      BY <1>2, <1>4, <2>2
    <3> QED
      BY <1>4, <3>1, <3>2 DEF To
  <2>8. ServerBits' /\ JobInHand'
    BY <1>9, <2>7 DEF ServerBits, JobInHand
  <2>9. ParentsAlive'
    <3> SUFFICES ASSUME NEW c \in Vacant, ~IsEmpty(c)'
                 PROVE  p_parent[c] \in Users /\ (Alive(p_parent[c])' \/ LeftBehind(c)')
      BY <1>3 DEF ParentsAlive
    <3>1. ~IsEmpty(c)
      BY <1>5, <2>2 DEF IsEmpty
    <3>2. p_parent[c] \in Users /\ Alive(p_parent[c])
      BY <1>2, <3>1 DEF ParentsAlive, LeftBehind
    <3>3. CASE p_parent[c] = pid
      <4>1. c \in Nat
        OBVIOUS
      <4> QED
        BY <1>3, <1>9, <3>2, <3>3, <4>1 DEF LeftBehind
    <3>4. CASE p_parent[c] # pid
      BY <1>3, <2>2, <3>2, <3>4 DEF Alive
    <3> QED
      BY <3>3, <3>4
  <2> QED
    BY <1>7, <2>3, <2>4, <2>5, <2>6, <2>8, <2>9
<1> QED
  BY <1>3, <1>8, <1>9

(* The children that exit leaves behind go to INIT.  The loop stops for a  *)
(* zombie if INIT waits, and INIT is no longer waiting then.               *)
LEMMA DoExitReparentPInv == PInv /\ DoExitReparent => PInv'
<1> SUFFICES ASSUME PInv, DoExitReparent PROVE PInv'
  OBVIOUS
<1>0. PICK children, reaped, moved :
        /\ children = {c \in Slots : p_parent[c] = mvar.src /\ c >= mvar.i - 1}
        /\ reaped = IF "WAITING" \in p_flags[INIT_PROC]
                    THEN {c \in children : "HANGING" \in p_flags[c]} ELSE {}
        /\ moved = IF reaped = {} THEN children ELSE {c \in children : c <= Least(reaped)}
  OBVIOUS
<1>1. /\ InMM("reparent")
      /\ p_parent' = [c \in Slots |-> IF c \in moved THEN INIT_PROC ELSE p_parent[c]]
      /\ reaped = {} => mpc' = "idle" /\ UNCHANGED <<p_flags, mvar>>
      /\ reaped # {} => /\ mpc' = "cleanup"
                        /\ p_flags' = [p_flags EXCEPT ![INIT_PROC] = @ \ {"WAITING"}]
                        /\ mvar' = [mvar EXCEPT !.proc = Least(reaped), !.i = Least(reaped) + 2]
      /\ UNCHANGED <<p_msg, p_recvfrom, p_sendto, q_sending, ldt_base, mem, p_proc_ready,
                     kernel, exit_status, upc, call>>
  <2>1. {c \in Children(mvar.src) : c >= mvar.i - 1} = children
    BY <1>0 DEF Children
  <2>2. Reaped(children) = reaped
    BY <1>0 DEF Reaped, Zombies, Waits
  <2> QED
    BY <1>0, <2>1, <2>2 DEF DoExitReparent, userVars
<1>2. mpc = "reparent" /\ p_flags[MM] = {} /\ To = {} /\ p_proc_ready = MM
  BY <1>1, ServerRuns DEF InMM
<1>3. reaped \subseteq Slots /\ (\A z \in reaped : z \in children /\ "HANGING" \in p_flags[z])
      /\ moved \subseteq children
  BY <1>0
<1> USE DEF PInv
<1>4. Owed = {} /\ mvar \in Jobs
  BY <1>2 DEF JobInHand, ServerTyped
<1>5. ASSUME NEW c \in Vacant, ~IsEmpty(c)
      PROVE  p_parent[c] \in Users /\ (Alive(p_parent[c]) \/ c \in children)
  BY <1>0, <1>5 DEF ParentsAlive, LeftBehind
<1>6. \A c \in Slots : p_parent'[c] = IF c \in moved THEN INIT_PROC ELSE p_parent[c]
  BY <1>1
<1>7. Alive(INIT_PROC) /\ INIT_PROC \in Users
  BY DEF FixedSlots
<1>8. CASE reaped = {}
  <2>1. mpc' = "idle" /\ UNCHANGED <<p_flags, mvar>> /\ moved = children
    BY <1>0, <1>1, <1>8
  <2>2. KernelTyped' /\ ServerTyped'
    BY <1>1, <2>1 DEF KernelTyped, ServerTyped
  <2>3. FixedSlots' /\ UserBits' /\ ExitBlocks' /\ CpuRuns'
    BY <1>1, <2>1 DEF FixedSlots, UserBits, BitsOf, ExitBlocks, CpuRuns, Alive
  <2>4. ServerBits' /\ JobInHand'
    BY <1>1, <1>2, <1>4, <2>1 DEF ServerBits, JobInHand, To, Owed
  <2>5. NeverMissed'
    <3> SUFFICES ASSUME NEW p \in Slots, NEW c \in Slots, "WAITING" \in p_flags[p],
                        "HANGING" \in p_flags[c], p_parent'[c] = p
                 PROVE  FALSE
      BY <2>1 DEF NeverMissed
    <3>1. c \in moved => c \in reaped
      BY <1>0, <1>3, <1>6
    <3> QED
      BY <1>6, <1>8, <3>1 DEF NeverMissed
  <2>6. ParentsAlive'
    BY <1>5, <1>6, <1>7, <2>1 DEF ParentsAlive, IsEmpty, Alive
  <2> QED
    BY <2>2, <2>3, <2>4, <2>5, <2>6
<1>9. CASE reaped # {}
  <2>0. PICK z : z = Least(reaped)
    OBVIOUS
  <2>1. z \in reaped /\ \A y \in reaped : z <= y
    <3>1. reaped \in SUBSET Nat
      BY <1>3
    <3> QED
      BY <1>9, <2>0, <3>1, LeastIsLeast
  <2>2. Leaving(z) /\ exit_status[z] \in Statuses /\ z # INIT_PROC /\ z \in Slots /\ z \in Nat
    <3>1. z \in Slots /\ "HANGING" \in p_flags[z]
      BY <1>3, <2>1
    <3> HIDE DEF PInv
    <3> QED
      BY <3>1, ZombieLeaves
  <2>3. /\ mpc' = "cleanup" /\ "WAITING" \in p_flags[INIT_PROC]
        /\ p_flags' = [p_flags EXCEPT ![INIT_PROC] = @ \ {"WAITING"}]
        /\ mvar' = [mvar EXCEPT !.proc = z, !.i = z + 2]
        /\ moved = {c \in children : c <= z} /\ z \in moved
    BY <1>0, <1>1, <1>9, <2>0, <2>1, <2>2
  <2>4. /\ p_flags'[INIT_PROC] = p_flags[INIT_PROC] \ {"WAITING"}
        /\ \A q \in Slots \ {INIT_PROC} : p_flags'[q] = p_flags[q]
    BY <2>3 DEF KernelTyped
  <2>5. /\ call[INIT_PROC] = "WAIT" /\ p_flags[INIT_PROC] \subseteq {"RECEIVING", "WAITING"}
        /\ upc[INIT_PROC] = "mid" \/ "RECEIVING" \in p_flags[INIT_PROC]
    BY <1>7, <2>3 DEF UserBits, BitsOf
  <2>6. KernelTyped' /\ ServerTyped'
    <3>1. mvar' \in Jobs
      <4>1. mvar' = [src |-> mvar.src, ret |-> mvar.ret, proc |-> z, i |-> z + 2]
        BY <1>4, <2>3 DEF Jobs
      <4>2. z + 2 \in Nat
        BY <2>2
      <4> QED
        BY <1>4, <2>2, <4>1, <4>2 DEF Jobs
    <3>2. p_flags' \in [Slots -> SUBSET Flag]
      BY <2>3 DEF KernelTyped
    <3> QED
      BY <1>1, <2>3, <3>1, <3>2 DEF KernelTyped, ServerTyped
  <2>7. FixedSlots' /\ CpuRuns' /\ ExitBlocks'
    BY <1>1, <1>2, <2>4, <2>5 DEF FixedSlots, CpuRuns, ExitBlocks, Alive
  <2>8. UserBits'
    <3>1. BitsOf(INIT_PROC) /\ BitsOf(INIT_PROC)'
      BY <1>1, <1>7, <2>4, <2>5 DEF UserBits, BitsOf
    <3>2. ASSUME NEW q \in Users, q # INIT_PROC PROVE BitsOf(q)'
      BY <1>1, <2>4, <3>2 DEF UserBits, BitsOf
    <3> QED
      BY <3>1, <3>2 DEF UserBits
  <2>9. NeverMissed'
    <3> SUFFICES ASSUME NEW p \in Slots, NEW c \in Slots, "WAITING" \in p_flags'[p],
                        "HANGING" \in p_flags'[c], p_parent'[c] = p
                 PROVE  FALSE
      BY DEF NeverMissed
    <3>1. p # INIT_PROC /\ "WAITING" \in p_flags[p] /\ "HANGING" \in p_flags[c]
      BY <2>4
    <3> QED
      BY <1>6, <3>1 DEF NeverMissed
  <2>10. Owed' = {INIT_PROC} /\ p_flags'[MM] = {} /\ To' = {}
    <3>1. INIT_PROC \in Owed'
      BY <1>1, <1>7, <2>4, <2>5 DEF Owed
    <3>2. ASSUME NEW q \in Owed', q # INIT_PROC PROVE q \in Owed
      BY <1>1, <2>4, <3>2 DEF Owed
    <3>3. p_flags'[MM] = {}
      BY <1>2, <2>4
    <3> QED
      BY <1>4, <3>1, <3>2, <3>3 DEF To
  <2>11. ServerBits' /\ JobInHand'
    <3>1. mvar'.proc = z /\ p_parent'[z] = INIT_PROC /\ "HANGING" \in p_flags'[z]
      BY <1>3, <1>4, <1>6, <2>1, <2>2, <2>3, <2>4 DEF Jobs
    <3>2. Leaving(z)'
      BY <1>1, <2>2 DEF Leaving
    <3> QED
      BY <1>1, <2>2, <2>3, <2>5, <2>10, <3>1, <3>2 DEF ServerBits, JobInHand
  <2>12. ParentsAlive'
    <3> SUFFICES ASSUME NEW c \in Vacant, ~IsEmpty(c)'
                 PROVE  p_parent'[c] \in Users /\ (Alive(p_parent[c])' \/ LeftBehind(c)')
      BY DEF ParentsAlive
    <3>1. Alive(INIT_PROC)' /\ \A q \in Users : Alive(q) => Alive(q)'
      BY <1>7, <2>4 DEF Alive
    <3>2. ~IsEmpty(c)
      BY <2>4 DEF IsEmpty
    <3>3. CASE c \in moved
      BY <1>6, <1>7, <3>1, <3>3 DEF Alive
    <3>4. CASE c \notin moved /\ Alive(p_parent[c])
      BY <1>5, <1>6, <3>1, <3>2, <3>4 DEF Alive
    <3>5. CASE c \in children \ moved
      <4>1. c >= (z + 2) - 1
        <5>1. ~(c <= z) /\ c \in Nat
          BY <2>3, <3>5
        <5> QED
          BY <2>2, <5>1
      <4>2. mvar'.i = z + 2 /\ mvar'.src = mvar.src /\ z + 2 # 0
        BY <1>4, <2>2, <2>3 DEF Jobs
      <4>3. p_parent'[c] = mvar.src
        BY <1>0, <1>6, <3>5
      <4> QED
        BY <1>5, <1>6, <2>3, <3>2, <3>5, <4>1, <4>2, <4>3 DEF LeftBehind
    <3> QED
      BY <1>5, <3>2, <3>3, <3>4, <3>5
  <2> QED
    BY <1>1, <2>6, <2>7, <2>8, <2>9, <2>11, <2>12
<1> QED
  BY <1>8, <1>9

(* wait: a zombie child is reported, else the caller waits if it can.      *)
LEMMA DoWaitPInv == PInv /\ DoWait => PInv'
<1> SUFFICES ASSUME PInv, DoWait PROVE PInv'
  OBVIOUS
<1>0. PICK pid, hanging : /\ pid = mm_msg.source
                          /\ hanging = {c \in Slots : p_parent[c] = pid /\ "HANGING" \in p_flags[c]}
  OBVIOUS
<1>1. InMM("got") /\ mm_msg.body.type = "WAIT"
  BY DEF DoWait
<1>2. mpc = "got" /\ p_flags[MM] = {} /\ To = {} /\ p_proc_ready = MM /\ Served(pid)
  BY <1>0, <1>1, ServerRuns DEF InMM
<1>3. /\ mvar' = [src |-> pid, ret |-> 0, i |-> 0,
                  proc |-> IF hanging = {} THEN 0 ELSE Least(hanging)]
      /\ \/ hanging # {} /\ mpc' = "cleanup" /\ UNCHANGED p_flags
         \/ /\ hanging = {} /\ mpc' = "idle"
            /\ p_flags' = [p_flags EXCEPT ![pid] = @ \cup {"WAITING"}]
         \/ hanging = {} /\ mpc' = "nochild" /\ UNCHANGED p_flags
      /\ UNCHANGED <<p_msg, p_recvfrom, p_sendto, q_sending, ldt_base, mem, p_proc_ready,
                     kernel, p_parent, exit_status, upc, call>>
  <2>1. Zombies(Children(pid)) = hanging
    BY <1>0 DEF Zombies, Children
  <2> QED
    BY <1>0, <2>1 DEF DoWait, userVars
<1>4. /\ pid \in Owed /\ Owed = {pid} /\ pid \in Users /\ p_flags[pid] \subseteq {"RECEIVING"}
      /\ call[pid] = "WAIT" /\ (upc[pid] = "mid" \/ "RECEIVING" \in p_flags[pid])
  BY <1>0, <1>1, <1>2 DEF Served, Owed
<1> USE DEF PInv
<1>5. CASE hanging # {}
  <2>0. PICK z : z = Least(hanging)
    OBVIOUS
  <2>1. z \in hanging
    <3>1. hanging \in SUBSET Nat
      BY <1>0
    <3> QED
      BY <1>5, <2>0, <3>1, LeastIsLeast
  <2>2. /\ Leaving(z) /\ exit_status[z] \in Statuses /\ z \in Slots
        /\ p_parent[z] = pid /\ "HANGING" \in p_flags[z]
    <3>1. z \in Slots /\ "HANGING" \in p_flags[z] /\ p_parent[z] = pid
      BY <1>0, <2>1
    <3> HIDE DEF PInv
    <3> QED
      BY <3>1, ZombieLeaves
  <2>3. mpc' = "cleanup" /\ UNCHANGED p_flags /\ mvar' = [src |-> pid, ret |-> 0, i |-> 0, proc |-> z]
    BY <1>3, <1>5, <2>0
  <2>4. KernelTyped' /\ ServerTyped'
    BY <1>3, <1>4, <2>2, <2>3 DEF KernelTyped, ServerTyped, Jobs, Ints
  <2>5. FixedSlots' /\ UserBits' /\ ExitBlocks' /\ CpuRuns' /\ NeverMissed'
    BY <1>3, <2>3 DEF FixedSlots, UserBits, BitsOf, ExitBlocks, CpuRuns, NeverMissed, Alive
  <2>6. ServerBits' /\ JobInHand'
    BY <1>2, <1>3, <1>4, <2>2, <2>3 DEF ServerBits, JobInHand, To, Owed, Leaving
  <2>7. ParentsAlive'
    BY <1>2, <1>3, <2>3 DEF ParentsAlive, IsEmpty, Alive, LeftBehind
  <2> QED
    BY <2>4, <2>5, <2>6, <2>7
<1>6. CASE hanging = {} /\ mpc' = "idle"
  <2>1. /\ p_flags' = [p_flags EXCEPT ![pid] = @ \cup {"WAITING"}]
        /\ mvar' = [src |-> pid, ret |-> 0, i |-> 0, proc |-> 0]
    BY <1>3, <1>6
  <2>2. /\ p_flags'[pid] = p_flags[pid] \cup {"WAITING"}
        /\ \A q \in Slots \ {pid} : p_flags'[q] = p_flags[q]
    BY <1>4, <2>1 DEF KernelTyped
  <2>3. KernelTyped' /\ ServerTyped'
    BY <1>3, <1>4, <1>6, <2>1 DEF KernelTyped, ServerTyped, Jobs, Ints, Flag
  <2>4. FixedSlots' /\ CpuRuns' /\ ExitBlocks'
    BY <1>2, <1>3, <1>4, <2>2 DEF FixedSlots, CpuRuns, ExitBlocks, Alive
  <2>5. UserBits'
    <3>1. BitsOf(pid)'
      BY <1>3, <1>4, <2>2 DEF UserBits, BitsOf
    <3>2. ASSUME NEW q \in Users, q # pid PROVE BitsOf(q)'
      BY <1>3, <2>2, <3>2 DEF UserBits, BitsOf
    <3> QED
      BY <3>1, <3>2 DEF UserBits
  <2>6. NeverMissed'
    <3> SUFFICES ASSUME NEW p \in Slots, NEW c \in Slots, "WAITING" \in p_flags'[p],
                        "HANGING" \in p_flags'[c], p_parent[c] = p
                 PROVE  FALSE
      BY <1>3 DEF NeverMissed
    <3>1. "HANGING" \in p_flags[c]
      BY <2>2
    <3>2. p # pid
      BY <1>0, <1>6, <3>1
    <3> QED
      BY <2>2, <3>1, <3>2 DEF NeverMissed
  <2>7. Owed' = {} /\ p_flags'[MM] = {} /\ To' = {}
    <3>1. pid \notin Owed'
      <4>1. "WAITING" \in p_flags'[pid]
        BY <2>2
      <4> QED
        BY <4>1 DEF Owed
    <3>2. ASSUME NEW q \in Owed' PROVE q \in Owed
      BY <1>3, <2>2, <3>1, <3>2 DEF Owed
    <3>3. p_flags'[MM] = {}
      BY <1>2, <1>4, <2>2
    <3> QED
      BY <1>4, <3>1, <3>2, <3>3 DEF To
  <2>8. ServerBits' /\ JobInHand'
    BY <1>6, <2>7 DEF ServerBits, JobInHand
  <2>9. ParentsAlive'
    <3>1. \A q \in Users : Alive(q) => Alive(q)'
      BY <2>2 DEF Alive
    <3>2. ~IsEmpty(pid)
      BY <1>4 DEF IsEmpty
    <3>3. \A q \in Users : IsEmpty(q) => IsEmpty(q)'
      BY <2>2, <3>2 DEF IsEmpty
    <3> QED
      BY <1>2, <1>3, <3>1, <3>3 DEF ParentsAlive, LeftBehind
  <2> QED
    BY <2>3, <2>4, <2>5, <2>6, <2>8, <2>9
<1>7. CASE hanging = {} /\ mpc' = "nochild"
  <2>1. UNCHANGED p_flags /\ mvar' = [src |-> pid, ret |-> 0, i |-> 0, proc |-> 0]
    BY <1>3, <1>7
  <2>2. KernelTyped' /\ ServerTyped'
    BY <1>3, <1>4, <1>7, <2>1 DEF KernelTyped, ServerTyped, Jobs, Ints
  <2>3. FixedSlots' /\ UserBits' /\ ExitBlocks' /\ CpuRuns' /\ NeverMissed'
    BY <1>3, <2>1 DEF FixedSlots, UserBits, BitsOf, ExitBlocks, CpuRuns, NeverMissed, Alive
  <2>4. ServerBits' /\ JobInHand'
    BY <1>2, <1>3, <1>4, <1>7, <2>1 DEF ServerBits, JobInHand, To, Owed
  <2>5. ParentsAlive'
    BY <1>2, <1>3, <2>1 DEF ParentsAlive, IsEmpty, Alive, LeftBehind
  <2> QED
    BY <2>2, <2>3, <2>4, <2>5
<1> QED
  BY <1>3, <1>5, <1>6, <1>7
-----------------------------------------------------------------------------
(* The invariant is inductive.                                             *)

(* Each library call sends a request of its kind, whatever stale values    *)
(* are in the fields it does not set.                                      *)
LEMMA ClientPInv ==
  ASSUME PInv, NEW p \in Users, Client(p) PROVE PInv'
<1>1. CASE CallReceive(p) \/ CallReturn(p)
  BY <1>1, CallReceivePInv, CallReturnPInv
<1>2. ASSUME NEW request \in Bodies, CallSend(p, request), request.type # "SYSCALL_RET",
             request.type = "EXIT" => p # INIT_PROC /\ request.val \in Statuses
      PROVE  PInv'
  BY <1>2, CallSendPInv
<1>3. CASE ForkCall(p)
  <2>1. PICK stale \in StalePids : CallSend(p, Request("FORK", Garbage, stale))
    BY <1>3 DEF ForkCall
  <2>2. Request("FORK", Garbage, stale) \in Bodies
    BY <2>1 DEF Request, Bodies, Ints
  <2> QED
    BY <1>2, <2>1, <2>2 DEF Request
<1>4. CASE WaitCall(p) \/ ExecCall(p) \/ OtherCall(p)
  <2>1. PICK c \in {"WAIT", "EXEC", "GET_TICKS"} : CallSend(p, Request(c, Garbage, Garbage))
    BY <1>4 DEF WaitCall, ExecCall, OtherCall
  <2>2. Request(c, Garbage, Garbage) \in Bodies
    BY DEF Request, Bodies, Ints
  <2> QED
    BY <1>2, <2>1, <2>2 DEF Request
<1>5. CASE "EXIT" \in Menu[p] /\ \E status \in Statuses : ExitCall(p, status)
  <2>1. PICK status \in Statuses : CallSend(p, Request("EXIT", status, Garbage))
    BY <1>5 DEF ExitCall
  <2>2. Request("EXIT", status, Garbage) \in Bodies
    BY DEF Request, Bodies, Ints
  <2>3. p # INIT_PROC
    BY <1>5, ClientsAssumption
  <2> QED
    BY <1>2, <2>1, <2>2, <2>3 DEF Request
<1> QED
  BY <1>1, <1>3, <1>4, <1>5 DEF Client

(* Nothing task_mm does breaks it.                                         *)
LEMMA ServePInv == PInv /\ Serve => PInv'
  BY MMReceivePInv, AnswerPInv, SendPInv, ForkMemoryPInv, CleanupFreePInv, DoExitPInv,
     DoExitReparentPInv, DoWaitPInv DEF Serve

(* Every step of task_mm, its clients, task_sys and the clock keeps PInv.  *)
LEMMA PInvStep == PInv /\ [ClientsNext]_clientVars => PInv'
<1> SUFFICES ASSUME PInv, [ClientsNext]_clientVars PROVE PInv'
  OBVIOUS
<1>1. CASE ForkCopy
  BY <1>1, ForkCopyPInv
<1>2. CASE Serve
  BY <1>2, ServePInv
<1>3. CASE TaskSys
  BY <1>3, TaskSysPInv
<1>4. CASE Preempt /\ UNCHANGED <<mmVars, userVars>>
  BY <1>4, PreemptPInv
<1>5. CASE \E p \in Users : Client(p)
  BY <1>5, ClientPInv
<1>6. CASE UNCHANGED clientVars
  BY <1>6, StutterPInv DEF clientVars
<1> QED
  BY <1>1, <1>2, <1>3, <1>4, <1>5, <1>6 DEF ClientsNext

(* PInv holds always, for any number of slots, any menus and any schedule. *)
THEOREM PInvInductive == ClientsSpec => []PInv
  <1>1. ClientsInit => PInv
  BY InitPInv DEF ClientsInit
<1> QED
  BY <1>1, PInvStep, PTL DEF ClientsSpec
-----------------------------------------------------------------------------
(* What it gives.                                                          *)

(* The process table and what task_mm and its clients keep in it always    *)
(* have their types.                                                       *)
THEOREM ProcTypeCorrect == ClientsSpec => []ProcTypeInv
<1>1. PInv => ProcTypeInv
  BY DEF PInv, KernelTyped, ServerTyped, ProcTypeInv
<1> QED
  BY <1>1, PInvInductive, PTL

(* When task_mm has done with a request, no process waits for a child that *)
(* is a zombie of its own (waitexit.c:63, :75, :94).                       *)
THEOREM ZombiesMeetWaiters == ClientsSpec => []NoMissedZombie
<1>1. PInv => NoMissedZombie
  BY DEF PInv, NeverMissed, NoMissedZombie
<1> QED
  BY <1>1, PInvInductive, PTL

(* Every zombie has a parent that is there and may still wait for it: the  *)
(* children of a process that exits go to INIT (waitexit.c:72).            *)
THEOREM ZombiesHaveParents == ClientsSpec => []ZombieHasParent
<1>1. ASSUME PInv, MMIdle, NEW c \in Slots, "HANGING" \in p_flags[c]
      PROVE  p_flags[p_parent[c]] \cap {"EMPTY", "HANGING"} = {}
  <2>1. c \in Vacant /\ ~IsEmpty(c)
    BY <1>1, ZombieLeaves DEF Leaving, IsEmpty
  <2>2. mpc \in {"idle", "got"}
    BY <1>1 DEF MMIdle, PInv, ServerBits
  <2>3. Alive(p_parent[c])
    BY <1>1, <2>1, <2>2 DEF PInv, ParentsAlive, LeftBehind
  <2> QED
    BY <2>3 DEF Alive
<1>2. PInv => ZombieHasParent
  BY <1>1 DEF ZombieHasParent
<1> QED
  BY <1>2, PInvInductive, PTL

(* What task_mm serves is a request its source has made and still waits    *)
(* on, though a child is born inside the library call of its parent.       *)
THEOREM RequestsAreGenuine == ClientsSpec => []RequestIsGenuine
<1>1. PInv => RequestIsGenuine
  <2> SUFFICES ASSUME PInv, mpc = "got", p_flags[MM] = {}
               PROVE  LET s == mm_msg.source
                      IN  s \in Users /\ upc[s] # "user" /\ call[s] = mm_msg.body.type
    BY DEF RequestIsGenuine
  <2>1. mm_msg.source \in Owed /\ call[mm_msg.source] = mm_msg.body.type
    BY DEF PInv, JobInHand
  <2> QED
    BY <2>1 DEF PInv, UserBits, BitsOf, Owed
<1> QED
  BY <1>1, PInvInductive, PTL

(* The report of a child goes to a process inside wait, and tells of a     *)
(* process inside exit with the status it gave (waitexit.c:65, :78, :95).  *)
THEOREM ReportsReachWaiters == ClientsSpec => []CleanupReachesWaiter
<1>1. PInv => CleanupReachesWaiter
  <2> SUFFICES ASSUME PInv, mpc = "cleanup"
               PROVE  LET parent == p_parent[mvar.proc]
                      IN  /\ call[parent] = "WAIT" /\ upc[parent] # "user"
                          /\ call[mvar.proc] = "EXIT" /\ exit_status[mvar.proc] \in Statuses
    BY DEF CleanupReachesWaiter
  <2>1. /\ p_parent[mvar.proc] \in Owed /\ call[p_parent[mvar.proc]] = "WAIT"
        /\ exit_status[mvar.proc] \in Statuses /\ Leaving(mvar.proc)
    BY DEF PInv, JobInHand
  <2> QED
    BY <2>1 DEF PInv, UserBits, BitsOf, Owed, Leaving
<1> QED
  BY <1>1, PInvInductive, PTL

(* When task_mm has done, every process inside a call waits for a child,   *)
(* is a zombie, is answered or offered its answer, or is blocked with a    *)
(* request that task_mm was too busy to take.                              *)
THEOREM CallsAreAccountedFor == ClientsSpec => []CallsAccountedFor
<1>1. ASSUME PInv, MMIdle, NEW p \in Users, upc[p] # "user",
             p_flags[p] \cap {"EMPTY", "UNSTARTED", "WAITING", "HANGING"} = {},
             p_flags[p] # {"SENDING"}
      PROVE  p_flags[p] = {} /\ (upc[p] = "back" \/ AnswerOffered(p))
  <2>1. p \in Owed => p \in To
    BY <1>1 DEF MMIdle, PInv, ServerBits, JobInHand
  <2>2. BitsOf(p) /\ upc[p] \in {"mid", "back"}
    BY <1>1 DEF PInv, UserBits, ServerTyped
  <2>3. p_flags[p] \subseteq {"RECEIVING"}
    BY <1>1, <2>2 DEF BitsOf
  <2>4. CASE p \in Owed
    <3>1. "RECEIVING" \notin p_flags[p]
      BY <1>1, <2>1, <2>4 DEF PInv, ServerBits
    <3> QED
      BY <2>1, <2>3, <2>4, <3>1 DEF To, AnswerOffered
  <2> QED
    BY <2>2, <2>3, <2>4 DEF Owed
<1>2. ASSUME PInv, MMIdle, NEW p \in Users, p_flags[p] = {"SENDING"}
      PROVE  upc[p] = "mid"
  BY <1>2 DEF PInv, UserBits, BitsOf
<1>3. PInv => CallsAccountedFor
  BY <1>1, <1>2 DEF CallsAccountedFor
<1> QED
  BY <1>3, PInvInductive, PTL

(* The kernel writes no bit but SENDING and RECEIVING.                     *)
LEMMA KernelKeepsEmpty ==
  ASSUME PInv, NEW p \in Slots, NEW d, NEW a, NEW body,
         SysSend(p, d, a, body) \/ SysReceive(p, d, a, body), NEW c \in Slots
  PROVE  "EMPTY" \in p_flags'[c] => "EMPTY" \in p_flags[c]
<1>1. p_flags \in [Slots -> SUBSET Flag]
  BY DEF PInv, KernelTyped
<1>2. CASE SysSend(p, d, a, body)
  BY <1>1, <1>2 DEF SysSend, SendDeliver, SendBlock, BlockAndSchedule
<1>3. CASE SysReceive(p, d, a, body)
  BY <1>1, <1>3 DEF SysReceive, ReceiveTake, ReceiveTrap, ReceiveBlock, BlockAndSchedule
<1> QED
  BY <1>2, <1>3

(* No step but the last of cleanup empties a slot.                         *)
LEMMA EmptiedByCleanup ==
  ASSUME PInv, [ClientsNext]_clientVars, ~CleanupFree, NEW c \in Slots,
         "EMPTY" \in p_flags'[c]
  PROVE  "EMPTY" \in p_flags[c]
<1>1. p_flags \in [Slots -> SUBSET Flag] /\ MM \in Slots /\ SYS \in Slots
  BY DEF PInv, KernelTyped
<1>2. CASE MMReceive \/ MMReply \/ ForkSend \/ CleanupSend \/ DoWaitNoChild \/ TaskSys
  BY <1>1, <1>2, KernelKeepsEmpty DEF MMReceive, MMReply, ForkSend, CleanupSend, DoWaitNoChild, TaskSys
<1>3. CASE ForkCopy
  <2>1. PICK child, parent : parent = mm_msg.source
               /\ p_flags' = [p_flags EXCEPT ![child] = p_flags[parent]]
    BY <1>3 DEF ForkCopy
  <2>2. p_flags[parent] \subseteq {"RECEIVING"}
    <3>1. Served(mm_msg.source)
      BY <1>3, ServerRuns DEF ForkCopy
    <3> QED
      BY <2>1, <3>1 DEF Served, Owed
  <2> QED
    BY <1>1, <2>1, <2>2
<1>4. CASE DoExit
  BY <1>1, <1>4 DEF DoExit
<1>5. CASE DoExitReparent
  BY <1>1, <1>5 DEF DoExitReparent
<1>6. CASE DoWait
  BY <1>1, <1>6 DEF DoWait
<1>7. CASE \/ MMDefault \/ MMExec \/ ForkNoSlot \/ ForkMemory \/ Preempt \/ UNCHANGED clientVars
           \/ \E p \in Users : CallReturn(p)
  BY <1>7 DEF MMDefault, MMExec, ForkNoSlot, ForkMemory, Preempt, CallReturn, clientVars, procVars, ipcVars
<1>8. ASSUME NEW p \in Users, NEW request, CallSend(p, request) \/ CallReceive(p)
      PROVE  "EMPTY" \in p_flags[c]
  BY <1>8, KernelKeepsEmpty DEF CallSend, CallReceive
<1> QED
  BY <1>2, <1>3, <1>4, <1>5, <1>6, <1>7, <1>8
     DEF ClientsNext, Serve, Client, ForkCall, WaitCall, ExecCall, OtherCall, ExitCall

(* exit does not return, and a slot is emptied only after its process      *)
(* called exit: no slot is given to a new process under a living one.      *)
THEOREM ExitFinal == ClientsSpec => ExitIsFinal
<1>1. ASSUME PInv, [ClientsNext]_clientVars, NEW c \in Slots, ~IsEmpty(c), IsEmpty(c)'
      PROVE  call[c] = "EXIT" /\ upc[c] # "user"
  <2>1. CASE CleanupFree
    <3>1. mpc = "free" /\ p_flags' = [p_flags EXCEPT ![mvar.proc] = {"EMPTY"}]
      BY <2>1 DEF CleanupFree, InMM
    <3>2. Leaving(mvar.proc)
      BY <1>1, <3>1 DEF PInv, JobInHand
    <3>3. c = mvar.proc
      BY <1>1, <3>1 DEF IsEmpty, PInv, KernelTyped
    <3> QED
      BY <3>2, <3>3 DEF Leaving
  <2>2. CASE ~CleanupFree
    <3>1. "EMPTY" \in p_flags[c]
      BY <1>1, <2>2, EmptiedByCleanup DEF IsEmpty
    <3>2. c \in Users
      BY <1>1, <3>1 DEF PInv, FixedSlots
    <3> QED
      BY <1>1, <3>1, <3>2 DEF PInv, UserBits, BitsOf, IsEmpty
  <2> QED
    BY <2>1, <2>2
<1>2. ASSUME PInv, [ClientsNext]_clientVars, NEW p \in Users, upc[p] # "user", upc'[p] = "user"
      PROVE  call[p] # "EXIT"
  <2>1. upc \in [Slots -> {"user", "mid", "back"}]
    BY <1>2 DEF PInv, ServerTyped
  <2>2. CASE CallReturn(p)
    BY <1>2, <2>2 DEF CallReturn, Calls, PInv, CpuRuns, ExitBlocks
  <2>3. CASE ForkCopy
    <3>1. PICK child, parent : parent = mm_msg.source
                 /\ upc' = [upc EXCEPT ![child] = upc[parent]]
      BY <2>3 DEF ForkCopy
    <3>2. parent \in Users /\ upc[parent] # "user"
      <4>1. Served(mm_msg.source)
        BY <1>2, <2>3, ServerRuns DEF ForkCopy
      <4> QED
        BY <1>2, <3>1, <4>1 DEF Served, Owed, PInv, UserBits, BitsOf
    <3> QED
      BY <1>2, <2>1, <3>1, <3>2
  <2>4. CASE ~ForkCopy /\ ~CallReturn(p)
    <3>1. CASE Serve \/ (Preempt /\ UNCHANGED <<mmVars, userVars, calls>>) \/ UNCHANGED clientVars
      BY <1>2, <3>1 DEF Serve, MMReceive, MMDefault, MMExec, MMReply, ForkNoSlot, ForkMemory,
         ForkSend, CleanupSend, CleanupFree, DoExit, DoExitReparent, DoWait, DoWaitNoChild,
         clientVars, procVars, userVars
    <3>2. CASE TaskSys
      BY <1>2, <2>1, <3>2 DEF TaskSys
    <3>3. ASSUME NEW q \in Users, q # p, CallReturn(q) PROVE FALSE
      BY <1>2, <2>1, <3>3 DEF CallReturn
    <3>4. ASSUME NEW q \in Users, NEW request, CallSend(q, request) \/ CallReceive(q) PROVE FALSE
      BY <1>2, <2>1, <3>4 DEF CallSend, CallReceive
    <3>5. ASSUME NEW q \in Users, Client(q) PROVE FALSE
      BY <2>4, <3>3, <3>4, <3>5 DEF Client, ForkCall, WaitCall, ExecCall, OtherCall, ExitCall
    <3> QED
      BY <1>2, <2>4, <3>1, <3>2, <3>5 DEF ClientsNext
  <2> QED
    BY <2>2, <2>3, <2>4
<1>3. PInv /\ [ClientsNext]_clientVars => ExitStep
  BY <1>1, <1>2 DEF ExitStep
<1>4. PInv /\ [ClientsNext]_clientVars => [ExitStep]_clientVars
  BY <1>3
<1> QED
  BY <1>4, PInvInductive, PTL DEF ClientsSpec, ExitIsFinal
=============================================================================
