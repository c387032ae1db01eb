-------------------------------- MODULE Ipc --------------------------------
(***************************************************************************)
(* Synchronous message passing of the kernel (kernel/proc.c), entered      *)
(* through the one system call sendrec (kernel/syscall.asm) and the common *)
(* entry and exit code of kernel/kernel.asm.                               *)
(*                                                                         *)
(* A system call runs to completion before another process runs: a clock   *)
(* interrupt that arrives inside it finds k_reenter # 0 and does not       *)
(* reschedule (clock_handler, proc.c:42).  One call is therefore one       *)
(* action.  The scheduler is abstract here: any runnable process may be    *)
(* chosen.  Module Sched adds the time slices that choose it.              *)
(***************************************************************************)
EXTENDS Integers, FiniteSets

CONSTANTS
  Slots,        \* the indices of proc_table that are looked at
  Started,      \* the slots kernel_main gives p_flags = 0
  Vacant,       \* the slots kernel_main marks EMPTY
  FirstProc,    \* the slot p_proc_ready names when restart is first called
  Segs,         \* segment bases; FlatSeg is base 0, shared by all native slots
  FlatSeg,
  Addr,         \* virtual addresses of message buffers
  Payload,      \* what a message says, source field apart
  Junk,         \* bytes that are no message (zeroed, or foreign memory)
  NULL,         \* the null pointer, as address and as process pointer
  ANY, NO_TASK, \* the two pseudo process numbers
  StrayStores,  \* what the uninitialised p of proc.c:105 may point at
  NullStores    \* what a store through the null prev of proc.c:177 does

ASSUME SlotsAssumption ==
  /\ Slots \subseteq Nat /\ IsFiniteSet(Slots)
  /\ Started \subseteq Slots /\ Started # {} /\ Vacant \subseteq Slots
  /\ Started \cap Vacant = {}
  /\ FirstProc \in Slots \ Vacant
  /\ {ANY, NO_TASK, NULL} \cap Slots = {} /\ ANY # NO_TASK

ASSUME MemoryAssumption ==
  /\ FlatSeg \in Segs
  /\ NULL \notin Addr

ASSUME UndefinedAssumption ==
  /\ StrayStores \subseteq Slots \cup {NULL} /\ StrayStores # {}
  /\ NullStores \subseteq {"ignored", "trapped"} /\ NullStores # {}

VARIABLES
  p_flags,       \* p_flags[p], the set of bits that are 1; {} is runnable
  p_msg,         \* the message pointer a blocked process left in its slot
  p_recvfrom, p_sendto,
  q_sending, next_sending,
  ldt_base,      \* segment base in the data descriptor of each slot's LDT
  mem,           \* the message buffers, by linear address
  p_proc_ready,  \* the slot whose registers restart loads
  kernel         \* "up", "spin" (schedule never returns), "trap" (hlt)

ipcVars == <<p_flags, p_msg, p_recvfrom, p_sendto, q_sending, next_sending,
             ldt_base, mem, p_proc_ready, kernel>>
-----------------------------------------------------------------------------
Flag == {"UNSTARTED", "SENDING", "RECEIVING", "WAITING", "HANGING", "EMPTY"}

Body == Payload \cup {Junk}
Message == [source : Slots \cup {NO_TASK}, body : Body]
Location == Segs \X (Addr \cup {NULL})

\* Mutants of Runnable: one bit of p_flags is not looked at.
RunnableReceiving(flags) == {p \in Slots : flags[p] \subseteq {"RECEIVING"}}
RunnableSending(flags) == {p \in Slots : flags[p] \subseteq {"SENDING"}}
Runnable(flags) == {p \in Slots : flags[p] = {}}
Blocked(p) == p_flags[p] \cap {"SENDING", "RECEIVING"} # {}

\* va2la: the linear address of virtual address a in the segment of p.
Loc(p, a) == <<ldt_base[p], a>>

\* sys_sendrec writes the caller's number into the buffer before anything else.
\* Mutants of Stamp: a pointer is stored for the number; nothing is stored.
StampPointer(p, body) == [source |-> NULL, body |-> body]
StampMissing(p, body) == [source |-> NO_TASK, body |-> body]
Stamp(p, body) == [source |-> p, body |-> body]
-----------------------------------------------------------------------------
(* Entry and exit of the system call.                                      *)

Calls(p) == kernel = "up" /\ p_proc_ready = p

(* The result is stored at esi + EAXREG - P_STACKTOP, 28 bytes below the   *)
(* caller's slot.  Slots are 152 bytes and p_msg is at offset 124: the     *)
(* word is p_msg of the slot below, and the result is always 0.            *)
\* Mutant of SysReturn: the offset has the other sign.
SysReturnAbove(p, pm) == [q \in Slots |-> IF q = p + 1 THEN NULL ELSE pm[q]]
SysReturn(p, pm) == [q \in Slots |-> IF q = p - 1 THEN NULL ELSE pm[q]]

(* schedule() on the flags the call leaves behind, then the return of the  *)
(* call.  With no runnable process its while loop never ends.              *)
BlockAndSchedule(p, flags, pm) ==
  /\ p_flags' = flags
  /\ \/ /\ p_proc_ready' \in Runnable(flags)
        /\ p_msg' = SysReturn(p, pm)
        /\ UNCHANGED kernel
     \/ /\ Runnable(flags) = {}
        /\ kernel' = "spin"
        /\ p_msg' = pm
        /\ UNCHANGED p_proc_ready
-----------------------------------------------------------------------------
(* The send queue of a process, a list linked through next_sending.        *)

Queue(d) ==
  LET walk[n \in 0 .. Cardinality(Slots)] ==
        IF n = 0 THEN q_sending[d]
        ELSE IF walk[n - 1] = NULL THEN NULL ELSE next_sending[walk[n - 1]]
  IN  {walk[n] : n \in 0 .. Cardinality(Slots)} \ {NULL}

Last(d) == CHOOSE q \in Queue(d) : next_sending[q] = NULL

\* prev of msg_receive when its search for f in the queue of d ends.
Prev(d, f) ==
  IF Queue(d) = {} THEN NULL
  ELSE IF f \in Queue(d) THEN CHOOSE q \in Queue(d) : next_sending[q] = f
  ELSE Last(d)

(* Appending s to the queue of d.  For an empty queue the code stores s    *)
(* through p, which nothing has set (it should set q_sending): stray is    *)
(* what p happens to point at.  q_sending itself is never written here.    *)
Enqueue(s, d, stray) ==
  LET last == IF q_sending[d] # NULL THEN Last(d) ELSE stray
  IN  [q \in Slots |-> IF q = s THEN NULL
                       ELSE IF q = last THEN s ELSE next_sending[q]]
-----------------------------------------------------------------------------
(* msg_send(p, d, a): p sends the message body at its address a to d.      *)

\* Mutants of CanDeliver: a test is dropped.
CanDeliverAnyOnly(p, d) == "RECEIVING" \in p_flags[d] /\ p_recvfrom[d] = ANY
CanDeliverNeverAny(p, d) == "RECEIVING" \in p_flags[d] /\ p_recvfrom[d] = p
CanDeliverToAll(p, d) == "RECEIVING" \in p_flags[d]
CanDeliver(p, d) ==
  "RECEIVING" \in p_flags[d] /\ p_recvfrom[d] \in {p, ANY}

SendDeliver(p, d, a, body) ==
  /\ Calls(p)
  /\ CanDeliver(p, d)
  /\ mem' = [mem EXCEPT ![Loc(p, a)] = Stamp(p, body),
                        ![Loc(d, p_msg[d])] = Stamp(p, body)]
  /\ p_flags' = [p_flags EXCEPT ![d] = @ \ {"RECEIVING"}]
  /\ p_recvfrom' = [p_recvfrom EXCEPT ![d] = NO_TASK]
  /\ p_msg' = SysReturn(p, [p_msg EXCEPT ![d] = NULL])
  /\ UNCHANGED <<p_sendto, q_sending, next_sending, ldt_base, p_proc_ready,
                 kernel>>

SendBlock(p, d, a, body) ==
  /\ Calls(p)
  /\ ~CanDeliver(p, d)
  /\ mem' = [mem EXCEPT ![Loc(p, a)] = Stamp(p, body)]
  /\ p_sendto' = [p_sendto EXCEPT ![p] = d]
  /\ \E stray \in StrayStores : next_sending' = Enqueue(p, d, stray)
  /\ BlockAndSchedule(p, [p_flags EXCEPT ![p] = @ \cup {"SENDING"}],
                         [p_msg EXCEPT ![p] = a])
  /\ UNCHANGED <<p_recvfrom, q_sending, ldt_base>>

SysSend(p, d, a, body) ==
  SendDeliver(p, d, a, body) \/ SendBlock(p, d, a, body)
-----------------------------------------------------------------------------
(* msg_receive(p, src, a): body is what the buffer holds before the call.  *)

\* The blocked sender the call takes its message from, or NULL.
From(p, src) ==
  IF src = ANY THEN q_sending[p]
  ELSE IF "SENDING" \in p_flags[src] /\ p_sendto[src] = p THEN src ELSE NULL

\* prev is null and p_from is not the head: proc.c:177 stores through null.
NullStore(p, f) == f # q_sending[p] /\ Prev(p, f) = NULL

ReceiveTake(p, src, a) ==
  LET f == From(p, src)
      first == f = q_sending[p]
  IN  /\ Calls(p)
      /\ f # NULL
      /\ NullStore(p, f) => "ignored" \in NullStores
      /\ q_sending' = IF first THEN [q_sending EXCEPT ![p] = next_sending[f]]
                               ELSE q_sending
      /\ next_sending' = [q \in Slots |->
                            IF q = f THEN NULL
                            ELSE IF ~first /\ q = Prev(p, f)
                                 THEN next_sending[f] ELSE next_sending[q]]
      \* line 182 passes src, not p_from, to va2la: slot ANY is no slot
      /\ mem' = [mem EXCEPT ![Loc(p, a)] =
                   IF src = ANY THEN Stamp(NO_TASK, Junk)
                                ELSE mem[Loc(f, p_msg[f])]]
      /\ p_flags' = [p_flags EXCEPT ![f] = @ \ {"SENDING"}]
      /\ p_sendto' = [p_sendto EXCEPT ![f] = NO_TASK]
      /\ p_msg' = SysReturn(p, [p_msg EXCEPT ![f] = NULL])
      /\ UNCHANGED <<p_recvfrom, ldt_base, p_proc_ready, kernel>>

\* gcc may compile the null store into a trap; the handler prints and halts.
ReceiveTrap(p, src, a, body) ==
  /\ Calls(p)
  /\ From(p, src) # NULL
  /\ NullStore(p, From(p, src)) /\ "trapped" \in NullStores
  /\ mem' = [mem EXCEPT ![Loc(p, a)] = Stamp(p, body)]
  /\ kernel' = "trap"
  /\ UNCHANGED <<p_flags, p_msg, p_recvfrom, p_sendto, q_sending,
                 next_sending, ldt_base, p_proc_ready>>

ReceiveBlock(p, src, a, body) ==
  /\ Calls(p)
  /\ From(p, src) = NULL
  /\ mem' = [mem EXCEPT ![Loc(p, a)] = Stamp(p, body)]
  /\ p_recvfrom' = [p_recvfrom EXCEPT ![p] = src]
  /\ BlockAndSchedule(p, [p_flags EXCEPT ![p] = @ \cup {"RECEIVING"}],
                         [p_msg EXCEPT ![p] = a])
  /\ UNCHANGED <<p_sendto, q_sending, next_sending, ldt_base>>

SysReceive(p, src, a, body) ==
  \/ ReceiveTake(p, src, a)
  \/ ReceiveTrap(p, src, a, body)
  \/ ReceiveBlock(p, src, a, body)
-----------------------------------------------------------------------------
(* A clock interrupt in user mode that exhausts the slice: schedule() with *)
(* the flags as they are.  It is no system call, so nothing is stored.     *)
Preempt ==
  /\ kernel = "up"
  /\ p_proc_ready' \in Runnable(p_flags)
  /\ UNCHANGED <<p_flags, p_msg, p_recvfrom, p_sendto, q_sending,
                 next_sending, ldt_base, mem, kernel>>
-----------------------------------------------------------------------------
(* kernel_main.                                                            *)
IpcInit ==
  /\ p_flags = [p \in Slots |-> IF p \in Vacant THEN {"EMPTY"}
                                ELSE IF p \in Started THEN {}
                                ELSE {"UNSTARTED"}]
  /\ p_msg = [p \in Slots |-> NULL]
  /\ p_recvfrom = [p \in Slots |-> NO_TASK]
  /\ p_sendto = [p \in Slots |-> NO_TASK]
  /\ q_sending = [p \in Slots |-> NULL]
  /\ next_sending = [p \in Slots |-> NULL]
  /\ ldt_base = [p \in Slots |-> FlatSeg]
  /\ mem = [l \in Location |-> Stamp(NO_TASK, Junk)]
  /\ p_proc_ready = FirstProc
  /\ kernel = "up"
=============================================================================
