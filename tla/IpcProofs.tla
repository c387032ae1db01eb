----------------------------- MODULE IpcProofs -----------------------------
(* Proofs about IpcClients for every table, every set of running slots and every  *)
(* outcome of the two undefined stores.                                    *)
EXTENDS IpcClients, TLAPS

(* No slot ever gets a send queue: the only store that would start one     *)
(* goes through an uninitialised pointer (proc.c:105).                     *)
NoQueue == \A d \in Slots : q_sending[d] = NULL

(* A slot kernel_main did not start keeps the bit that stops it.           *)
OnlyCallersRun ==
  /\ p_proc_ready \in Callers
  /\ \A p \in Slots \ Started : p_flags[p] \cap {"UNSTARTED", "EMPTY"} # {}

(* What a blocked sender wrote stays in its buffer.                        *)
MessageWaits ==
  \A p \in Slots : "SENDING" \in p_flags[p] =>
    mem[Loc(p, Buf[p])] \in [source : {p}, body : Payload]

IInv ==
  /\ TypeInv
  /\ BlockedConsistent
  /\ SpecificRendezvous
  /\ CpuNeverOnBlocked
  /\ BufferLostOnlyBelowCaller
  /\ NoQueue
  /\ OnlyCallersRun
  /\ MessageWaits

USE SlotsAssumption, MemoryAssumption, UndefinedAssumption, BufAssumption
-----------------------------------------------------------------------------
(* The table kernel_main leaves satisfies the inductive invariant.         *)
LEMMA InitInv == IpcInit => IInv
<1> SUFFICES ASSUME IpcInit PROVE IInv
  OBVIOUS
<1>1. TypeInv
  BY DEF IpcInit, TypeInv, Flag, Location, Message, Body, Stamp
<1>2. BlockedConsistent /\ SpecificRendezvous
  BY DEF IpcInit, BlockedConsistent, SpecificRendezvous
<1>3. CpuNeverOnBlocked /\ BufferLostOnlyBelowCaller
  BY DEF IpcInit, CpuNeverOnBlocked, BufferLostOnlyBelowCaller, Blocked
<1>4. NoQueue /\ OnlyCallersRun /\ MessageWaits
  BY DEF IpcInit, NoQueue, OnlyCallersRun, MessageWaits, Callers
<1> QED
  BY <1>1, <1>2, <1>3, <1>4 DEF IInv

(* Distinct slots own distinct buffers, and none of them is at address 0.  *)
LEMMA BuffersDisjoint ==
  ASSUME TypeInv, NEW p \in Slots, NEW q \in Slots
  PROVE  /\ Loc(p, Buf[p]) \in Location
         /\ Loc(p, NULL) \in Location
         /\ Loc(p, Buf[p]) # Loc(q, NULL)
         /\ p # q => Loc(p, Buf[p]) # Loc(q, Buf[q])
  BY DEF TypeInv, Location, Loc

(* Storing the result of a call changes p_msg of one slot, to NULL.        *)
LEMMA SysReturnStores ==
  ASSUME NEW p \in Slots, NEW pm \in [Slots -> Addr \cup {NULL}]
  PROVE  /\ SysReturn(p, pm) \in [Slots -> Addr \cup {NULL}]
         /\ \A q \in Slots :
              \/ SysReturn(p, pm)[q] = pm[q]
              \/ SysReturn(p, pm)[q] = NULL /\ q + 1 = p
  BY DEF SysReturn

(* A step that delivers to a waiting receiver keeps the invariant.         *)
LEMMA SendDeliverInv ==
  ASSUME IInv, NEW p \in Slots, NEW d \in Slots, NEW body \in Payload,
         SendDeliver(p, d, Buf[p], body)
  PROVE  IInv'
<1> DEFINE pm == [p_msg EXCEPT ![d] = NULL]
<1>0. /\ TypeInv /\ BlockedConsistent /\ SpecificRendezvous
      /\ CpuNeverOnBlocked /\ BufferLostOnlyBelowCaller /\ NoQueue
      /\ OnlyCallersRun /\ MessageWaits
  BY DEF IInv
<1>1. /\ kernel = "up" /\ p_proc_ready = p
      /\ "RECEIVING" \in p_flags[d] /\ "SENDING" \notin p_flags[d]
      /\ p # d
  BY <1>0 DEF SendDeliver, Calls, CanDeliver, CpuNeverOnBlocked, Blocked,
              BlockedConsistent
<1>2. /\ p_flags' = [p_flags EXCEPT ![d] = @ \ {"RECEIVING"}]
      /\ p_recvfrom' = [p_recvfrom EXCEPT ![d] = NO_TASK]
      /\ p_msg' = SysReturn(p, pm)
      /\ mem' = [mem EXCEPT ![Loc(p, Buf[p])] = Stamp(p, body),
                            ![Loc(d, p_msg[d])] = Stamp(p, body)]
      /\ UNCHANGED <<p_sendto, q_sending, next_sending, ldt_base,
                     p_proc_ready, kernel>>
  BY DEF SendDeliver
<1>3. pm \in [Slots -> Addr \cup {NULL}]
  BY <1>0 DEF TypeInv
<1> HIDE DEF pm
<1>4. /\ p_msg' \in [Slots -> Addr \cup {NULL}]
      /\ \A q \in Slots : \/ p_msg'[q] = pm[q]
                          \/ p_msg'[q] = NULL /\ q + 1 = p
  BY <1>2, <1>3, SysReturnStores
<1>5. p_msg[d] \in {Buf[d], NULL}
  BY <1>0, <1>1 DEF BufferLostOnlyBelowCaller, Blocked
<1>6. TypeInv'
  <2>1. Stamp(p, body) \in Message
    BY DEF Stamp, Message, Body
  <2>2. mem' \in [Location -> Message]
    BY <1>0, <1>2, <2>1 DEF TypeInv
  <2> QED
    BY <1>0, <1>2, <1>4, <2>2 DEF TypeInv
<1>7. BlockedConsistent'
  BY <1>0, <1>1, <1>2 DEF TypeInv, BlockedConsistent
<1>8. SpecificRendezvous'
  BY <1>0, <1>2 DEF TypeInv, SpecificRendezvous
<1>9. CpuNeverOnBlocked'
  BY <1>0, <1>1, <1>2 DEF TypeInv, CpuNeverOnBlocked, Blocked
<1>10. BufferLostOnlyBelowCaller'
  <2> SUFFICES ASSUME NEW q \in Slots, Blocked(q)'
               PROVE  p_msg'[q] = Buf[q] \/ (p_msg'[q] = NULL /\ q + 1 \in Callers)
    BY DEF BufferLostOnlyBelowCaller
  <2>1. q # d /\ Blocked(q)
    BY <1>0, <1>1, <1>2 DEF TypeInv, Blocked
  <2>2. pm[q] = p_msg[q] /\ p \in Callers
    BY <2>1, <1>0, <1>1 DEF TypeInv, OnlyCallersRun, pm
  <2> QED
    BY <2>1, <2>2, <1>0, <1>4 DEF BufferLostOnlyBelowCaller
<1>11. NoQueue' /\ OnlyCallersRun'
  BY <1>0, <1>2 DEF TypeInv, NoQueue, OnlyCallersRun
<1>12. MessageWaits'
  <2> SUFFICES ASSUME NEW q \in Slots, "SENDING" \in p_flags'[q]
               PROVE  mem'[Loc(q, Buf[q])'] \in [source : {q}, body : Payload]
    BY DEF MessageWaits
  <2>1. q # d /\ q # p /\ "SENDING" \in p_flags[q]
    BY <1>0, <1>1, <1>2 DEF TypeInv, CpuNeverOnBlocked, Blocked
  <2>2. Loc(q, Buf[q])' = Loc(q, Buf[q])
    BY <1>2 DEF Loc
  <2>3. mem'[Loc(q, Buf[q])] = mem[Loc(q, Buf[q])]
    BY <2>1, <1>0, <1>2, <1>5, BuffersDisjoint DEF TypeInv
  <2> QED
    BY <2>1, <2>2, <2>3, <1>0 DEF MessageWaits
<1> QED
  BY <1>6, <1>7, <1>8, <1>9, <1>10, <1>11, <1>12 DEF IInv

(* What the end of a blocking call does to the flags, pointers and cpu.    *)
LEMMA BlockAndScheduleEffect ==
  ASSUME IInv, NEW p \in Slots, NEW bit \in {"SENDING", "RECEIVING"},
         NEW flags, flags = [p_flags EXCEPT ![p] = @ \cup {bit}],
         Calls(p),
         BlockAndSchedule(p, flags, [p_msg EXCEPT ![p] = Buf[p]])
  PROVE  /\ p_flags' = flags
         /\ p_flags' \in [Slots -> SUBSET Flag]
         /\ p_msg' \in [Slots -> Addr \cup {NULL}]
         /\ p_proc_ready' \in Slots /\ kernel' \in {"up", "spin", "trap"}
         /\ CpuNeverOnBlocked'
         /\ BufferLostOnlyBelowCaller'
         /\ OnlyCallersRun'
<1> DEFINE pm == [p_msg EXCEPT ![p] = Buf[p]]
<1>0. TypeInv /\ CpuNeverOnBlocked /\ BufferLostOnlyBelowCaller /\ OnlyCallersRun
  BY DEF IInv
<1>1. /\ kernel = "up" /\ p_proc_ready = p /\ p \in Callers
      /\ pm \in [Slots -> Addr \cup {NULL}]
  BY <1>0 DEF Calls, TypeInv, OnlyCallersRun
<1>2. /\ pm[p] = Buf[p] /\ \A q \in Slots : q # p => pm[q] = p_msg[q]
      /\ p_flags' = flags
      /\ \/ /\ p_proc_ready' \in Runnable(flags)
            /\ p_msg' = SysReturn(p, pm)
            /\ UNCHANGED kernel
         \/ /\ Runnable(flags) = {}
            /\ kernel' = "spin"
            /\ p_msg' = pm
            /\ UNCHANGED p_proc_ready
  BY <1>0 DEF BlockAndSchedule, TypeInv
<1> HIDE DEF pm
<1>3. /\ p_msg' \in [Slots -> Addr \cup {NULL}]
      /\ \A q \in Slots : p_msg'[q] = pm[q] \/ (p_msg'[q] = NULL /\ q + 1 = p)
  <2>1. CASE p_msg' = SysReturn(p, pm)
    BY <2>1, <1>1, SysReturnStores
  <2>2. CASE p_msg' = pm
    BY <2>2, <1>1
  <2> QED
    BY <2>1, <2>2, <1>2
<1>4. p_flags' \in [Slots -> SUBSET Flag]
  BY <1>0, <1>2 DEF TypeInv, Flag
<1>5. p_proc_ready' \in Slots /\ kernel' \in {"up", "spin", "trap"}
  BY <1>0, <1>2 DEF TypeInv, Runnable
<1>6. CpuNeverOnBlocked'
  BY <1>1, <1>2 DEF CpuNeverOnBlocked, Blocked, Runnable
<1>7. BufferLostOnlyBelowCaller'
  <2> SUFFICES ASSUME NEW q \in Slots, Blocked(q)'
               PROVE  p_msg'[q] = Buf[q] \/ (p_msg'[q] = NULL /\ q + 1 \in Callers)
    BY DEF BufferLostOnlyBelowCaller
  <2>1. CASE q = p
    BY <2>1, <1>1, <1>2, <1>3
  <2>2. CASE q # p
    <3>1. Blocked(q)
      BY <2>2, <1>0, <1>2 DEF TypeInv, Blocked
    <3> QED
      BY <2>2, <3>1, <1>0, <1>1, <1>2, <1>3 DEF BufferLostOnlyBelowCaller
  <2> QED
    BY <2>1, <2>2
<1>8. OnlyCallersRun'
  <2>1. \A q \in Slots \ Started : p_flags'[q] \cap {"UNSTARTED", "EMPTY"} # {}
    BY <1>0, <1>2 DEF TypeInv, OnlyCallersRun
  <2>2. p_proc_ready' \in Callers
    <3>1. CASE p_proc_ready' \in Runnable(flags)
      BY <3>1, <2>1, <1>2 DEF Runnable, Callers
    <3>2. CASE p_proc_ready' = p_proc_ready
      BY <3>2, <1>1
    <3> QED
      BY <3>1, <3>2, <1>2
  <2> QED
    BY <2>1, <2>2 DEF OnlyCallersRun
<1> QED
  BY <1>2, <1>3, <1>4, <1>5, <1>6, <1>7, <1>8

(* A step that blocks the sender keeps the invariant.                      *)
LEMMA SendBlockInv ==
  ASSUME IInv, NEW p \in Slots, NEW d \in Slots, NEW body \in Payload,
         SendBlock(p, d, Buf[p], body)
  PROVE  IInv'
<1> DEFINE flags == [p_flags EXCEPT ![p] = @ \cup {"SENDING"}]
<1>0. /\ TypeInv /\ BlockedConsistent /\ SpecificRendezvous
      /\ CpuNeverOnBlocked /\ NoQueue /\ MessageWaits
  BY DEF IInv
<1>1. /\ kernel = "up" /\ p_proc_ready = p /\ ~CanDeliver(p, d)
      /\ "RECEIVING" \notin p_flags[p] /\ Calls(p)
  BY <1>0 DEF SendBlock, Calls, CpuNeverOnBlocked, Blocked
<1>2. /\ mem' = [mem EXCEPT ![Loc(p, Buf[p])] = Stamp(p, body)]
      /\ p_sendto' = [p_sendto EXCEPT ![p] = d]
      /\ \E stray \in StrayStores : next_sending' = Enqueue(p, d, stray)
      /\ BlockAndSchedule(p, flags, [p_msg EXCEPT ![p] = Buf[p]])
      /\ UNCHANGED <<p_recvfrom, q_sending, ldt_base>>
  BY DEF SendBlock
<1>3. /\ p_flags' = flags
      /\ p_flags' \in [Slots -> SUBSET Flag]
      /\ p_msg' \in [Slots -> Addr \cup {NULL}]
      /\ p_proc_ready' \in Slots /\ kernel' \in {"up", "spin", "trap"}
      /\ CpuNeverOnBlocked'
      /\ BufferLostOnlyBelowCaller'
      /\ OnlyCallersRun'
  BY <1>1, <1>2, BlockAndScheduleEffect
<1>4. TypeInv'
  <2>1. Stamp(p, body) \in Message
    BY DEF Stamp, Message, Body
  <2>2. mem' \in [Location -> Message]
    BY <1>0, <1>2, <2>1 DEF TypeInv
  <2>3. next_sending' \in [Slots -> Slots \cup {NULL}]
    <3> PICK stray \in StrayStores : next_sending' = Enqueue(p, d, stray)
      BY <1>2
    <3> QED
      BY <1>0 DEF TypeInv, NoQueue, Enqueue
  <2> QED
    BY <1>0, <1>2, <1>3, <2>2, <2>3 DEF TypeInv
<1>5. BlockedConsistent'
  BY <1>0, <1>1, <1>2, <1>3 DEF TypeInv, BlockedConsistent
<1>6. SpecificRendezvous'
  BY <1>0, <1>1, <1>2, <1>3 DEF TypeInv, BlockedConsistent, SpecificRendezvous,
                                CanDeliver
<1>7. NoQueue'
  BY <1>0, <1>2 DEF NoQueue
<1>8. MessageWaits'
  <2> SUFFICES ASSUME NEW q \in Slots, "SENDING" \in p_flags'[q]
               PROVE  mem'[Loc(q, Buf[q])'] \in [source : {q}, body : Payload]
    BY DEF MessageWaits
  <2>2. Loc(q, Buf[q])' = Loc(q, Buf[q])
    BY <1>2 DEF Loc
  <2>3. CASE q = p
    <3>1. mem'[Loc(q, Buf[q])] = Stamp(q, body)
      BY <2>3, <1>0, <1>2, BuffersDisjoint DEF TypeInv
    <3> QED
      BY <3>1, <2>2 DEF Stamp
  <2>4. CASE q # p
    <3>1. "SENDING" \in p_flags[q]
      BY <2>4, <1>0, <1>3 DEF TypeInv
    <3>2. mem'[Loc(q, Buf[q])] = mem[Loc(q, Buf[q])]
      BY <2>4, <1>0, <1>2, BuffersDisjoint DEF TypeInv
    <3> QED
      BY <3>1, <3>2, <2>2, <1>0 DEF MessageWaits
  <2> QED
    BY <2>3, <2>4
<1> QED
  BY <1>3, <1>4, <1>5, <1>6, <1>7, <1>8 DEF IInv

(* A step that takes the message of a waiting sender keeps the invariant.  *)
LEMMA ReceiveTakeInv ==
  ASSUME IInv, NEW p \in Slots, NEW src \in Slots \cup {ANY},
         ReceiveTake(p, src, Buf[p])
  PROVE  IInv'
<1> DEFINE pm == [p_msg EXCEPT ![src] = NULL]
<1>0. /\ TypeInv /\ BlockedConsistent /\ SpecificRendezvous
      /\ CpuNeverOnBlocked /\ BufferLostOnlyBelowCaller /\ NoQueue
      /\ OnlyCallersRun /\ MessageWaits
  BY DEF IInv
<1>1. /\ kernel = "up" /\ p_proc_ready = p
      /\ src \in Slots /\ src # ANY /\ From(p, src) = src /\ src # NULL
      /\ "SENDING" \in p_flags[src] /\ p_sendto[src] = p
      /\ "RECEIVING" \notin p_flags[src]
      /\ src # p /\ src # q_sending[p]
  BY <1>0 DEF ReceiveTake, From, Calls, NoQueue, CpuNeverOnBlocked, Blocked,
              BlockedConsistent
<1>2. /\ next_sending' = [q \in Slots |->
                            IF q = src THEN NULL
                            ELSE IF q = Prev(p, src)
                                 THEN next_sending[src] ELSE next_sending[q]]
      /\ mem' = [mem EXCEPT ![Loc(p, Buf[p])] = mem[Loc(src, p_msg[src])]]
      /\ p_flags' = [p_flags EXCEPT ![src] = @ \ {"SENDING"}]
      /\ p_sendto' = [p_sendto EXCEPT ![src] = NO_TASK]
      /\ p_msg' = SysReturn(p, pm)
      /\ UNCHANGED <<q_sending, p_recvfrom, ldt_base, p_proc_ready, kernel>>
  BY <1>1 DEF ReceiveTake
<1>3. pm \in [Slots -> Addr \cup {NULL}]
  BY <1>0 DEF TypeInv
<1> HIDE DEF pm
<1>4. /\ p_msg' \in [Slots -> Addr \cup {NULL}]
      /\ \A q \in Slots : \/ p_msg'[q] = pm[q]
                          \/ p_msg'[q] = NULL /\ q + 1 = p
  BY <1>2, <1>3, SysReturnStores
<1>5. p_msg[src] \in {Buf[src], NULL}
  BY <1>0, <1>1 DEF BufferLostOnlyBelowCaller, Blocked
<1>6. TypeInv'
  <2>1. mem[Loc(src, p_msg[src])] \in Message
    BY <1>0, <1>1, <1>5, BuffersDisjoint DEF TypeInv
  <2>2. mem' \in [Location -> Message]
    BY <1>0, <1>2, <2>1 DEF TypeInv
  <2>3. next_sending' \in [Slots -> Slots \cup {NULL}]
    BY <1>0, <1>1, <1>2 DEF TypeInv
  <2> QED
    BY <1>0, <1>1, <1>2, <1>4, <2>2, <2>3 DEF TypeInv
<1>7. BlockedConsistent'
  BY <1>0, <1>1, <1>2 DEF TypeInv, BlockedConsistent
<1>8. SpecificRendezvous'
  BY <1>0, <1>1, <1>2 DEF TypeInv, SpecificRendezvous
<1>9. CpuNeverOnBlocked'
  BY <1>0, <1>1, <1>2 DEF TypeInv, CpuNeverOnBlocked, Blocked
<1>10. BufferLostOnlyBelowCaller'
  <2> SUFFICES ASSUME NEW q \in Slots, Blocked(q)'
               PROVE  p_msg'[q] = Buf[q] \/ (p_msg'[q] = NULL /\ q + 1 \in Callers)
    BY DEF BufferLostOnlyBelowCaller
  <2>1. q # src /\ Blocked(q)
    BY <1>0, <1>1, <1>2 DEF TypeInv, Blocked
  <2>2. pm[q] = p_msg[q] /\ p \in Callers
    BY <2>1, <1>0, <1>1 DEF TypeInv, OnlyCallersRun, pm
  <2> QED
    BY <2>1, <2>2, <1>0, <1>4 DEF BufferLostOnlyBelowCaller
<1>11. NoQueue' /\ OnlyCallersRun'
  BY <1>0, <1>1, <1>2 DEF TypeInv, NoQueue, OnlyCallersRun
<1>12. MessageWaits'
  <2> SUFFICES ASSUME NEW q \in Slots, "SENDING" \in p_flags'[q]
               PROVE  mem'[Loc(q, Buf[q])'] \in [source : {q}, body : Payload]
    BY DEF MessageWaits
  <2>1. q # p /\ "SENDING" \in p_flags[q]
    BY <1>0, <1>1, <1>2 DEF TypeInv, CpuNeverOnBlocked, Blocked
  <2>2. Loc(q, Buf[q])' = Loc(q, Buf[q])
    BY <1>2 DEF Loc
  <2>3. mem'[Loc(q, Buf[q])] = mem[Loc(q, Buf[q])]
    BY <2>1, <1>0, <1>2, BuffersDisjoint DEF TypeInv
  <2> QED
    BY <2>1, <2>2, <2>3, <1>0 DEF MessageWaits
<1> QED
  BY <1>6, <1>7, <1>8, <1>9, <1>10, <1>11, <1>12 DEF IInv

(* A step that blocks the receiver keeps the invariant.                    *)
LEMMA ReceiveBlockInv ==
  ASSUME IInv, NEW p \in Slots, NEW src \in Slots \cup {ANY},
         NEW body \in Body, ReceiveBlock(p, src, Buf[p], body)
  PROVE  IInv'
<1> DEFINE flags == [p_flags EXCEPT ![p] = @ \cup {"RECEIVING"}]
<1>0. /\ TypeInv /\ BlockedConsistent /\ SpecificRendezvous
      /\ CpuNeverOnBlocked /\ NoQueue /\ MessageWaits
  BY DEF IInv
<1>1. /\ kernel = "up" /\ p_proc_ready = p /\ Calls(p) /\ From(p, src) = NULL
      /\ "SENDING" \notin p_flags[p]
  BY <1>0 DEF ReceiveBlock, Calls, CpuNeverOnBlocked, Blocked
<1>2. /\ mem' = [mem EXCEPT ![Loc(p, Buf[p])] = Stamp(p, body)]
      /\ p_recvfrom' = [p_recvfrom EXCEPT ![p] = src]
      /\ BlockAndSchedule(p, flags, [p_msg EXCEPT ![p] = Buf[p]])
      /\ UNCHANGED <<p_sendto, q_sending, next_sending, ldt_base>>
  BY DEF ReceiveBlock
<1>3. /\ p_flags' = flags
      /\ p_flags' \in [Slots -> SUBSET Flag]
      /\ p_msg' \in [Slots -> Addr \cup {NULL}]
      /\ p_proc_ready' \in Slots /\ kernel' \in {"up", "spin", "trap"}
      /\ CpuNeverOnBlocked'
      /\ BufferLostOnlyBelowCaller'
      /\ OnlyCallersRun'
  BY <1>1, <1>2, BlockAndScheduleEffect
<1>4. TypeInv'
  <2>1. Stamp(p, body) \in Message
    BY DEF Stamp, Message, Body
  <2>2. mem' \in [Location -> Message]
    BY <1>0, <1>2, <2>1 DEF TypeInv
  <2> QED
    BY <1>0, <1>2, <1>3, <2>2 DEF TypeInv
<1>5. BlockedConsistent'
  <2>1. /\ p_flags'[p] = p_flags[p] \cup {"RECEIVING"} /\ p_recvfrom'[p] = src
        /\ p_sendto'[p] = p_sendto[p]
    BY <1>0, <1>2, <1>3 DEF TypeInv
  <2>2. \A q \in Slots \ {p} : /\ p_flags'[q] = p_flags[q] /\ p_recvfrom'[q] = p_recvfrom[q]
                               /\ p_sendto'[q] = p_sendto[q]
    BY <1>0, <1>2, <1>3 DEF TypeInv
  <2> QED
    BY <1>0, <1>1, <2>1, <2>2 DEF BlockedConsistent
<1>6. SpecificRendezvous'
  BY <1>0, <1>1, <1>2, <1>3 DEF TypeInv, BlockedConsistent, SpecificRendezvous,
                                From
<1>7. NoQueue'
  BY <1>0, <1>2 DEF NoQueue
<1>8. MessageWaits'
  <2> SUFFICES ASSUME NEW q \in Slots, "SENDING" \in p_flags'[q]
               PROVE  mem'[Loc(q, Buf[q])'] \in [source : {q}, body : Payload]
    BY DEF MessageWaits
  <2>1. q # p /\ "SENDING" \in p_flags[q]
    BY <1>0, <1>1, <1>3 DEF TypeInv
  <2>2. Loc(q, Buf[q])' = Loc(q, Buf[q])
    BY <1>2 DEF Loc
  <2>3. mem'[Loc(q, Buf[q])] = mem[Loc(q, Buf[q])]
    BY <2>1, <1>0, <1>2, BuffersDisjoint DEF TypeInv
  <2> QED
    BY <2>1, <2>2, <2>3, <1>0 DEF MessageWaits
<1> QED
  BY <1>3, <1>4, <1>5, <1>6, <1>7, <1>8 DEF IInv

(* A step that halts the machine at proc.c:177 keeps the invariant.        *)
LEMMA ReceiveTrapInv ==
  ASSUME IInv, NEW p \in Slots, NEW src \in Slots \cup {ANY},
         NEW body \in Body, ReceiveTrap(p, src, Buf[p], body)
  PROVE  IInv'
<1>0. /\ TypeInv /\ BlockedConsistent /\ SpecificRendezvous
      /\ CpuNeverOnBlocked /\ BufferLostOnlyBelowCaller /\ NoQueue
      /\ OnlyCallersRun /\ MessageWaits
  BY DEF IInv
<1>1. kernel = "up" /\ p_proc_ready = p /\ "SENDING" \notin p_flags[p]
  BY <1>0 DEF ReceiveTrap, Calls, CpuNeverOnBlocked, Blocked
<1>2. /\ mem' = [mem EXCEPT ![Loc(p, Buf[p])] = Stamp(p, body)]
      /\ kernel' = "trap"
      /\ UNCHANGED <<p_flags, p_msg, p_recvfrom, p_sendto, q_sending,
                     next_sending, ldt_base, p_proc_ready>>
  BY DEF ReceiveTrap
<1>3. TypeInv'
  <2>1. Stamp(p, body) \in Message
    BY DEF Stamp, Message, Body
  <2>2. mem' \in [Location -> Message]
    BY <1>0, <1>2, <2>1 DEF TypeInv
  <2> QED
    BY <1>0, <1>2, <2>2 DEF TypeInv
<1>4. /\ BlockedConsistent' /\ SpecificRendezvous' /\ CpuNeverOnBlocked'
      /\ BufferLostOnlyBelowCaller' /\ NoQueue' /\ OnlyCallersRun'
  BY <1>0, <1>2 DEF BlockedConsistent, SpecificRendezvous, CpuNeverOnBlocked,
                    BufferLostOnlyBelowCaller, NoQueue, OnlyCallersRun, Blocked
<1>5. MessageWaits'
  <2> SUFFICES ASSUME NEW q \in Slots, "SENDING" \in p_flags[q]
               PROVE  mem'[Loc(q, Buf[q])'] \in [source : {q}, body : Payload]
    BY <1>2 DEF MessageWaits
  <2>1. Loc(q, Buf[q])' = Loc(q, Buf[q]) /\ q # p
    BY <1>1, <1>2 DEF Loc
  <2>2. mem'[Loc(q, Buf[q])] = mem[Loc(q, Buf[q])]
    BY <2>1, <1>0, <1>2, BuffersDisjoint DEF TypeInv
  <2> QED
    BY <2>1, <2>2, <1>0 DEF MessageWaits
<1> QED
  BY <1>0, <1>3, <1>4, <1>5 DEF IInv

(* A clock interrupt that reschedules keeps the invariant.                 *)
LEMMA PreemptInv == IInv /\ Preempt => IInv'
<1> SUFFICES ASSUME IInv, Preempt PROVE IInv'
  OBVIOUS
<1>0. /\ TypeInv /\ BlockedConsistent /\ SpecificRendezvous
      /\ CpuNeverOnBlocked /\ BufferLostOnlyBelowCaller /\ NoQueue
      /\ OnlyCallersRun /\ MessageWaits
  BY DEF IInv
<1>1. /\ p_proc_ready' \in Slots /\ p_flags[p_proc_ready'] = {} /\ kernel = "up"
      /\ UNCHANGED <<p_flags, p_msg, p_recvfrom, p_sendto, q_sending,
                     next_sending, ldt_base, mem, kernel>>
  BY DEF Preempt, Runnable
<1>2. TypeInv' /\ CpuNeverOnBlocked'
  BY <1>0, <1>1 DEF TypeInv, CpuNeverOnBlocked, Blocked
<1>3. OnlyCallersRun'
  <2>1. \A q \in Slots \ Started : p_flags[q] \cap {"UNSTARTED", "EMPTY"} # {}
    BY <1>0 DEF OnlyCallersRun
  <2>2. p_proc_ready' \in Started
    BY <2>1, <1>1
  <2> QED
    BY <2>1, <2>2, <1>1 DEF OnlyCallersRun, Callers
<1>4. /\ BlockedConsistent' /\ SpecificRendezvous'
      /\ BufferLostOnlyBelowCaller' /\ NoQueue' /\ MessageWaits'
  BY <1>0, <1>1 DEF BlockedConsistent, SpecificRendezvous, MessageWaits, Loc,
                    BufferLostOnlyBelowCaller, NoQueue, Blocked
<1> QED
  BY <1>2, <1>3, <1>4 DEF IInv

(* Steps that change nothing keep the invariant.                           *)
LEMMA StutterInv == IInv /\ UNCHANGED ipcVars => IInv'
  BY DEF IInv, ipcVars, TypeInv, BlockedConsistent, SpecificRendezvous,
         CpuNeverOnBlocked, BufferLostOnlyBelowCaller, NoQueue, OnlyCallersRun,
         MessageWaits, Blocked, Loc

(* What a step of the kernel can be, with typed parameters.                *)
LEMMA StepCases ==
  ASSUME IInv, IpcNext
  PROVE  \/ Preempt
         \/ \E p, d \in Slots, body \in Payload :
               SendDeliver(p, d, Buf[p], body) \/ SendBlock(p, d, Buf[p], body)
         \/ \E p \in Slots, src \in Slots \cup {ANY}, body \in Body :
               \/ ReceiveTake(p, src, Buf[p])
               \/ ReceiveTrap(p, src, Buf[p], body)
               \/ ReceiveBlock(p, src, Buf[p], body)
<1>1. ASSUME NEW p \in Slots
      PROVE  mem[Loc(p, Buf[p])].body \in Body
  <2>1. TypeInv /\ Loc(p, Buf[p]) \in Location
    BY BuffersDisjoint DEF IInv
  <2>2. mem[Loc(p, Buf[p])] \in Message
    BY <2>1 DEF TypeInv
  <2> QED
    BY <2>2 DEF Message
<1>2. CASE Preempt
  BY <1>2
<1>3. CASE \E p \in Slots : Syscall(p)
  <2>1. PICK p \in Slots : Syscall(p)
    BY <1>3
  <2>2. CASE \E d \in Slots, body \in Payload : SysSend(p, d, Buf[p], body)
    BY <2>2 DEF SysSend
  <2>3. CASE \E src \in Slots \cup {ANY} :
               SysReceive(p, src, Buf[p], mem[Loc(p, Buf[p])].body)
    BY <2>3, <1>1 DEF SysReceive
  <2> QED
    BY <2>1, <2>2, <2>3 DEF Syscall
<1> QED
  BY <1>2, <1>3 DEF IpcNext

(* IInv holds in every reachable state.                                    *)
THEOREM Inductive == IpcSpec => []IInv
<1>1. IpcInit => IInv
  BY InitInv
<1>2. IInv /\ [IpcNext]_ipcVars => IInv'
  <2> SUFFICES ASSUME IInv, [IpcNext]_ipcVars PROVE IInv'
    OBVIOUS
  <2>1. CASE IpcNext
    BY <2>1, StepCases, PreemptInv, SendDeliverInv, SendBlockInv,
       ReceiveTakeInv, ReceiveTrapInv, ReceiveBlockInv
  <2>2. CASE UNCHANGED ipcVars
    BY <2>2, StutterInv
  <2> QED
    BY <2>1, <2>2
<1> QED
  BY <1>1, <1>2, PTL DEF IpcSpec
-----------------------------------------------------------------------------
(* Every field of the process table keeps its type, undefined stores       *)
(* included.                                                               *)
THEOREM TypeCorrect == IpcSpec => []TypeInv
<1>1. IInv => TypeInv
  BY DEF IInv
<1> QED
  BY <1>1, Inductive, PTL

(* Flag bits and partner fields agree, and nobody blocks on both sides.    *)
THEOREM BlockedIsConsistent == IpcSpec => []BlockedConsistent
<1>1. IInv => BlockedConsistent
  BY DEF IInv
<1> QED
  BY <1>1, Inductive, PTL

(* Two processes that name each other never both wait.                     *)
THEOREM NoLostRendezvous == IpcSpec => []SpecificRendezvous
<1>1. IInv => SpecificRendezvous
  BY DEF IInv
<1> QED
  BY <1>1, Inductive, PTL

(* The cpu never executes a blocked process.                               *)
THEOREM CpuIsNeverOnBlocked == IpcSpec => []CpuNeverOnBlocked
<1>1. IInv => CpuNeverOnBlocked
  BY DEF IInv
<1> QED
  BY <1>1, Inductive, PTL

(* The misplaced store of the result costs a blocked process its buffer    *)
(* pointer only when the slot above it runs.                               *)
THEOREM BufferLossIsLocal == IpcSpec => []BufferLostOnlyBelowCaller
<1>1. IInv => BufferLostOnlyBelowCaller
  BY DEF IInv
<1> QED
  BY <1>1, Inductive, PTL

(* Blocked processes are woken only by the peer they wait for.             *)
THEOREM OnlyPeersWake == IpcSpec => WokenByPeer
<1> DEFINE A == \A p \in Slots :
                  /\ "RECEIVING" \in p_flags[p] \ p_flags'[p]
                       => p_recvfrom[p] \in {p_proc_ready, ANY}
                  /\ "SENDING" \in p_flags[p] \ p_flags'[p]
                       => p_sendto[p] = p_proc_ready
<1>1. IInv /\ [IpcNext]_ipcVars => [A]_ipcVars
  <2> SUFFICES ASSUME IInv, IpcNext PROVE A
    OBVIOUS
  <2>0. p_flags \in [Slots -> SUBSET Flag]
    BY DEF IInv, TypeInv
  <2>1. CASE Preempt
    BY <2>1 DEF Preempt
  <2>2. ASSUME NEW p \in Slots, NEW d \in Slots, NEW body \in Payload,
               SendDeliver(p, d, Buf[p], body)
        PROVE  A
    BY <2>0, <2>2 DEF SendDeliver, CanDeliver, Calls
  <2>3. ASSUME NEW p \in Slots, NEW d \in Slots, NEW body \in Payload,
               SendBlock(p, d, Buf[p], body)
        PROVE  A
    BY <2>0, <2>3 DEF SendBlock, BlockAndSchedule
  <2>4. ASSUME NEW p \in Slots, NEW src \in Slots \cup {ANY},
               ReceiveTake(p, src, Buf[p])
        PROVE  A
    <3>1. NoQueue
      BY DEF IInv
    <3>2. /\ p_flags' = [p_flags EXCEPT ![src] = @ \ {"SENDING"}]
          /\ p_sendto[src] = p /\ p_proc_ready = p
      BY <2>4, <3>1 DEF ReceiveTake, From, Calls, NoQueue
    <3> QED
      BY <2>0, <3>2
  <2>5. ASSUME NEW p \in Slots, NEW src \in Slots \cup {ANY}, NEW body \in Body,
               ReceiveTrap(p, src, Buf[p], body)
        PROVE  A
    BY <2>5 DEF ReceiveTrap
  <2>6. ASSUME NEW p \in Slots, NEW src \in Slots \cup {ANY}, NEW body \in Body,
               ReceiveBlock(p, src, Buf[p], body)
        PROVE  A
    BY <2>0, <2>6 DEF ReceiveBlock, BlockAndSchedule
  <2> QED
    BY <2>1, <2>2, <2>3, <2>4, <2>5, <2>6, StepCases
<1> QED
  BY <1>1, Inductive, PTL DEF IpcSpec, WokenByPeer

(* A message handed over is the one its sender stamped and wrote, unless   *)
(* the slot above the blocked side runs.                                   *)
THEOREM MessagesAreIntact == IpcSpec => DeliveredIntact
<1>1. IInv /\ [IpcNext]_ipcVars => [IntactStep]_ipcVars
  <2> SUFFICES ASSUME IInv, IpcNext, NEW s \in Slots, NEW d \in Slots
               PROVE  /\ FindsReceiver(s, d) /\ d + 1 \notin Callers
                         => /\ HasMessageOf(s, d)
                            /\ mem'[Loc(d, Buf[d])] = mem'[Loc(s, Buf[s])]
                      /\ FindsSender(s, d) /\ s + 1 \notin Callers
                         => /\ HasMessageOf(s, d)
                            /\ mem'[Loc(d, Buf[d])] = mem[Loc(s, Buf[s])]
    BY DEF IntactStep
  <2> DEFINE Found  == FindsReceiver(s, d) /\ d + 1 \notin Callers
             Waited == FindsSender(s, d) /\ s + 1 \notin Callers
  <2>0. /\ TypeInv /\ BufferLostOnlyBelowCaller /\ NoQueue /\ MessageWaits
        /\ CpuNeverOnBlocked
    BY DEF IInv
  <2>1. ASSUME Preempt
        PROVE  ~Found /\ ~Waited
    BY <2>1 DEF Preempt, FindsReceiver, FindsSender
  <2>2. ASSUME NEW p \in Slots, NEW e \in Slots, NEW body \in Payload,
               SendDeliver(p, e, Buf[p], body), Found \/ Waited
        PROVE  Found /\ ~Waited /\ p = s /\ e = d /\ s # d
    BY <2>0, <2>2 DEF FindsReceiver, FindsSender, SendDeliver, Calls, TypeInv, CpuNeverOnBlocked, Blocked
  <2>3. ASSUME NEW body \in Payload, SendDeliver(s, d, Buf[s], body),
               Found, s # d
        PROVE  mem'[Loc(d, Buf[d])] = mem'[Loc(s, Buf[s])] /\ HasMessageOf(s, d)
    <3>1. p_msg[d] = Buf[d]
      BY <2>0, <2>3 DEF FindsReceiver, BufferLostOnlyBelowCaller, Blocked
    <3>2. /\ mem'[Loc(d, Buf[d])] = Stamp(s, body)
          /\ mem'[Loc(s, Buf[s])] = Stamp(s, body)
      BY <2>0, <2>3, <3>1, BuffersDisjoint DEF SendDeliver, TypeInv
    <3> QED
      BY <3>2 DEF HasMessageOf, Stamp
  <2>4. ASSUME NEW p \in Slots, NEW e \in Slots, NEW body \in Payload,
               SendBlock(p, e, Buf[p], body)
        PROVE  ~Found /\ ~Waited
    BY <2>0, <2>4 DEF FindsReceiver, FindsSender, SendBlock, BlockAndSchedule, TypeInv
  <2>5. ASSUME NEW p \in Slots, NEW src \in Slots \cup {ANY},
               ReceiveTake(p, src, Buf[p]), Found \/ Waited
        PROVE  /\ mem'[Loc(d, Buf[d])] = mem[Loc(s, Buf[s])]
               /\ HasMessageOf(s, d) /\ ~Found
    <3>1. /\ p_flags' = [p_flags EXCEPT ![src] = @ \ {"SENDING"}]
          /\ mem' = [mem EXCEPT ![Loc(p, Buf[p])] = mem[Loc(src, p_msg[src])]]
          /\ p_proc_ready = p /\ src \in Slots
      BY <2>0, <2>5 DEF ReceiveTake, From, Calls, NoQueue
    <3>2. src = s /\ p = d /\ Waited /\ ~Found
      BY <2>0, <2>5, <3>1 DEF FindsReceiver, FindsSender, TypeInv
    <3>3. p_msg[s] = Buf[s]
      BY <2>0, <3>2 DEF FindsSender, BufferLostOnlyBelowCaller, Blocked
    <3>4. mem'[Loc(d, Buf[d])] = mem[Loc(s, Buf[s])]
      BY <2>0, <3>1, <3>2, <3>3, BuffersDisjoint DEF TypeInv
    <3> QED
      BY <2>0, <3>2, <3>4 DEF HasMessageOf, FindsSender, MessageWaits
  <2>6. ASSUME NEW p \in Slots, NEW src \in Slots \cup {ANY}, NEW body \in Body,
               \/ ReceiveTrap(p, src, Buf[p], body)
               \/ ReceiveBlock(p, src, Buf[p], body)
        PROVE  ~Found /\ ~Waited
    BY <2>0, <2>6 DEF FindsReceiver, FindsSender, ReceiveTrap, ReceiveBlock, BlockAndSchedule, TypeInv
  <2> HIDE DEF Found, Waited
  <2> QED
    BY <2>1, <2>2, <2>3, <2>4, <2>5, <2>6, StepCases DEF Found, Waited
<1> QED
  BY <1>1, Inductive, PTL DEF IpcSpec, DeliveredIntact
=============================================================================
