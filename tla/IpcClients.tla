----------------------------- MODULE IpcClients -----------------------------
(***************************************************************************)
(* The kernel of Ipc under its most general clients: any running process   *)
(* may make any sendrec call to any slot, in any order, always passing the *)
(* one message buffer it owns.  Every program of the repository (task_mm,  *)
(* task_sys, Init, its children) is a special case.                        *)
(***************************************************************************)
EXTENDS Ipc

CONSTANT Buf   \* Buf[p] is the buffer process p passes to sendrec

ASSUME BufAssumption ==
  /\ Buf \in [Slots -> Addr]
  /\ \A p, q \in Slots : Buf[p] = Buf[q] => p = q
  /\ Junk \notin Payload

Syscall(p) ==
  \/ \E d \in Slots, body \in Payload : SysSend(p, d, Buf[p], body)
  \/ \E src \in Slots \cup {ANY} :
       SysReceive(p, src, Buf[p], mem[Loc(p, Buf[p])].body)

IpcNext == Preempt \/ \E p \in Slots : Syscall(p)

IpcSpec == IpcInit /\ [][IpcNext]_ipcVars
-----------------------------------------------------------------------------
(* Properties.                                                             *)

\* The only slots that ever run: the others keep UNSTARTED or EMPTY.
Callers == Started \cup {FirstProc}

(* Type invariant of the process table, the buffers and the cpu.           *)
TypeInv ==
  /\ p_flags \in [Slots -> SUBSET Flag]
  /\ p_msg \in [Slots -> Addr \cup {NULL}]
  /\ p_recvfrom \in [Slots -> Slots \cup {ANY, NO_TASK}]
  /\ p_sendto \in [Slots -> Slots \cup {NO_TASK}]
  /\ q_sending \in [Slots -> Slots \cup {NULL}]
  /\ next_sending \in [Slots -> Slots \cup {NULL}]
  /\ ldt_base \in [Slots -> Segs]
  /\ mem \in [Location -> Message]
  /\ p_proc_ready \in Slots
  /\ kernel \in {"up", "spin", "trap"}

(* The flag bits and the partner fields of a slot tell the same story, and *)
(* no process is blocked on both sides at once.  Every test of msg_send    *)
(* and msg_receive relies on it: proc.c:77 reads a flag and a field.       *)
BlockedConsistent ==
  \A p \in Slots :
    /\ "SENDING" \in p_flags[p] <=> p_sendto[p] # NO_TASK
    /\ "RECEIVING" \in p_flags[p] <=> p_recvfrom[p] # NO_TASK
    /\ ~({"SENDING", "RECEIVING"} \subseteq p_flags[p])

(* No lost rendezvous: a process blocked sending to d and d blocked        *)
(* receiving from exactly that process never coexist, whichever came       *)
(* first.  (With ANY in place of the process number it is false.)          *)
SpecificRendezvous ==
  \A p, d \in Slots : ~(p_sendto[p] = d /\ p_recvfrom[d] = p)

(* The cpu never executes a blocked process: every path that blocks the    *)
(* caller also reschedules, and only spins when nobody can run.            *)
CpuNeverOnBlocked ==
  /\ kernel = "up" => ~Blocked(p_proc_ready)
  /\ kernel = "spin" => \A p \in Slots : p_flags[p] # {}

(* A blocked process has lost its buffer pointer only if the slot above it *)
(* is one that runs: the misplaced store of the result reaches no further. *)
BufferLostOnlyBelowCaller ==
  \A p \in Slots :
    Blocked(p) => p_msg[p] = Buf[p] \/ (p_msg[p] = NULL /\ p + 1 \in Callers)

(* A process leaves RECEIVING only by a call of a process it accepts, and  *)
(* SENDING only by a call of the process it sends to.                      *)
WokenByPeer ==
  [][\A p \in Slots :
       /\ "RECEIVING" \in p_flags[p] \ p_flags'[p]
            => p_recvfrom[p] \in {p_proc_ready, ANY}
       /\ "SENDING" \in p_flags[p] \ p_flags'[p]
            => p_sendto[p] = p_proc_ready]_ipcVars

\* The call of s finds d waiting; the call of d finds s waiting.
FindsReceiver(s, d) ==
  p_proc_ready = s /\ "RECEIVING" \in p_flags[d] \ p_flags'[d]
FindsSender(s, d) ==
  p_proc_ready = d /\ "SENDING" \in p_flags[s] \ p_flags'[s]
HasMessageOf(s, d) == mem'[Loc(d, Buf[d])] \in [source : {s}, body : Payload]
IntactStep ==
  \A s, d \in Slots :
    /\ FindsReceiver(s, d) /\ d + 1 \notin Callers
         => HasMessageOf(s, d) /\ mem'[Loc(d, Buf[d])] = mem'[Loc(s, Buf[s])]
    /\ FindsSender(s, d) /\ s + 1 \notin Callers
         => HasMessageOf(s, d) /\ mem'[Loc(d, Buf[d])] = mem[Loc(s, Buf[s])]

(* A message handed over is the one its sender stamped and wrote, however  *)
(* long either side was blocked, unless the slot above the blocked side is *)
(* one that runs.                                                          *)
DeliveredIntact == [][IntactStep]_ipcVars

(* What the code says of itself.  proc.c:159: when src is blocked sending  *)
(* to the receiver, "the queue cannot be empty now".                       *)
SenderIsQueued ==
  \A p, d \in Slots : p_sendto[p] = d => q_sending[d] # NULL

(* kernel.asm:249: the result goes "to the eax position of the process     *)
(* table", so a process that stays blocked keeps its message pointer.      *)
PointerKeptWhileBlocked ==
  [][\A p \in Slots :
       Blocked(p) /\ Blocked(p)' => p_msg'[p] = p_msg[p]]_ipcVars
=============================================================================
