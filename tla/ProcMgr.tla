------------------------------ MODULE ProcMgr ------------------------------
(***************************************************************************)
(* The process manager: the server task_mm (mm/main.c) with do_fork,       *)
(* do_exit, do_wait and do_exec, and the library half of fork, exit, wait  *)
(* and exec that user processes run (mm/fork.c, mm/waitexit.c, mm/exec.c), *)
(* over the message passing of Ipc.                                        *)
(*                                                                         *)
(* task_mm is an ordinary process: the clock may interrupt it anywhere,    *)
(* and it writes p_flags of other slots without the kernel's knowledge.    *)
(* One action is the code between two system calls; do_fork is cut in two, *)
(* after the slot is copied, because the child may run from there on.      *)
(***************************************************************************)
EXTENDS Ipc

CONSTANTS
  SYS, MM, INIT_PROC,   \* TASK_SYS, TASK_MM, INIT_PROC
  Garbage,         \* an int nobody assigned
  StalePids,       \* what msg.PID of fork may hold before the call
  Statuses         \* the arguments of exit

ASSUME ProcMgrAssumption ==
  /\ {SYS, MM, INIT_PROC} \subseteq Slots \ Vacant
  /\ SYS = 0 /\ MM # SYS /\ INIT_PROC \notin {SYS, MM}
  /\ Started = {MM, INIT_PROC} /\ FirstProc = SYS
  /\ \A c \in Vacant : c > INIT_PROC /\ c \in Segs \ {FlatSeg}
  /\ {"s", "mm", "m", "c", "u"} \subseteq Addr

VARIABLES
  p_parent, exit_status,
  upc,    \* where a user process is: "user", "mid" (SEND of BOTH made),
          \* "back" (RECEIVE made); for TASK_SYS "user" and "back"
  call,   \* the library call a user process is in
  mpc,    \* where task_mm is
  mvar    \* locals: src of task_mm, ret of do_fork, the process at hand,
          \* and i of the loop of do_exit (0: not in that loop)

mmVars == <<p_parent, exit_status, mpc, mvar>>
userVars == <<upc, call>>
procVars == <<ipcVars, mmVars, userVars>>

Users == Slots \ {SYS, MM}
Ints == Slots \cup {0, -1, NO_TASK, Garbage} \cup Statuses
Bodies == [type : {"NONE", "FORK", "EXIT", "WAIT", "EXEC", "GET_TICKS",
                   "SYSCALL_RET"},
           val : Ints,      \* m3i1: RETVAL, STATUS
           pid : Ints]      \* m3i2: PID

\* Any bytes of a message buffer can be read as a body.
ASSUME BodyAssumption ==
  Payload = Bodies /\ Junk \in Bodies /\ StalePids \subseteq Ints

Zero == [type |-> "NONE", val |-> 0, pid |-> 0]
Ret(val, pid) == [type |-> "SYSCALL_RET", val |-> val, pid |-> pid]

mm_msg == mem[Loc(MM, "mm")]
\* Mutant of Waits: do_exit does not look at the flags of the parent.
WaitsAlways(p) == TRUE
Waits(p) == "WAITING" \in p_flags[p]
IsEmpty(p) == p_flags[p] = {"EMPTY"}
\* Mutant of Least: the index is one too low.
LeastLessOne(S) == (CHOOSE x \in S : \A y \in S : x <= y) - 1
Least(S) == CHOOSE x \in S : \A y \in S : x <= y

InMM(at) == kernel = "up" /\ p_proc_ready = MM /\ mpc = at
-----------------------------------------------------------------------------
(* task_mm.                                                                *)

\* send_recv(RECEIVE, ANY, &mm_msg), which clears mm_msg first.
MMReceive ==
  /\ InMM("idle")
  /\ SysReceive(MM, ANY, "mm", Zero)
  /\ mpc' = "got"
  /\ UNCHANGED <<p_parent, exit_status, mvar, userVars>>

\* The switch, and the reply with what it leaves in RETVAL.
Reply(ret) == mpc' = "reply" /\ mvar' = [src |-> mm_msg.source, ret |-> ret,
                                         proc |-> 0, i |-> 0]

MMDefault ==
  /\ InMM("got")
  /\ mm_msg.body.type \notin {"FORK", "EXIT", "WAIT", "EXEC"}
  /\ Reply(mm_msg.body.val)
  /\ UNCHANGED <<ipcVars, p_parent, exit_status, userVars>>

\* do_exec has no return statement.
MMExec ==
  /\ InMM("got")
  /\ mm_msg.body.type = "EXEC"
  /\ Reply(Garbage)
  /\ UNCHANGED <<ipcVars, p_parent, exit_status, userVars>>

MMReply ==
  /\ InMM("reply")
  /\ SysSend(MM, mvar.src, "mm", Ret(mvar.ret, mm_msg.body.pid))
  /\ mpc' = "idle"
  /\ UNCHANGED <<p_parent, exit_status, mvar, userVars>>
-----------------------------------------------------------------------------
(* do_fork.                                                                *)

ForkNoSlot ==
  /\ InMM("got") /\ mm_msg.body.type = "FORK"
  /\ \A p \in Slots : ~IsEmpty(p)
  /\ Reply(-1)
  /\ UNCHANGED <<ipcVars, p_parent, exit_status, userVars>>

(* *p = proc_table[parent_pid]: the child gets the flags, the partner      *)
(* fields, the registers and for now the address space of its parent.      *)
ForkCopy ==
  LET child == Least({p \in Slots : IsEmpty(p)})
      parent == mm_msg.source
  IN  /\ InMM("got") /\ mm_msg.body.type = "FORK"
      /\ \E p \in Slots : IsEmpty(p)
      /\ p_flags' = [p_flags EXCEPT ![child] = p_flags[parent]]
      /\ p_msg' = [p_msg EXCEPT ![child] = p_msg[parent]]
      /\ p_recvfrom' = [p_recvfrom EXCEPT ![child] = p_recvfrom[parent]]
      /\ p_sendto' = [p_sendto EXCEPT ![child] = p_sendto[parent]]
      /\ q_sending' = [q_sending EXCEPT ![child] = q_sending[parent]]
      /\ next_sending' = [next_sending EXCEPT ![child] = next_sending[parent]]
      /\ ldt_base' = [ldt_base EXCEPT ![child] = ldt_base[parent]]
      /\ exit_status' = [exit_status EXCEPT ![child] = exit_status[parent]]
      /\ p_parent' = [p_parent EXCEPT ![child] = parent]
      /\ upc' = [upc EXCEPT ![child] = upc[parent]]
      /\ call' = [call EXCEPT ![child] = call[parent]]
      /\ mpc' = "forkmem"
      /\ mvar' = [src |-> parent, ret |-> 0, proc |-> child, i |-> 0]
      /\ UNCHANGED <<mem, p_proc_ready, kernel>>

\* Mutant of ChildBase: the child keeps the segment of INIT.
ChildBaseShared(child) == FlatSeg
ChildBase(child) == child

\* The memory of the parent is copied to the child's 1 MB, its LDT set.
ForkMemory ==
  LET child == mvar.proc
      base == ldt_base[mvar.src]
      copy == [l \in Location |-> IF l[1] = ChildBase(child) THEN mem[<<base, l[2]>>]
                                                  ELSE mem[l]]
  IN  /\ InMM("forkmem")
      /\ mem' = [copy EXCEPT ![Loc(MM, "mm")].body.pid = child]
      /\ ldt_base' = [ldt_base EXCEPT ![child] = ChildBase(child)]
      /\ mpc' = "forksend"
      /\ UNCHANGED <<p_flags, p_msg, p_recvfrom, p_sendto, q_sending,
                     next_sending, p_proc_ready, kernel, p_parent,
                     exit_status, mvar, userVars>>

ForkSend ==
  /\ InMM("forksend")
  /\ SysSend(MM, mvar.proc, "m", Ret(0, 0))
  /\ mpc' = "reply"
  /\ UNCHANGED <<p_parent, exit_status, mvar, userVars>>
-----------------------------------------------------------------------------
(* cleanup(proc), called from do_wait and from two places of do_exit.      *)

\* Mutant of Report: msg2parent.STATUS is not set.
ReportNoStatus(proc) == Ret(Garbage, proc)
Report(proc) == Ret(exit_status[proc], proc)

CleanupSend ==
  /\ InMM("cleanup")
  /\ SysSend(MM, p_parent[mvar.proc], "c", Report(mvar.proc))
  /\ mpc' = "free"
  /\ UNCHANGED <<p_parent, exit_status, mvar, userVars>>

CleanupFree ==
  /\ InMM("free")
  /\ p_flags' = [p_flags EXCEPT ![mvar.proc] = {"EMPTY"}]
  /\ mpc' = IF mvar.i = 0 THEN "idle" ELSE "reparent"
  /\ UNCHANGED <<p_msg, p_recvfrom, p_sendto, q_sending, next_sending,
                 ldt_base, mem, p_proc_ready, kernel, p_parent, exit_status,
                 mvar, userVars>>
-----------------------------------------------------------------------------
(* do_exit.                                                                *)

\* Every slot whose p_parent is p counts, EMPTY ones included.
\* Mutant of Children: the dead are passed over.
ChildrenAlive(p) == {c \in Slots : p_parent[c] = p /\ "HANGING" \notin p_flags[c]}
Children(p) == {c \in Slots : p_parent[c] = p}

\* Mutants of Zombies: the bit is never found; it is not looked at.
ZombiesNone(children) == {}
ZombiesAll(children) == children
Zombies(children) == {c \in children : "HANGING" \in p_flags[c]}

DoExit ==
  LET pid == mm_msg.source
      parent == p_parent[pid]
  IN  /\ InMM("got") /\ mm_msg.body.type = "EXIT"
      /\ exit_status' = [exit_status EXCEPT ![pid] = mm_msg.body.val]
      /\ IF Waits(parent)
         THEN /\ p_flags' = [p_flags EXCEPT ![parent] = @ \ {"WAITING"}]
              /\ mpc' = "cleanup"
         ELSE /\ p_flags' = [p_flags EXCEPT ![pid] = @ \cup {"HANGING"}]
              /\ mpc' = "reparent"
      /\ mvar' = [src |-> pid, ret |-> 0, proc |-> pid, i |-> 1]
      /\ UNCHANGED <<p_msg, p_recvfrom, p_sendto, q_sending, next_sending,
                     ldt_base, mem, p_proc_ready, kernel, p_parent, userVars>>

\* Mutant of Reaped: an adopted zombie is not looked at.
ReapedNone(children) == {}
Reaped(children) == IF Waits(INIT_PROC) THEN Zombies(children) ELSE {}

(* The loop that gives the children of the exiting process to INIT_PROC,   *)
(* up to the next one that INIT_PROC waits for; only task_mm touches what  *)
(* it reads.  mvar.i - 1 is where it goes on.                              *)
DoExitReparent ==
  LET children == {c \in Children(mvar.src) : c >= mvar.i - 1}
      reaped == Reaped(children)
      moved == IF reaped = {} THEN children
               ELSE {c \in children : c <= Least(reaped)}
  IN  /\ InMM("reparent")
      /\ p_parent' = [c \in Slots |->
                        IF c \in moved THEN INIT_PROC ELSE p_parent[c]]
      /\ IF reaped = {}
         THEN mpc' = "idle" /\ UNCHANGED <<p_flags, mvar>>
         ELSE /\ mpc' = "cleanup"
              /\ p_flags' = [p_flags EXCEPT ![INIT_PROC] = @ \ {"WAITING"}]
              /\ mvar' = [mvar EXCEPT !.proc = Least(reaped),
                                      !.i = Least(reaped) + 2]
      /\ UNCHANGED <<p_msg, p_recvfrom, p_sendto, q_sending, next_sending,
                     ldt_base, mem, p_proc_ready, kernel, exit_status,
                     userVars>>
-----------------------------------------------------------------------------
(* do_wait.                                                                *)

DoWait ==
  LET pid == mm_msg.source
      hanging == Zombies(Children(pid))
  IN  /\ InMM("got") /\ mm_msg.body.type = "WAIT"
      /\ mvar' = [src |-> pid, ret |-> 0, i |-> 0,
                  proc |-> IF hanging = {} THEN 0 ELSE Least(hanging)]
      /\ IF hanging = {} /\ Children(pid) # {}
         THEN p_flags' = [p_flags EXCEPT ![pid] = @ \cup {"WAITING"}]
         ELSE UNCHANGED p_flags
      /\ mpc' = IF hanging # {} THEN "cleanup"
                ELSE IF Children(pid) # {} THEN "idle" ELSE "nochild"
      /\ UNCHANGED <<p_msg, p_recvfrom, p_sendto, q_sending, next_sending,
                     ldt_base, mem, p_proc_ready, kernel, p_parent,
                     exit_status, userVars>>

DoWaitNoChild ==
  /\ InMM("nochild")
  /\ SysSend(MM, mvar.src, "c", Ret(Garbage, NO_TASK))
  /\ mpc' = "idle"
  /\ UNCHANGED <<p_parent, exit_status, mvar, userVars>>

\* task_mm, but for the copy of the slot, which programs add to.
Serve ==
  \/ MMReceive \/ MMDefault \/ MMExec \/ MMReply
  \/ ForkNoSlot \/ ForkMemory \/ ForkSend
  \/ CleanupSend \/ CleanupFree
  \/ DoExit \/ DoExitReparent
  \/ DoWait \/ DoWaitNoChild
-----------------------------------------------------------------------------
(* The library calls of a user process: send_recv(BOTH, TASK_MM, &msg).    *)

Request(c, val, pid) == [type |-> c, val |-> val, pid |-> pid]

CallSend(p, request) ==
  /\ p \in Users /\ upc[p] = "user"
  /\ SysSend(p, MM, "u", request)
  /\ upc' = [upc EXCEPT ![p] = "mid"]
  /\ call' = [call EXCEPT ![p] = request.type]
  /\ UNCHANGED mmVars

CallReceive(p) ==
  /\ p \in Users /\ upc[p] = "mid"
  /\ SysReceive(p, MM, "u", mem[Loc(p, "u")].body)
  /\ upc' = [upc EXCEPT ![p] = "back"]
  /\ UNCHANGED <<call, mmVars>>

\* The call returns to the program, with the reply in its buffer.
CallReturn(p) ==
  /\ Calls(p) /\ p \in Users /\ upc[p] = "back"
  /\ upc' = [upc EXCEPT ![p] = "user"]
  /\ UNCHANGED <<ipcVars, call, mmVars>>

ForkCall(p) == \E stale \in StalePids : CallSend(p, Request("FORK", Garbage, stale))
ExitCall(p, status) == CallSend(p, Request("EXIT", status, Garbage))
WaitCall(p) == CallSend(p, Request("WAIT", Garbage, Garbage))
ExecCall(p) == CallSend(p, Request("EXEC", Garbage, Garbage))
\* A request that is no business of task_mm, sent to it all the same.
OtherCall(p) == CallSend(p, Request("GET_TICKS", Garbage, Garbage))

(* task_sys runs first, because p_proc_ready is proc_table, until it waits *)
(* for a message; its bit UNSTARTED keeps it from running again.           *)
TaskSys ==
  /\ upc[SYS] = "user"
  /\ SysReceive(SYS, ANY, "s", Zero)
  /\ upc' = [upc EXCEPT ![SYS] = "back"]
  /\ UNCHANGED <<call, mmVars>>

ProcInit ==
  /\ IpcInit
  /\ p_parent = [p \in Slots |-> IF p \in Vacant THEN 0 ELSE NO_TASK]
  /\ exit_status = [p \in Slots |-> 0]
  /\ upc = [p \in Slots |-> "user"]
  /\ call = [p \in Slots |-> "NONE"]
  /\ mpc = "idle"
  /\ mvar = [src |-> 0, ret |-> 0, proc |-> 0, i |-> 0]
-----------------------------------------------------------------------------
(* Properties that hold of task_mm whatever its clients are.               *)

(* Type invariant of the process table as task_mm and its clients use it.  *)
ProcTypeInv ==
  /\ p_flags \in [Slots -> SUBSET Flag]
  /\ p_msg \in [Slots -> Addr \cup {NULL}]
  /\ mem \in [Location -> Message]
  /\ p_parent \in [Slots -> Slots \cup {NO_TASK}]
  /\ exit_status \in [Slots -> Ints]
  /\ upc \in [Slots -> {"user", "mid", "back"}]
  /\ mpc \in {"idle", "got", "reply", "forkmem", "forksend", "cleanup", "free",
              "reparent", "nochild"}

(* A process that can run in a slot made by fork runs in the memory of     *)
(* that slot, as "the child is born" (fork.c:96) has it: not before its    *)
(* memory and its LDT are set.                                             *)
ChildOwnsMemory == \A c \in Vacant : p_flags[c] = {} => ldt_base[c] = c
=============================================================================
