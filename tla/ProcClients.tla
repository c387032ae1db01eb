---------------------------- MODULE ProcClients ----------------------------
(***************************************************************************)
(* The process manager under general clients: INIT_PROC and its            *)
(* descendants fork, wait, exec and exit in any order (INIT_PROC, which    *)
(* every orphan is given to, never exits), and the scheduler may pick any  *)
(* process that can run at any time.                                       *)
(***************************************************************************)
EXTENDS ProcMgr

CONSTANTS
  Menu,       \* Menu[p]: the library calls process p makes
  MaxCalls    \* bound: MaxCalls[p] is how many of them it makes

ASSUME ClientsAssumption ==
  /\ Menu \in [Slots -> SUBSET {"FORK", "WAIT", "EXEC", "EXIT", "GET_TICKS"}]
  /\ "EXIT" \notin Menu[INIT_PROC]
  /\ MaxCalls \in [Slots -> Nat]

VARIABLE calls      \* calls[p]: library calls made in slot p so far

clientVars == <<procVars, calls>>

Client(p) ==
  \/ /\ calls[p] < MaxCalls[p]
     /\ calls' = [calls EXCEPT ![p] = @ + 1]
     /\ \/ "FORK" \in Menu[p] /\ ForkCall(p)
        \/ "WAIT" \in Menu[p] /\ WaitCall(p)
        \/ "EXEC" \in Menu[p] /\ ExecCall(p)
        \/ "GET_TICKS" \in Menu[p] /\ OtherCall(p)
        \/ "EXIT" \in Menu[p] /\ \E status \in Statuses : ExitCall(p, status)
  \/ (CallReceive(p) \/ CallReturn(p)) /\ UNCHANGED calls

ClientsInit == ProcInit /\ calls = [p \in Slots |-> 0]

ClientsNext ==
  \/ (ForkCopy \/ Serve \/ TaskSys) /\ UNCHANGED calls
  \/ Preempt /\ UNCHANGED <<mmVars, userVars, calls>>
  \/ \E p \in Users : Client(p)

ClientsSpec == ClientsInit /\ [][ClientsNext]_clientVars
-----------------------------------------------------------------------------
(* Properties.                                                             *)

\* task_mm has done with the last request: it waits or is about to.
MMIdle == mpc = "idle" \/ "RECEIVING" \in p_flags[MM]

(* No zombie is left for a parent that waits: whichever of exit and wait   *)
(* task_mm serves first, and whoever the parent has become meanwhile       *)
(* (waitexit.c:63, :75, :94), the two meet.                                *)
NoMissedZombie ==
  MMIdle => \A p, c \in Slots :
    ~("WAITING" \in p_flags[p] /\ "HANGING" \in p_flags[c] /\ p_parent[c] = p)

(* A zombie always has a parent that may still wait for it: orphans, the   *)
(* dead ones included, go to INIT (waitexit.c:72).                         *)
ZombieHasParent ==
  MMIdle => \A c \in Slots : "HANGING" \in p_flags[c] =>
    p_flags[p_parent[c]] \cap {"EMPTY", "HANGING"} = {}

(* task_mm only ever serves a request that its source has made and still   *)
(* waits on, though buffers and flags are shared with the kernel and a     *)
(* child is born inside the library call of its parent.                    *)
RequestIsGenuine ==
  kernel = "up" /\ mpc = "got" /\ p_flags[MM] = {} =>
    LET s == mm_msg.source
    IN  s \in Users /\ upc[s] # "user" /\ call[s] = mm_msg.body.type

(* The report of a dead child goes to a process inside wait, and tells of  *)
(* a process inside exit with the status it gave, on each of the three     *)
(* ways into cleanup (waitexit.c:65, :78, :95).                            *)
CleanupReachesWaiter ==
  mpc = "cleanup" =>
    LET parent == p_parent[mvar.proc]
    IN  /\ call[parent] = "WAIT" /\ upc[parent] # "user"
        /\ call[mvar.proc] = "EXIT" /\ exit_status[mvar.proc] \in Statuses

\* task_mm is blocked in the send that answers p.
AnswerOffered(p) == "SENDING" \in p_flags[MM] /\ p_sendto[MM] = p

(* What has become of every call when task_mm has done: the caller waits   *)
(* for a child or is a zombie; or it can run, and is answered or offered   *)
(* its answer; or task_mm was busy when it sent its request.  Then it is   *)
(* blocked sending, on no queue (proc.c:105), and a receive from ANY does  *)
(* not find it: this request is lost, perhaps for ever.  No call that      *)
(* task_mm took is forgotten, and no other way to be lost exists.          *)
CallsAccountedFor ==
  MMIdle => \A p \in Users :
    \/ upc[p] = "user" \/ p_flags[p] \cap {"EMPTY", "UNSTARTED"} # {}
    \/ p_flags[p] \cap {"WAITING", "HANGING"} # {}
    \/ p_flags[p] = {} /\ (upc[p] = "back" \/ AnswerOffered(p))
    \/ p_flags[p] = {"SENDING"} /\ upc[p] = "mid"

(* exit does not return, and a slot is freed only after its process called *)
(* it: no slot is given to a new process under a living one.               *)
ExitStep ==
  /\ \A c \in Slots : ~IsEmpty(c) /\ IsEmpty(c)' =>
       call[c] = "EXIT" /\ upc[c] # "user"
  /\ \A p \in Users : upc[p] # "user" /\ upc'[p] = "user" => call[p] # "EXIT"
ExitIsFinal == [][ExitStep]_clientVars

(* What the code says of itself.  waitexit.c:104: a caller of wait with no *)
(* child is answered, so one that is kept WAITING has a child.             *)
WaitingHasChild ==
  MMIdle => \A p \in Slots : "WAITING" \in p_flags[p] =>
    \E c \in Slots : p_parent[c] = p /\ ~IsEmpty(c)

\* What the program of p sees of the library call that has just returned.
Returns(p, c) == upc[p] = "back" /\ upc'[p] = "user" /\ call[p] = c
Result(p) == mem[Loc(p, "u")].body

(* fork.c:93: the pid of the child is returned to the parent.  fork gives  *)
(* the child 0 and the parent a child of its own, or else says -1.         *)
ForkStep ==
  \A p \in Users : Returns(p, "FORK") =>
    Result(p).pid \in {0, -1} \cup Children(p)
ForkReturnsChild == [][ForkStep]_clientVars
=============================================================================
