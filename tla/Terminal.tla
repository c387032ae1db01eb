------------------------------ MODULE Terminal ------------------------------
(***************************************************************************)
(* task_tty (kernel/tty.c): what is typed on the keyboard is echoed on the *)
(* console, on which other processes print meanwhile.                      *)
(***************************************************************************)
EXTENDS Keyboard, Console

CONSTANTS
  Tty,       \* the printer that is task_tty
  Scenarios  \* bound: how many keys, which, and the kprintf calls of others

\* The texts others print.
Jobs == UNION {UNION {ToSet(s.jobs[p]) : p \in DOMAIN s.jobs} : s \in Scenarios}

Scenario == [keys : Nat, early : BOOLEAN, menu : SUBSET DOMAIN Codes,
             jobs : [Printers \ {Tty} -> Seq(Jobs)]]

ASSUME TerminalAssumption ==
  /\ Tty \in Printers
  /\ Scenarios \subseteq Scenario
  /\ Jobs \subseteq Seq(Items)

VARIABLES
  todo,      \* what is left of the scenario
  seen,      \* the lock keys a user takes to be on
  want       \* history: what a user expects to see for the keys pressed

terminalVars == <<keyboardVars, consoleVars, todo, seen, want>>
ghosts == <<todo, seen, want>>

Up == "crashed" \notin mishap

\* kb_ack waits for an acknowledge that the handler has taken and a later
\* byte has replaced in the port: nobody sends another.
AckIsGone == pc \in {"ack1", "ack2"} /\ latch # ACK /\ ACK \notin {wire[n] : n \in DOMAIN wire}
-----------------------------------------------------------------------------
(* What a key types, told by the keys that are down.  A keyboard that      *)
(* sends shift codes around an arrow key makes it type NUL (keyboard.c:130 *)
(* takes their first byte for a key without name).                         *)
Shifted == held \cap {"LSHIFT", "RSHIFT"} # {}

Typing(k) ==
  CASE k = "A" -> IF Shifted # ("CAPS" \in seen) THEN <<65>> ELSE <<97>>
    [] k \in {"ENTER", "KPEN"} -> <<LF>>
    [] k = "BKSP" -> <<BS>>
    [] k = "KP8" -> IF Shifted \/ "NUM" \in seen THEN <<56>> ELSE <<>>
    [] k = "UPFAKE" -> <<NUL>>
    [] OTHER -> <<>>

Toggled(k) == IF k \notin {"CAPS", "NUM"} THEN seen
              ELSE IF k \in seen THEN seen \ {k} ELSE seen \cup {k}

\* Bound: the user stops when something has gone wrong.
UserPresses(k) ==
  /\ mishap = {} /\ pc # "hung" /\ ~AckIsGone
  /\ todo.keys > 0 /\ k \in todo.menu
  /\ todo.early \/ handler = "keyboard"
  /\ k = "UPFAKE" => "NUM" \in seen
  /\ Press(k)
  /\ todo' = [todo EXCEPT !.keys = @ - 1]
  /\ want' = want \o Typing(k)
  /\ seen' = Toggled(k)
  /\ UNCHANGED consoleVars

UserReleases(k) == mishap = {} /\ Release(k) /\ UNCHANGED <<consoleVars, ghosts>>
-----------------------------------------------------------------------------
Hardware == Up /\ Deliver /\ UNCHANGED <<consoleVars, ghosts>>
TakeInterrupt == Up /\ Interrupt /\ UNCHANGED <<consoleVars, ghosts>>

\* tty_do_read.
TtyRead == Up /\ stage[Tty] = "idle" /\ KeyboardRead /\ UNCHANGED <<consoleVars, ghosts>>

\* tty_do_write: one character.
TtyWrite ==
  /\ Up /\ pc = "write" /\ stage[Tty] = "idle"
  /\ pc' = "read"
  /\ inbuf' = IF inbuf = <<>> THEN inbuf ELSE Tail(inbuf)
  /\ IF inbuf = <<>> THEN UNCHANGED consoleVars ELSE Kprintf(Tty, <<Head(inbuf)>>)
  /\ UNCHANGED <<kbVars, wireVars, handler, taken, mods, locks, mishap, ghosts>>

\* Another process calls kprintf.
OtherPrints(p) ==
  /\ Up /\ p # Tty /\ todo.jobs[p] # <<>>
  /\ Kprintf(p, Format(Head(todo.jobs[p])))
  /\ todo' = [todo EXCEPT !.jobs[p] = Tail(@)]
  /\ UNCHANGED <<keyboardVars, seen, want>>

Printing(p) == Up /\ PrintStep(p) /\ UNCHANGED <<keyboardVars, ghosts>>

TerminalInit ==
  /\ KeyboardInit /\ ConsoleInit
  /\ todo \in Scenarios
  /\ seen = {"NUM"} /\ want = <<>>

TerminalNext ==
  \/ \E k \in DOMAIN Codes : UserPresses(k) \/ UserReleases(k)
  \/ Hardware \/ TakeInterrupt \/ TtyRead \/ TtyWrite
  \/ \E p \in Printers : OtherPrints(p) \/ Printing(p)

TerminalSpec == TerminalInit /\ [][TerminalNext]_terminalVars

(* The keyboard sends what it has, an interrupt is taken, and every        *)
(* process gets the cpu again and again, as Sched!NoStarvation says unless *)
(* nested ticks rob it in every search.  Nobody has to press a key.        *)
FairTerminal ==
  /\ TerminalSpec
  /\ WF_terminalVars(Hardware) /\ WF_terminalVars(TakeInterrupt)
  /\ WF_terminalVars(TtyRead) /\ WF_terminalVars(TtyWrite)
  /\ \A p \in Printers : WF_terminalVars(OtherPrints(p)) /\ WF_terminalVars(Printing(p))
-----------------------------------------------------------------------------
(* Type invariant; the ring's part is RingInv.                             *)
TerminalTypeInv ==
  /\ RingInv
  /\ latch \in Bytes /\ full \in BOOLEAN
  /\ \A n \in DOMAIN wire : wire[n] \in Bytes
  /\ held \subseteq DOMAIN Codes
  /\ handler \in {"none", "keyboard"}
  /\ pc \in {"start", "ack1", "ack2", "install", "read", "more", "decode", "write", "hung"}
  /\ mods \subseteq SHIFT_L .. ALT_L /\ locks \subseteq CAPS_LOCK .. SCROLL_LOCK
  /\ Len(inbuf) <= TTY_IN_BYTES
  /\ mishap \subseteq {"crashed", "dropped", "stolen"}
  /\ \A p \in Printers :
       stage[p] \in {"idle", "put", "store", "line", "scroll", "cursor", "aimed"}

\* The characters task_tty has echoed on the console.
Echoed == printed[Tty]

\* Every key pressed has gone through.
Drained ==
  /\ wire = <<>> /\ ~full /\ count = 0
  /\ pc = "read" /\ stage[Tty] = "idle"

(* From key to screen: as long as no byte was dropped by a full buffer or  *)
(* read by kb_ack instead of the handler, the characters echoed are those  *)
(* of the keys pressed, in order, with the right case and NumLock, however *)
(* far the interrupts have run ahead of the terminal; and all are, when    *)
(* nothing is under way any more.                                          *)
EchoMatchesKeys ==
  mishap = {} => /\ IsPrefix(Echoed, want)
                 /\ Drained => Echoed = want

(* Under the same condition no shift or ctrl key is taken to be down that  *)
(* is up, or the other way round, and the lock flags agree with the user's.*)
KeyFlag == [LSHIFT |-> SHIFT_L, RSHIFT |-> SHIFT_R, RCTRL |-> CTRL_R]

FlagsFollowKeys ==
  mishap = {} /\ Drained =>
    /\ \A k \in DOMAIN KeyFlag : KeyFlag[k] \in mods <=> k \in held
    /\ CAPS_LOCK \in locks <=> "CAPS" \in seen
    /\ NUM_LOCK \in locks <=> "NUM" \in seen

(* The terminal always gets done with the keys pressed, but for three ways *)
(* to stop for ever: an interrupt before the handler is set, a buffer      *)
(* found empty within a key's code (if the compiler reads count once), an  *)
(* acknowledge overwritten.                                                *)
KeysGetThrough == <>[](Drained \/ ~Up \/ pc = "hung" \/ AckIsGone)

(* kprintf always returns.                                                 *)
PrintingEnds == \A p \in Printers : stage[p] # "idle" ~> stage[p] = "idle" \/ ~Up

(* A number that a process has kprintf print reads back as that number,    *)
(* also the most negative one, of which lint = -lint makes itself.         *)
NumbersReadBack ==
  \A p \in DOMAIN todo.jobs : \A n \in DOMAIN todo.jobs[p] :
    \A item \in ToSet(todo.jobs[p][n]) :
      /\ item[1] = "d" => ValueOf(Conversion(item)) = item[2]
      /\ item[1] \in {"x", "X"} => ValueOf(Conversion(item)) = Unsigned(item[2])
=============================================================================
