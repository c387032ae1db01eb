------------------------------ MODULE Keyboard ------------------------------
(***************************************************************************)
(* The keyboard, its interrupt, and what task_tty does with them in        *)
(* kernel/keyboard.c: init_keyboard, set_leds, keyboard_read.  Codes come  *)
(* byte by byte through one data port that the interrupt handler and       *)
(* kb_ack both read.  Bytes and key codes are the numbers of keymap.h and  *)
(* keyboard.h; of the table there is one key of each kind.                 *)
(***************************************************************************)
EXTENDS KbBuffer, SequencesExt

CONSTANTS
  TTY_IN_BYTES,
  EmptyWaits    \* what waiting for an empty buffer may be: "rereads" count
                \* in each round, or "hangs": the compiler has moved the read
                \* of count, which is not volatile, out of the loop

ASSUME KeyboardAssumption ==
  /\ TTY_IN_BYTES \in Nat \ {0}
  /\ EmptyWaits \in (SUBSET {"rereads", "hangs"}) \ {{}}

VARIABLES
  wire,       \* the bytes the keyboard has yet to send
  latch,      \* the byte port 0x60 shows, also after it was read
  full,       \* latch has not been read: the interrupt line is up
  held,       \* the keys that are down
  handler,    \* irq_table[KEYBOARD_IRQ]: "none" or "keyboard"
  pc,         \* where task_tty is
  taken,      \* the bytes this keyboard_read has taken from the buffer
  mods,       \* those of shift_l, shift_r, ctrl_l, ctrl_r, alt_l that are set
  locks,      \* those of caps_lock, num_lock, scroll_lock that are set
  inbuf,      \* tty0.in_buf
  mishap      \* history: "crashed", "dropped", "stolen" (see below)

wireVars == <<wire, latch, full, held>>
readVars == <<handler, pc, taken, mods, locks, inbuf>>
keyboardVars == <<kbVars, wireVars, readVars, mishap>>
-----------------------------------------------------------------------------
(* The keyboard.  Each key has a make and a break code.                    *)
E0 == \hE0
ACK == \hFA
PrintScreen == <<E0, \h2A, E0, \h37>>
PauseBreak == <<\hE1, \h1D, \h45, \hE1, \h9D, \hC5>>

Single(b) == [make |-> <<b>>, break |-> <<b + \h80>>]
Extended(b) == [make |-> <<E0, b>>, break |-> <<E0, b + \h80>>]

\* "UP*" is the arrow key of a keyboard that takes back NumLock by a shift
\* code of its own, as long as NumLock is on.
Codes == [
  A      |-> Single(\h1E),   ENTER  |-> Single(\h1C),   BKSP |-> Single(\h0E),
  LSHIFT |-> Single(\h2A),   RSHIFT |-> Single(\h36),   LALT |-> Single(\h38),
  CAPS   |-> Single(\h3A),   NUM    |-> Single(\h45),   KP8  |-> Single(\h48),
  KPEN   |-> Extended(\h1C), RCTRL  |-> Extended(\h1D), UP   |-> Extended(\h48),
  RALT   |-> Extended(\h38),
  UPFAKE |-> [make |-> <<E0, \h2A, E0, \h48>>, break |-> <<E0, \hC8, E0, \hAA>>],
  PRTSCR |-> [make |-> PrintScreen, break |-> <<E0, \hB7, E0, \hAA>>],
  PAUSE  |-> [make |-> PauseBreak, break |-> <<>>]]

ASSUME BytesAssumption ==
  /\ ACK \in Bytes
  /\ \A k \in DOMAIN Codes : Codes[k].make \in Seq(Bytes) /\ Codes[k].break \in Seq(Bytes)

Press(k) ==
  /\ wire' = wire \o Codes[k].make
  /\ held' = IF k = "PAUSE" THEN held ELSE held \cup {k}
  /\ UNCHANGED <<kbVars, latch, full, readVars, mishap>>

Release(k) ==
  /\ k \in held
  /\ wire' = wire \o Codes[k].break
  /\ held' = held \ {k}
  /\ UNCHANGED <<kbVars, latch, full, readVars, mishap>>

\* The next byte gets into the data port.
Deliver ==
  /\ ~full /\ wire # <<>>
  /\ latch' = Head(wire) /\ full' = TRUE /\ wire' = Tail(wire)
  /\ UNCHANGED <<kbVars, held, readVars, mishap>>
-----------------------------------------------------------------------------
(* The interrupt.  init_8259A lets it in before anything is in irq_table:  *)
(* then hwint01 calls address 0.                                           *)
Interrupt ==
  /\ full
  /\ full' = FALSE
  /\ IF handler = "none"
     THEN mishap' = mishap \cup {"crashed"} /\ UNCHANGED kbVars
     ELSE /\ Handler(latch)
          /\ mishap' = mishap \cup (IF Accept THEN {} ELSE {"dropped"})
  /\ UNCHANGED <<wire, latch, held, readVars>>
-----------------------------------------------------------------------------
(* init_keyboard and set_leds: a command byte, kb_ack, the LEDs, kb_ack.   *)
SendCommand(next) == wire' = Append(wire, ACK) /\ pc' = next

InitKeyboard ==
  /\ pc = "start"
  /\ SendCommand("ack1")
  /\ UNCHANGED <<kbVars, latch, full, held, handler, taken, mods, locks, inbuf, mishap>>

\* Mutant of Acked: kb_ack waits for the code that asks to send again.
AckedResend == latch = \hFE
Acked == latch = ACK

\* One round of kb_ack.  The port shows its last byte until the next comes.
KbAck ==
  /\ pc \in {"ack1", "ack2"}
  /\ full' = FALSE
  /\ mishap' = mishap \cup (IF full /\ latch # ACK THEN {"stolen"} ELSE {})
  /\ CASE ~Acked -> UNCHANGED <<wire, pc>>
       [] Acked /\ pc = "ack1" -> SendCommand("ack2")
       [] Acked /\ pc = "ack2" ->
            /\ pc' = (IF handler = "none" THEN "install" ELSE "write")
            /\ UNCHANGED wire
  /\ UNCHANGED <<kbVars, latch, held, handler, taken, mods, locks, inbuf>>

\* put_irq_handler, enable_irq, init_tty.
PutIrqHandler ==
  /\ pc = "install"
  /\ handler' = "keyboard"
  /\ inbuf' = <<>>
  /\ pc' = "read"
  /\ UNCHANGED <<kbVars, wireVars, taken, mods, locks, mishap>>
-----------------------------------------------------------------------------
(* keyboard_read.                                                          *)
Special == {PrintScreen, Codes["PRTSCR"].break, PauseBreak}

WantsMore(bytes) == \E s \in Special : IsStrictPrefix(bytes, s)

TakeByte ==
  /\ pc \in {"read", "more"}
  /\ GetByte
  /\ taken' = Append(taken, buf[p_tail])
  /\ pc' = IF WantsMore(taken') THEN "more" ELSE "decode"
  /\ UNCHANGED <<wireVars, handler, mods, locks, inbuf, mishap>>

\* get_byte_from_kbuf finds the buffer empty and does not look again.
Hang ==
  /\ pc = "more" /\ count = 0 /\ "hangs" \in EmptyWaits
  /\ pc' = "hung"
  /\ UNCHANGED <<kbVars, wireVars, handler, taken, mods, locks, inbuf, mishap>>

FLAG_EXT == \h100
ENTER == FLAG_EXT + \h03
BACKSPACE == FLAG_EXT + \h04
SHIFT_L == FLAG_EXT + \h08
SHIFT_R == FLAG_EXT + \h09
CTRL_L == FLAG_EXT + \h0A
CTRL_R == FLAG_EXT + \h0B
ALT_L == FLAG_EXT + \h0C
ALT_R == FLAG_EXT + \h0D
CAPS_LOCK == FLAG_EXT + \h0E
NUM_LOCK == FLAG_EXT + \h0F
SCROLL_LOCK == FLAG_EXT + \h10
UP == FLAG_EXT + \h25
PAD_ENTER == FLAG_EXT + \h30
PAD_0 == FLAG_EXT + \h32
PAD_8 == PAD_0 + 8

keymap(row) ==
  CASE row = \h1E -> <<97, 65, 0>>
    [] row = \h1C -> <<ENTER, ENTER, PAD_ENTER>>
    [] row = \h0E -> <<BACKSPACE, BACKSPACE, 0>>
    [] row = \h2A -> <<SHIFT_L, SHIFT_L, 0>>
    [] row = \h36 -> <<SHIFT_R, SHIFT_R, 0>>
    [] row = \h1D -> <<CTRL_L, CTRL_L, CTRL_R>>
    [] row = \h38 -> <<ALT_L, ALT_L, ALT_R>>
    [] row = \h3A -> <<CAPS_LOCK, CAPS_LOCK, 0>>
    [] row = \h45 -> <<NUM_LOCK, NUM_LOCK, 0>>
    [] row = \h48 -> <<PAD_8, 56, UP>>
    [] OTHER -> <<0, 0, 0>>

\* The code whose row is looked up: a failed E1 sequence leaves E1 itself.
ScanCode == IF taken[1] = E0 THEN taken[2] ELSE taken[1]
Made == ScanCode < \h80

\* Mutant of Caps: shift is ignored.
CapsUnshifted(row) == CAPS_LOCK \in locks /\ row[1] \in 97 .. 122
Caps(row) == (mods \cap {SHIFT_L, SHIFT_R} # {})
               # (CAPS_LOCK \in locks /\ row[1] \in 97 .. 122)

Key ==
  LET row == keymap(ScanCode % \h80)
  IN  IF taken[1] = E0 THEN row[3] ELSE IF Caps(row) THEN row[2] ELSE row[1]

\* The flag a modifier key sets: ALT_R has the one of ALT_L.
\* Mutant of Flag: the keys of one kind share a flag.
FlagShared(key) == CASE key = SHIFT_R -> SHIFT_L [] key = ALT_R -> ALT_L [] OTHER -> key
Flag(key) == IF key = ALT_R THEN ALT_L ELSE key

\* What a key of the number pad is; the keys to move the caret are one.
Unpadded(key) ==
  CASE key = PAD_ENTER -> ENTER
    [] key \in PAD_0 .. PAD_0 + 9 /\ NUM_LOCK \in locks -> key - PAD_0 + 48
    [] key \in PAD_0 .. PAD_0 + 9 /\ NUM_LOCK \notin locks -> UP
    [] OTHER -> key

\* in_process.
InProcess(key) ==
  CASE key < FLAG_EXT -> <<key>>
    [] key = ENTER -> <<10>>
    [] key = BACKSPACE -> <<8>>
    [] OTHER -> <<>>

DecodeSpecial ==
  /\ pc = "decode" /\ taken \in Special
  /\ pc' = "read"
  /\ taken' = <<>>
  /\ UNCHANGED <<kbVars, wireVars, handler, mods, locks, inbuf, mishap>>

DecodeModifier ==
  /\ pc = "decode" /\ taken \notin Special
  /\ Key \in SHIFT_L .. ALT_R
  /\ mods' = IF Made THEN mods \cup {Flag(Key)} ELSE mods \ {Flag(Key)}
  /\ pc' = "read"
  /\ taken' = <<>>
  /\ UNCHANGED <<kbVars, wireVars, handler, locks, inbuf, mishap>>

DecodeLock ==
  /\ pc = "decode" /\ taken \notin Special
  /\ Key \in CAPS_LOCK .. SCROLL_LOCK /\ Made
  /\ locks' = IF Key \in locks THEN locks \ {Key} ELSE locks \cup {Key}
  /\ SendCommand("ack1")
  /\ taken' = <<>>
  /\ UNCHANGED <<kbVars, latch, full, held, handler, mods, inbuf, mishap>>

\* put_key, of a full in_buf nothing.
DecodeOther ==
  /\ pc = "decode" /\ taken \notin Special
  /\ Key \notin SHIFT_L .. SCROLL_LOCK \/ (Key \in CAPS_LOCK .. SCROLL_LOCK /\ ~Made)
  /\ inbuf' = IF Made /\ Len(inbuf) < TTY_IN_BYTES
              THEN inbuf \o InProcess(Unpadded(Key)) ELSE inbuf
  /\ pc' = "write"
  /\ taken' = <<>>
  /\ UNCHANGED <<kbVars, wireVars, handler, mods, locks, mishap>>

KeyboardInit ==
  /\ KbInit
  /\ wire = <<>> /\ latch = 0 /\ full = FALSE /\ held = {}
  /\ handler = "none"
  /\ pc = "start"
  /\ taken = <<>> /\ mods = {} /\ locks = {NUM_LOCK} /\ inbuf = <<>>
  /\ mishap = {}

KeyboardRead == \/ InitKeyboard \/ KbAck \/ PutIrqHandler \/ TakeByte \/ Hang
                \/ DecodeSpecial \/ DecodeModifier \/ DecodeLock \/ DecodeOther
=============================================================================
