------------------------------ MODULE KbBuffer ------------------------------
(***************************************************************************)
(* kb_in of kernel/keyboard.c: a ring that keyboard_handler fills and      *)
(* get_byte_from_kbuf empties.  The handler runs in the kernel and is not  *)
(* preempted; the reader takes a byte with interrupts off.  So each is one *)
(* step for the other.                                                     *)
(***************************************************************************)
EXTENDS Integers, Sequences

CONSTANTS KB_IN_BYTES, Bytes

ASSUME KbAssumption == KB_IN_BYTES \in Nat \ {0} /\ 0 \in Bytes

VARIABLES buf, p_head, p_tail, count

kbVars == <<buf, p_head, p_tail, count>>
Index == 0 .. KB_IN_BYTES - 1

\* Mutant of Succ: the pointer wraps one slot early.
SuccShort(p) == IF p + 2 = KB_IN_BYTES THEN 0 ELSE p + 1
Succ(p) == IF p + 1 = KB_IN_BYTES THEN 0 ELSE p + 1

KbInit ==
  /\ buf = [n \in Index |-> 0]
  /\ p_head = 0 /\ p_tail = 0 /\ count = 0

\* Mutant of Accept: a byte is stored over the oldest one.
AcceptAlways == TRUE
Accept == count < KB_IN_BYTES

\* keyboard_handler, which has read code from the port.
Handler(code) ==
  IF Accept
  THEN /\ buf' = [buf EXCEPT ![p_head] = code]
       /\ p_head' = Succ(p_head)
       /\ count' = count + 1
       /\ UNCHANGED p_tail
  ELSE UNCHANGED kbVars

\* get_byte_from_kbuf past its loop; the byte is buf[p_tail].
GetByte ==
  /\ count > 0
  /\ p_tail' = Succ(p_tail)
  /\ count' = count - 1
  /\ UNCHANGED <<buf, p_head>>

KbNext == GetByte \/ \E code \in Bytes : Handler(code)
KbSpec == KbInit /\ [][KbNext]_kbVars

(* Type invariant of the ring, and what ties its fields together: the head *)
(* is count slots after the tail.                                          *)
RingInv ==
  /\ buf \in [Index -> Bytes]
  /\ p_head \in Index /\ p_tail \in Index
  /\ count \in 0 .. KB_IN_BYTES
  /\ p_head = p_tail + count \/ p_head + KB_IN_BYTES = p_tail + count

Slot(k) == IF p_tail + k - 1 < KB_IN_BYTES THEN p_tail + k - 1
           ELSE p_tail + k - 1 - KB_IN_BYTES
Contents == [k \in 1 .. count |-> buf[Slot(k)]]

Q == INSTANCE ByteQueue WITH queue <- Contents, Capacity <- KB_IN_BYTES

(* The ring is a bounded queue: no scan code is invented, doubled or       *)
(* overtaken, and only codes that find the ring full are lost.             *)
RingIsQueue == Q!Spec
=============================================================================
