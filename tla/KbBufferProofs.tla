--------------------------- MODULE KbBufferProofs ---------------------------
(* The ring of kernel/keyboard.c is a bounded queue, for every capacity.   *)
EXTENDS KbBuffer, SequenceTheorems, TLAPS

(* A pointer that is moved on stays in buf.                                *)
LEMMA SuccInIndex == ASSUME NEW p \in Index PROVE Succ(p) \in Index
BY KbAssumption DEF Index, Succ

(* The fields of kb_in always agree: the head is count slots after the     *)
(* tail and no index leaves buf, so keyboard_handler and get_byte_from_kbuf*)
(* never write or read outside it.                                         *)
THEOREM RingCorrect == KbSpec => []RingInv
<1>1. KbInit => RingInv
  BY KbAssumption DEF KbInit, RingInv, Index
<1>2. RingInv /\ [KbNext]_kbVars => RingInv'
  <2> SUFFICES ASSUME RingInv, [KbNext]_kbVars PROVE RingInv'
    OBVIOUS
  <2> USE DEF RingInv
  <2>1. CASE GetByte
    <3>1. Succ(p_tail) \in Index
      BY SuccInIndex
    <3>2. p_head = Succ(p_tail) + (count - 1) \/ p_head + KB_IN_BYTES = Succ(p_tail) + (count - 1)
      BY <2>1, KbAssumption DEF GetByte, Succ, Index
    <3> QED BY <2>1, <3>1, <3>2, KbAssumption DEF GetByte
  <2>2. ASSUME NEW code \in Bytes, Handler(code) PROVE RingInv'
    <3>1. CASE Accept
      <4>1. Succ(p_head) \in Index
        BY SuccInIndex
      <4>2. Succ(p_head) = p_tail + (count + 1) \/ Succ(p_head) + KB_IN_BYTES = p_tail + (count + 1)
        BY <3>1, KbAssumption DEF Accept, Succ, Index
      <4>3. buf' \in [Index -> Bytes]
        BY <2>2, <3>1 DEF Handler
      <4> QED BY <2>2, <3>1, <4>1, <4>2, <4>3, KbAssumption DEF Handler, Accept
    <3>2. CASE ~Accept
      BY <2>2, <3>2 DEF Handler, kbVars
    <3> QED BY <3>1, <3>2
  <2>3. CASE UNCHANGED kbVars
    BY <2>3 DEF kbVars, Index
  <2> QED BY <2>1, <2>2, <2>3 DEF KbNext
<1> QED BY <1>1, <1>2, PTL DEF KbSpec

(* What is in the ring is a sequence of count bytes.                       *)
LEMMA ContentsIsSeq == RingInv => Contents \in Seq(Bytes) /\ Len(Contents) = count
<1> SUFFICES ASSUME RingInv PROVE Contents \in Seq(Bytes) /\ Len(Contents) = count
  OBVIOUS
<1>1. \A k \in 1 .. count : Slot(k) \in Index
  BY KbAssumption DEF Slot, RingInv, Index
<1>2. \A k \in 1 .. count : buf[Slot(k)] \in Bytes
  BY <1>1 DEF RingInv
<1>3. count \in Nat
  BY KbAssumption DEF RingInv
<1> QED BY <1>2, <1>3 DEF Contents

(* The same after a step of the handler or the reader.                     *)
LEMMA ContentsIsSeqNext == RingInv' => (Contents \in Seq(Bytes) /\ Len(Contents) = count)'
BY ContentsIsSeq, PTL

(* A byte taken from the ring is the oldest one in it.                     *)
LEMMA GetIsHead ==
  ASSUME RingInv, RingInv', GetByte PROVE Q!Get
<1>1. Contents # <<>>
  BY ContentsIsSeq DEF GetByte, RingInv
<1>2. count' = count - 1 /\ count' \in Nat /\ count \in Nat
  BY KbAssumption DEF GetByte, RingInv
<1>3. \A k \in 1 .. count' : Slot(k)' = Slot(k + 1)
  BY KbAssumption, <1>2 DEF GetByte, RingInv, Slot, Succ, Index
<1>4. \A k \in 1 .. count' : Contents'[k] = Contents[k + 1]
  BY <1>2, <1>3 DEF GetByte, Contents
<1>5. Len(Contents') = Len(Contents) - 1 /\ Contents' \in Seq(Bytes) /\ Contents \in Seq(Bytes)
  BY <1>2, ContentsIsSeq, ContentsIsSeqNext
<1>6. Tail(Contents) \in Seq(Bytes) /\ Len(Tail(Contents)) = Len(Contents) - 1
      /\ \A k \in 1 .. Len(Contents) - 1 : Tail(Contents)[k] = Contents[k + 1]
  BY <1>1, <1>5, HeadTailProperties
<1>7. Len(Contents) - 1 = count'
  BY <1>2, ContentsIsSeq
<1>8. Contents' = Tail(Contents)
  BY <1>4, <1>5, <1>6, <1>7, SeqEqual
<1> QED BY <1>1, <1>8 DEF Q!Get

(* A byte that finds room becomes the newest; one that does not is gone.   *)
LEMMA HandlerPuts ==
  ASSUME RingInv, RingInv', NEW code \in Bytes, Handler(code) PROVE Q!Put(code)
<1> USE KbAssumption
<1>1. Contents \in Seq(Bytes) /\ Len(Contents) = count /\ count \in Nat
  BY ContentsIsSeq DEF RingInv
<1>2. CASE ~Accept
  <2>1. UNCHANGED kbVars
    BY <1>2 DEF Handler
  <2>2. Contents' = Contents
    BY <2>1 DEF kbVars, Contents, Slot
  <2> QED BY <1>1, <1>2, <2>2 DEF Q!Put, Accept, RingInv
<1>3. CASE Accept
  <2>1. /\ buf' = [buf EXCEPT ![p_head] = code] /\ p_tail' = p_tail
        /\ count' = count + 1 /\ count < KB_IN_BYTES
    BY <1>3 DEF Handler, Accept
  <2>2. \A k \in 1 .. count' : Slot(k)' = Slot(k) /\ Slot(k) \in Index
    BY <2>1, <1>1 DEF Slot, RingInv, Index
  <2>3. \A k \in 1 .. count : Slot(k) # p_head
    BY <2>1, <1>1 DEF Slot, RingInv, Index
  <2>4. Slot(count + 1) = p_head
    BY <2>1, <1>1 DEF Slot, RingInv, Index
  <2>5. \A k \in 1 .. count' : Contents'[k] = buf'[Slot(k)]
    BY <2>2 DEF Contents
  <2>6. \A k \in 1 .. count : Contents'[k] = Contents[k]
    BY <2>1, <2>2, <2>3, <2>5, <1>1 DEF Contents, RingInv
  <2>7. Contents'[count + 1] = code
    BY <2>1, <2>2, <2>4, <2>5, <1>1 DEF RingInv
  <2>8. Contents' \in Seq(Bytes) /\ Len(Contents') = count + 1
    BY <2>1, ContentsIsSeqNext
  <2>9. Append(Contents, code) \in Seq(Bytes) /\ Len(Append(Contents, code)) = count + 1
        /\ Append(Contents, code)[count + 1] = code
        /\ \A k \in 1 .. count : Append(Contents, code)[k] = Contents[k]
    BY <1>1, AppendProperties
  <2>10. Contents' = Append(Contents, code)
    <3>1. \A k \in 1 .. count + 1 : Contents'[k] = Append(Contents, code)[k]
      BY <2>6, <2>7, <2>9, <1>1
    <3> QED BY <3>1, <2>8, <2>9, SeqEqual
  <2> QED BY <1>1, <2>1, <2>10 DEF Q!Put
<1> QED BY <1>2, <1>3

(* kb_in is a queue of at most KB_IN_BYTES bytes that drops what comes     *)
(* while it is full, for every capacity.                                   *)
THEOREM RingRefinesQueue == KbSpec => RingIsQueue
<1>1. KbInit => Q!Init
  <2> SUFFICES ASSUME KbInit PROVE Contents = <<>>
    BY DEF Q!Init
  <2> QED BY DEF KbInit, Contents
<1>2. RingInv /\ RingInv' /\ [KbNext]_kbVars => [Q!Next]_Contents
  <2> SUFFICES ASSUME RingInv, RingInv', [KbNext]_kbVars PROVE [Q!Next]_Contents
    OBVIOUS
  <2>1. CASE GetByte
    BY <2>1, GetIsHead DEF Q!Next
  <2>2. ASSUME NEW code \in Bytes, Handler(code) PROVE Q!Next
    BY <2>2, HandlerPuts DEF Q!Next
  <2>3. CASE UNCHANGED kbVars
    BY <2>3 DEF kbVars, Contents, Slot
  <2> QED BY <2>1, <2>2, <2>3 DEF KbNext
<1> QED BY <1>1, <1>2, RingCorrect, PTL DEF KbSpec, RingIsQueue, Q!Spec
=============================================================================
