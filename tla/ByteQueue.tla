----------------------------- MODULE ByteQueue -----------------------------
(***************************************************************************)
(* What the keyboard buffer promises: a queue that hands out what was put  *)
(* in, in order and once, and forgets what comes while it is full.         *)
(***************************************************************************)
EXTENDS Naturals, Sequences

CONSTANTS Capacity, Bytes

VARIABLE queue

Init == queue = <<>>

Put(b) == queue' = IF Len(queue) < Capacity THEN Append(queue, b) ELSE queue

Get == queue # <<>> /\ queue' = Tail(queue)

Next == Get \/ \E b \in Bytes : Put(b)

Spec == Init /\ [][Next]_queue
=============================================================================
