------------------------------ MODULE ByteFifo ------------------------------
(* What each direction of the serial driver promises: bytes come out in the *)
(* order they went in, none twice, none changed.  Where the reader is too   *)
(* slow a byte may be dropped, but only when the buffer is full.            *)
EXTENDS Naturals, Sequences

CONSTANTS Bytes, Capacity, MayDrop

VARIABLES queue, taken      (* taken: the last byte that came out           *)

fifoVars == <<queue, taken>>

Init == queue = <<>> /\ taken = "none"

Put(byte) ==
  /\ Len(queue) < Capacity
  /\ queue' = Append(queue, byte)
  /\ UNCHANGED taken

Drop == MayDrop /\ Len(queue) = Capacity /\ UNCHANGED fifoVars

Take ==
  /\ queue # <<>>
  /\ taken' = Head(queue)
  /\ queue' = Tail(queue)

Next == (\E byte \in Bytes : Put(byte)) \/ Drop \/ Take

Spec == Init /\ [][Next]_fifoVars
=============================================================================
