---------------------------- MODULE UartReceive ----------------------------
(***************************************************************************)
(* The receive half of serial.c: the receive interrupt fills the ring, the *)
(* main loop asks NewDataInAvailable and takes bytes with GetDataIn, which *)
(* also waits, outside its atomic block, for the argument of a command.    *)
(***************************************************************************)
EXTENDS Integers, Sequences

CONSTANTS
  Bytes,
  RxBufSize        (* UART_RX_BUF_SIZE                                      *)

ASSUME UartAssumption == RxBufSize \in Nat /\ RxBufSize > 1 /\ "none" \notin Bytes

VARIABLES
  pc,                  (* main loop: "other", "wait" or "take"              *)
  in, out, cnt, buf,   (* _rx                                               *)
  ch                   (* last byte GetDataIn returned                      *)

vars == <<pc, in, out, cnt, buf, ch>>

Slots == 0..(RxBufSize - 1)

Advance(i) == (i + 1) % RxBufSize

(* InitSerial *)
Init ==
  /\ pc = "other" /\ in = 0 /\ out = 0 /\ cnt = 0
  /\ buf = [i \in Slots |-> "none"] /\ ch = "none"

(* Mutant: a full ring is taken for an empty one. *)
ReceiveUnchecked(byte) ==
  /\ buf' = [buf EXCEPT ![in] = byte]
  /\ in' = Advance(in) /\ cnt' = cnt + 1
  /\ UNCHANGED <<pc, out, ch>>

(* USART_RX_vect: the byte is stored first, and kept when there is room. *)
Receive(byte) ==
  /\ buf' = [buf EXCEPT ![in] = byte]
  /\ IF Advance(in) # out
     THEN in' = Advance(in) /\ cnt' = cnt + 1
     ELSE UNCHANGED <<in, cnt>>
  /\ UNCHANGED <<pc, out, ch>>

NewDataInAvailable == cnt > 0

(* Mutant: GetDataIn does not wait for data. *)
GetDataInBlind ==
  /\ pc = "other" /\ pc' = "take"
  /\ UNCHANGED <<in, out, cnt, buf, ch>>

(* MainLoop calls GetDataIn only on data, a command's argument is awaited. *)
GetDataIn ==
  /\ pc = "other"
  /\ pc' = IF NewDataInAvailable THEN "take" ELSE "wait"
  /\ UNCHANGED <<in, out, cnt, buf, ch>>

Wait ==
  /\ pc = "wait" /\ NewDataInAvailable
  /\ pc' = "take"
  /\ UNCHANGED <<in, out, cnt, buf, ch>>

(* Mutant: the byte stays counted. *)
TakeUncounted ==
  /\ pc = "take" /\ pc' = "other" /\ cnt > 0
  /\ ch' = buf[out] /\ out' = Advance(out)
  /\ UNCHANGED <<in, cnt, buf>>

Take ==
  /\ pc = "take" /\ pc' = "other"
  /\ IF cnt > 0
     THEN ch' = buf[out] /\ out' = Advance(out) /\ cnt' = cnt - 1
     ELSE ch' = "none" /\ UNCHANGED <<out, cnt>>
  /\ UNCHANGED <<in, buf>>

Next == (\E byte \in Bytes : Receive(byte)) \/ GetDataIn \/ Wait \/ Take

Spec == Init /\ [][Next]_vars

-----------------------------------------------------------------------------
(* Properties *)

(* Indices stay inside the ring and the count below its size.               *)
TypeOK ==
  /\ pc \in {"other", "wait", "take"}
  /\ in \in Slots /\ out \in Slots /\ cnt \in 0..(RxBufSize - 1)
  /\ buf \in [Slots -> Bytes \cup {"none"}] /\ ch \in Bytes \cup {"none"}

(* The interrupt moves in, the main loop moves out, both move cnt: they     *)
(* never disagree on how many bytes wait.                                   *)
CountMatchesRing == in - out \in {cnt, cnt - RxBufSize}

(* GetDataIn never falls through its atomic block with the invented byte 0. *)
TakesRealByte == pc = "take" => cnt > 0

(* Received bytes are read once each and in order; one is dropped only when *)
(* RxBufSize - 1 bytes already wait.                                        *)
Waiting == [i \in 1..cnt |-> buf[(out + i - 1) % RxBufSize]]

Ring == INSTANCE ByteFifo WITH
  queue <- Waiting, taken <- ch, Capacity <- RxBufSize - 1, MayDrop <- TRUE

ReceivesInOrder == Ring!Spec
=============================================================================
