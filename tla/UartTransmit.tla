---------------------------- MODULE UartTransmit ----------------------------
(***************************************************************************)
(* The transmit half of serial.c: SendByte called from the main loop, the  *)
(* data register empty interrupt, and the UART that moves UDR0 to the      *)
(* line.  _tx.cnt counts the byte in UDR0 as well as those in the ring, so *)
(* the ring itself holds one byte less than its size.                      *)
(***************************************************************************)
EXTENDS Integers, Sequences

CONSTANTS
  Bytes,
  TxBufSize,       (* UART_TX_BUF_SIZE                                      *)
  MaxRetry         (* waits of 1 ms before SendByte gives up                *)

ASSUME UartAssumption ==
  /\ TxBufSize \in Nat /\ TxBufSize > 1
  /\ MaxRetry \in Nat /\ MaxRetry > 1
  /\ "none" \notin Bytes

VARIABLES
  lineDrains,              (* TRUE for good: the line takes at least one    *)
                           (* byte in 1 ms, as at 38400 bps; FALSE: it may  *)
                           (* stand still                                   *)
  pc, data, retry, good,   (* SendByte                                      *)
  in, out, cnt, buf,       (* _tx                                           *)
  udr,                     (* byte in UDR0 the line has not taken           *)
  udrie,                   (* the data register empty interrupt is enabled  *)
  drained,                 (* the interrupt ran during the current 1 ms     *)
  line                     (* last byte the line took                       *)

ring == <<in, out, cnt, buf>>
call == <<pc, data, retry, good>>
vars == <<lineDrains, call, ring, udr, udrie, drained, line>>

Places == {"return", "full?", "delay", "resetOut", "resetCnt", "write"}
Slots  == 0..(TxBufSize - 1)

Advance(i) == (i + 1) % TxBufSize

(* InitSerial *)
Init ==
  /\ lineDrains \in BOOLEAN
  /\ pc = "return" /\ data = "none" /\ retry = 0 /\ good = TRUE
  /\ in = 0 /\ out = 0 /\ cnt = 0 /\ buf = [i \in Slots |-> "none"]
  /\ udr = "none" /\ udrie = FALSE /\ drained = FALSE /\ line = "none"

-----------------------------------------------------------------------------
(* SendByte *)
SendByte(byte) ==
  /\ pc = "return"
  /\ pc' = "full?" /\ data' = byte /\ retry' = 0 /\ good' = TRUE
  /\ UNCHANGED <<lineDrains, ring, udr, udrie, drained, line>>

(* Mutant: off by one in the test for a full buffer. *)
FullLate == cnt > TxBufSize

Full == cnt >= TxBufSize

TestFull ==
  /\ pc = "full?"
  /\ IF Full THEN pc' = "delay" /\ drained' = FALSE
             ELSE pc' = "write" /\ UNCHANGED drained
  /\ UNCHANGED <<lineDrains, data, retry, good, ring, udr, udrie, line>>

(* _delay_ms(1), and the first assignment of the overflow reset. *)
Delay ==
  /\ pc = "delay" /\ (lineDrains => drained)
  /\ retry' = retry + 1
  /\ IF retry' = MaxRetry
     THEN pc' = "resetOut" /\ good' = FALSE /\ in' = 0
     ELSE pc' = "full?" /\ UNCHANGED <<good, in>>
  /\ UNCHANGED <<lineDrains, data, out, cnt, buf, udr, udrie, drained, line>>

(* The reset is three stores and the interrupt may come between them. *)
ResetOut ==
  /\ pc = "resetOut"
  /\ pc' = "resetCnt" /\ out' = 0
  /\ UNCHANGED <<lineDrains, data, retry, good, in, cnt, buf, udr, udrie, drained, line>>

ResetCnt ==
  /\ pc = "resetCnt"
  /\ pc' = "write" /\ cnt' = 0
  /\ UNCHANGED <<lineDrains, data, retry, good, in, out, buf, udr, udrie, drained, line>>

(* Mutant: a byte that goes to the ring is not counted. *)
WriteUncounted ==
  /\ pc = "write" /\ pc' = "return"
  /\ IF cnt > 0
     THEN buf' = [buf EXCEPT ![in] = data] /\ in' = Advance(in) /\ UNCHANGED <<udr, udrie, cnt>>
     ELSE udrie' = TRUE /\ udr' = data /\ cnt' = 1 /\ UNCHANGED <<buf, in>>
  /\ UNCHANGED <<lineDrains, data, retry, good, out, drained, line>>

(* Mutant: the first byte does not enable the interrupt. *)
WriteNoInterrupt ==
  /\ pc = "write" /\ pc' = "return"
  /\ IF cnt > 0
     THEN buf' = [buf EXCEPT ![in] = data] /\ in' = Advance(in) /\ UNCHANGED udr
     ELSE udr' = data /\ UNCHANGED <<buf, in>>
  /\ cnt' = cnt + 1
  /\ UNCHANGED <<lineDrains, data, retry, good, out, udrie, drained, line>>

(* The atomic block.  A byte written to a full UDR0 is ignored by the UART. *)
Write ==
  /\ pc = "write" /\ pc' = "return"
  /\ IF cnt > 0
     THEN /\ buf' = [buf EXCEPT ![in] = data]
          /\ in' = Advance(in)
          /\ UNCHANGED <<udr, udrie>>
     ELSE /\ udrie' = TRUE
          /\ udr' = IF udr = "none" THEN data ELSE udr
          /\ UNCHANGED <<buf, in>>
  /\ cnt' = cnt + 1
  /\ UNCHANGED <<lineDrains, data, retry, good, out, drained, line>>

-----------------------------------------------------------------------------
(* Mutant: the idle interrupt leaves the indices of the ring alone. *)
DisableNoReset == /\ udrie' = FALSE
                  /\ UNCHANGED <<in, out, cnt, udr, drained>>

Disable ==
  /\ udrie' = FALSE
  /\ in' = 0 /\ out' = 0 /\ cnt' = 0
  /\ UNCHANGED <<udr, drained>>

(* USART_UDRE_vect *)
DataRegisterEmpty ==
  /\ udrie /\ udr = "none"
  /\ IF cnt > 0
     THEN /\ cnt' = cnt - 1
          /\ drained' = TRUE
          /\ IF cnt' > 0
             THEN udr' = buf[out] /\ out' = Advance(out)
             ELSE UNCHANGED <<udr, out>>
          /\ UNCHANGED <<in, udrie>>
     ELSE Disable
  /\ UNCHANGED <<lineDrains, call, buf, line>>

(* The UART moves UDR0 to its shift register. *)
Shift ==
  /\ udr # "none"
  /\ line' = udr /\ udr' = "none"
  /\ UNCHANGED <<lineDrains, call, ring, udrie, drained>>

-----------------------------------------------------------------------------
MainLoop == TestFull \/ Delay \/ ResetOut \/ ResetCnt \/ Write

Next == (\E byte \in Bytes : SendByte(byte)) \/ MainLoop \/ DataRegisterEmpty \/ Shift

Spec == Init /\ [][Next]_vars

(* The processor runs, a pending interrupt is taken, a good line shifts.       *)
Fairness == WF_vars(MainLoop) /\ WF_vars(DataRegisterEmpty) /\ WF_vars(lineDrains /\ Shift)

FairSpec == Spec /\ Fairness

-----------------------------------------------------------------------------
(* Properties *)

(* Indices stay inside the ring and the count inside uint8_t: the only      *)
(* store to buf[in] and the only load of buf[out] are in bounds, also after *)
(* a reset the interrupt tore apart.                                        *)
TypeOK ==
  /\ lineDrains \in BOOLEAN
  /\ pc \in Places /\ data \in Bytes \cup {"none"} /\ retry \in 0..MaxRetry
  /\ good \in BOOLEAN
  /\ in \in Slots /\ out \in Slots /\ cnt \in 0..TxBufSize
  /\ buf \in [Slots -> Bytes \cup {"none"}]
  /\ udr \in Bytes \cup {"none"} /\ line \in Bytes \cup {"none"}
  /\ udrie \in BOOLEAN /\ drained \in BOOLEAN

(* The count, which SendByte and the interrupt both change, and the         *)
(* indices, of which each changes one, tell the same story: cnt - 1 bytes   *)
(* are in the ring and one more is in UDR0 or just left it.                 *)
Queued == IF cnt = 0 THEN 0 ELSE cnt - 1
CountMatchesRing ==
  lineDrains => in - out \in {Queued, Queued - TxBufSize}

(* A driver that has fallen idle is as after InitSerial, whatever an        *)
(* overflow did to it before and at whichever of the three stores of the    *)
(* reset the interrupt came: one lost burst never garbles the next.         *)
IdleIsReset == ~udrie => in = 0 /\ out = 0 /\ cnt = 0

(* On a line that moves the bytes leave in the order of the calls, each     *)
(* once: a step of the driver is a step of ByteFifo.  So SendByte never     *)
(* gives up, and the overflow branch that throws the queue away is dead.    *)
Occupied == (IF udr = "none" THEN <<>> ELSE <<udr>>)
            \o [i \in 1..Queued |-> buf[(out + i - 1) % TxBufSize]]

Line == INSTANCE ByteFifo WITH
  queue <- Occupied, taken <- line, Capacity <- TxBufSize, MayDrop <- FALSE

TransmitsInOrder ==
  Line!Init /\ [][lineDrains => Line!Next \/ UNCHANGED Line!fifoVars]_vars

(* Every call of SendByte returns, also on a full buffer and a dead line.   *)
SendReturns == pc # "return" ~> pc = "return"

(* Whatever was accepted is on the line in the end: the interrupt is never  *)
(* left disabled with bytes in the ring.                                    *)
Flushes == <>[](lineDrains /\ pc = "return") => <>[](udr = "none" /\ cnt = 0)
=============================================================================
