------------------------- MODULE UartTransmitProofs -------------------------
(***************************************************************************)
(* Proofs about UartTransmit: the transmit ring stays in bounds, also when *)
(* the interrupt tears the overflow reset apart, and on a line that drains *)
(* SendByte and the interrupt are a FIFO, for every size of the ring.      *)
(***************************************************************************)
EXTENDS UartTransmit, SequenceTheorems, TLAPS

LEMMA ModSmall == \A n \in Nat : n < TxBufSize => n % TxBufSize = n
  BY UartAssumption, SMTT(30)

LEMMA ModWraps ==
  \A n \in Nat : TxBufSize <= n /\ n < 2 * TxBufSize => n % TxBufSize = n - TxBufSize
  BY UartAssumption, SMTT(30)

(* The next slot, without the modulus. *)
LEMMA NextSlot ==
  \A i \in Slots : Advance(i) = IF i + 1 = TxBufSize THEN 0 ELSE i + 1
<1> SUFFICES ASSUME NEW i \in Slots
             PROVE Advance(i) = IF i + 1 = TxBufSize THEN 0 ELSE i + 1
  OBVIOUS
<1>1. CASE i + 1 = TxBufSize
  BY <1>1, ModWraps, UartAssumption DEF Advance, Slots
<1>2. CASE i + 1 < TxBufSize
  BY <1>2, ModSmall, UartAssumption DEF Advance, Slots
<1> QED BY <1>1, <1>2, UartAssumption DEF Slots

-----------------------------------------------------------------------------
(* What a call of SendByte knows where it stands: there is room when it     *)
(* writes, and it has not waited too often when it still waits.             *)
Calling ==
  /\ pc = "write" => cnt < TxBufSize
  /\ pc # "return" => data \in Bytes
  /\ pc \in {"full?", "delay"} => retry < MaxRetry

(* On a line that drains a full ring has room after one wait, so the reset  *)
(* is never reached; and nothing is in UDR0 that is not counted.            *)
Draining ==
  lineDrains =>
    /\ pc \notin {"resetOut", "resetCnt"}
    /\ pc = "delay" => retry = 0 /\ (drained => cnt < TxBufSize)
    /\ pc = "full?" => retry = 0 \/ cnt < TxBufSize
    /\ cnt = 0 => udr = "none"

IInv == TypeOK /\ IdleIsReset /\ Calling /\ Draining /\ CountMatchesRing

LEMMA InitIInv == Init => IInv
<1> SUFFICES ASSUME Init PROVE IInv
  OBVIOUS
<1> USE UartAssumption DEF Init
<1>1. TypeOK
  <2>1. 0 \in Slots /\ 0 \in 0..TxBufSize /\ 0 \in 0..MaxRetry
    BY DEF Slots
  <2>2. buf \in [Slots -> Bytes \cup {"none"}]
    OBVIOUS
  <2> QED BY <2>1, <2>2 DEF TypeOK, Places
<1>2. IdleIsReset /\ Calling /\ Draining /\ CountMatchesRing
  BY DEF IdleIsReset, Calling, Draining, CountMatchesRing, Queued
<1> QED BY <1>1, <1>2 DEF IInv

LEMMA StepIInv == IInv /\ [Next]_vars => IInv'
<1> SUFFICES ASSUME IInv, [Next]_vars PROVE IInv'
  OBVIOUS
<1> USE UartAssumption
    DEF IInv, TypeOK, Places, Slots, IdleIsReset, Calling, Draining, CountMatchesRing, Queued, ring, call
<1>1. ASSUME NEW byte \in Bytes, SendByte(byte) PROVE IInv'
  BY <1>1 DEF SendByte
<1>2. CASE TestFull
  <2>1. TypeOK'
    BY <1>2 DEF TestFull, Full
  <2>2. IdleIsReset'
    BY <1>2 DEF TestFull, Full
  <2>3. Calling'
    BY <1>2 DEF TestFull, Full
  <2>4. Draining'
    BY <1>2 DEF TestFull, Full
  <2>5. CountMatchesRing'
    BY <1>2 DEF TestFull, Full
  <2> QED BY <2>1, <2>2, <2>3, <2>4, <2>5
<1>3. CASE Delay
  <2>1. /\ pc = "delay" /\ retry' = retry + 1 /\ (lineDrains => drained)
        /\ UNCHANGED <<lineDrains, data, out, cnt, buf, udr, udrie, drained, line>>
    BY <1>3 DEF Delay
  <2>2. CASE retry + 1 = MaxRetry
    <3>1. pc' = "resetOut" /\ good' = FALSE /\ in' = 0
      BY <1>3, <2>1, <2>2 DEF Delay
    <3>2. TypeOK'
      <4>1. lineDrains' \in BOOLEAN /\ good' \in BOOLEAN /\ udrie' \in BOOLEAN /\ drained' \in BOOLEAN
        BY <2>1, <3>1, Zenon
      <4>2. retry' \in 0..MaxRetry /\ pc' \in Places /\ in' \in Slots
        BY <2>1, <2>2, <3>1
      <4> QED BY <2>1, <4>1, <4>2
    <3> QED BY <2>1, <2>2, <3>1, <3>2
  <2>3. CASE retry + 1 # MaxRetry
    <3>1. pc' = "full?" /\ UNCHANGED <<good, in>>
      BY <1>3, <2>1, <2>3 DEF Delay
    <3>2. TypeOK'
      BY <2>1, <2>3, <3>1
    <3> QED BY <2>1, <2>3, <3>1, <3>2
  <2> QED BY <2>2, <2>3
<1>4. CASE ResetOut \/ ResetCnt
  BY <1>4 DEF ResetOut, ResetCnt
<1>5. CASE Write
  <2>1. Advance(in) = IF in + 1 = TxBufSize THEN 0 ELSE in + 1
    BY NextSlot
  <2>2. CASE cnt > 0
    BY <1>5, <2>1, <2>2 DEF Write
  <2>3. CASE cnt = 0
    BY <1>5, <2>3 DEF Write
  <2> QED BY <2>2, <2>3
<1>6. CASE DataRegisterEmpty
  <2>1. Advance(out) = IF out + 1 = TxBufSize THEN 0 ELSE out + 1
    BY NextSlot
  <2>2. CASE cnt > 1
    <3>1. /\ cnt' = cnt - 1 /\ cnt' > 0 /\ drained' = TRUE
          /\ udr' = buf[out] /\ out' = Advance(out) /\ udrie
          /\ UNCHANGED <<in, udrie, lineDrains, pc, data, retry, good, buf, line>>
      <4>1. cnt > 0 /\ cnt - 1 > 0
        BY <2>2
      <4>2. cnt' = cnt - 1
        BY <1>6, <4>1 DEF DataRegisterEmpty
      <4> QED BY <1>6, <4>1, <4>2 DEF DataRegisterEmpty
    <3>2. TypeOK'
      <4>1. lineDrains' \in BOOLEAN /\ good' \in BOOLEAN /\ udrie' \in BOOLEAN /\ drained' \in BOOLEAN
        BY <3>1, Zenon
      <4>2. cnt' \in 0..TxBufSize /\ out' \in Slots /\ udr' \in Bytes \cup {"none"}
        BY <2>1, <2>2, <3>1
      <4> QED BY <3>1, <4>1, <4>2
    <3>3. IdleIsReset' /\ Calling'
      BY <2>2, <3>1
    <3>4. Draining' /\ CountMatchesRing'
      BY <2>1, <2>2, <3>1
    <3> QED BY <3>2, <3>3, <3>4
  <2>3. CASE cnt = 1
    BY <1>6, <2>3 DEF DataRegisterEmpty
  <2>4. CASE cnt = 0
    <3>1. /\ udrie' = FALSE /\ in' = 0 /\ out' = 0 /\ cnt' = 0
          /\ UNCHANGED <<udr, drained, lineDrains, pc, data, retry, good, buf, line>>
      BY <1>6, <2>4 DEF DataRegisterEmpty, Disable
    <3>2. TypeOK'
      <4>1. lineDrains' \in BOOLEAN /\ good' \in BOOLEAN /\ udrie' \in BOOLEAN /\ drained' \in BOOLEAN
        BY <3>1, Zenon
      <4>2. 0 \in Slots /\ 0 \in 0..TxBufSize
        OBVIOUS
      <4> QED BY <3>1, <4>1, <4>2
    <3>3. IdleIsReset' /\ Calling' /\ Draining' /\ CountMatchesRing'
      BY <2>4, <3>1
    <3> QED BY <3>2, <3>3
  <2> QED BY <2>2, <2>3, <2>4
<1>7. CASE Shift
  BY <1>7 DEF Shift
<1>8. CASE UNCHANGED vars
  BY <1>8 DEF vars
<1> QED BY <1>1, <1>2, <1>3, <1>4, <1>5, <1>6, <1>7, <1>8 DEF Next, MainLoop

LEMMA Invariant == Spec => []IInv
  BY InitIInv, StepIInv, PTL DEF Spec

(* Stores and loads of the ring are in bounds and cnt fits, with the reset  *)
(* of SendByte and the interrupt in any order.                              *)
THEOREM TypeCorrect == Spec => []TypeOK
<1>1. IInv => TypeOK
  BY DEF IInv
<1> QED BY Invariant, <1>1, PTL

(* SendByte and the interrupt agree on how many bytes the ring holds.       *)
THEOREM CountCorrect == Spec => []CountMatchesRing
<1>1. IInv => CountMatchesRing
  BY DEF IInv
<1> QED BY Invariant, <1>1, PTL

(* An idle driver is as after InitSerial, whatever an overflow did to it.   *)
THEOREM IdleCorrect == Spec => []IdleIsReset
<1>1. IInv => IdleIsReset
  BY DEF IInv
<1> QED BY Invariant, <1>1, PTL

-----------------------------------------------------------------------------
(* The i-th byte that waits in the ring. *)
At(i) == buf[(out + i - 1) % TxBufSize]

InRing == [i \in 1..Queued |-> At(i)]

(* On a line that drains only bytes of calls wait in the ring. *)
RealBytes == lineDrains => \A i \in 1..Queued : At(i) \in Bytes

LEMMA QueuedType == ASSUME IInv PROVE Queued \in 0..(TxBufSize - 1) /\ out \in Slots /\ in \in Slots
  BY UartAssumption DEF IInv, TypeOK, Queued

(* The slot of the i-th byte, without the modulus. *)
LEMMA SlotOf ==
  ASSUME IInv, NEW i \in 1..TxBufSize
  PROVE  (out + i - 1) % TxBufSize
           = IF out + i - 1 < TxBufSize THEN out + i - 1 ELSE out + i - 1 - TxBufSize
<1> USE UartAssumption DEF IInv, TypeOK, Slots
<1>1. CASE out + i - 1 < TxBufSize
  BY <1>1, ModSmall
<1>2. CASE out + i - 1 >= TxBufSize
  BY <1>2, ModWraps
<1> QED BY <1>1, <1>2

(* The slot SendByte stores to is behind the last byte that waits. *)
LEMMA InIsFree ==
  ASSUME IInv, lineDrains
  PROVE  /\ (out + (Queued + 1) - 1) % TxBufSize = in
         /\ \A i \in 1..Queued : (out + i - 1) % TxBufSize \in Slots \ {in}
<1> USE UartAssumption DEF Slots
<1>1. in - out \in {Queued, Queued - TxBufSize}
  BY DEF IInv, CountMatchesRing
<1>2. Queued + 1 \in 1..TxBufSize
  BY QueuedType
<1>3. (out + (Queued + 1) - 1) % TxBufSize = in
  BY <1>1, <1>2, SlotOf, QueuedType
<1>4. ASSUME NEW i \in 1..Queued PROVE (out + i - 1) % TxBufSize \in Slots \ {in}
  <2>1. i \in 1..TxBufSize
    BY QueuedType
  <2> QED BY <1>1, <2>1, SlotOf, QueuedType
<1> QED BY <1>3, <1>4

(* SendByte adds a byte behind those that wait. *)
LEMMA WriteAdds ==
  ASSUME IInv, lineDrains, Write, cnt > 0
  PROVE  /\ Queued' = Queued + 1
         /\ \A i \in 1..Queued : At(i)' = At(i)
         /\ At(Queued)' = data
<1>1. /\ cnt' = cnt + 1 /\ out' = out /\ buf' = [buf EXCEPT ![in] = data]
  BY DEF Write
<1>2. Queued' = Queued + 1
  BY <1>1, UartAssumption DEF IInv, TypeOK, Queued
<1>3. buf \in [Slots -> Bytes \cup {"none"}] /\ in \in Slots
  BY DEF IInv, TypeOK
<1>4. ASSUME NEW i \in 1..Queued PROVE At(i)' = At(i)
  BY <1>1, <1>3, InIsFree DEF At
<1>5. At(Queued)' = data
  <2>1. buf'[in] = data
    BY <1>1, <1>3
  <2>2. At(Queued)' = buf'[(out' + Queued' - 1) % TxBufSize]
    BY DEF At
  <2> QED BY <1>1, <1>2, <2>1, <2>2, InIsFree
<1> QED BY <1>2, <1>4, <1>5

(* The interrupt takes the first byte of the ring. *)
LEMMA InterruptTakes ==
  ASSUME IInv, lineDrains, DataRegisterEmpty, cnt > 1
  PROVE  /\ Queued > 0 /\ Queued' = Queued - 1
         /\ udr = "none" /\ udr' = At(1) /\ UNCHANGED line
         /\ \A i \in 1..(Queued - 1) : At(i)' = At(i + 1)
<1> USE UartAssumption DEF IInv, TypeOK, Slots
<1>1. cnt > 0 /\ cnt - 1 > 0
  OBVIOUS
<1>2. cnt' = cnt - 1
  BY <1>1 DEF DataRegisterEmpty
<1>3. /\ udr = "none" /\ udr' = buf[out] /\ out' = Advance(out)
      /\ UNCHANGED <<buf, line>>
  BY <1>1, <1>2 DEF DataRegisterEmpty
<1>4. Queued = cnt - 1 /\ Queued' = cnt - 2 /\ Queued \in 1..(TxBufSize - 1)
  BY <1>1, <1>2 DEF Queued
<1>5. udr' = At(1)
  <2>1. (out + 1 - 1) % TxBufSize = out
    BY ModSmall, out + 1 - 1 = out
  <2> QED BY <1>3, <2>1 DEF At
<1>6. ASSUME NEW i \in 1..(Queued - 1) PROVE At(i)' = At(i + 1)
  <2>1. i + 1 \in 1..TxBufSize
    BY <1>4
  <2>2. (out + (i + 1) - 1) % TxBufSize
          = IF out + i < TxBufSize THEN out + i ELSE out + i - TxBufSize
    BY <2>1, SlotOf
  <2>3. out' = IF out + 1 = TxBufSize THEN 0 ELSE out + 1
    BY <1>3, NextSlot
  <2>4. (out' + i - 1) % TxBufSize = (out + (i + 1) - 1) % TxBufSize
    <3>1. CASE out + 1 = TxBufSize
      <4>1. out' + i - 1 = i - 1 /\ i - 1 \in Nat /\ i - 1 < TxBufSize
        BY <1>4, <2>3, <3>1
      <4>2. (i - 1) % TxBufSize = i - 1
        BY <4>1, ModSmall
      <4>3. (out + (i + 1) - 1) % TxBufSize = i - 1
        <5>1. ~(out + i < TxBufSize) /\ out + i - TxBufSize = i - 1
          BY <3>1, <4>1
        <5> HIDE DEF IInv, TypeOK
        <5> QED BY <2>2, <5>1
      <4> QED BY <4>1, <4>2, <4>3
    <3>2. CASE out + 1 # TxBufSize
      BY <2>3, <3>2, out' + i - 1 = out + (i + 1) - 1
    <3> QED BY <3>1, <3>2
  <2> QED BY <1>3, <2>4 DEF At
<1> QED BY <1>3, <1>4, <1>5, <1>6

(* Every other step leaves the waiting bytes alone. *)
LEMMA OthersKeep ==
  ASSUME IInv, IInv', lineDrains, [Next]_vars,
         ~(Write /\ cnt > 0), ~(DataRegisterEmpty /\ cnt > 1)
  PROVE  Queued' = Queued /\ \A i \in 1..Queued : At(i)' = At(i)
<1> USE UartAssumption DEF IInv, TypeOK
<1>1. CASE (\E byte \in Bytes : SendByte(byte)) \/ TestFull \/ Shift \/ UNCHANGED vars
  BY <1>1 DEF SendByte, TestFull, Shift, vars, ring, Queued, At
<1>2. CASE Delay
  BY <1>2 DEF Delay, Queued, At
<1>3. ~ResetOut /\ ~ResetCnt
  BY DEF ResetOut, ResetCnt, Draining
<1>4. CASE Write
  <2>1. cnt = 0 /\ cnt' = 1
    BY <1>4 DEF Write
  <2> QED BY <2>1 DEF Queued
<1>5. CASE DataRegisterEmpty
  <2>1. CASE cnt = 0
    <3>1. cnt' = 0
      BY <1>5, <2>1 DEF DataRegisterEmpty, Disable
    <3> QED BY <2>1, <3>1 DEF Queued
  <2>2. CASE cnt = 1
    <3>1. cnt' = 0
      BY <1>5, <2>2 DEF DataRegisterEmpty
    <3> QED BY <2>2, <3>1 DEF Queued
  <2> QED BY <1>5, <2>1, <2>2
<1> QED BY <1>1, <1>2, <1>3, <1>4, <1>5 DEF Next, MainLoop

(* A line that drains does so for good. *)
LEMMA LineStays == [Next]_vars => lineDrains' = lineDrains
<1>1. ASSUME NEW byte \in Bytes, SendByte(byte) PROVE lineDrains' = lineDrains
  BY <1>1, Zenon DEF SendByte
<1>2. MainLoop => lineDrains' = lineDrains
  BY Zenon DEF MainLoop, TestFull, Delay, ResetOut, ResetCnt, Write
<1>3. DataRegisterEmpty \/ Shift \/ UNCHANGED vars => lineDrains' = lineDrains
  BY Zenon DEF DataRegisterEmpty, Shift, vars
<1> QED BY <1>1, <1>2, <1>3, Zenon DEF Next

LEMMA RealStep == IInv /\ IInv' /\ RealBytes /\ [Next]_vars => RealBytes'
<1> SUFFICES ASSUME IInv, IInv', RealBytes, [Next]_vars, lineDrains,
                    NEW i \in 1..Queued'
             PROVE At(i)' \in Bytes
  BY LineStays DEF RealBytes
<1>0. Queued \in Nat
  BY QueuedType
<1>1. CASE Write /\ cnt > 0
  <2>1. CASE i \in 1..Queued
    BY <1>1, <2>1, WriteAdds DEF RealBytes
  <2>2. CASE i = Queued'
    BY <1>1, <2>2, WriteAdds DEF IInv, Calling, Write, At
  <2> QED BY <1>0, <1>1, <2>1, <2>2, WriteAdds
<1>2. CASE DataRegisterEmpty /\ cnt > 1
  <2>1. i \in 1..(Queued - 1) /\ i + 1 \in 1..Queued
    BY <1>0, <1>2, InterruptTakes
  <2> QED BY <1>2, <2>1, InterruptTakes DEF RealBytes
<1>3. CASE ~(Write /\ cnt > 0) /\ ~(DataRegisterEmpty /\ cnt > 1)
  BY <1>3, OthersKeep DEF RealBytes
<1> QED BY <1>1, <1>2, <1>3

LEMMA RealInvariant == Spec => [](IInv /\ RealBytes)
<1>1. Init => RealBytes
  BY DEF Init, RealBytes, Queued
<1>2. (IInv /\ RealBytes) /\ [Next]_vars => (IInv /\ RealBytes)'
  BY StepIInv, RealStep
<1> QED BY InitIInv, <1>1, <1>2, PTL DEF Spec

-----------------------------------------------------------------------------
(* The ring as a sequence. *)
LEMMA RingType ==
  IInv /\ RealBytes /\ lineDrains =>
    /\ InRing \in Seq(Bytes) /\ Len(InRing) = Queued
    /\ \A i \in 1..Queued : InRing[i] = At(i)
  BY QueuedType DEF InRing, RealBytes

LEMMA OccupiedIs == Occupied = (IF udr = "none" THEN <<>> ELSE <<udr>>) \o InRing
  BY DEF Occupied, InRing, At

LEMMA StepIsFifo ==
  ASSUME IInv, IInv', RealBytes, RealBytes', lineDrains, [Next]_vars
  PROVE  Line!Next \/ UNCHANGED Line!fifoVars
<1> DEFINE Udr == IF udr = "none" THEN <<>> ELSE <<udr>>
<1>1. lineDrains'
  BY LineStays
<1>2. /\ InRing \in Seq(Bytes) /\ Len(InRing) = Queued
      /\ \A i \in 1..Queued : InRing[i] = At(i)
  BY RingType
<1>3. /\ InRing' \in Seq(Bytes) /\ Len(InRing') = Queued'
      /\ \A i \in 1..Queued' : InRing'[i] = At(i)'
  <2>1. (IInv /\ RealBytes /\ lineDrains)' =>
          (/\ InRing \in Seq(Bytes) /\ Len(InRing) = Queued
           /\ \A i \in 1..Queued : InRing[i] = At(i))'
    BY RingType, PTL
  <2> QED BY <1>1, <2>1
<1>4. Occupied = Udr \o InRing /\ Occupied' = Udr' \o InRing'
  <2>1. (Occupied = Udr \o InRing)'
    BY OccupiedIs, PTL
  <2> QED BY <2>1, OccupiedIs
<1>5. Queued \in Nat /\ Queued < TxBufSize /\ TxBufSize \in Nat
  BY QueuedType, UartAssumption
<1>6. Udr \in Seq(Bytes) /\ Udr' \in Seq(Bytes)
  BY DEF IInv, TypeOK
<1>7. CASE Write /\ cnt > 0
  <2>1. Udr' = Udr /\ line' = line /\ data \in Bytes /\ cnt < TxBufSize
    BY <1>7 DEF Write, IInv, Calling
  <2>2. /\ Append(InRing, data) \in Seq(Bytes) /\ Len(Append(InRing, data)) = Queued + 1
        /\ \A i \in 1..Queued : Append(InRing, data)[i] = InRing[i]
        /\ Append(InRing, data)[Queued + 1] = data
    BY <1>2, <2>1, AppendProperties
  <2>3. InRing' = Append(InRing, data)
    <3>1. Queued' = Queued + 1 /\ At(Queued)' = data /\ \A i \in 1..Queued : At(i)' = At(i)
      BY <1>7, WriteAdds
    <3>2. InRing'[Queued + 1] = data
      <4>1. Queued' \in 1..Queued'
        BY <1>5, <3>1
      <4>2. InRing'[Queued'] = At(Queued)'
        BY <1>3, <4>1 DEF At
      <4> QED BY <3>1, <4>2
    <3>3. ASSUME NEW i \in 1..Len(InRing') PROVE InRing'[i] = Append(InRing, data)[i]
      <4>1. i \in 1..Queued \/ i = Queued + 1
        BY <1>3, <1>5, <3>1
      <4>2. CASE i \in 1..Queued
        BY <4>2, <1>2, <1>3, <1>5, <2>2, <3>1
      <4>3. CASE i = Queued + 1
        BY <4>3, <2>2, <3>2
      <4> QED BY <4>1, <4>2, <4>3
    <3> QED BY <1>3, <2>2, <3>1, <3>3, SeqEqual
  <2>4. Occupied' = Append(Occupied, data)
    <3>1. Append(InRing, data) = InRing \o <<data>> /\ <<data>> \in Seq(Bytes)
      BY <1>2, <2>1, AppendIsConcat
    <3>2. Udr \o (InRing \o <<data>>) = (Udr \o InRing) \o <<data>>
      BY <1>2, <1>6, <3>1, ConcatAssociative
    <3>3. Occupied \in Seq(Bytes)
      BY <1>2, <1>4, <1>6, ConcatProperties
    <3>4. Append(Occupied, data) = Occupied \o <<data>>
      BY <2>1, <3>3, AppendIsConcat
    <3> QED BY <1>4, <2>1, <2>3, <3>1, <3>2, <3>4
  <2>5. Len(Occupied) < TxBufSize
    <3>1. Queued = cnt - 1 /\ cnt \in Nat
      BY <1>7 DEF Queued, IInv, TypeOK
    <3>2. Len(Udr) <= 1 /\ Len(Udr) \in Nat
      OBVIOUS
    <3>3. Len(Occupied) = Len(Udr) + Len(InRing)
      BY <1>2, <1>4, <1>6, ConcatProperties
    <3> QED BY <1>2, <1>5, <2>1, <3>1, <3>2, <3>3
  <2> QED BY <2>1, <2>4, <2>5 DEF Line!Next, Line!Put
<1>8. CASE DataRegisterEmpty /\ cnt > 1
  <2>1. /\ Queued > 0 /\ Queued' = Queued - 1
        /\ udr = "none" /\ udr' = At(1) /\ line' = line
        /\ \A i \in 1..(Queued - 1) : At(i)' = At(i + 1)
    BY <1>8, InterruptTakes
  <2>2. At(1) \in Bytes /\ InRing[1] = At(1) /\ At(1) # "none"
    BY <1>2, <1>5, <2>1, UartAssumption DEF RealBytes
  <2>3. Occupied = InRing
    BY <1>2, <1>4, <2>1, ConcatEmptySeq
  <2>4. Occupied' = <<At(1)>> \o InRing'
    BY <1>4, <2>1, <2>2
  <2>5. /\ <<At(1)>> \o InRing' \in Seq(Bytes)
        /\ Len(<<At(1)>> \o InRing') = Queued
        /\ (<<At(1)>> \o InRing')[1] = At(1)
        /\ \A i \in 2..Queued : (<<At(1)>> \o InRing')[i] = InRing'[i - 1]
    BY <1>3, <1>5, <2>1, <2>2, ConcatProperties
  <2>6. ASSUME NEW i \in 1..Queued PROVE (<<At(1)>> \o InRing')[i] = InRing[i]
    <3>1. CASE i = 1
      BY <3>1, <2>2, <2>5
    <3>2. CASE i # 1
      <4>1. i \in 2..Queued /\ i - 1 \in 1..(Queued - 1) /\ (i - 1) + 1 = i
        BY <1>5, <3>2
      <4>2. InRing'[i - 1] = At(i - 1)'
        BY <1>3, <2>1, <4>1 DEF At
      <4>3. At(i - 1)' = At(i)
        BY <2>1, <4>1
      <4> QED BY <1>2, <2>5, <4>1, <4>2, <4>3
    <3> QED BY <3>1, <3>2
  <2>7. Occupied' = Occupied
    BY <1>2, <2>3, <2>4, <2>5, <2>6, SeqEqual
  <2> QED BY <2>1, <2>7 DEF Line!fifoVars
<1>9. CASE ~(Write /\ cnt > 0) /\ ~(DataRegisterEmpty /\ cnt > 1)
  <2>1. InRing' = InRing
    <3>1. Queued' = Queued /\ \A i \in 1..Queued : At(i)' = At(i)
      BY <1>9, OthersKeep
    <3> QED BY <1>2, <1>3, <3>1, SeqEqual
  <2>2. CASE Write /\ cnt = 0
    <3>1. /\ udr = "none" /\ data \in Bytes /\ udr' = data /\ line' = line
          /\ Queued = 0
      BY <2>2 DEF Write, IInv, Draining, Calling, Queued
    <3>2. InRing = <<>> /\ data # "none"
      BY <1>2, <3>1, UartAssumption
    <3>3. Occupied = <<>> /\ Occupied' = <<data>>
      BY <1>4, <2>1, <3>1, <3>2
    <3> QED BY <1>5, <3>1, <3>3 DEF Line!Next, Line!Put
  <2>3. CASE Shift
    <3>1. udr # "none" /\ udr \in Bytes /\ line' = udr /\ udr' = "none"
      BY <2>3 DEF Shift, IInv, TypeOK
    <3>2. Occupied = <<udr>> \o InRing /\ Occupied' = InRing
      BY <1>2, <1>4, <2>1, <3>1, ConcatEmptySeq
    <3>3. /\ Occupied \in Seq(Bytes) /\ Len(Occupied) = 1 + Len(InRing)
          /\ Occupied[1] = udr
          /\ \A i \in 1..Len(InRing) : Occupied[i + 1] = InRing[i]
      BY <1>2, <3>1, <3>2, ConcatProperties
    <3>4. Occupied # <<>> /\ Head(Occupied) = udr
      BY <1>2, <1>5, <3>3
    <3>5. Tail(Occupied) = InRing
      BY <1>2, <1>5, <3>3, <3>4, HeadTailProperties, SeqEqual
    <3> QED BY <3>1, <3>2, <3>4, <3>5 DEF Line!Next, Line!Take
  <2>4. CASE ~Write /\ ~Shift
    <3>1. udr' = udr /\ line' = line
      <4>1. CASE DataRegisterEmpty
        <5>1. CASE cnt = 0
          BY <4>1, <5>1 DEF DataRegisterEmpty, Disable
        <5>2. CASE cnt = 1
          <6>1. cnt' = 0
            BY <4>1, <5>2 DEF DataRegisterEmpty
          <6> QED BY <4>1, <5>2, <6>1 DEF DataRegisterEmpty
        <5> QED BY <1>9, <4>1, <5>1, <5>2 DEF IInv, TypeOK
      <4>2. CASE (\E byte \in Bytes : SendByte(byte)) \/ TestFull \/ Delay \/ ResetOut
                  \/ ResetCnt \/ UNCHANGED vars
        BY <4>2 DEF SendByte, TestFull, Delay, ResetOut, ResetCnt, vars
      <4> QED BY <2>4, <4>1, <4>2 DEF Next, MainLoop
    <3> QED BY <1>4, <2>1, <3>1 DEF Line!fifoVars
  <2>5. cnt > 0 \/ cnt = 0
    BY DEF IInv, TypeOK
  <2> QED BY <1>9, <2>2, <2>3, <2>4, <2>5
<1> QED BY <1>7, <1>8, <1>9

(* On a line that drains the transmitter is a FIFO: bytes leave once each   *)
(* and in the order of the calls of SendByte, which never gives up.         *)
THEOREM TransmitterIsFifo == Spec => TransmitsInOrder
<1>1. Init => Line!Init
  BY DEF Init, Line!Init, Occupied, Queued
<1>2. (IInv /\ RealBytes) /\ (IInv /\ RealBytes)' /\ [Next]_vars
        => [lineDrains => Line!Next \/ UNCHANGED Line!fifoVars]_vars
  BY StepIsFifo
<1> QED BY RealInvariant, <1>1, <1>2, PTL DEF Spec, TransmitsInOrder
=============================================================================
