-------------------------- MODULE UartReceiveProofs --------------------------
(***************************************************************************)
(* Proofs about UartReceive: the receive ring stays in bounds, its count   *)
(* and its indices agree, and it is a FIFO, for every size of the ring.    *)
(***************************************************************************)
EXTENDS UartReceive, SequenceTheorems, TLAPS

LEMMA ModSmall == \A n \in Nat : n < RxBufSize => n % RxBufSize = n
  BY UartAssumption, SMTT(30)

LEMMA ModWraps ==
  \A n \in Nat : RxBufSize <= n /\ n < 2 * RxBufSize => n % RxBufSize = n - RxBufSize
  BY UartAssumption, SMTT(30)

(* The next slot, without the modulus. *)
LEMMA NextSlot ==
  \A i \in Slots : Advance(i) = IF i + 1 = RxBufSize THEN 0 ELSE i + 1
<1> SUFFICES ASSUME NEW i \in Slots
             PROVE Advance(i) = IF i + 1 = RxBufSize THEN 0 ELSE i + 1
  OBVIOUS
<1>1. CASE i + 1 = RxBufSize
  BY <1>1, ModWraps, UartAssumption DEF Advance, Slots
<1>2. CASE i + 1 < RxBufSize
  BY <1>2, ModSmall, UartAssumption DEF Advance, Slots
<1> QED BY <1>1, <1>2, UartAssumption DEF Slots

-----------------------------------------------------------------------------
IInv == TypeOK /\ CountMatchesRing /\ TakesRealByte

LEMMA InitIInv == Init => IInv
  BY UartAssumption DEF Init, IInv, TypeOK, CountMatchesRing, TakesRealByte, Slots

(* A byte is taken in only where Advance(in) # out, that is with cnt below  *)
(* RxBufSize - 1; and between the test of GetDataIn and its atomic block    *)
(* the interrupt can only add to cnt.                                       *)
LEMMA StepIInv == IInv /\ [Next]_vars => IInv'
<1> SUFFICES ASSUME IInv, [Next]_vars PROVE IInv'
  OBVIOUS
<1> USE UartAssumption DEF IInv, TypeOK, CountMatchesRing, TakesRealByte, Slots
<1>1. ASSUME NEW byte \in Bytes, Receive(byte) PROVE IInv'
  <2>1. Advance(in) = IF in + 1 = RxBufSize THEN 0 ELSE in + 1
    BY NextSlot
  <2>2. CASE Advance(in) = out
    BY <1>1, <2>1, <2>2 DEF Receive
  <2>3. CASE Advance(in) # out
    BY <1>1, <2>1, <2>3 DEF Receive
  <2> QED BY <2>2, <2>3
<1>2. CASE GetDataIn \/ Wait
  BY <1>2 DEF GetDataIn, Wait, NewDataInAvailable
<1>3. CASE Take
  <2>1. Advance(out) = IF out + 1 = RxBufSize THEN 0 ELSE out + 1
    BY NextSlot
  <2> QED BY <1>3, <2>1 DEF Take
<1>4. CASE UNCHANGED vars
  BY <1>4 DEF vars
<1> QED BY <1>1, <1>2, <1>3, <1>4 DEF Next

LEMMA Invariant == Spec => []IInv
  BY InitIInv, StepIInv, PTL DEF Spec

(* The stores of the interrupt and the loads of GetDataIn are in bounds.    *)
THEOREM TypeCorrect == Spec => []TypeOK
<1>1. IInv => TypeOK
  BY DEF IInv
<1> QED BY Invariant, <1>1, PTL

(* Interrupt and main loop agree on how many bytes wait.                    *)
THEOREM CountCorrect == Spec => []CountMatchesRing
<1>1. IInv => CountMatchesRing
  BY DEF IInv
<1> QED BY Invariant, <1>1, PTL

(* GetDataIn never returns a byte that was not received.                    *)
THEOREM RealByte == Spec => []TakesRealByte
<1>1. IInv => TakesRealByte
  BY DEF IInv
<1> QED BY Invariant, <1>1, PTL

-----------------------------------------------------------------------------
(* The slot of the i-th waiting byte, without the modulus. *)
LEMMA SlotOf ==
  ASSUME IInv, NEW i \in 1..(cnt + 1)
  PROVE  (out + i - 1) % RxBufSize
           = IF out + i - 1 < RxBufSize THEN out + i - 1 ELSE out + i - 1 - RxBufSize
<1> USE UartAssumption DEF IInv, TypeOK, Slots
<1>1. CASE out + i - 1 < RxBufSize
  BY <1>1, ModSmall
<1>2. CASE out + i - 1 >= RxBufSize
  BY <1>2, ModWraps
<1> QED BY <1>1, <1>2

(* The slot the interrupt stores to is behind the last waiting byte. *)
LEMMA InIsFree ==
  ASSUME IInv
  PROVE  /\ (out + cnt) % RxBufSize = in
         /\ \A i \in 1..cnt : (out + i - 1) % RxBufSize \in Slots \ {in}
<1> USE UartAssumption DEF IInv, TypeOK, CountMatchesRing, Slots
<1>1. (out + cnt) % RxBufSize = in
  BY SlotOf, cnt + 1 \in 1..(cnt + 1)
<1>2. ASSUME NEW i \in 1..cnt PROVE (out + i - 1) % RxBufSize \in Slots \ {in}
  BY SlotOf
<1> QED BY <1>1, <1>2

Values == Bytes \cup {"none"}

LEMMA WaitingType ==
  IInv => /\ Waiting \in Seq(Values) /\ Len(Waiting) = cnt
          /\ \A i \in 1..cnt : Waiting[i] = buf[(out + i - 1) % RxBufSize]
  BY InIsFree DEF IInv, TypeOK, Waiting, Values

(* The interrupt appends to the waiting bytes, or, when they fill the ring, *)
(* leaves them as they are.                                                 *)
LEMMA ReceivePuts ==
  ASSUME IInv, IInv', NEW byte \in Bytes, Receive(byte)
  PROVE  Ring!Put(byte) \/ Ring!Drop
<1> USE UartAssumption DEF IInv, TypeOK, CountMatchesRing, Slots
<1>1. Advance(in) = IF in + 1 = RxBufSize THEN 0 ELSE in + 1
  BY NextSlot
<1>2. \A i \in 1..cnt : buf'[(out' + i - 1) % RxBufSize] = buf[(out + i - 1) % RxBufSize]
  BY InIsFree DEF Receive
<1>3. CASE Advance(in) = out
  <2>1. cnt = RxBufSize - 1 /\ cnt' = cnt /\ ch' = ch
    BY <1>1, <1>3 DEF Receive
  <2>2. Waiting' = Waiting
    BY <1>2, <2>1 DEF Waiting
  <2> QED BY <2>1, <2>2, WaitingType DEF Ring!Drop, Ring!fifoVars
<1>4. CASE Advance(in) # out
  <2>1. cnt < RxBufSize - 1 /\ cnt' = cnt + 1 /\ ch' = ch /\ out' = out
    BY <1>1, <1>4 DEF Receive
  <2>2. buf'[(out' + (cnt + 1) - 1) % RxBufSize] = byte
    BY <2>1, InIsFree DEF Receive
  <2>3. Waiting' = Append(Waiting, byte)
    <3>1. /\ Waiting' \in Seq(Values) /\ Len(Waiting') = cnt + 1
          /\ \A i \in 1..(cnt + 1) : Waiting'[i] = buf'[(out' + i - 1) % RxBufSize]
      <4>1. IInv' => (/\ Waiting \in Seq(Values) /\ Len(Waiting) = cnt
                      /\ \A i \in 1..cnt : Waiting[i] = buf[(out + i - 1) % RxBufSize])'
        BY WaitingType, PTL
      <4> QED BY <4>1, <2>1
    <3>2. byte \in Values
      BY DEF Values
    <3>3. /\ Append(Waiting, byte) \in Seq(Values) /\ Len(Append(Waiting, byte)) = cnt + 1
          /\ \A i \in 1..cnt : Append(Waiting, byte)[i] = Waiting[i]
          /\ Append(Waiting, byte)[cnt + 1] = byte
      BY <3>2, WaitingType, AppendProperties
    <3>4. ASSUME NEW i \in 1..(cnt + 1) PROVE Waiting'[i] = Append(Waiting, byte)[i]
      <4>1. CASE i \in 1..cnt
        BY <4>1, <3>1, <3>3, <1>2, WaitingType
      <4>2. CASE i = cnt + 1
        <5>1. cnt + 1 \in 1..(cnt + 1)
          OBVIOUS
        <5>2. Waiting'[cnt + 1] = buf'[(out' + (cnt + 1) - 1) % RxBufSize]
          BY <5>1, <3>1
        <5> QED BY <4>2, <5>2, <3>3, <2>2
      <4>3. cnt \in Nat
        OBVIOUS
      <4>4. i \in 1..cnt \/ i = cnt + 1
        BY <4>3
      <4> QED BY <4>1, <4>2, <4>4
    <3> QED BY <3>1, <3>3, <3>4, SeqEqual
  <2> QED BY <2>1, <2>3, WaitingType DEF Ring!Put
<1> QED BY <1>3, <1>4

(* GetDataIn takes the first waiting byte. *)
LEMMA TakeTakes == ASSUME IInv, IInv', Take PROVE Ring!Take
<1> USE UartAssumption DEF IInv, TypeOK, TakesRealByte, Slots
<1>1. cnt > 0 /\ cnt' = cnt - 1 /\ ch' = buf[out] /\ out' = Advance(out) /\ buf' = buf
  BY DEF Take
<1>2. Advance(out) = IF out + 1 = RxBufSize THEN 0 ELSE out + 1
  BY NextSlot
<1>3. Waiting # <<>> /\ Head(Waiting) = buf[out]
  <2>1. (out + 1 - 1) % RxBufSize = out
    BY ModSmall, out + 1 - 1 = out
  <2>2. Len(Waiting) > 0 /\ Waiting[1] = buf[out]
    <3>1. 1 \in 1..cnt
      BY <1>1
    <3>2. Waiting[1] = buf[(out + 1 - 1) % RxBufSize]
      BY <3>1, WaitingType
    <3> QED BY <1>1, <2>1, <3>2, WaitingType
  <2> QED BY <2>2, WaitingType, HeadTailProperties
<1>4. ASSUME NEW i \in 1..cnt'
      PROVE (out' + i - 1) % RxBufSize = (out + (i + 1) - 1) % RxBufSize
  <2>1. i + 1 \in 1..(cnt + 1) /\ i \in 1..(cnt' + 1)
    BY <1>1
  <2>2. (out + (i + 1) - 1) % RxBufSize = IF out + i < RxBufSize THEN out + i ELSE out + i - RxBufSize
    BY <2>1, SlotOf
  <2>3. CASE out + 1 = RxBufSize
    <3>1. out' + i - 1 = i - 1 /\ i - 1 \in Nat /\ i - 1 < RxBufSize
      BY <1>1, <1>2, <2>3
    <3>2. (i - 1) % RxBufSize = i - 1
      BY <3>1, ModSmall
    <3>3. (out + (i + 1) - 1) % RxBufSize = i - 1
      <4>1. ~(out + i < RxBufSize) /\ out + i - RxBufSize = i - 1
        BY <2>3, <3>1
      <4> HIDE DEF IInv, TypeOK, Slots
      <4> QED BY <2>2, <4>1
    <3>4. (out' + i - 1) % RxBufSize = i - 1
      BY <3>1, <3>2
    <3> QED BY <3>3, <3>4
  <2>4. CASE out + 1 # RxBufSize
    BY <1>1, <1>2, <2>1, <2>2, <2>4
  <2> QED BY <2>3, <2>4
<1>5. Waiting' = Tail(Waiting)
  <2>1. /\ Waiting' \in Seq(Values) /\ Len(Waiting') = cnt - 1
        /\ \A i \in 1..(cnt - 1) : Waiting'[i] = buf[(out + (i + 1) - 1) % RxBufSize]
    <3>1. IInv' => (/\ Waiting \in Seq(Values) /\ Len(Waiting) = cnt
                    /\ \A i \in 1..cnt : Waiting[i] = buf[(out + i - 1) % RxBufSize])'
      BY WaitingType, PTL
    <3> QED BY <3>1, <1>1, <1>4
  <2>2. /\ Tail(Waiting) \in Seq(Values) /\ Len(Tail(Waiting)) = cnt - 1
        /\ \A i \in 1..(cnt - 1) : Tail(Waiting)[i] = Waiting[i + 1]
    BY <1>3, WaitingType, HeadTailProperties
  <2>3. ASSUME NEW i \in 1..(cnt - 1) PROVE Waiting'[i] = Tail(Waiting)[i]
    <3>1. i + 1 \in 1..cnt
      OBVIOUS
    <3> QED BY <3>1, <2>1, <2>2, WaitingType
  <2> QED BY <2>1, <2>2, <2>3, SeqEqual
<1> QED BY <1>1, <1>3, <1>5 DEF Ring!Take

(* The receive ring is a FIFO: bytes are read once each and in the order    *)
(* they came, and one is dropped only when RxBufSize - 1 already wait.      *)
THEOREM RingIsFifo == Spec => ReceivesInOrder
<1>1. Init => Ring!Init
  BY DEF Init, Ring!Init, Waiting
<1>2. IInv /\ IInv' /\ [Next]_vars => [Ring!Next]_(Ring!fifoVars)
  <2> SUFFICES ASSUME IInv, IInv', [Next]_vars PROVE [Ring!Next]_(Ring!fifoVars)
    OBVIOUS
  <2>1. ASSUME NEW byte \in Bytes, Receive(byte) PROVE Ring!Next
    BY <2>1, ReceivePuts DEF Ring!Next
  <2>2. CASE Take
    BY <2>2, TakeTakes DEF Ring!Next
  <2>3. CASE GetDataIn \/ Wait \/ UNCHANGED vars
    BY <2>3 DEF GetDataIn, Wait, vars, Ring!fifoVars, Waiting
  <2> QED BY <2>1, <2>2, <2>3 DEF Next
<1> QED BY Invariant, <1>1, <1>2, PTL DEF Spec, ReceivesInOrder, Ring!Spec
=============================================================================
