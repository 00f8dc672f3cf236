------------------------- MODULE TelegramParserProofs -------------------------
(***************************************************************************)
(* Proofs about TelegramParser, for frames of any length, any sizes of the *)
(* buffers and any cut of the bytes into reads: readBuffer_ never grows    *)
(* past its array, AnalyseBuffer invents no frame, and when no byte was    *)
(* lost it handles each frame exactly once.                                *)
(***************************************************************************)
EXTENDS TelegramParser, SequenceTheorems, TLAPS

(* The inductive invariant.  The stream is a row of frames, each with one   *)
(* ending, its last byte; readBuffer_, the tty and the rest of the frame    *)
(* under way are the end of the stream; and what was handled lies behind    *)
(* lastEnding.                                                              *)

Piece(k) == sent[k].frame
From(k)  == sent[k].from

Inside ==
  \A k \in 1..Len(sent) :
    /\ EndOf(k) <= Len(stream)
    /\ \A i \in 1..Len(Piece(k)) : stream[From(k) + i] = Piece(k)[i]

InOrder == \A j, k \in 1..Len(sent) : j < k => EndOf(j) <= From(k)

Covered == \A q \in 1..Len(stream) : \E k \in 1..Len(sent) : From(k) < q /\ q <= EndOf(k)

Whole ==
  /\ Len(stream) > 0 => stream[Len(stream)] \in Endings
  /\ \A k \in 1..Len(sent) :
       /\ Piece(k) # <<>>
       /\ From(k) > 0 => Piece(k) \in Frames /\ stream[From(k)] \in Endings
       /\ ~damaged => Piece(k) \in Frames

Row == Inside /\ InOrder /\ Covered /\ Whole

Suffix ==
  /\ Base >= 0
  /\ \A p \in 1..Len(readBuffer) : readBuffer[p] = stream[Base + p]
  /\ \A p \in 1..Len(tty) : tty[p] = stream[Base + Len(readBuffer) + p]
  /\ \A p \in 1..Len(rest) : rest[p] = stream[Base + Len(readBuffer) + Len(tty) + p]

Scanned ==
  /\ reader = "starting" => readBuffer = <<>>
  /\ reader # "analysing" => pos = 1 /\ lastEnding = 0
  /\ lastEnding > 0 => readBuffer[lastEnding] \in Endings
  /\ \A p \in (lastEnding + 1)..(pos - 1) : readBuffer[p] \notin Endings

Handled ==
  /\ \A i \in 1..Len(handled) :
       /\ handled[i].upto <= Base + lastEnding
       /\ \E k \in 1..Len(sent) : Matters(Piece(k)) /\ handled[i] = CallFor(k)
  /\ \A i, j \in 1..Len(handled) : i < j => handled[i].upto < handled[j].upto

Undamaged ==
  ~damaged =>
    /\ Base > 0 => stream[Base] \in Endings
    /\ reader # "analysing" => \A p \in 1..Len(readBuffer) : readBuffer[p] \notin Endings
    /\ \A k \in 1..Len(sent) : Matters(Piece(k)) /\ EndOf(k) <= Base + lastEnding =>
         \E i \in 1..Len(handled) : handled[i] = CallFor(k)

ParserInv == TypeOK /\ Row /\ Suffix /\ Scanned /\ Handled /\ Undamaged

-----------------------------------------------------------------------------
LEMMA Typed ==
  ASSUME TypeOK
  PROVE  /\ Len(readBuffer) \in Nat /\ Len(tty) \in Nat /\ Len(rest) \in Nat
         /\ Len(stream) \in Nat /\ Len(sent) \in Nat /\ Len(handled) \in Nat
         /\ pos \in Nat /\ lastEnding \in Nat
         /\ 1 <= pos /\ pos <= Len(readBuffer) + 1 /\ lastEnding <= pos - 1
         /\ Base \in Int
         /\ DOMAIN readBuffer = 1..Len(readBuffer) /\ DOMAIN sent = 1..Len(sent)
         /\ DOMAIN handled = 1..Len(handled)
<1>1. /\ Len(readBuffer) \in Nat /\ Len(tty) \in Nat /\ Len(rest) \in Nat
      /\ Len(stream) \in Nat /\ Len(sent) \in Nat /\ Len(handled) \in Nat
      /\ DOMAIN readBuffer = 1..Len(readBuffer) /\ DOMAIN sent = 1..Len(sent)
      /\ DOMAIN handled = 1..Len(handled)
  BY LenProperties DEF TypeOK
<1>2. pos \in 1..(Len(readBuffer) + 1) /\ lastEnding \in 0..(pos - 1)
  BY DEF TypeOK
<1>3. /\ pos \in Nat /\ lastEnding \in Nat
      /\ 1 <= pos /\ pos <= Len(readBuffer) + 1 /\ lastEnding <= pos - 1
  BY <1>1, <1>2
<1>4. Base \in Int
  BY <1>1 DEF Base
<1> QED BY <1>1, <1>3, <1>4

LEMMA PieceTyped ==
  ASSUME TypeOK, NEW k \in 1..Len(sent)
  PROVE  /\ Piece(k) \in Frames \cup Cut /\ Piece(k) \in Seq(Byte) /\ Len(Piece(k)) \in Nat
         /\ From(k) \in Nat /\ EndOf(k) = From(k) + Len(Piece(k)) /\ EndOf(k) \in Nat
<1>1. sent \in Seq([frame : Frames \cup Cut, from : Nat])
  BY DEF TypeOK
<1>2. sent[k] \in [frame : Frames \cup Cut, from : Nat]
  BY <1>1, ElementOfSeq
<1>3. Piece(k) \in Frames \cup Cut /\ From(k) \in Nat
  BY <1>2 DEF Piece, From
<1>4. Piece(k) \in Seq(Byte) /\ Len(Piece(k)) \in Nat
  BY <1>3, FramesAssumption, LenProperties
<1>5. EndOf(k) = From(k) + Len(Piece(k))
  BY DEF EndOf, From, Piece
<1>6. EndOf(k) \in Nat
  BY <1>3, <1>4, <1>5
<1> QED BY <1>3, <1>4, <1>5, <1>6

(* A frame has one ending, its last byte. *)
LEMMA PieceFacts ==
  ASSUME TypeOK, Row, NEW k \in 1..Len(sent)
  PROVE  /\ Len(Piece(k)) >= 1 /\ From(k) < EndOf(k) /\ EndOf(k) <= Len(stream)
         /\ EndsOnce(Piece(k)) /\ OffAlone(Piece(k))
         /\ Piece(k) \in Frames => Telegram(Piece(k)) \/ TextLine(Piece(k))
         /\ Piece(k) \notin Frames => NoStx(Piece(k)) /\ From(k) = 0
         /\ stream[EndOf(k)] = Piece(k)[Len(Piece(k))] /\ stream[EndOf(k)] \in Endings
         /\ \A q \in 1..Len(stream) : From(k) < q /\ q <= EndOf(k) => stream[q] = Piece(k)[q - From(k)]
         /\ \A q \in 1..Len(stream) : From(k) < q /\ q < EndOf(k) => stream[q] \notin Endings
<1>1. /\ Piece(k) \in Frames \cup Cut /\ Piece(k) \in Seq(Byte) /\ Len(Piece(k)) \in Nat
      /\ From(k) \in Nat /\ EndOf(k) = From(k) + Len(Piece(k)) /\ EndOf(k) \in Nat
      /\ Len(stream) \in Nat
  BY PieceTyped, Typed
<1>2. Piece(k) # <<>> /\ (From(k) > 0 => Piece(k) \in Frames) /\ EndOf(k) <= Len(stream)
      /\ \A i \in 1..Len(Piece(k)) : stream[From(k) + i] = Piece(k)[i]
  BY DEF Row, Whole, Inside
<1>3. EndsOnce(Piece(k)) /\ OffAlone(Piece(k))
  BY <1>1, <1>2, FramesAssumption
<1>4. Piece(k) \in Frames => Telegram(Piece(k)) \/ TextLine(Piece(k))
  BY FramesAssumption
<1>5. Piece(k) \notin Frames => NoStx(Piece(k)) /\ From(k) = 0
  <2>1. Piece(k) \notin Frames => NoStx(Piece(k))
    BY <1>1, <1>2, FramesAssumption
  <2>2. Piece(k) \notin Frames => From(k) = 0
    BY <1>1, <1>2
  <2> QED BY <2>1, <2>2
<1>6. Len(Piece(k)) >= 1
  BY <1>1, <1>2, EmptySeq
<1>7. From(k) < EndOf(k)
  BY <1>1, <1>6
<1>8. ASSUME NEW q \in 1..Len(stream), From(k) < q, q <= EndOf(k) PROVE stream[q] = Piece(k)[q - From(k)]
  <2>1. q - From(k) \in 1..Len(Piece(k)) /\ From(k) + (q - From(k)) = q
    BY <1>1, <1>8
  <2> QED BY <1>2, <2>1
<1>9. stream[EndOf(k)] = Piece(k)[Len(Piece(k))]
  <2>1. EndOf(k) \in 1..Len(stream) /\ EndOf(k) - From(k) = Len(Piece(k)) /\ EndOf(k) <= EndOf(k)
    BY <1>1, <1>2, <1>7
  <2> QED BY <1>7, <1>8, <2>1
<1>10. ASSUME NEW q \in 1..Len(stream), From(k) < q, q < EndOf(k) PROVE stream[q] \notin Endings
  <2>1. q - From(k) \in 1..(Len(Piece(k)) - 1) /\ q <= EndOf(k)
    BY <1>1, <1>10
  <2> QED BY <1>3, <1>8, <1>10, <2>1 DEF EndsOnce
<1>11. stream[EndOf(k)] \in Endings
  BY <1>3, <1>9 DEF EndsOnce
<1> QED BY <1>2, <1>3, <1>4, <1>5, <1>6, <1>7, <1>8, <1>9, <1>10, <1>11

LEMMA OneEnd ==
  ASSUME TypeOK, Row, NEW j \in 1..Len(sent), NEW k \in 1..Len(sent), EndOf(j) = EndOf(k)
  PROVE  j = k
<1>1. /\ From(j) < EndOf(j) /\ From(k) < EndOf(k) /\ From(j) \in Nat /\ From(k) \in Nat
      /\ EndOf(j) \in Nat /\ EndOf(k) \in Nat /\ j \in Int /\ k \in Int
  BY PieceTyped, PieceFacts, Typed
<1>2. ~(j < k)
  <2>1. j < k => EndOf(j) <= From(k)
    BY DEF Row, InOrder
  <2> QED BY <1>1, <2>1
<1>3. ~(k < j)
  <2>1. k < j => EndOf(k) <= From(j)
    BY DEF Row, InOrder
  <2> QED BY <1>1, <2>1
<1> QED BY <1>1, <1>2, <1>3

LEMMA EndingEnds ==
  ASSUME TypeOK, Row, NEW q \in 1..Len(stream), stream[q] \in Endings
  PROVE  \E k \in 1..Len(sent) : EndOf(k) = q
<1>1. PICK k \in 1..Len(sent) : From(k) < q /\ q <= EndOf(k)
  BY DEF Row, Covered
<1>2. ~(q < EndOf(k))
  BY <1>1, PieceFacts
<1>3. EndOf(k) \in Nat /\ q \in Nat
  BY PieceTyped, Typed
<1> QED BY <1>1, <1>2, <1>3

(* The frame that ends at the byte under the loop: it begins behind         *)
(* lastEnding, or its beginning is lost.                                    *)
LEMMA CurrentFrame ==
  ASSUME TypeOK, Row, Suffix, Scanned, Undamaged, pos <= Len(readBuffer), readBuffer[pos] \in Endings
  PROVE  \E k \in 1..Len(sent) :
           /\ EndOf(k) = Base + pos
           /\ From(k) <= Base + lastEnding
           /\ lastEnding > 0 \/ ~damaged => From(k) = Base + lastEnding
           /\ \A p \in 1..pos : Base + p > From(k) => readBuffer[p] = Piece(k)[Base + p - From(k)]
<1>1. /\ Len(readBuffer) \in Nat /\ Len(stream) \in Nat /\ pos \in Nat /\ 1 <= pos
      /\ Base \in Int /\ Base >= 0 /\ lastEnding \in Nat /\ lastEnding <= pos - 1
  BY Typed DEF Suffix
<1>2. Base + Len(readBuffer) <= Len(stream)
  <2>1. Base + Len(readBuffer) + Len(tty) + Len(rest) = Len(stream) /\ Len(tty) \in Nat /\ Len(rest) \in Nat
    BY <1>1, Typed DEF Base
  <2> QED BY <1>1, <2>1
<1>3. \A p \in 1..pos : readBuffer[p] = stream[Base + p] /\ Base + p \in 1..Len(stream)
  <2>1. \A p \in 1..pos : p \in 1..Len(readBuffer) /\ Base + p \in 1..Len(stream)
    BY <1>1, <1>2
  <2> QED BY <2>1 DEF Suffix
<1>4. stream[Base + pos] \in Endings /\ Base + pos \in 1..Len(stream)
  BY <1>1, <1>3
<1>5. PICK k \in 1..Len(sent) : EndOf(k) = Base + pos
  BY <1>4, EndingEnds
<1>6. /\ From(k) \in Nat /\ From(k) < EndOf(k)
      /\ \A q \in 1..Len(stream) : From(k) < q /\ q < EndOf(k) => stream[q] \notin Endings
      /\ \A q \in 1..Len(stream) : From(k) < q /\ q <= EndOf(k) => stream[q] = Piece(k)[q - From(k)]
  BY PieceTyped, PieceFacts
<1>7. From(k) <= Base + lastEnding
  <2>1. SUFFICES ASSUME From(k) > Base + lastEnding PROVE FALSE
    BY <1>1, <1>6
  <2>2. stream[From(k)] \in Endings
    BY <1>1, <1>6, <2>1 DEF Row, Whole
  <2>3. From(k) - Base \in (lastEnding + 1)..(pos - 1)
    BY <1>1, <1>5, <1>6, <2>1
  <2>4. From(k) - Base \in 1..pos /\ Base + (From(k) - Base) = From(k)
    BY <1>1, <1>6, <2>3
  <2>5. readBuffer[From(k) - Base] = stream[From(k)]
    BY <1>3, <2>4
  <2> QED BY <2>2, <2>3, <2>5 DEF Scanned
<1>8. ASSUME NEW q \in Nat, q > 0, q < Base + pos, stream[q] \in Endings PROVE q <= From(k)
  <2>1. q \in 1..Len(stream)
    BY <1>1, <1>4, <1>8
  <2> QED BY <1>5, <1>6, <1>8, <2>1
<1>9. CASE lastEnding > 0
  <2>1. readBuffer[lastEnding] \in Endings /\ lastEnding \in 1..pos
    BY <1>1, <1>9 DEF Scanned
  <2>2. stream[Base + lastEnding] \in Endings
    BY <1>3, <2>1
  <2>3. Base + lastEnding <= From(k)
    BY <1>1, <1>8, <1>9, <2>2
  <2>4. From(k) = Base + lastEnding
    BY <1>1, <1>6, <1>7, <2>3
  <2>5. \A p \in 1..pos : Base + p > From(k) => readBuffer[p] = Piece(k)[Base + p - From(k)]
    BY <1>1, <1>3, <1>5, <1>6
  <2> QED BY <1>5, <1>7, <2>4, <2>5
<1>10. CASE lastEnding = 0
  <2>1. ~damaged => From(k) = Base
    <3>1. SUFFICES ASSUME ~damaged PROVE From(k) = Base
      OBVIOUS
    <3>2. Base > 0 => Base <= From(k)
      BY <1>1, <1>8, <3>1 DEF Undamaged
    <3> QED BY <1>1, <1>6, <1>7, <1>10, <3>2
  <2>2. \A p \in 1..pos : Base + p > From(k) => readBuffer[p] = Piece(k)[Base + p - From(k)]
    BY <1>1, <1>3, <1>5, <1>6
  <2>3. lastEnding > 0 \/ ~damaged => From(k) = Base + lastEnding
    BY <1>1, <1>10, <2>1
  <2> QED BY <1>5, <1>7, <2>2, <2>3
<1> QED BY <1>1, <1>9, <1>10

(* The exception is thrown at the first byte of a damaged buffer only, so   *)
(* no frame in front of it is handled again by the next pass.               *)
LEMMA ThrowsFirst ==
  ASSUME TypeOK, Row, Suffix, Scanned, Undamaged, pos <= Len(readBuffer), readBuffer[pos] = "LF",
         lastEnding = pos - 1
  PROVE  lastEnding = 0 /\ damaged
<1>1. readBuffer[pos] \in Endings
  BY DEF Endings
<1>2. PICK k \in 1..Len(sent) :
        /\ EndOf(k) = Base + pos
        /\ lastEnding > 0 \/ ~damaged => From(k) = Base + lastEnding
        /\ \A p \in 1..pos : Base + p > From(k) => readBuffer[p] = Piece(k)[Base + p - From(k)]
  BY <1>1, CurrentFrame
<1>3. /\ Base \in Int /\ pos \in Nat /\ 1 <= pos /\ Base >= 0 /\ lastEnding \in Nat
      /\ From(k) \in Nat /\ EndOf(k) = From(k) + Len(Piece(k)) /\ Len(Piece(k)) \in Nat
  BY Typed, PieceTyped DEF Suffix
<1>4. SUFFICES ASSUME lastEnding > 0 \/ ~damaged PROVE FALSE
  BY <1>3
<1>5. From(k) = Base + lastEnding
  BY <1>2, <1>4
<1>6. Len(Piece(k)) = 1 /\ pos \in 1..pos /\ Base + pos > From(k) /\ Base + pos - From(k) = 1
  <2>1. EndOf(k) = Base + pos /\ lastEnding = pos - 1
    BY <1>2
  <2>2. Base + pos = From(k) + 1
    BY <1>3, <1>5, <2>1
  <2>3. From(k) + Len(Piece(k)) = From(k) + 1
    BY <1>3, <2>1, <2>2
  <2>4. Len(Piece(k)) = 1
    <3>1. \A a, b \in Nat : a + b = a + 1 => b = 1
      OBVIOUS
    <3> QED BY <1>3, <2>3, <3>1
  <2> QED BY <1>3, <2>2, <2>4
<1>7. Piece(k)[1] = "LF"
  <2>1. readBuffer[pos] = Piece(k)[Base + pos - From(k)]
    BY <1>2, <1>6
  <2> QED BY <1>6, <2>1
<1>8. Piece(k) \notin Frames
  BY <1>6, <1>7, PieceFacts DEF Telegram, TextLine
<1>9. damaged /\ From(k) = 0
  BY <1>8, PieceFacts DEF Row, Whole
<1>10. lastEnding = 0
  BY <1>3, <1>5, <1>9
<1> QED BY <1>3, <1>4, <1>9, <1>10

-----------------------------------------------------------------------------
(* Parts of sequences *)

LEMMA BehindFacts ==
  ASSUME NEW S, NEW s \in Seq(S), NEW m \in Nat, m <= Len(s)
  PROVE  /\ SubSeq(s, m + 1, Len(s)) \in Seq(S) /\ Len(SubSeq(s, m + 1, Len(s))) = Len(s) - m
         /\ \A i \in 1..(Len(s) - m) : SubSeq(s, m + 1, Len(s))[i] = s[m + i]
<1>1. Len(s) \in Nat /\ \A i \in (m + 1)..Len(s) : s[i] \in S
  BY LenProperties, ElementOfSeq
<1>2. m + 1 \in Int /\ Len(s) \in Int
  BY <1>1
<1> DEFINE t == SubSeq(s, m + 1, Len(s))
<1>3. /\ t \in Seq(S) /\ Len(t) = IF m + 1 <= Len(s) THEN Len(s) - (m + 1) + 1 ELSE 0
      /\ \A i \in 1..(Len(s) - (m + 1) + 1) : t[i] = s[m + 1 + i - 1]
  BY <1>1, <1>2, SubSeqProperties
<1> HIDE DEF t
<1>4. Len(t) = Len(s) - m
  BY <1>1, <1>3
<1>5. \A i \in 1..(Len(s) - m) : t[i] = s[m + i]
  BY <1>1, <1>3
<1>6. t \in Seq(S) /\ Len(t) = Len(s) - m /\ \A i \in 1..(Len(s) - m) : t[i] = s[m + i]
  BY <1>3, <1>4, <1>5
<1> QED BY <1>6 DEF t

LEMMA FirstFacts ==
  ASSUME NEW S, NEW s \in Seq(S), NEW m \in Nat, m <= Len(s)
  PROVE  /\ SubSeq(s, 1, m) \in Seq(S) /\ Len(SubSeq(s, 1, m)) = m
         /\ \A i \in 1..m : SubSeq(s, 1, m)[i] = s[i]
<1>1. Len(s) \in Nat /\ \A i \in 1..m : s[i] \in S
  BY LenProperties, ElementOfSeq
<1>2. 1 \in Int /\ m \in Int
  OBVIOUS
<1> DEFINE t == SubSeq(s, 1, m)
<1>3. /\ t \in Seq(S) /\ Len(t) = IF 1 <= m THEN m - 1 + 1 ELSE 0
      /\ \A i \in 1..(m - 1 + 1) : t[i] = s[1 + i - 1]
  BY <1>1, <1>2, SubSeqProperties
<1> HIDE DEF t
<1>4. Len(t) = m
  BY <1>3
<1>5. \A i \in 1..m : t[i] = s[i]
  BY <1>3
<1>6. t \in Seq(S) /\ Len(t) = m /\ \A i \in 1..m : t[i] = s[i]
  BY <1>3, <1>4, <1>5
<1> QED BY <1>6 DEF t

-----------------------------------------------------------------------------
(* What Read leaves in the buffer and in the tty. *)

LEMMA ReadOverRun ==
  ASSUME TypeOK, Read, OverRun
  PROVE  /\ readBuffer' \in Seq(Byte) /\ tty' \in Seq(Byte)
         /\ Len(readBuffer') <= MaxBufferSize /\ Len(readBuffer') \in Nat
         /\ Len(tty') = Len(tty) - Len(readBuffer') /\ Len(tty') \in Nat
         /\ \A p \in 1..Len(readBuffer') : readBuffer'[p] = tty[p]
         /\ \A p \in 1..Len(tty') : tty'[p] = tty[Len(readBuffer') + p]
<1> DEFINE bytes == IF Len(tty) > MaxBufferSize THEN MaxBufferSize ELSE Len(tty)
<1>1. tty \in Seq(Byte) /\ Len(tty) \in Nat /\ MaxBufferSize \in Nat
  BY Typed, FramesAssumption DEF TypeOK
<1>2. bytes \in Nat /\ bytes <= Len(tty) /\ bytes <= MaxBufferSize
  BY <1>1
<1>3. readBuffer' = <<>> \o SubSeq(tty, 1, bytes) /\ tty' = SubSeq(tty, bytes + 1, Len(tty))
  BY DEF Read
<1> HIDE DEF bytes
<1>4. /\ SubSeq(tty, 1, bytes) \in Seq(Byte) /\ Len(SubSeq(tty, 1, bytes)) = bytes
      /\ \A i \in 1..bytes : SubSeq(tty, 1, bytes)[i] = tty[i]
  BY <1>1, <1>2, FirstFacts
<1>5. <<>> \o SubSeq(tty, 1, bytes) = SubSeq(tty, 1, bytes)
  BY <1>4, ConcatEmptySeq
<1>6. /\ readBuffer' \in Seq(Byte) /\ Len(readBuffer') = bytes
      /\ \A p \in 1..bytes : readBuffer'[p] = tty[p]
  BY <1>3, <1>4, <1>5
<1>7. /\ tty' \in Seq(Byte) /\ Len(tty') = Len(tty) - bytes
      /\ \A p \in 1..(Len(tty) - bytes) : tty'[p] = tty[bytes + p]
  BY <1>1, <1>2, <1>3, BehindFacts
<1>8. Len(tty) - bytes \in Nat
  BY <1>1, <1>2
<1> QED BY <1>2, <1>6, <1>7, <1>8

LEMMA ReadAll ==
  ASSUME TypeOK, Read, ~OverRun
  PROVE  /\ readBuffer' \in Seq(Byte) /\ tty' \in Seq(Byte)
         /\ Len(readBuffer') = Len(readBuffer) + Len(tty) /\ Len(readBuffer') <= MaxBufferSize
         /\ Len(tty') = 0
         /\ \A p \in 1..Len(readBuffer) : readBuffer'[p] = readBuffer[p]
         /\ \A p \in 1..Len(tty) : readBuffer'[Len(readBuffer) + p] = tty[p]
<1>1. /\ tty \in Seq(Byte) /\ Len(tty) \in Nat /\ MaxBufferSize \in Nat
      /\ readBuffer \in Seq(Byte) /\ Len(readBuffer) \in Nat
  BY Typed, FramesAssumption DEF TypeOK
<1>2. readBuffer' = readBuffer \o SubSeq(tty, 1, Len(tty)) /\ tty' = SubSeq(tty, Len(tty) + 1, Len(tty))
  BY DEF Read
<1>3. /\ SubSeq(tty, 1, Len(tty)) \in Seq(Byte) /\ Len(SubSeq(tty, 1, Len(tty))) = Len(tty)
      /\ \A i \in 1..Len(tty) : SubSeq(tty, 1, Len(tty))[i] = tty[i]
  BY <1>1, FirstFacts
<1> DEFINE new == SubSeq(tty, 1, Len(tty))
<1> HIDE DEF new
<1>4. new \in Seq(Byte) /\ Len(new) = Len(tty) /\ \A i \in 1..Len(tty) : new[i] = tty[i]
  BY <1>3 DEF new
<1>5. /\ readBuffer \o new \in Seq(Byte) /\ Len(readBuffer \o new) = Len(readBuffer) + Len(new)
      /\ \A i \in 1..(Len(readBuffer) + Len(new)) :
           (readBuffer \o new)[i] = IF i <= Len(readBuffer) THEN readBuffer[i] ELSE new[i - Len(readBuffer)]
  BY <1>1, <1>4, ConcatProperties
<1>6. readBuffer' = readBuffer \o new
  BY <1>2 DEF new
<1>7. readBuffer' \in Seq(Byte) /\ Len(readBuffer') = Len(readBuffer) + Len(tty)
  BY <1>4, <1>5, <1>6
<1>8. \A p \in 1..Len(readBuffer) : readBuffer'[p] = readBuffer[p]
  BY <1>1, <1>4, <1>5, <1>6
<1>9. ASSUME NEW p \in 1..Len(tty) PROVE readBuffer'[Len(readBuffer) + p] = tty[p]
  <2>1. /\ Len(readBuffer) + p \in 1..(Len(readBuffer) + Len(new))
        /\ ~(Len(readBuffer) + p <= Len(readBuffer)) /\ Len(readBuffer) + p - Len(readBuffer) = p
    BY <1>1, <1>4
  <2> QED BY <1>4, <1>5, <1>6, <2>1
<1>10. tty' \in Seq(Byte) /\ Len(tty') = 0
  <2>1. Len(tty) <= Len(tty) /\ Len(tty) - Len(tty) = 0
    BY <1>1
  <2> QED BY <1>1, <1>2, <2>1, BehindFacts
<1>11. Len(readBuffer') <= MaxBufferSize
  BY <1>1, <1>7 DEF OverRun
<1> QED BY <1>7, <1>8, <1>9, <1>10, <1>11

LEMMA MoveFacts ==
  ASSUME TypeOK, MoveRest
  PROVE  /\ readBuffer' \in Seq(Byte) /\ Len(readBuffer') = Len(readBuffer) - lastEnding
         /\ \A p \in 1..(Len(readBuffer) - lastEnding) : readBuffer'[p] = readBuffer[lastEnding + p]
         /\ pos = Len(readBuffer) + 1 /\ lastEnding <= Len(readBuffer)
<1>1. /\ readBuffer \in Seq(Byte) /\ Len(readBuffer) \in Nat /\ pos \in Nat /\ lastEnding \in Nat
      /\ pos <= Len(readBuffer) + 1 /\ lastEnding <= pos - 1
  BY Typed DEF TypeOK
<1>2. pos > Len(readBuffer) /\ readBuffer' = SubSeq(readBuffer, lastEnding + 1, Len(readBuffer))
  BY DEF MoveRest
<1>3. pos = Len(readBuffer) + 1 /\ lastEnding <= Len(readBuffer)
  BY <1>1, <1>2
<1> QED BY <1>1, <1>2, <1>3, BehindFacts

-----------------------------------------------------------------------------
(* The types *)

LEMMA InitTypes == Init => TypeOK
<1> SUFFICES ASSUME Init PROVE TypeOK
  OBVIOUS
<1>1. MaxFrames \in Nat /\ MaxFrames >= 1 /\ TtyCapacity \in Nat /\ MaxBufferSize \in Nat
  BY FramesAssumption
<1>2. /\ readBuffer = <<>> /\ tty = <<>> /\ handled = <<>> /\ stream = rest /\ rest \in Cut
      /\ pos = 1 /\ lastEnding = 0
  BY DEF Init
<1>3. /\ readBuffer \in Seq(Byte) /\ Len(readBuffer) = 0 /\ tty \in Seq(Byte) /\ Len(tty) = 0
      /\ handled \in Seq([frame : Seq(Byte), upto : Nat])
  BY <1>2, EmptySeq
<1>4. rest \in Seq(Byte) /\ stream \in Seq(Byte)
  BY <1>2, FramesAssumption
<1>5. sent \in Seq([frame : Frames \cup Cut, from : Nat]) /\ Len(sent) <= 1
  <2> DEFINE first == [frame |-> rest, from |-> 0]
  <2>1. first \in [frame : Frames \cup Cut, from : Nat]
    BY <1>2
  <2> HIDE DEF first
  <2>2. <<first>> \in Seq([frame : Frames \cup Cut, from : Nat]) /\ Len(<<first>>) = 1
    BY <2>1
  <2>3. <<>> \in Seq([frame : Frames \cup Cut, from : Nat]) /\ Len(<<>>) = 0
    BY EmptySeq
  <2>4. sent = <<>> \/ sent = <<first>>
    BY DEF Init, first
  <2>5. CASE sent = <<>>
    <3>1. Len(sent) = 0
      BY <2>3, <2>5
    <3> QED BY <2>3, <2>5, <3>1
  <2>6. CASE sent = <<first>>
    <3>1. Len(sent) = 1
      BY <2>2, <2>6
    <3> QED BY <2>2, <2>6, <3>1
  <2> QED BY <2>4, <2>5, <2>6
<1>6. Len(readBuffer) <= MaxBufferSize /\ Len(tty) <= TtyCapacity
  BY <1>1, <1>3
<1>7. pos \in 1..(Len(readBuffer) + 1) /\ lastEnding \in 0..(pos - 1)
  BY <1>2, <1>3
<1>8. reader \in {"starting", "waiting", "analysing"} /\ damaged \in BOOLEAN
  BY DEF Init
<1>9. Len(sent) <= MaxFrames
  <2>1. Len(sent) \in Nat
    BY <1>5, LenProperties
  <2> QED BY <1>1, <1>5, <2>1
<1> QED BY <1>3, <1>4, <1>5, <1>6, <1>7, <1>8, <1>9 DEF TypeOK

LEMMA BoardTypes ==
  ASSUME TypeOK, (\E frame \in Frames : StartFrame(frame)) \/ SendByte PROVE TypeOK'
<1>a. /\ tty \in Seq(Byte) /\ Len(tty) \in Nat /\ TtyCapacity \in Nat
      /\ rest \in Seq(Byte) /\ stream \in Seq(Byte) /\ Len(stream) \in Nat
      /\ sent \in Seq([frame : Frames \cup Cut, from : Nat]) /\ Len(sent) \in Nat /\ MaxFrames \in Nat
  BY Typed, FramesAssumption DEF TypeOK
<1>1. CASE \E frame \in Frames : StartFrame(frame)
  <2>1. PICK frame \in Frames : StartFrame(frame)
    BY <1>1
  <2> DEFINE entry == [frame |-> frame, from |-> Len(stream)]
  <2>2. entry \in [frame : Frames \cup Cut, from : Nat]
    BY <1>a
  <2>3. /\ rest' = frame /\ stream' = stream \o frame /\ sent' = Append(sent, entry)
        /\ Len(sent) < MaxFrames
    BY <2>1 DEF StartFrame
  <2> HIDE DEF entry
  <2>4. frame \in Seq(Byte)
    BY FramesAssumption
  <2>5. rest' \in Seq(Byte) /\ stream' \in Seq(Byte)
    BY <1>a, <2>3, <2>4, ConcatProperties
  <2>6. sent' \in Seq([frame : Frames \cup Cut, from : Nat]) /\ Len(sent') = Len(sent) + 1
    BY <1>a, <2>2, <2>3, AppendProperties
  <2>7. Len(sent') <= MaxFrames
    BY <1>a, <2>3, <2>6
  <2> QED BY <2>1, <2>5, <2>6, <2>7 DEF StartFrame, TypeOK
<1>2. CASE SendByte
  <2>1. rest # <<>> /\ Len(tty) < TtyCapacity /\ tty' = Append(tty, Head(rest)) /\ rest' = Tail(rest)
    BY <1>2 DEF SendByte
  <2>2. Head(rest) \in Byte /\ rest' \in Seq(Byte)
    BY <1>a, <2>1, HeadTailProperties
  <2>3. tty' \in Seq(Byte) /\ Len(tty') = Len(tty) + 1
    BY <1>a, <2>1, <2>2, AppendProperties
  <2>4. Len(tty') <= TtyCapacity
    BY <1>a, <2>1, <2>3
  <2> QED BY <1>2, <2>2, <2>3, <2>4 DEF SendByte, TypeOK
<1> QED BY <1>1, <1>2

LEMMA ReaderTypes ==
  ASSUME TypeOK, Base >= 0, Flush \/ Read \/ AnalyseBuffer PROVE TypeOK'
<1>a. /\ tty \in Seq(Byte) /\ Len(tty) \in Nat /\ TtyCapacity \in Nat /\ Len(tty) <= TtyCapacity
      /\ readBuffer \in Seq(Byte) /\ Len(readBuffer) \in Nat /\ Len(readBuffer) <= MaxBufferSize
      /\ MaxBufferSize \in Nat
  BY Typed, FramesAssumption DEF TypeOK
<1>b. /\ pos \in Nat /\ lastEnding \in Nat /\ 1 <= pos /\ pos <= Len(readBuffer) + 1
      /\ lastEnding <= pos - 1 /\ Base \in Int
  BY Typed
<1>1. CASE Flush
  <2>1. tty' \in Seq(Byte) /\ Len(tty') = 0
    BY <1>1, EmptySeq DEF Flush
  <2>2. Len(tty') <= TtyCapacity
    BY <1>a, <2>1
  <2>3. damaged' \in BOOLEAN
    BY <1>1 DEF Flush, TypeOK
  <2> QED BY <1>1, <2>1, <2>2, <2>3 DEF Flush, TypeOK
<1>2. CASE Read
  <2>1. /\ readBuffer' \in Seq(Byte) /\ tty' \in Seq(Byte) /\ Len(readBuffer') \in Nat
        /\ Len(readBuffer') <= MaxBufferSize /\ Len(tty') <= TtyCapacity
    <3>1. CASE OverRun
      <4>1. /\ readBuffer' \in Seq(Byte) /\ tty' \in Seq(Byte)
            /\ Len(readBuffer') <= MaxBufferSize /\ Len(readBuffer') \in Nat
            /\ Len(tty') = Len(tty) - Len(readBuffer')
        BY <1>2, <3>1, ReadOverRun
      <4>2. Len(tty') <= TtyCapacity
        BY <1>a, <4>1
      <4> QED BY <4>1, <4>2
    <3>2. CASE ~OverRun
      <4>1. /\ readBuffer' \in Seq(Byte) /\ tty' \in Seq(Byte)
            /\ Len(readBuffer') <= MaxBufferSize /\ Len(tty') = 0
        BY <1>2, <3>2, ReadAll
      <4>2. Len(tty') <= TtyCapacity /\ Len(readBuffer') \in Nat
        BY <1>a, <4>1, LenProperties
      <4> QED BY <4>1, <4>2
    <3> QED BY <3>1, <3>2
  <2>2. pos' = 1 /\ lastEnding' = 0
    BY <1>2 DEF Read
  <2>3. pos' \in 1..(Len(readBuffer') + 1) /\ lastEnding' \in 0..(pos' - 1)
    BY <2>1, <2>2
  <2>4. damaged' \in BOOLEAN
    BY <1>2 DEF Read, TypeOK
  <2> QED BY <1>2, <2>1, <2>3, <2>4 DEF Read, TypeOK
<1>c. ASSUME NEW from \in Nat, from >= 1, from <= pos, pos <= Len(readBuffer), handled' = Call(from)
      PROVE  handled' \in Seq([frame : Seq(Byte), upto : Nat])
  <2> DEFINE f == SubSeq(readBuffer, from, pos)
             e == [frame |-> f, upto |-> Base + pos]
  <2>1. f \in Seq(Byte)
    <3>1. \A i \in from..pos : readBuffer[i] \in Byte
      BY <1>a, <1>b, <1>c, ElementOfSeq
    <3> QED BY <1>b, <3>1, SubSeqProperties
  <2>2. Base + pos \in Nat
    BY <1>b
  <2> HIDE DEF f
  <2>3. e \in [frame : Seq(Byte), upto : Nat]
    BY <2>1, <2>2
  <2> HIDE DEF e
  <2>4. handled' = Append(handled, e)
    BY <1>c DEF Call, e, f
  <2>5. handled \in Seq([frame : Seq(Byte), upto : Nat])
    BY DEF TypeOK
  <2> QED BY <2>3, <2>4, <2>5, AppendProperties
<1>d. handled \in Seq([frame : Seq(Byte), upto : Nat])
  BY DEF TypeOK
<1>3. CASE EndOfTelegram
  <2>1. /\ pos <= Len(readBuffer) /\ lastEnding' = pos /\ pos' = pos + 1
        /\ UNCHANGED <<reader, readBuffer, serial, damaged>>
    BY <1>3 DEF EndOfTelegram
  <2>2. handled' \in Seq([frame : Seq(Byte), upto : Nat])
    <3>1. CASE \E from \in LastStx : handled' = Call(from)
      <4>1. PICK from \in LastStx : handled' = Call(from)
        BY <3>1
      <4>2. from \in Nat /\ from >= 1 /\ from <= pos
        BY <1>b, <4>1 DEF LastStx
      <4> QED BY <1>c, <2>1, <4>1, <4>2
    <3>2. CASE handled' = handled
      BY <1>d, <3>2
    <3> QED BY <1>3, <3>1, <3>2 DEF EndOfTelegram
  <2>3. pos' \in 1..(Len(readBuffer) + 1) /\ lastEnding' \in 0..(pos' - 1)
    BY <1>a, <1>b, <2>1
  <2> QED BY <2>1, <2>2, <2>3 DEF TypeOK, serial
<1>4. CASE EndOfLine
  <2>1. pos <= Len(readBuffer) /\ UNCHANGED <<readBuffer, serial, damaged>>
    BY <1>4 DEF EndOfLine
  <2>2. CASE lastEnding = pos - 1
    <3>1. reader' = "waiting" /\ pos' = 1 /\ lastEnding' = 0 /\ handled' = handled
      BY <1>4, <2>2 DEF EndOfLine, Leaves
    <3>2. pos' \in 1..(Len(readBuffer) + 1) /\ lastEnding' \in 0..(pos' - 1)
      BY <1>a, <3>1
    <3> QED BY <2>1, <3>1, <3>2 DEF TypeOK, serial
  <2>3. CASE lastEnding # pos - 1
    <3>1. /\ handled' = IF Text = <<"off">> THEN Call(lastEnding + 1) ELSE handled
          /\ lastEnding' = pos /\ pos' = pos + 1 /\ reader' = reader
      BY <1>4, <2>3 DEF EndOfLine
    <3>2. lastEnding + 1 \in Nat /\ lastEnding + 1 >= 1 /\ lastEnding + 1 <= pos
      BY <1>b
    <3>3. handled' \in Seq([frame : Seq(Byte), upto : Nat])
      BY <1>c, <1>d, <2>1, <3>1, <3>2
    <3>4. pos' \in 1..(Len(readBuffer) + 1) /\ lastEnding' \in 0..(pos' - 1)
      BY <1>a, <1>b, <2>1, <3>1
    <3> QED BY <2>1, <3>1, <3>3, <3>4 DEF TypeOK, serial
  <2> QED BY <2>2, <2>3
<1>5. CASE OtherByte
  <2>1. /\ pos <= Len(readBuffer) /\ pos' = pos + 1
        /\ UNCHANGED <<reader, readBuffer, lastEnding, serial, handled, damaged>>
    BY <1>5 DEF OtherByte
  <2>2. pos' \in 1..(Len(readBuffer) + 1) /\ lastEnding \in 0..(pos' - 1)
    BY <1>a, <1>b, <2>1
  <2> QED BY <2>1, <2>2 DEF TypeOK, serial
<1>6. CASE MoveRest
  <2>1. /\ readBuffer' \in Seq(Byte) /\ Len(readBuffer') = Len(readBuffer) - lastEnding
        /\ lastEnding <= Len(readBuffer)
    BY <1>6, MoveFacts
  <2>2. /\ reader' = "waiting" /\ pos' = 1 /\ lastEnding' = 0
        /\ UNCHANGED <<serial, handled, damaged>>
    BY <1>6 DEF MoveRest, Leaves
  <2>3. Len(readBuffer') \in Nat /\ Len(readBuffer') <= MaxBufferSize
    BY <1>a, <1>b, <2>1
  <2>4. pos' \in 1..(Len(readBuffer') + 1) /\ lastEnding' \in 0..(pos' - 1)
    BY <2>2, <2>3
  <2> QED BY <2>1, <2>2, <2>3, <2>4 DEF TypeOK, serial
<1> QED BY <1>1, <1>2, <1>3, <1>4, <1>5, <1>6 DEF AnalyseBuffer

-----------------------------------------------------------------------------
(* The row of frames *)

LEMMA RowUnchanged ==
  ASSUME Row, UNCHANGED <<sent, stream>>, damaged => damaged' PROVE Row'
<1>1. Inside' /\ InOrder' /\ Covered'
  BY DEF Row, Inside, InOrder, Covered, Piece, From, EndOf
<1>2. Whole'
  BY DEF Row, Whole, Piece, From
<1> QED BY <1>1, <1>2 DEF Row

LEMMA InitRow == Init => Row
<1> SUFFICES ASSUME Init PROVE Row
  OBVIOUS
<1>1. TypeOK
  BY InitTypes
<1>2. rest \in Cut /\ stream = rest /\ damaged = (rest # <<>>)
      /\ sent = IF rest = <<>> THEN <<>> ELSE <<[frame |-> rest, from |-> 0]>>
  BY DEF Init
<1>3. CASE rest = <<>>
  <2>1. Len(sent) = 0 /\ Len(stream) = 0
    BY <1>2, <1>3, EmptySeq
  <2>2. Inside /\ InOrder /\ Covered /\ Whole
    BY <2>1 DEF Inside, InOrder, Covered, Whole
  <2> QED BY <2>2 DEF Row
<1>4. CASE rest # <<>>
  <2>1. /\ sent = <<[frame |-> rest, from |-> 0]>> /\ Len(sent) = 1
        /\ sent[1] = [frame |-> rest, from |-> 0]
    BY <1>2, <1>4
  <2>2. Piece(1) = stream /\ From(1) = 0 /\ EndOf(1) = 0 + Len(stream) /\ Len(stream) \in Nat
    BY <1>1, <1>2, <2>1, Typed DEF Piece, From, EndOf
  <2>3. EndOf(1) = Len(stream)
    BY <2>2
  <2>4. Inside
    BY <2>1, <2>2, <2>3 DEF Inside
  <2>5. InOrder
    BY <2>1 DEF InOrder
  <2>6. Covered
    BY <2>1, <2>2, <2>3 DEF Covered
  <2>7. Whole
    <3>1. EndsOnce(stream)
      BY <1>2, <1>4, FramesAssumption
    <3>2. stream # <<>> /\ stream[Len(stream)] \in Endings
      BY <3>1 DEF EndsOnce
    <3>3. damaged /\ \A k \in 1..Len(sent) : k = 1
      <4>1. damaged
        BY <1>2, <1>4
      <4>2. \A k \in 1..Len(sent) : k = 1
        BY <2>1
      <4> QED BY <4>1, <4>2
    <3>4. ASSUME NEW k \in 1..Len(sent)
          PROVE  /\ Piece(k) # <<>>
                 /\ From(k) > 0 => Piece(k) \in Frames /\ stream[From(k)] \in Endings
                 /\ ~damaged => Piece(k) \in Frames
      <4>1. k = 1
        BY <3>3
      <4>2. ~(From(k) > 0)
        BY <2>2, <4>1
      <4>3. Piece(k) # <<>>
        BY <2>2, <3>2, <4>1
      <4> QED BY <3>3, <4>2, <4>3
    <3> QED BY <3>2, <3>4 DEF Whole
  <2> QED BY <2>4, <2>5, <2>6, <2>7 DEF Row
<1> QED BY <1>3, <1>4

(* What StartFrame does to the histories. *)
LEMMA StartFacts ==
  ASSUME TypeOK, NEW frame \in Frames, StartFrame(frame)
  PROVE  /\ Len(stream') = Len(stream) + Len(frame)
         /\ \A q \in 1..Len(stream) : stream'[q] = stream[q]
         /\ \A i \in 1..Len(frame) : stream'[Len(stream) + i] = frame[i]
         /\ Len(sent') = Len(sent) + 1
         /\ \A k \in 1..Len(sent) : sent'[k] = sent[k]
         /\ sent'[Len(sent) + 1] = [frame |-> frame, from |-> Len(stream)]
<1> DEFINE e == [frame |-> frame, from |-> Len(stream)]
<1>1. /\ Len(stream) \in Nat /\ stream \in Seq(Byte) /\ frame \in Seq(Byte) /\ Len(frame) \in Nat
      /\ sent \in Seq([frame : Frames \cup Cut, from : Nat])
  BY Typed, FramesAssumption, LenProperties DEF TypeOK
<1>2. stream' = stream \o frame /\ sent' = Append(sent, e)
  BY DEF StartFrame
<1>3. /\ Len(stream') = Len(stream) + Len(frame)
      /\ \A q \in 1..(Len(stream) + Len(frame)) :
           stream'[q] = IF q <= Len(stream) THEN stream[q] ELSE frame[q - Len(stream)]
  BY <1>1, <1>2, ConcatProperties
<1>4. e \in [frame : Frames \cup Cut, from : Nat]
  BY <1>1
<1> HIDE DEF e
<1>5. /\ Len(sent') = Len(sent) + 1 /\ \A k \in 1..Len(sent) : sent'[k] = sent[k]
      /\ sent'[Len(sent) + 1] = e
  BY <1>1, <1>2, <1>4, AppendProperties
<1>6. \A q \in 1..Len(stream) : stream'[q] = stream[q]
  <2>1. \A q \in 1..Len(stream) : q \in 1..(Len(stream) + Len(frame)) /\ q <= Len(stream)
    BY <1>1
  <2> QED BY <1>3, <2>1
<1>7. ASSUME NEW i \in 1..Len(frame) PROVE stream'[Len(stream) + i] = frame[i]
  <2> DEFINE q == Len(stream) + i
  <2>1. q \in 1..(Len(stream) + Len(frame)) /\ ~(q <= Len(stream)) /\ q - Len(stream) = i
    BY <1>1
  <2> HIDE DEF q
  <2>2. stream'[q] = frame[i]
    BY <1>3, <2>1
  <2> QED BY <2>2 DEF q
<1> QED BY <1>3, <1>5, <1>6, <1>7 DEF e

LEMMA StartRow ==
  ASSUME TypeOK, Row, NEW frame \in Frames, StartFrame(frame) PROVE Row'
<1>n. PICK n : n = Len(sent)
  OBVIOUS
<1>m. PICK m : m = Len(stream)
  OBVIOUS
<1>1. /\ n \in Nat /\ m \in Nat /\ stream \in Seq(Byte) /\ frame \in Seq(Byte) /\ Len(frame) \in Nat
      /\ sent \in Seq([frame : Frames \cup Cut, from : Nat])
  BY <1>n, <1>m, Typed, FramesAssumption, LenProperties DEF TypeOK
<1>2. frame # <<>> /\ Len(frame) >= 1 /\ EndsOnce(frame)
  <2>1. EndsOnce(frame)
    BY FramesAssumption
  <2>2. frame # <<>>
    BY <2>1 DEF EndsOnce
  <2> QED BY <1>1, <2>1, <2>2, EmptySeq
<1>3. damaged' = damaged
  BY DEF StartFrame
<1>4. /\ Len(stream') = m + Len(frame)
      /\ \A q \in 1..m : stream'[q] = stream[q]
      /\ \A i \in 1..Len(frame) : stream'[m + i] = frame[i]
  BY <1>m, StartFacts
<1>5. sent'[n + 1] = [frame |-> frame, from |-> m]
  BY <1>n, <1>m, StartFacts
<1>6. Len(sent') = n + 1 /\ \A k \in 1..n : sent'[k] = sent[k]
  BY <1>n, StartFacts
<1>7. Piece(n + 1)' = frame /\ From(n + 1)' = m /\ EndOf(n + 1)' = m + Len(frame)
  BY <1>5 DEF Piece, From, EndOf
<1>8. \A k \in 1..n : Piece(k)' = Piece(k) /\ From(k)' = From(k) /\ EndOf(k)' = EndOf(k)
  BY <1>6 DEF Piece, From, EndOf
<1>9. \A k \in 1..Len(sent') : k \in 1..n \/ k = n + 1
  BY <1>1, <1>6
<1>10. \A k \in 1..n : /\ From(k) \in Nat /\ EndOf(k) \in Nat /\ EndOf(k) <= m /\ From(k) < EndOf(k)
                       /\ EndOf(k) = From(k) + Len(Piece(k)) /\ Len(Piece(k)) \in Nat
  BY <1>n, <1>m, PieceTyped, PieceFacts
<1>11. Inside'
  <2>1. SUFFICES ASSUME NEW k \in 1..Len(sent')
                 PROVE  /\ EndOf(k)' <= Len(stream')
                        /\ \A i \in 1..Len(Piece(k)') : stream'[From(k)' + i] = Piece(k)'[i]
    BY DEF Inside
  <2>2. CASE k \in 1..n
    <3>1. EndOf(k) <= Len(stream')
      BY <1>1, <1>4, <1>10, <2>2
    <3>2. ASSUME NEW i \in 1..Len(Piece(k)) PROVE stream'[From(k) + i] = Piece(k)[i]
      <4>1. From(k) + i \in 1..m
        BY <1>1, <1>10, <2>2
      <4>2. stream[From(k) + i] = Piece(k)[i]
        BY <1>n, <2>2 DEF Row, Inside
      <4> QED BY <1>4, <4>1, <4>2
    <3> QED BY <1>8, <2>2, <3>1, <3>2
  <2>3. CASE k = n + 1
    <3>1. EndOf(k)' <= Len(stream')
      BY <1>1, <1>4, <1>7, <2>3
    <3> QED BY <1>7, <1>4, <2>3, <3>1
  <2> QED BY <1>9, <2>2, <2>3
<1>12. InOrder'
  <2>1. SUFFICES ASSUME NEW j \in 1..Len(sent'), NEW k \in 1..Len(sent'), j < k
                 PROVE  EndOf(j)' <= From(k)'
    BY DEF InOrder
  <2>2. j \in 1..n
    BY <1>1, <1>6, <2>1
  <2>3. CASE k \in 1..n
    <3>1. EndOf(j) <= From(k)
      BY <1>n, <2>1, <2>2, <2>3 DEF Row, InOrder
    <3> QED BY <1>8, <2>2, <2>3, <3>1
  <2>4. CASE k = n + 1
    <3>1. EndOf(j) <= m
      BY <1>10, <2>2
    <3> QED BY <1>7, <1>8, <2>2, <2>4, <3>1
  <2> QED BY <1>9, <2>3, <2>4
<1>13. Covered'
  <2>1. SUFFICES ASSUME NEW q \in 1..Len(stream')
                 PROVE  \E k \in 1..Len(sent') : From(k)' < q /\ q <= EndOf(k)'
    BY DEF Covered
  <2>2. CASE q \in 1..m
    <3>1. PICK k \in 1..n : From(k) < q /\ q <= EndOf(k)
      BY <1>n, <1>m, <2>2 DEF Row, Covered
    <3>2. k \in 1..Len(sent')
      BY <1>1, <1>6
    <3> QED BY <1>8, <3>1, <3>2
  <2>3. CASE q \notin 1..m
    <3>1. m < q /\ q <= m + Len(frame) /\ n + 1 \in 1..Len(sent')
      BY <1>1, <1>4, <1>6, <2>1, <2>3
    <3> QED BY <1>7, <3>1
  <2> QED BY <2>2, <2>3
<1>14. Whole'
  <2>1. stream'[Len(stream')] \in Endings
    <3>1. Len(frame) \in 1..Len(frame)
      BY <1>1, <1>2
    <3> QED BY <1>2, <1>4, <3>1 DEF EndsOnce
  <2>2. ASSUME NEW k \in 1..Len(sent')
        PROVE  /\ Piece(k)' # <<>>
               /\ From(k)' > 0 => Piece(k)' \in Frames /\ stream'[From(k)'] \in Endings
               /\ ~damaged' => Piece(k)' \in Frames
    <3>1. CASE k \in 1..n
      <4>1. /\ Piece(k) # <<>>
            /\ From(k) > 0 => Piece(k) \in Frames /\ stream[From(k)] \in Endings
            /\ ~damaged => Piece(k) \in Frames
        BY <1>n, <3>1 DEF Row, Whole
      <4>2. From(k) > 0 => stream'[From(k)] = stream[From(k)]
        <5>1. From(k) > 0 => From(k) \in 1..m
          BY <1>1, <1>10, <3>1
        <5> QED BY <1>4, <5>1
      <4> QED BY <1>3, <1>8, <3>1, <4>1, <4>2
    <3>2. CASE k = n + 1
      <4>1. m > 0 => stream'[m] \in Endings
        <5>1. m > 0 => m \in 1..m /\ stream[m] \in Endings
          BY <1>m, <1>1 DEF Row, Whole
        <5> QED BY <1>4, <5>1
      <4> QED BY <1>2, <1>7, <3>2, <4>1
    <3> QED BY <1>9, <3>1, <3>2
  <2> QED BY <2>1, <2>2 DEF Whole
<1> QED BY <1>11, <1>12, <1>13, <1>14 DEF Row

-----------------------------------------------------------------------------
(* The end of the stream *)

LEMMA Window ==
  ASSUME TypeOK, Suffix
  PROVE  /\ Base \in Nat /\ Base + Len(readBuffer) + Len(tty) + Len(rest) = Len(stream)
         /\ Base + Len(readBuffer) <= Len(stream)
         /\ \A p \in 1..Len(readBuffer) : Base + p \in 1..Len(stream) /\ readBuffer[p] = stream[Base + p]
<1>1. /\ Base \in Int /\ Base >= 0 /\ Len(readBuffer) \in Nat /\ Len(tty) \in Nat /\ Len(rest) \in Nat
      /\ Len(stream) \in Nat
  BY Typed DEF Suffix
<1>2. Base + Len(readBuffer) + Len(tty) + Len(rest) = Len(stream)
  BY <1>1 DEF Base
<1>3. \A p \in 1..Len(readBuffer) : readBuffer[p] = stream[Base + p]
  BY DEF Suffix
<1>4. \A p \in 1..Len(readBuffer) : Base + p \in 1..Len(stream)
  BY <1>1, <1>2
<1>5. Base \in Nat /\ Base + Len(readBuffer) <= Len(stream)
  BY <1>1, <1>2
<1> QED BY <1>2, <1>3, <1>4, <1>5

LEMMA SuffixUnchanged ==
  ASSUME Suffix, UNCHANGED <<readBuffer, serial>> PROVE Suffix' /\ Base' = Base
BY DEF Suffix, Base, serial

LEMMA InitSuffix == Init => Suffix
<1> SUFFICES ASSUME Init PROVE Suffix
  OBVIOUS
<1>1. readBuffer = <<>> /\ tty = <<>> /\ stream = rest
  BY DEF Init
<1>2. Len(readBuffer) = 0 /\ Len(tty) = 0 /\ Len(rest) \in Nat
  BY <1>1, EmptySeq, InitTypes, Typed
<1>3. Base = 0
  BY <1>1, <1>2 DEF Base
<1>4. \A p \in 1..Len(rest) : Base + Len(readBuffer) + Len(tty) + p = p
  BY <1>2, <1>3
<1> QED BY <1>1, <1>2, <1>3, <1>4 DEF Suffix

LEMMA StartSuffix ==
  ASSUME TypeOK, Suffix, NEW frame \in Frames, StartFrame(frame) PROVE Suffix' /\ Base' = Base
<1>1. /\ Len(stream') = Len(stream) + Len(frame)
      /\ \A q \in 1..Len(stream) : stream'[q] = stream[q]
      /\ \A i \in 1..Len(frame) : stream'[Len(stream) + i] = frame[i]
  BY StartFacts
<1>2. rest = <<>> /\ rest' = frame /\ UNCHANGED <<readBuffer, tty>>
  BY DEF StartFrame
<1>3. /\ Len(rest) = 0 /\ Len(frame) \in Nat /\ Len(readBuffer) \in Nat /\ Len(tty) \in Nat
      /\ Len(stream) \in Nat
  BY <1>2, EmptySeq, Typed, FramesAssumption, LenProperties
<1>4. Base \in Nat /\ Base + Len(readBuffer) + Len(tty) = Len(stream)
  <2>1. Base \in Nat /\ Base + Len(readBuffer) + Len(tty) + Len(rest) = Len(stream)
    BY Window
  <2> QED BY <1>3, <2>1
<1>5. Base' = Base
  <2>1. Base' = Len(stream) + Len(frame) - (Len(readBuffer) + Len(tty) + Len(frame))
    BY <1>1, <1>2 DEF Base
  <2>2. Base = Len(stream) - (Len(readBuffer) + Len(tty) + 0)
    BY <1>3 DEF Base
  <2> QED BY <1>3, <2>1, <2>2
<1>6. ASSUME NEW p \in 1..Len(readBuffer) PROVE readBuffer[p] = stream'[Base + p]
  BY <1>1, Window
<1>7. ASSUME NEW p \in 1..Len(tty) PROVE tty[p] = stream'[Base + Len(readBuffer) + p]
  <2> DEFINE q == Base + Len(readBuffer) + p
  <2>1. q \in 1..Len(stream)
    BY <1>3, <1>4
  <2>2. tty[p] = stream[q]
    BY DEF Suffix
  <2> HIDE DEF q
  <2>3. tty[p] = stream'[q]
    BY <1>1, <2>1, <2>2
  <2> QED BY <2>3 DEF q
<1>8. ASSUME NEW p \in 1..Len(frame) PROVE frame[p] = stream'[Base + Len(readBuffer) + Len(tty) + p]
  BY <1>1, <1>4
<1>9. Base' >= 0
  BY <1>4, <1>5
<1> QED BY <1>2, <1>5, <1>6, <1>7, <1>8, <1>9 DEF Suffix

LEMMA SendSuffix ==
  ASSUME TypeOK, Suffix, SendByte PROVE Suffix' /\ Base' = Base
<1>1. /\ rest # <<>> /\ tty' = Append(tty, Head(rest)) /\ rest' = Tail(rest)
      /\ UNCHANGED <<readBuffer, stream>>
  BY DEF SendByte
<1>2. /\ rest \in Seq(Byte) /\ tty \in Seq(Byte) /\ Len(rest) \in Nat /\ Len(tty) \in Nat
      /\ Len(readBuffer) \in Nat /\ Len(stream) \in Nat
  BY Typed DEF TypeOK
<1>3. /\ Len(rest) >= 1 /\ Head(rest) = rest[1] /\ Head(rest) \in Byte
      /\ Len(rest') = Len(rest) - 1 /\ \A i \in 1..(Len(rest) - 1) : rest'[i] = rest[i + 1]
  BY <1>1, <1>2, HeadTailProperties, EmptySeq
<1>4. /\ Len(tty') = Len(tty) + 1 /\ tty'[Len(tty) + 1] = rest[1]
      /\ \A i \in 1..Len(tty) : tty'[i] = tty[i]
  BY <1>1, <1>2, <1>3, AppendProperties
<1>5. Base' = Base
  <2>1. Base' = Len(stream) - (Len(readBuffer) + (Len(tty) + 1) + (Len(rest) - 1))
    BY <1>1, <1>3, <1>4 DEF Base
  <2> QED BY <1>2, <2>1 DEF Base
<1>6. Base \in Nat
  BY Window
<1>7. /\ \A p \in 1..Len(tty) : tty[p] = stream[Base + Len(readBuffer) + p]
      /\ \A p \in 1..Len(rest) : rest[p] = stream[Base + Len(readBuffer) + Len(tty) + p]
  BY DEF Suffix
<1>8. ASSUME NEW p \in 1..(Len(tty) + 1) PROVE tty'[p] = stream[Base + Len(readBuffer) + p]
  <2>1. CASE p \in 1..Len(tty)
    BY <1>4, <1>7, <2>1
  <2>2. CASE p = Len(tty) + 1
    <3>1. rest[1] = stream[Base + Len(readBuffer) + Len(tty) + 1]
      BY <1>3, <1>7
    <3>2. Base + Len(readBuffer) + Len(tty) + 1 = Base + Len(readBuffer) + p
      BY <1>2, <1>6, <2>2
    <3> QED BY <1>4, <2>2, <3>1, <3>2
  <2> QED BY <1>2, <2>1, <2>2
<1>9. ASSUME NEW p \in 1..(Len(rest) - 1)
      PROVE  rest'[p] = stream[Base + Len(readBuffer) + (Len(tty) + 1) + p]
  <2>1. p + 1 \in 1..Len(rest)
    BY <1>2
  <2>2. Base + Len(readBuffer) + Len(tty) + (p + 1) = Base + Len(readBuffer) + (Len(tty) + 1) + p
    BY <1>2, <1>6
  <2> QED BY <1>3, <1>7, <2>1, <2>2
<1>10. Base' >= 0 /\ \A p \in 1..Len(readBuffer) : readBuffer[p] = stream[Base + p]
  BY <1>5, <1>6, Window
<1> QED BY <1>1, <1>3, <1>4, <1>5, <1>8, <1>9, <1>10 DEF Suffix

LEMMA FlushSuffix ==
  ASSUME TypeOK, Suffix, Scanned, Flush PROVE Suffix' /\ Base' = Base + Len(tty)
<1>1. readBuffer = <<>> /\ tty' = <<>> /\ UNCHANGED <<readBuffer, rest, stream>>
  BY DEF Flush, Scanned
<1>2. /\ Len(readBuffer) = 0 /\ Len(tty') = 0 /\ Len(tty) \in Nat /\ Len(rest) \in Nat
      /\ Len(stream) \in Nat
  BY <1>1, EmptySeq, Typed
<1>3. Base' = Base + Len(tty)
  <2>1. Base' = Len(stream) - (0 + 0 + Len(rest)) /\ Base = Len(stream) - (0 + Len(tty) + Len(rest))
    BY <1>1, <1>2 DEF Base
  <2> QED BY <1>2, <2>1
<1>4. Base \in Nat
  BY Window
<1>5. ASSUME NEW p \in 1..Len(rest) PROVE rest[p] = stream[Base' + Len(readBuffer') + Len(tty') + p]
  <2>1. rest[p] = stream[Base + Len(readBuffer) + Len(tty) + p]
    BY DEF Suffix
  <2>2. Base + Len(readBuffer) + Len(tty) + p = Base' + Len(readBuffer') + Len(tty') + p
    BY <1>1, <1>2, <1>3, <1>4
  <2> QED BY <2>1, <2>2
<1>6. Base' >= 0 /\ Len(readBuffer') = 0
  BY <1>1, <1>2, <1>3, <1>4
<1> QED BY <1>1, <1>2, <1>3, <1>5, <1>6 DEF Suffix

LEMMA ReadSuffix ==
  ASSUME TypeOK, Suffix, Read
  PROVE  Suffix' /\ (OverRun => Base' = Base + Len(readBuffer)) /\ (~OverRun => Base' = Base)
<1>1. UNCHANGED <<rest, stream>>
  BY DEF Read
<1>2. /\ Len(readBuffer) \in Nat /\ Len(tty) \in Nat /\ Len(rest) \in Nat /\ Len(stream) \in Nat
      /\ Base \in Nat
  BY Typed, Window
<1>3. /\ \A p \in 1..Len(readBuffer) : readBuffer[p] = stream[Base + p]
      /\ \A p \in 1..Len(tty) : tty[p] = stream[Base + Len(readBuffer) + p]
      /\ \A p \in 1..Len(rest) : rest[p] = stream[Base + Len(readBuffer) + Len(tty) + p]
  BY DEF Suffix
<1>4. CASE OverRun
  <2>1. PICK r, t : r = Len(readBuffer') /\ t = Len(tty')
    OBVIOUS
  <2>2. /\ r \in Nat /\ t \in Nat /\ t = Len(tty) - r
        /\ \A p \in 1..r : readBuffer'[p] = tty[p]
        /\ \A p \in 1..t : tty'[p] = tty[r + p]
    BY <1>4, <2>1, ReadOverRun
  <2>3. Base' = Base + Len(readBuffer)
    <3>1. Base' = Len(stream) - (r + t + Len(rest))
      BY <1>1, <2>1 DEF Base
    <3> QED BY <1>2, <2>2, <3>1 DEF Base
  <2>4. ASSUME NEW p \in 1..r PROVE readBuffer'[p] = stream[Base + Len(readBuffer) + p]
    <3>1. p \in 1..Len(tty)
      BY <1>2, <2>2
    <3> QED BY <1>3, <2>2, <3>1
  <2>5. ASSUME NEW p \in 1..t PROVE tty'[p] = stream[(Base + Len(readBuffer)) + r + p]
    <3>1. r + p \in 1..Len(tty) /\ Base + Len(readBuffer) + (r + p) = (Base + Len(readBuffer)) + r + p
      BY <1>2, <2>2
    <3>2. tty[r + p] = stream[Base + Len(readBuffer) + (r + p)]
      BY <1>3, <3>1
    <3> QED BY <2>2, <3>1, <3>2
  <2>6. ASSUME NEW p \in 1..Len(rest) PROVE rest[p] = stream[(Base + Len(readBuffer)) + r + t + p]
    <3>1. Base + Len(readBuffer) + Len(tty) + p = (Base + Len(readBuffer)) + r + t + p
      BY <1>2, <2>2
    <3> QED BY <1>3, <3>1
  <2>7. Base' >= 0
    BY <1>2, <2>3
  <2>8. Suffix'
    BY <1>1, <2>1, <2>3, <2>4, <2>5, <2>6, <2>7 DEF Suffix
  <2> QED BY <1>4, <2>3, <2>8
<1>5. CASE ~OverRun
  <2>1. /\ Len(readBuffer') = Len(readBuffer) + Len(tty) /\ Len(tty') = 0
        /\ \A p \in 1..Len(readBuffer) : readBuffer'[p] = readBuffer[p]
        /\ \A p \in 1..Len(tty) : readBuffer'[Len(readBuffer) + p] = tty[p]
    BY <1>5, ReadAll
  <2>2. Base' = Base
    <3>1. Base' = Len(stream) - ((Len(readBuffer) + Len(tty)) + 0 + Len(rest))
      BY <1>1, <2>1 DEF Base
    <3> QED BY <1>2, <3>1 DEF Base
  <2>3. ASSUME NEW p \in 1..(Len(readBuffer) + Len(tty)) PROVE readBuffer'[p] = stream[Base + p]
    <3>1. CASE p \in 1..Len(readBuffer)
      BY <1>3, <2>1, <3>1
    <3>2. CASE p \notin 1..Len(readBuffer)
      <4>1. PICK q \in 1..Len(tty) : p = Len(readBuffer) + q
        <5>1. p - Len(readBuffer) \in 1..Len(tty) /\ p = Len(readBuffer) + (p - Len(readBuffer))
          BY <1>2, <3>2
        <5> QED BY <5>1
      <4>2. Base + Len(readBuffer) + q = Base + p
        BY <1>2, <4>1
      <4> QED BY <1>3, <2>1, <4>1, <4>2
    <3> QED BY <3>1, <3>2
  <2>4. ASSUME NEW p \in 1..Len(rest)
        PROVE  rest[p] = stream[Base + (Len(readBuffer) + Len(tty)) + 0 + p]
    <3>1. Base + Len(readBuffer) + Len(tty) + p = Base + (Len(readBuffer) + Len(tty)) + 0 + p
      BY <1>2
    <3> QED BY <1>3, <3>1
  <2>5. Base' >= 0
    BY <1>2, <2>2
  <2>6. Suffix'
    BY <1>1, <2>1, <2>2, <2>3, <2>4, <2>5 DEF Suffix
  <2> QED BY <1>5, <2>2, <2>6
<1> QED BY <1>4, <1>5

LEMMA MoveSuffix ==
  ASSUME TypeOK, Suffix, MoveRest PROVE Suffix' /\ Base' = Base + lastEnding
<1>1. UNCHANGED <<tty, rest, stream>>
  BY DEF MoveRest, serial
<1>2. /\ Len(readBuffer) \in Nat /\ Len(tty) \in Nat /\ Len(rest) \in Nat /\ Len(stream) \in Nat
      /\ Base \in Nat /\ lastEnding \in Nat
  BY Typed, Window
<1>3. /\ Len(readBuffer') = Len(readBuffer) - lastEnding /\ lastEnding <= Len(readBuffer)
      /\ \A p \in 1..(Len(readBuffer) - lastEnding) : readBuffer'[p] = readBuffer[lastEnding + p]
  BY MoveFacts
<1>4. Base' = Base + lastEnding
  <2>1. Base' = Len(stream) - ((Len(readBuffer) - lastEnding) + Len(tty) + Len(rest))
    BY <1>1, <1>3 DEF Base
  <2> QED BY <1>2, <2>1 DEF Base
<1>5. /\ \A p \in 1..Len(readBuffer) : readBuffer[p] = stream[Base + p]
      /\ \A p \in 1..Len(tty) : tty[p] = stream[Base + Len(readBuffer) + p]
      /\ \A p \in 1..Len(rest) : rest[p] = stream[Base + Len(readBuffer) + Len(tty) + p]
  BY DEF Suffix
<1>6. ASSUME NEW p \in 1..(Len(readBuffer) - lastEnding)
      PROVE  readBuffer'[p] = stream[(Base + lastEnding) + p]
  <2>1. lastEnding + p \in 1..Len(readBuffer) /\ Base + (lastEnding + p) = (Base + lastEnding) + p
    BY <1>2, <1>3
  <2>2. readBuffer[lastEnding + p] = stream[Base + (lastEnding + p)]
    BY <1>5, <2>1
  <2> QED BY <1>3, <2>1, <2>2
<1>7. ASSUME NEW p \in 1..Len(tty)
      PROVE  tty[p] = stream[(Base + lastEnding) + (Len(readBuffer) - lastEnding) + p]
  <2>1. Base + Len(readBuffer) + p = (Base + lastEnding) + (Len(readBuffer) - lastEnding) + p
    BY <1>2
  <2> QED BY <1>5, <2>1
<1>8. ASSUME NEW p \in 1..Len(rest)
      PROVE  rest[p] = stream[(Base + lastEnding) + (Len(readBuffer) - lastEnding) + Len(tty) + p]
  <2>1. Base + Len(readBuffer) + Len(tty) + p
          = (Base + lastEnding) + (Len(readBuffer) - lastEnding) + Len(tty) + p
    BY <1>2
  <2> QED BY <1>5, <2>1
<1>9. Base' >= 0
  BY <1>2, <1>4
<1>10. Suffix'
  BY <1>1, <1>3, <1>4, <1>6, <1>7, <1>8, <1>9 DEF Suffix
<1> QED BY <1>4, <1>10

-----------------------------------------------------------------------------
(* Frames that are not disturbed *)

LEMMA SameFrames ==
  ASSUME sent' = sent
  PROVE  Len(sent') = Len(sent) /\ \A k : /\ Piece(k)' = Piece(k) /\ From(k)' = From(k)
                                          /\ EndOf(k)' = EndOf(k) /\ CallFor(k)' = CallFor(k)
BY DEF Piece, From, EndOf, CallFor

LEMMA HandledKept ==
  ASSUME TypeOK, Suffix, Handled, handled' = handled,
         Len(sent') \in Nat, Len(sent) <= Len(sent'), \A k \in 1..Len(sent) : sent'[k] = sent[k],
         Base' \in Nat, lastEnding' \in Nat, Base + lastEnding <= Base' + lastEnding'
  PROVE  Handled'
<1>1. /\ Len(handled) \in Nat /\ Len(sent) \in Nat /\ lastEnding \in Nat /\ Base \in Nat
      /\ handled \in Seq([frame : Seq(Byte), upto : Nat])
  BY Typed, Window DEF TypeOK
<1>2. ASSUME NEW i \in 1..Len(handled)
      PROVE  /\ handled[i].upto <= Base' + lastEnding'
             /\ \E k \in 1..Len(sent') : Matters(Piece(k)') /\ handled[i] = CallFor(k)'
  <2>1. handled[i].upto \in Nat
    <3>1. handled[i] \in [frame : Seq(Byte), upto : Nat]
      BY <1>1, <1>2, ElementOfSeq
    <3> QED BY <3>1
  <2>2. handled[i].upto <= Base + lastEnding
    BY DEF Handled
  <2>3. handled[i].upto <= Base' + lastEnding'
    <3>1. \A u, v, w \in Nat : u <= v /\ v <= w => u <= w
      OBVIOUS
    <3>2. \A u, v \in Nat : u + v \in Nat
      OBVIOUS
    <3>3. Base + lastEnding \in Nat /\ Base' + lastEnding' \in Nat
      BY <1>1, <3>2
    <3> QED BY <2>1, <2>2, <3>1, <3>3
  <2>4. PICK k \in 1..Len(sent) : Matters(Piece(k)) /\ handled[i] = CallFor(k)
    BY DEF Handled
  <2>5. k \in 1..Len(sent') /\ Piece(k)' = Piece(k) /\ CallFor(k)' = CallFor(k)
    <3>1. k \in 1..Len(sent')
      BY <1>1
    <3> QED BY <3>1 DEF Piece, CallFor, EndOf
  <2> QED BY <2>3, <2>4, <2>5
<1>3. \A i, j \in 1..Len(handled) : i < j => handled[i].upto < handled[j].upto
  BY DEF Handled
<1> QED BY <1>2, <1>3 DEF Handled, Matters

LEMMA StartStep ==
  ASSUME ParserInv, NEW frame \in Frames, StartFrame(frame) PROVE ParserInv'
<1>1. TypeOK /\ Row /\ Suffix /\ Scanned /\ Handled /\ Undamaged
  BY DEF ParserInv
<1>2. TypeOK' /\ Row' /\ Suffix' /\ Base' = Base
  BY <1>1, BoardTypes, StartRow, StartSuffix
<1>3. UNCHANGED <<reader, readBuffer, pos, lastEnding, handled, damaged>>
  BY DEF StartFrame
<1>4. Scanned'
  BY <1>1, <1>3 DEF Scanned
<1>5. PICK n, m : n = Len(sent) /\ m = Len(stream)
  OBVIOUS
<1>6. /\ n \in Nat /\ m \in Nat /\ Len(frame) \in Nat /\ Len(frame) >= 1 /\ Base \in Nat
      /\ lastEnding \in Nat /\ Base + lastEnding <= m
  <2>1. Len(frame) \in Nat /\ frame # <<>> /\ frame \in Seq(Byte)
    BY FramesAssumption, LenProperties DEF EndsOnce
  <2>2. Len(frame) >= 1
    BY <2>1, EmptySeq
  <2>3. /\ n \in Nat /\ m \in Nat /\ Base \in Nat /\ Base + Len(readBuffer) <= m
        /\ Len(readBuffer) \in Nat /\ pos \in Nat /\ lastEnding \in Nat
        /\ lastEnding <= pos - 1 /\ pos <= Len(readBuffer) + 1
    BY <1>1, <1>5, Typed, Window
  <2> QED BY <2>1, <2>2, <2>3
<1>7. /\ Len(sent') = n + 1 /\ \A k \in 1..n : sent'[k] = sent[k]
      /\ sent'[n + 1] = [frame |-> frame, from |-> m]
      /\ \A q \in 1..m : stream'[q] = stream[q]
  BY <1>1, <1>5, StartFacts
<1>8. Handled'
  <2>1. /\ Len(sent') \in Nat /\ Len(sent) <= Len(sent')
        /\ Base' \in Nat /\ lastEnding' \in Nat /\ Base + lastEnding <= Base' + lastEnding'
    BY <1>2, <1>3, <1>5, <1>6, <1>7
  <2> QED BY <1>1, <1>3, <1>5, <1>7, <2>1, HandledKept
<1>9. Undamaged'
  <2>1. SUFFICES ASSUME ~damaged
                 PROVE  /\ Base > 0 => stream'[Base] \in Endings
                        /\ reader # "analysing" => \A p \in 1..Len(readBuffer) : readBuffer[p] \notin Endings
                        /\ \A k \in 1..Len(sent') :
                             Matters(Piece(k)') /\ EndOf(k)' <= Base + lastEnding =>
                               \E i \in 1..Len(handled) : handled[i] = CallFor(k)'
    BY <1>2, <1>3 DEF Undamaged, Matters
  <2>2. Base > 0 => stream'[Base] \in Endings
    <3>1. Base > 0 => stream[Base] \in Endings /\ Base \in 1..m
      BY <1>1, <1>6, <2>1 DEF Undamaged
    <3> QED BY <1>7, <3>1
  <2>3. reader # "analysing" => \A p \in 1..Len(readBuffer) : readBuffer[p] \notin Endings
    BY <1>1, <2>1 DEF Undamaged
  <2>4. ASSUME NEW k \in 1..Len(sent'), Matters(Piece(k)'), EndOf(k)' <= Base + lastEnding
        PROVE  \E i \in 1..Len(handled) : handled[i] = CallFor(k)'
    <3>1. CASE k \in 1..n
      <4>1. Piece(k)' = Piece(k) /\ EndOf(k)' = EndOf(k) /\ CallFor(k)' = CallFor(k)
        BY <1>7, <3>1 DEF Piece, EndOf, CallFor
      <4> QED BY <1>1, <1>5, <2>1, <2>4, <3>1, <4>1 DEF Undamaged
    <3>2. CASE k = n + 1
      <4>1. EndOf(k)' = m + Len(frame)
        BY <1>7, <3>2 DEF EndOf
      <4> QED BY <1>6, <2>4, <4>1
    <3> QED BY <1>6, <1>7, <3>1, <3>2
  <2> QED BY <2>2, <2>3, <2>4
<1> QED BY <1>2, <1>4, <1>8, <1>9 DEF ParserInv

LEMMA SendStep == ASSUME ParserInv, SendByte PROVE ParserInv'
<1>1. TypeOK /\ Row /\ Suffix /\ Scanned /\ Handled /\ Undamaged
  BY DEF ParserInv
<1>2. TypeOK' /\ Suffix' /\ Base' = Base
  BY <1>1, BoardTypes, SendSuffix
<1>3. UNCHANGED <<reader, readBuffer, pos, lastEnding, stream, sent, handled, damaged>>
  BY DEF SendByte
<1>4. Row'
  BY <1>1, <1>3, RowUnchanged
<1>5. Scanned' /\ Handled' /\ Undamaged'
  BY <1>1, <1>2, <1>3, SameFrames DEF Scanned, Handled, Undamaged
<1> QED BY <1>2, <1>4, <1>5 DEF ParserInv

LEMMA FlushStep == ASSUME ParserInv, Flush PROVE ParserInv'
<1>1. TypeOK /\ Row /\ Suffix /\ Scanned /\ Handled /\ Undamaged
  BY DEF ParserInv
<1>2. TypeOK' /\ Suffix' /\ Base' = Base + Len(tty)
  <2>1. Base >= 0
    BY <1>1 DEF Suffix
  <2> QED BY <1>1, <2>1, ReaderTypes, FlushSuffix
<1>3. /\ UNCHANGED <<readBuffer, pos, lastEnding, stream, sent, handled>>
      /\ reader = "starting" /\ reader' = "waiting" /\ damaged' = (damaged \/ tty # <<>>)
  BY DEF Flush
<1>4. Row'
  BY <1>1, <1>3, RowUnchanged
<1>5. Scanned'
  BY <1>1, <1>3 DEF Scanned
<1>6. Base \in Nat /\ Len(tty) \in Nat /\ lastEnding \in Nat /\ Len(sent) \in Nat
  BY <1>1, Typed, Window
<1>7. Handled'
  <2>1. Base' \in Nat /\ Base + lastEnding <= Base' + lastEnding' /\ Len(sent) <= Len(sent')
    BY <1>2, <1>3, <1>6
  <2> QED BY <1>1, <1>3, <1>6, <2>1, HandledKept
<1>8. Undamaged'
  <2>1. CASE damaged'
    BY <2>1 DEF Undamaged
  <2>2. CASE ~damaged'
    <3>1. ~damaged /\ tty = <<>>
      BY <1>3, <2>2
    <3>2. Base' = Base
      <4>1. Len(tty) = 0
        BY <3>1, EmptySeq
      <4> QED BY <1>2, <1>6, <4>1
    <3> QED BY <1>1, <1>3, <2>2, <3>1, <3>2, SameFrames DEF Undamaged
  <2> QED BY <2>1, <2>2
<1> QED BY <1>2, <1>4, <1>5, <1>7, <1>8 DEF ParserInv

LEMMA ReadStep == ASSUME ParserInv, Read PROVE ParserInv'
<1>1. TypeOK /\ Row /\ Suffix /\ Scanned /\ Handled /\ Undamaged
  BY DEF ParserInv
<1>2. TypeOK'
  BY <1>1, ReaderTypes DEF Suffix
<1>3. Suffix' /\ (OverRun => Base' = Base + Len(readBuffer)) /\ (~OverRun => Base' = Base)
  BY <1>1, ReadSuffix
<1>4. /\ UNCHANGED <<stream, sent, handled>> /\ reader = "waiting" /\ reader' = "analysing"
      /\ pos' = 1 /\ lastEnding' = 0 /\ damaged' = (damaged \/ OverRun)
  BY DEF Read
<1>5. Row'
  BY <1>1, <1>4, RowUnchanged
<1>6. Scanned'
  <2>1. ~(lastEnding' > 0) /\ (lastEnding' + 1)..(pos' - 1) = {}
    BY <1>4
  <2> QED BY <1>4, <2>1 DEF Scanned
<1>7. Base \in Nat /\ Len(readBuffer) \in Nat /\ Len(sent) \in Nat /\ lastEnding = 0
  BY <1>1, <1>4, Typed, Window DEF Scanned
<1>8. Handled'
  <2>1. Base' \in Nat /\ Base <= Base'
    BY <1>3, <1>7
  <2>2. Base + lastEnding <= Base' + lastEnding' /\ lastEnding' \in Nat
    <3>1. lastEnding = 0 /\ lastEnding' = 0
      BY <1>4, <1>7
    <3>2. \A u, v \in Nat : u <= v => u + 0 <= v + 0
      OBVIOUS
    <3> QED BY <1>7, <2>1, <3>1, <3>2
  <2>3. Len(sent') \in Nat /\ Len(sent) <= Len(sent')
    BY <1>4, <1>7
  <2> QED BY <1>1, <1>4, <2>1, <2>2, <2>3, HandledKept
<1>9. Undamaged'
  <2>1. CASE damaged'
    BY <2>1 DEF Undamaged
  <2>2. CASE ~damaged'
    <3>1. ~damaged /\ Base' = Base /\ lastEnding' = lastEnding
      BY <1>3, <1>4, <1>7, <2>2
    <3> QED BY <1>1, <1>4, <3>1, SameFrames DEF Undamaged
  <2> QED BY <2>1, <2>2
<1> QED BY <1>2, <1>3, <1>5, <1>6, <1>8, <1>9 DEF ParserInv

-----------------------------------------------------------------------------
(* What AnalyseBuffer hands over *)

LEMMA PartIs ==
  ASSUME NEW S, NEW s \in Seq(S), NEW f \in Seq(S), NEW a \in Nat, NEW b \in Nat,
         1 <= a, a <= b, b <= Len(s), Len(f) = b - a + 1,
         \A i \in 1..Len(f) : s[a + i - 1] = f[i]
  PROVE  SubSeq(s, a, b) = f
<1>1. Len(s) \in Nat /\ \A i \in a..b : s[i] \in S
  BY LenProperties, ElementOfSeq
<1> DEFINE t == SubSeq(s, a, b)
<1>2. /\ t \in Seq(S) /\ Len(t) = IF a <= b THEN b - a + 1 ELSE 0
      /\ \A i \in 1..(b - a + 1) : t[i] = s[a + i - 1]
  BY <1>1, SubSeqProperties
<1> HIDE DEF t
<1>3. Len(t) = Len(f) /\ \A i \in 1..Len(t) : t[i] = f[i]
  BY <1>2
<1>4. t = f
  BY <1>2, <1>3, SeqEqual
<1> QED BY <1>4 DEF t

(* A byte of readBuffer_ with the frame it belongs to. *)
LEMMA ByteOf ==
  ASSUME TypeOK, Row, Suffix, NEW k \in 1..Len(sent), EndOf(k) = Base + pos, pos <= Len(readBuffer),
         NEW p \in 1..pos, Base + p > From(k)
  PROVE  /\ Base + p - From(k) \in 1..Len(Piece(k))
         /\ readBuffer[p] = Piece(k)[Base + p - From(k)]
<1>1. /\ Base \in Nat /\ pos \in Nat /\ From(k) \in Nat /\ Len(readBuffer) \in Nat
      /\ Len(Piece(k)) \in Nat /\ EndOf(k) = From(k) + Len(Piece(k))
  BY Typed, Window, PieceTyped
<1>2. p \in 1..Len(readBuffer)
  BY <1>1
<1>3. Base + p \in 1..Len(stream) /\ readBuffer[p] = stream[Base + p]
  BY <1>2, Window
<1>4. Base + p <= EndOf(k)
  BY <1>1
<1>5. stream[Base + p] = Piece(k)[Base + p - From(k)]
  <2>1. \A q \in 1..Len(stream) : From(k) < q /\ q <= EndOf(k) => stream[q] = Piece(k)[q - From(k)]
    BY PieceFacts
  <2> DEFINE q == Base + p
  <2>2. q \in 1..Len(stream) /\ From(k) < q /\ q <= EndOf(k)
    BY <1>1, <1>3, <1>4
  <2> HIDE DEF q
  <2>3. stream[q] = Piece(k)[q - From(k)]
    BY <2>1, <2>2
  <2> QED BY <1>1, <2>3 DEF q
<1>6. Base + p - From(k) \in 1..Len(Piece(k))
  BY <1>1, <1>4
<1> QED BY <1>3, <1>5, <1>6

(* The bytes between the beginning of a frame and the byte under the loop   *)
(* are the frame.                                                           *)
(* Byte i of a frame lies i behind the frame's beginning. *)
LEMMA ByteAt ==
  ASSUME NEW base \in Int, NEW begin \in Int, NEW from \in Int, NEW i \in Int, i >= 1,
         begin + 1 = base + from
  PROVE  base + (from + i - 1) > begin /\ base + (from + i - 1) - begin = i
OBVIOUS

LEMMA PartOf ==
  ASSUME TypeOK, Row, Suffix, NEW k \in 1..Len(sent), EndOf(k) = Base + pos, pos <= Len(readBuffer),
         NEW from \in Nat, 1 <= from, From(k) + 1 = Base + from
  PROVE  SubSeq(readBuffer, from, pos) = Piece(k) /\ from <= pos /\ Len(Piece(k)) = pos - from + 1
<1>1. /\ Base \in Nat /\ pos \in Nat /\ From(k) \in Nat /\ Len(readBuffer) \in Nat
      /\ Len(Piece(k)) \in Nat /\ Len(Piece(k)) >= 1 /\ EndOf(k) = From(k) + Len(Piece(k))
      /\ Piece(k) \in Seq(Byte) /\ readBuffer \in Seq(Byte)
  BY Typed, Window, PieceTyped, PieceFacts DEF TypeOK
<1>2. Len(Piece(k)) = pos - from + 1 /\ from <= pos
  <2>1. From(k) + Len(Piece(k)) = Base + pos
    BY <1>1
  <2> QED BY <1>1, <2>1
<1>3. ASSUME NEW i \in 1..Len(Piece(k)) PROVE readBuffer[from + i - 1] = Piece(k)[i]
  <2> DEFINE p == from + i - 1
  <2>1. p \in 1..pos
    BY <1>1, <1>2
  <2>4. Base + p > From(k) /\ Base + p - From(k) = i
    <3>1. Base \in Int /\ From(k) \in Int /\ from \in Int /\ i \in Int /\ i >= 1
      BY <1>1
    <3> QED BY <3>1, ByteAt
  <2> HIDE DEF p
  <2>2. readBuffer[p] = Piece(k)[Base + p - From(k)]
    BY <2>1, <2>4, ByteOf
  <2>3. readBuffer[p] = Piece(k)[i]
    BY <2>4, <2>2
  <2> QED BY <2>3 DEF p
<1>4. SubSeq(readBuffer, from, pos) = Piece(k)
  BY <1>1, <1>2, <1>3, PartIs
<1> QED BY <1>2, <1>4

(* A telegram is handed over from its STX to its ETX; the end of one whose  *)
(* beginning is lost is not.                                                *)
LEMMA TelegramCalls ==
  ASSUME TypeOK, Row, Suffix, Scanned, Undamaged, EndOfTelegram
  PROVE  \E k \in 1..Len(sent) :
           /\ EndOf(k) = Base + pos
           /\ \/ Matters(Piece(k)) /\ handled' = Append(handled, CallFor(k))
              \/ damaged /\ handled' = handled
<1>1. pos <= Len(readBuffer) /\ readBuffer[pos] = "ETX" /\ readBuffer[pos] \in Endings
  BY DEF EndOfTelegram, Endings
<1>2. PICK k \in 1..Len(sent) :
        /\ EndOf(k) = Base + pos
        /\ From(k) <= Base + lastEnding
        /\ lastEnding > 0 \/ ~damaged => From(k) = Base + lastEnding
  BY <1>1, CurrentFrame
<1>3. /\ Base \in Nat /\ pos \in Nat /\ 1 <= pos /\ lastEnding \in Nat /\ From(k) \in Nat
      /\ EndOf(k) \in Nat /\ Len(Piece(k)) \in Nat /\ EndOf(k) = From(k) + Len(Piece(k))
      /\ From(k) < EndOf(k)
  BY Typed, Window, PieceTyped, PieceFacts
<1>4. \A p \in 1..pos : Base + p > From(k) =>
         Base + p - From(k) \in 1..Len(Piece(k)) /\ readBuffer[p] = Piece(k)[Base + p - From(k)]
  BY <1>1, <1>2, ByteOf
<1>5. Piece(k)[Len(Piece(k))] = "ETX"
  <2>1. pos \in 1..pos /\ Base + pos > From(k) /\ Base + pos - From(k) = Len(Piece(k))
    BY <1>2, <1>3
  <2> QED BY <1>1, <1>4, <2>1
<1>6. Piece(k) \in Frames => Telegram(Piece(k))
  BY <1>5, PieceFacts DEF TextLine
<1>7. CASE Piece(k) \in Frames /\ From(k) >= Base
  <2>1. PICK from \in Nat : from = From(k) + 1 - Base /\ from >= 1
    BY <1>3, <1>7
  <2>2. From(k) + 1 = Base + from
    BY <1>3, <2>1
  <2>3. SubSeq(readBuffer, from, pos) = Piece(k) /\ from <= pos
    BY <1>1, <1>2, <2>1, <2>2, PartOf
  <2>4. Piece(k)[1] = "STX" /\ \A i \in 2..Len(Piece(k)) : Piece(k)[i] # "STX"
    BY <1>6, <1>7 DEF Telegram
  <2>5. readBuffer[from] = "STX"
    <3>1. from \in 1..pos
      BY <1>3, <2>1, <2>3
    <3>2. Base + from > From(k) /\ Base + from - From(k) = 1
      <4>1. \A f, g \in Nat : f + 1 = g => g > f /\ g - f = 1
        OBVIOUS
      <4>2. Base + from \in Nat
        BY <1>3
      <4> QED BY <1>3, <2>2, <4>1, <4>2
    <3> QED BY <1>4, <2>4, <3>1, <3>2
  <2>6. from \in 1..(pos - 1)
    <3>1. from # pos
      BY <1>1, <2>5
    <3> QED BY <1>3, <2>1, <2>3, <3>1
  <2>7. ASSUME NEW q \in (from + 1)..(pos - 1) PROVE readBuffer[q] # "STX"
    <3>1. q \in 1..pos /\ Base + q > From(k) /\ Base + q - From(k) >= 2
      <4> DEFINE i == q - from + 1
      <4>1. q \in 1..pos /\ i \in Int /\ i >= 2 /\ q = from + i - 1
        <5>1. from \in Nat /\ pos \in Nat /\ from >= 1
          BY <1>3, <2>1
        <5>2. q \in Int /\ q >= from + 1 /\ q <= pos - 1
          BY <5>1
        <5> QED BY <5>1, <5>2
      <4>2. Base \in Int /\ From(k) \in Int /\ from \in Int
        BY <1>3
      <4> HIDE DEF i
      <4>3. i >= 1
        BY <4>1
      <4>4. Base + (from + i - 1) > From(k) /\ Base + (from + i - 1) - From(k) = i
        BY <2>2, <4>1, <4>2, <4>3, ByteAt
      <4> QED BY <4>1, <4>4
    <3>2. Base + q - From(k) \in 1..Len(Piece(k)) /\ readBuffer[q] = Piece(k)[Base + q - From(k)]
      BY <1>4, <3>1
    <3>3. Base + q - From(k) \in 2..Len(Piece(k))
      BY <3>1, <3>2
    <3> QED BY <2>4, <3>2, <3>3
  <2>8. from \in LastStx
    BY <2>5, <2>6, <2>7 DEF LastStx
  <2>9. ASSUME NEW p \in LastStx PROVE p = from
    <3>1. /\ p \in 1..(pos - 1) /\ readBuffer[p] = "STX"
          /\ \A q \in (p + 1)..(pos - 1) : readBuffer[q] # "STX"
      BY DEF LastStx
    <3>2. p \notin (from + 1)..(pos - 1)
      BY <2>7, <3>1
    <3>3. from \notin (p + 1)..(pos - 1)
      BY <2>5, <3>1
    <3> QED BY <1>3, <2>6, <3>1, <3>2, <3>3
  <2>10. handled' = Call(from)
    <3>1. (\E p \in LastStx : handled' = Call(p)) \/ LastStx = {}
      BY DEF EndOfTelegram
    <3> QED BY <2>8, <2>9, <3>1
  <2>11. handled' = Append(handled, CallFor(k))
    BY <1>2, <2>3, <2>10 DEF Call, CallFor, Piece
  <2>12. Matters(Piece(k))
    BY <2>4 DEF Matters
  <2> QED BY <1>2, <2>11, <2>12
<1>8. CASE ~(Piece(k) \in Frames /\ From(k) >= Base)
  <2>1. ASSUME NEW p \in 1..(pos - 1) PROVE readBuffer[p] # "STX"
    <3>1. CASE Piece(k) \notin Frames
      <4>1. NoStx(Piece(k)) /\ From(k) = 0
        BY <3>1, PieceFacts
      <4>2. p \in 1..pos /\ Base + p > From(k)
        BY <1>3, <4>1
      <4> QED BY <1>4, <4>1, <4>2 DEF NoStx
    <3>2. CASE Piece(k) \in Frames
      <4>1. ~(From(k) >= Base)
        BY <1>8, <3>2
      <4>2. p \in 1..pos /\ Base + p > From(k) /\ Base + p - From(k) >= 2
        BY <1>3, <4>1
      <4>3. Base + p - From(k) \in 1..Len(Piece(k)) /\ readBuffer[p] = Piece(k)[Base + p - From(k)]
        BY <1>4, <4>2
      <4>4. Base + p - From(k) \in 2..Len(Piece(k))
        BY <4>2, <4>3
      <4> QED BY <1>6, <3>2, <4>3, <4>4 DEF Telegram
    <3> QED BY <3>1, <3>2
  <2>2. LastStx = {}
    BY <2>1 DEF LastStx
  <2>3. handled' = handled
    BY <2>2 DEF EndOfTelegram
  <2>4. damaged
    <3>1. SUFFICES ASSUME ~damaged PROVE FALSE
      OBVIOUS
    <3>2. From(k) = Base + lastEnding /\ Piece(k) \in Frames
      BY <1>2, <3>1 DEF Row, Whole
    <3> QED BY <1>3, <1>8, <3>2
  <2> QED BY <1>2, <2>3, <2>4
<1> QED BY <1>7, <1>8

(* A line is handed over when it is the command to switch off, and never    *)
(* because the beginning of a longer one is lost.                           *)
LEMMA LineCalls ==
  ASSUME TypeOK, Row, Suffix, Scanned, Undamaged, EndOfLine, lastEnding # pos - 1
  PROVE  \E k \in 1..Len(sent) :
           /\ EndOf(k) = Base + pos
           /\ \/ Matters(Piece(k)) /\ handled' = Append(handled, CallFor(k))
              \/ (damaged \/ ~Matters(Piece(k))) /\ handled' = handled
<1>1. /\ pos <= Len(readBuffer) /\ readBuffer[pos] = "LF" /\ readBuffer[pos] \in Endings
      /\ handled' = IF Text = <<"off">> THEN Call(lastEnding + 1) ELSE handled
  BY DEF EndOfLine, Endings
<1>2. PICK k \in 1..Len(sent) :
        /\ EndOf(k) = Base + pos
        /\ From(k) <= Base + lastEnding
        /\ lastEnding > 0 \/ ~damaged => From(k) = Base + lastEnding
  BY <1>1, CurrentFrame
<1>3. /\ Base \in Nat /\ pos \in Nat /\ 1 <= pos /\ lastEnding \in Nat /\ From(k) \in Nat
      /\ EndOf(k) \in Nat /\ Len(Piece(k)) \in Nat /\ EndOf(k) = From(k) + Len(Piece(k))
      /\ From(k) < EndOf(k) /\ Len(readBuffer) \in Nat /\ readBuffer \in Seq(Byte)
  BY Typed, Window, PieceTyped, PieceFacts DEF TypeOK
<1>4. \A p \in 1..pos : Base + p > From(k) =>
         Base + p - From(k) \in 1..Len(Piece(k)) /\ readBuffer[p] = Piece(k)[Base + p - From(k)]
  BY <1>1, <1>2, ByteOf
<1>5. Piece(k)[Len(Piece(k))] = "LF"
  <2>1. pos \in 1..pos /\ Base + pos > From(k) /\ Base + pos - From(k) = Len(Piece(k))
    BY <1>2, <1>3
  <2> QED BY <1>1, <1>4, <2>1
<1>6. /\ Len(Text) = IF lastEnding + 1 <= pos - 2 THEN pos - 2 - (lastEnding + 1) + 1 ELSE 0
      /\ \A i \in 1..(pos - 2 - (lastEnding + 1) + 1) : Text[i] = readBuffer[lastEnding + 1 + i - 1]
      /\ Text \in Seq(Byte)
  <2>1. \A i \in (lastEnding + 1)..(pos - 2) : readBuffer[i] \in Byte
    BY <1>1, <1>3, ElementOfSeq
  <2>2. lastEnding + 1 \in Int /\ pos - 2 \in Int
    BY <1>3
  <2> QED BY <2>1, <2>2, SubSeqProperties DEF Text
<1>7. CASE Text = <<"off">>
  <2>1. pos = lastEnding + 3 /\ readBuffer[lastEnding + 1] = "off"
    <3>1. Len(Text) = 1 /\ Text[1] = "off"
      BY <1>7
    <3>2. pos = lastEnding + 3
      <4>1. PICK l : l = Len(Text)
        OBVIOUS
      <4>2. l = 1 /\ l = IF lastEnding + 1 <= pos - 2 THEN pos - 2 - (lastEnding + 1) + 1 ELSE 0
        BY <1>6, <3>1, <4>1
      <4> QED BY <1>3, <4>2
    <3>3. 1 \in 1..(pos - 2 - (lastEnding + 1) + 1) /\ lastEnding + 1 + 1 - 1 = lastEnding + 1
      BY <1>3, <3>2
    <3> QED BY <1>6, <3>1, <3>2, <3>3
  <2>2. Len(Piece(k)) = 3 + (Base + lastEnding - From(k))
    BY <1>2, <1>3, <2>1
  <2>3. From(k) = Base + lastEnding
    <3>1. SUFFICES ASSUME From(k) # Base + lastEnding PROVE FALSE
      OBVIOUS
    <3>2. Len(Piece(k)) > 3
      BY <1>2, <1>3, <2>2, <3>1
    <3>3. lastEnding + 1 \in 1..pos /\ Base + (lastEnding + 1) > From(k)
          /\ Base + (lastEnding + 1) - From(k) = Len(Piece(k)) - 2
      <4>1. lastEnding + 1 \in 1..pos
        BY <1>3, <2>1
      <4>2. Base + (lastEnding + 1) > From(k)
        <5>1. \A b, l, f \in Int : f <= b + l => b + (l + 1) > f
          OBVIOUS
        <5> QED BY <1>2, <1>3, <5>1
      <4>3. Base + (lastEnding + 1) - From(k) = Len(Piece(k)) - 2
        <5>1. \A b, l, f, n \in Int : n = 3 + (b + l - f) => b + (l + 1) - f = n - 2
          OBVIOUS
        <5> QED BY <1>3, <2>2, <5>1
      <4> QED BY <4>1, <4>2, <4>3
    <3>4. Piece(k)[Len(Piece(k)) - 2] = "off"
      BY <1>4, <2>1, <3>3
    <3> QED BY <1>5, <3>2, <3>4, PieceFacts DEF OffAlone
  <2>4. Len(Piece(k)) = 3
    BY <1>3, <2>2, <2>3
  <2>5. From(k) + 1 = Base + (lastEnding + 1) /\ lastEnding + 1 \in Nat /\ 1 <= lastEnding + 1
    BY <1>3, <2>3
  <2>6. SubSeq(readBuffer, lastEnding + 1, pos) = Piece(k)
    BY <1>1, <1>2, <2>5, PartOf
  <2>7. handled' = Append(handled, CallFor(k))
    BY <1>1, <1>2, <1>7, <2>6 DEF Call, CallFor, Piece
  <2>8. Piece(k)[1] = "off"
    <3>1. lastEnding + 1 \in 1..pos /\ Base + (lastEnding + 1) > From(k)
          /\ Base + (lastEnding + 1) - From(k) = 1
      BY <1>3, <2>1, <2>3
    <3> QED BY <1>4, <2>1, <3>1
  <2>9. Matters(Piece(k))
    BY <1>5, <2>4, <2>8 DEF Matters
  <2> QED BY <1>2, <2>7, <2>9
<1>8. CASE Text # <<"off">>
  <2>1. handled' = handled
    BY <1>1, <1>8
  <2>2. damaged \/ ~Matters(Piece(k))
    <3>1. SUFFICES ASSUME ~damaged, Matters(Piece(k)) PROVE FALSE
      OBVIOUS
    <3>2. From(k) = Base + lastEnding /\ Piece(k) \in Frames
      BY <1>2, <3>1 DEF Row, Whole
    <3>3. Piece(k)[1] # "STX"
      <4>1. TextLine(Piece(k))
        BY <1>5, <3>2, PieceFacts DEF Telegram
      <4>2. 1 \in 1..Len(Piece(k))
        BY <1>3
      <4> QED BY <4>1, <4>2 DEF TextLine, NoStx
    <3>4. Len(Piece(k)) = 3 /\ Piece(k)[1] = "off"
      BY <3>1, <3>3 DEF Matters
    <3>5. pos = lastEnding + 3
      BY <1>2, <1>3, <3>2, <3>4
    <3>6. readBuffer[lastEnding + 1] = "off"
      <4>1. lastEnding + 1 \in 1..pos /\ Base + (lastEnding + 1) > From(k)
            /\ Base + (lastEnding + 1) - From(k) = 1
        BY <1>3, <3>2, <3>5
      <4> QED BY <1>4, <3>4, <4>1
    <3>7. Len(Text) = 1 /\ Text[1] = "off"
      <4>1. /\ pos - 2 - (lastEnding + 1) + 1 = 1 /\ lastEnding + 1 <= pos - 2
            /\ lastEnding + 1 + 1 - 1 = lastEnding + 1 /\ 1 \in 1..1
        BY <1>3, <3>5
      <4>2. Len(Text) = 1
        BY <1>6, <4>1
      <4>3. Text[1] = readBuffer[lastEnding + 1]
        BY <1>6, <4>1
      <4> QED BY <3>6, <4>2, <4>3
    <3>8. Text = <<"off">>
      BY <1>6, <3>7
    <3> QED BY <1>8, <3>8
  <2> QED BY <1>2, <2>1, <2>2
<1> QED BY <1>7, <1>8

-----------------------------------------------------------------------------
(* The steps of AnalyseBuffer *)

(* The byte under the loop ends frame k, and the frame is handled now if it *)
(* has to be.                                                               *)
LEMMA EndedStep ==
  ASSUME ParserInv, reader = "analysing", pos <= Len(readBuffer), readBuffer[pos] \in Endings,
         lastEnding' = pos, pos' = pos + 1, UNCHANGED <<reader, readBuffer, serial, damaged>>,
         NEW k \in 1..Len(sent), EndOf(k) = Base + pos,
         \/ Matters(Piece(k)) /\ handled' = Append(handled, CallFor(k))
         \/ (damaged \/ ~Matters(Piece(k))) /\ handled' = handled
  PROVE  Row' /\ Suffix' /\ Scanned' /\ Handled' /\ Undamaged'
<1>1. TypeOK /\ Row /\ Suffix /\ Scanned /\ Handled /\ Undamaged
  BY DEF ParserInv
<1>2. sent' = sent /\ stream' = stream
  BY DEF serial
<1>3. Row' /\ Suffix' /\ Base' = Base
  BY <1>1, <1>2, RowUnchanged, SuffixUnchanged
<1>4. /\ Base \in Nat /\ pos \in Nat /\ 1 <= pos /\ lastEnding \in Nat /\ lastEnding <= pos - 1
      /\ Len(readBuffer) \in Nat /\ Len(sent) \in Nat /\ Len(handled) \in Nat /\ Len(stream) \in Nat
  BY <1>1, Typed, Window
<1>5. Scanned'
  <2>1. (lastEnding' + 1)..(pos' - 1) = {} /\ lastEnding' > 0
    BY <1>4
  <2> QED BY <2>1 DEF Scanned
<1>6. handled \in Seq([frame : Seq(Byte), upto : Nat])
  BY <1>1 DEF TypeOK
<1>7. handled' = handled \/ (Matters(Piece(k)) /\ handled' = Append(handled, CallFor(k)))
  OBVIOUS
<1>8. /\ Len(handled) <= Len(handled') /\ Len(handled') \in Nat
      /\ \A i \in 1..Len(handled) : handled'[i] = handled[i]
      /\ \/ Len(handled') = Len(handled)
         \/ /\ Len(handled') = Len(handled) + 1 /\ Matters(Piece(k))
            /\ handled'[Len(handled) + 1] = CallFor(k)
  <2>1. CASE handled' = handled
    <3>1. Len(handled) <= Len(handled)
      BY <1>4
    <3> QED BY <1>4, <2>1, <3>1
  <2>2. CASE Matters(Piece(k)) /\ handled' = Append(handled, CallFor(k))
    <3>1. CallFor(k) \in [frame : Seq(Byte), upto : Nat]
      BY <1>1, PieceTyped DEF CallFor, Piece
    <3>2. /\ Len(handled') = Len(handled) + 1 /\ handled'[Len(handled) + 1] = CallFor(k)
          /\ \A i \in 1..Len(handled) : handled'[i] = handled[i]
      BY <1>6, <2>2, <3>1, AppendProperties
    <3>3. Len(handled) <= Len(handled) + 1 /\ Len(handled) + 1 \in Nat
      BY <1>4
    <3> QED BY <2>2, <3>2, <3>3
  <2> QED BY <1>7, <2>1, <2>2
<1>9. \A i \in 1..Len(handled) : /\ handled[i].upto \in Nat /\ handled[i].upto <= Base + lastEnding
                                 /\ handled[i].upto < Base + pos /\ handled[i].upto <= Base + pos
  <2> SUFFICES ASSUME NEW i \in 1..Len(handled)
               PROVE  /\ handled[i].upto \in Nat /\ handled[i].upto <= Base + lastEnding
                      /\ handled[i].upto < Base + pos /\ handled[i].upto <= Base + pos
    OBVIOUS
  <2>1. handled[i].upto \in Nat
    <3>1. handled[i] \in [frame : Seq(Byte), upto : Nat]
      BY <1>6, ElementOfSeq
    <3> QED BY <3>1
  <2>2. handled[i].upto <= Base + lastEnding
    BY <1>1 DEF Handled
  <2>3. \A u, b, l, p \in Nat : u <= b + l /\ l <= p - 1 => u < b + p /\ u <= b + p
    OBVIOUS
  <2> QED BY <1>4, <2>1, <2>2, <2>3
<1>10. CallFor(k).upto = Base + pos
  BY DEF CallFor
<1>11. \A i \in 1..Len(handled') : i \in 1..Len(handled) \/
         (i = Len(handled) + 1 /\ Matters(Piece(k)) /\ handled'[i] = CallFor(k))
  <2>1. CASE Len(handled') = Len(handled)
    BY <2>1
  <2>2. CASE Len(handled') # Len(handled)
    <3>1. /\ Len(handled') = Len(handled) + 1 /\ Matters(Piece(k))
          /\ handled'[Len(handled) + 1] = CallFor(k)
      BY <1>8, <2>2
    <3>2. \A i \in 1..(Len(handled) + 1) : i \in 1..Len(handled) \/ i = Len(handled) + 1
      BY <1>4
    <3> QED BY <3>1, <3>2
  <2> QED BY <2>1, <2>2
<1>12. Handled'
  <2>1. ASSUME NEW i \in 1..Len(handled')
        PROVE  /\ handled'[i].upto <= Base + pos
               /\ \E j \in 1..Len(sent) : Matters(Piece(j)) /\ handled'[i] = CallFor(j)
    <3>1. CASE i \in 1..Len(handled)
      BY <1>1, <1>8, <1>9, <3>1 DEF Handled
    <3>2. CASE i = Len(handled) + 1 /\ Matters(Piece(k)) /\ handled'[i] = CallFor(k)
      <4>1. Base + pos <= Base + pos
        BY <1>4
      <4> QED BY <1>10, <3>2, <4>1
    <3> QED BY <1>11, <3>1, <3>2
  <2>2. ASSUME NEW i \in 1..Len(handled'), NEW j \in 1..Len(handled'), i < j
        PROVE  handled'[i].upto < handled'[j].upto
    <3>1. i \in 1..Len(handled)
      <4>1. ~(i = Len(handled) + 1)
        BY <1>4, <1>8, <2>2
      <4> QED BY <1>11, <4>1
    <3>2. CASE j \in 1..Len(handled)
      BY <1>1, <1>8, <2>2, <3>1, <3>2 DEF Handled
    <3>3. CASE handled'[j] = CallFor(k)
      BY <1>8, <1>9, <1>10, <3>1, <3>3
    <3> QED BY <1>11, <3>2, <3>3
  <2>3. \A j : Piece(j)' = Piece(j) /\ CallFor(j)' = CallFor(j)
    BY <1>2 DEF Piece, CallFor, EndOf
  <2> QED BY <1>2, <1>3, <2>1, <2>2, <2>3 DEF Handled, Matters
<1>13. Undamaged'
  <2>1. SUFFICES ASSUME ~damaged
                 PROVE  /\ Base > 0 => stream[Base] \in Endings
                        /\ \A j \in 1..Len(sent) : Matters(Piece(j)) /\ EndOf(j) <= Base + pos =>
                             \E i \in 1..Len(handled') : handled'[i] = CallFor(j)
    <3>1. \A j : Piece(j)' = Piece(j) /\ EndOf(j)' = EndOf(j) /\ CallFor(j)' = CallFor(j)
      BY <1>2 DEF Piece, CallFor, EndOf
    <3> QED BY <1>2, <1>3, <3>1 DEF Undamaged, Matters
  <2>2. Base > 0 => stream[Base] \in Endings
    BY <1>1, <2>1 DEF Undamaged
  <2>3. ASSUME NEW j \in 1..Len(sent), Matters(Piece(j)), EndOf(j) <= Base + pos
        PROVE  \E i \in 1..Len(handled') : handled'[i] = CallFor(j)
    <3>1. CASE EndOf(j) <= Base + lastEnding
      <4>1. PICK i \in 1..Len(handled) : handled[i] = CallFor(j)
        BY <1>1, <2>1, <2>3, <3>1 DEF Undamaged
      <4>2. i \in 1..Len(handled') /\ handled'[i] = CallFor(j)
        <5>1. \A a, b \in Nat : a <= b => \A c \in 1..a : c \in 1..b
          OBVIOUS
        <5> QED BY <1>4, <1>8, <4>1, <5>1
      <4> QED BY <4>2
    <3>2. CASE ~(EndOf(j) <= Base + lastEnding)
      <4>1. EndOf(j) \in Nat /\ EndOf(j) <= Len(stream) /\ stream[EndOf(j)] \in Endings
        BY <1>1, PieceTyped, PieceFacts
      <4>2. EndOf(j) = Base + pos
        <5>1. PICK p \in Int : p = EndOf(j) - Base
          BY <1>4, <4>1
        <5>2. p \in (lastEnding + 1)..pos /\ EndOf(j) = Base + p
          BY <1>4, <2>3, <3>2, <4>1, <5>1
        <5>3. p \in 1..Len(readBuffer)
          BY <1>4, <5>2
        <5>4. readBuffer[p] \in Endings
          BY <1>1, <4>1, <5>2, <5>3, Window
        <5>5. p \notin (lastEnding + 1)..(pos - 1)
          BY <1>1, <5>4 DEF Scanned
        <5>6. p = pos
          BY <1>4, <5>2, <5>5
        <5> QED BY <5>2, <5>6
      <4>3. j = k
        BY <1>1, <4>2, OneEnd
      <4>4. handled' = Append(handled, CallFor(k))
        BY <2>1, <2>3, <4>3
      <4>5. Len(handled') # Len(handled)
        <5>1. CallFor(k) \in [frame : Seq(Byte), upto : Nat]
          BY <1>1, PieceTyped DEF CallFor, Piece
        <5>2. Len(handled') = Len(handled) + 1
          BY <1>6, <4>4, <5>1, AppendProperties
        <5> QED BY <1>4, <5>2
      <4>6. Len(handled') = Len(handled) + 1 /\ handled'[Len(handled) + 1] = CallFor(k)
        BY <1>8, <4>5
      <4>7. Len(handled) + 1 \in 1..(Len(handled) + 1)
        BY <1>4
      <4> QED BY <4>3, <4>6, <4>7
    <3> QED BY <3>1, <3>2
  <2> QED BY <2>2, <2>3
<1> QED BY <1>3, <1>5, <1>12, <1>13

LEMMA AnalyseStep == ASSUME ParserInv, AnalyseBuffer PROVE ParserInv'
<1>1. TypeOK /\ Row /\ Suffix /\ Scanned /\ Handled /\ Undamaged
  BY DEF ParserInv
<1>2. TypeOK'
  BY <1>1, ReaderTypes DEF Suffix
<1>3. /\ Base \in Nat /\ pos \in Nat /\ 1 <= pos /\ pos <= Len(readBuffer) + 1 /\ lastEnding \in Nat
      /\ lastEnding <= pos - 1 /\ Len(readBuffer) \in Nat /\ Len(sent) \in Nat
  BY <1>1, Typed, Window
<1>4. CASE EndOfTelegram
  <2>1. PICK k \in 1..Len(sent) :
          /\ EndOf(k) = Base + pos
          /\ \/ Matters(Piece(k)) /\ handled' = Append(handled, CallFor(k))
             \/ damaged /\ handled' = handled
    BY <1>1, <1>4, TelegramCalls
  <2>2. /\ reader = "analysing" /\ pos <= Len(readBuffer) /\ readBuffer[pos] \in Endings
        /\ lastEnding' = pos /\ pos' = pos + 1 /\ UNCHANGED <<reader, readBuffer, serial, damaged>>
    BY <1>4 DEF EndOfTelegram, Endings
  <2>3. Row' /\ Suffix' /\ Scanned' /\ Handled' /\ Undamaged'
    BY <2>1, <2>2, EndedStep
  <2> QED BY <1>2, <2>3 DEF ParserInv
<1>5. CASE EndOfLine /\ lastEnding # pos - 1
  <2>1. PICK k \in 1..Len(sent) :
          /\ EndOf(k) = Base + pos
          /\ \/ Matters(Piece(k)) /\ handled' = Append(handled, CallFor(k))
             \/ (damaged \/ ~Matters(Piece(k))) /\ handled' = handled
    BY <1>1, <1>5, LineCalls
  <2>2. /\ reader = "analysing" /\ pos <= Len(readBuffer) /\ readBuffer[pos] \in Endings
        /\ lastEnding' = pos /\ pos' = pos + 1 /\ UNCHANGED <<reader, readBuffer, serial, damaged>>
    BY <1>5 DEF EndOfLine, Endings
  <2>3. Row' /\ Suffix' /\ Scanned' /\ Handled' /\ Undamaged'
    BY <2>1, <2>2, EndedStep
  <2> QED BY <1>2, <2>3 DEF ParserInv
<1>6. CASE EndOfLine /\ lastEnding = pos - 1
  <2>1. /\ reader' = "waiting" /\ pos' = 1 /\ lastEnding' = 0 /\ handled' = handled
        /\ UNCHANGED <<readBuffer, serial, damaged>>
        /\ pos <= Len(readBuffer) /\ readBuffer[pos] = "LF"
    BY <1>6 DEF EndOfLine, Leaves
  <2>2. lastEnding = 0 /\ damaged
    BY <1>1, <1>6, <2>1, ThrowsFirst
  <2>3. Row' /\ Suffix' /\ Base' = Base
    BY <1>1, <2>1, RowUnchanged, SuffixUnchanged DEF serial
  <2>4. Scanned'
    <3>1. ~(lastEnding' > 0) /\ (lastEnding' + 1)..(pos' - 1) = {}
      BY <2>1
    <3> QED BY <2>1, <3>1 DEF Scanned
  <2>5. Handled'
    <3>1. sent' = sent /\ lastEnding' = lastEnding
      BY <2>1, <2>2 DEF serial
    <3> QED BY <1>1, <2>1, <2>3, <3>1, SameFrames DEF Handled
  <2>6. Undamaged'
    BY <2>1, <2>2 DEF Undamaged
  <2> QED BY <1>2, <2>3, <2>4, <2>5, <2>6 DEF ParserInv
<1>7. CASE OtherByte
  <2>1. /\ UNCHANGED <<reader, readBuffer, lastEnding, serial, handled, damaged>> /\ pos' = pos + 1
        /\ reader = "analysing" /\ readBuffer[pos] \notin Endings
    BY <1>7 DEF OtherByte
  <2>2. sent' = sent /\ stream' = stream
    BY <2>1 DEF serial
  <2>3. Row' /\ Suffix' /\ Base' = Base
    BY <1>1, <2>1, <2>2, RowUnchanged, SuffixUnchanged
  <2>4. Scanned'
    <3>1. \A p \in (lastEnding + 1)..((pos + 1) - 1) : p \in (lastEnding + 1)..(pos - 1) \/ p = pos
      BY <1>3
    <3> QED BY <1>1, <2>1, <3>1 DEF Scanned
  <2>5. Handled' /\ Undamaged'
    BY <1>1, <2>1, <2>2, <2>3, SameFrames DEF Handled, Undamaged
  <2> QED BY <1>2, <2>3, <2>4, <2>5 DEF ParserInv
<1>8. CASE MoveRest
  <2>1. /\ UNCHANGED <<serial, handled, damaged>> /\ reader' = "waiting" /\ pos' = 1 /\ lastEnding' = 0
    BY <1>8 DEF MoveRest, Leaves
  <2>2. sent' = sent /\ stream' = stream
    BY <2>1 DEF serial
  <2>3. Row' /\ Suffix' /\ Base' = Base + lastEnding
    BY <1>1, <1>8, <2>1, <2>2, RowUnchanged, MoveSuffix
  <2>4. Scanned'
    <3>1. ~(lastEnding' > 0) /\ (lastEnding' + 1)..(pos' - 1) = {}
      BY <2>1
    <3> QED BY <2>1, <3>1 DEF Scanned
  <2>5. Base + lastEnding \in Nat /\ Base' + lastEnding' = Base + lastEnding
    <3>1. \A b, l \in Nat : b + l \in Nat /\ (b + l) + 0 = b + l
      OBVIOUS
    <3> QED BY <1>3, <2>1, <2>3, <3>1
  <2>6. Handled'
    BY <1>1, <2>1, <2>2, <2>5, SameFrames DEF Handled
  <2>7. Undamaged'
    <3>1. CASE damaged
      BY <2>1, <3>1 DEF Undamaged
    <3>2. CASE ~damaged
      <4>1. Base' > 0 => stream[Base'] \in Endings
        <5>1. CASE lastEnding = 0
          <6>1. Base' = Base
            BY <1>3, <2>3, <5>1
          <6> QED BY <1>1, <3>2, <6>1 DEF Undamaged
        <5>2. CASE lastEnding > 0
          <6>1. lastEnding \in 1..Len(readBuffer)
            BY <1>3, <5>2
          <6>2. readBuffer[lastEnding] = stream[Base + lastEnding]
            BY <1>1, <6>1, Window
          <6> QED BY <1>1, <2>3, <5>2, <6>2 DEF Scanned
        <5> QED BY <1>3, <5>1, <5>2
      <4>2. \A p \in 1..Len(readBuffer') : readBuffer'[p] \notin Endings
        <5>1. /\ Len(readBuffer') = Len(readBuffer) - lastEnding /\ pos = Len(readBuffer) + 1
              /\ \A p \in 1..(Len(readBuffer) - lastEnding) : readBuffer'[p] = readBuffer[lastEnding + p]
          BY <1>1, <1>8, MoveFacts
        <5>2. \A p \in 1..(Len(readBuffer) - lastEnding) : lastEnding + p \in (lastEnding + 1)..(pos - 1)
          BY <1>3, <5>1
        <5> QED BY <1>1, <5>1, <5>2 DEF Scanned
      <4> QED BY <1>1, <2>1, <2>2, <2>5, <3>2, <4>1, <4>2, SameFrames DEF Undamaged
    <3> QED BY <3>1, <3>2
  <2> QED BY <1>2, <2>3, <2>4, <2>6, <2>7 DEF ParserInv
<1> QED BY <1>4, <1>5, <1>6, <1>7, <1>8 DEF AnalyseBuffer

-----------------------------------------------------------------------------
(* The invariant *)

LEMMA InitInv == Init => ParserInv
<1> SUFFICES ASSUME Init PROVE ParserInv
  OBVIOUS
<1>1. TypeOK /\ Row /\ Suffix
  BY InitTypes, InitRow, InitSuffix
<1>2. readBuffer = <<>> /\ handled = <<>> /\ pos = 1 /\ lastEnding = 0
  BY DEF Init
<1>3. Len(readBuffer) = 0 /\ Len(handled) = 0
  BY <1>2, EmptySeq
<1>4. Scanned
  BY <1>2 DEF Scanned
<1>5. Handled
  BY <1>3 DEF Handled
<1>6. Undamaged
  <2>1. SUFFICES ASSUME ~damaged PROVE Undamaged
    BY DEF Undamaged
  <2>2. sent = <<>> /\ stream = <<>>
    BY <2>1 DEF Init
  <2>3. Len(sent) = 0 /\ Len(stream) = 0
    BY <2>2, EmptySeq
  <2>4. ~(Base > 0)
    <3>1. Base \in Nat /\ Base + Len(readBuffer) <= Len(stream)
      BY <1>1, Window
    <3> QED BY <1>3, <2>3, <3>1
  <2> QED BY <1>3, <2>3, <2>4 DEF Undamaged
<1> QED BY <1>1, <1>4, <1>5, <1>6 DEF ParserInv

LEMMA NextInv == ParserInv /\ [Next]_vars => ParserInv'
<1> SUFFICES ASSUME ParserInv, [Next]_vars PROVE ParserInv'
  OBVIOUS
<1>1. CASE \E frame \in Frames : StartFrame(frame)
  BY <1>1, StartStep
<1>2. CASE SendByte
  BY <1>2, SendStep
<1>3. CASE Flush
  BY <1>3, FlushStep
<1>4. CASE Read
  BY <1>4, ReadStep
<1>5. CASE AnalyseBuffer
  BY <1>5, AnalyseStep
<1>6. CASE UNCHANGED vars
  <2>1. UNCHANGED <<reader, readBuffer, pos, lastEnding, tty, rest, handled, stream, sent, damaged>>
    BY <1>6 DEF vars, serial
  <2>2. TypeOK /\ Row /\ Suffix /\ Scanned /\ Handled /\ Undamaged
    BY DEF ParserInv
  <2>3. TypeOK'
    BY <2>1, <2>2 DEF TypeOK
  <2>4. Row' /\ Suffix' /\ Base' = Base
    BY <2>1, <2>2, RowUnchanged, SuffixUnchanged DEF serial
  <2>5. Scanned' /\ Handled' /\ Undamaged'
    BY <2>1, <2>2, <2>4, SameFrames DEF Scanned, Handled, Undamaged
  <2> QED BY <2>3, <2>4, <2>5 DEF ParserInv
<1>7. CASE Done
  BY <1>6, <1>7 DEF Done
<1> QED BY <1>1, <1>2, <1>3, <1>4, <1>5, <1>6, <1>7 DEF Next

(* Every state of the reader and its line is one ParserInv describes.       *)
THEOREM Inductive == Spec => []ParserInv
<1>1. Init => ParserInv
  BY InitInv
<1>2. ParserInv /\ [Next]_vars => ParserInv'
  BY NextInv
<1> QED BY <1>1, <1>2, PTL DEF Spec

(* readBuffer_ never grows past its array, whatever the line does and       *)
(* however large the frames are (BaseSerial::Loop, the check before read).  *)
THEOREM TypeCorrect == Spec => []TypeOK
<1>1. ParserInv => TypeOK
  BY DEF ParserInv
<1> QED BY <1>1, Inductive, PTL

(* AnalyseBuffer puts no frame together from two, handles none twice and    *)
(* keeps their order, also behind a flush or an overrun.                    *)
THEOREM NothingInventedSafe == Spec => []NothingInvented
<1>1. ASSUME ParserInv PROVE NothingInvented
  <2>1. DOMAIN handled = 1..Len(handled) /\ DOMAIN sent = 1..Len(sent)
    BY <1>1, Typed DEF ParserInv
  <2>2. Handled
    BY <1>1 DEF ParserInv
  <2> QED BY <2>1, <2>2 DEF Handled, NothingInvented, Piece
<1> QED BY <1>1, Inductive, PTL

(* As long as no byte was lost each frame is handled exactly once, by the   *)
(* pass that reads its last byte, however the bytes are cut into reads, and *)
(* readBuffer_ keeps the beginning of the next frame between two passes.    *)
THEOREM FramesHandledOnceSafe == Spec => []FramesHandledOnce
<1>1. ASSUME ParserInv PROVE FramesHandledOnce
  <2>1. TypeOK /\ Row /\ Suffix /\ Scanned /\ Handled /\ Undamaged
    BY <1>1 DEF ParserInv
  <2>2. /\ DOMAIN handled = 1..Len(handled) /\ DOMAIN sent = 1..Len(sent)
        /\ Base \in Nat /\ pos \in Nat /\ 1 <= pos /\ pos <= Len(readBuffer) + 1 /\ lastEnding \in Nat
        /\ lastEnding <= pos - 1 /\ Len(readBuffer) \in Nat /\ Len(handled) \in Nat
        /\ Base + Len(readBuffer) <= Len(stream) /\ Len(stream) \in Nat
    BY <2>1, Typed, Window
  <2>3. SUFFICES ASSUME ~damaged
                 PROVE  /\ \A k \in 1..Len(sent) : Matters(Piece(k)) /\ EndOf(k) <= Analysed =>
                             \E i \in 1..Len(handled) :
                               /\ handled[i] = CallFor(k)
                               /\ \A j \in 1..Len(handled) : handled[j].upto = EndOf(k) => j = i
                        /\ reader = "waiting" =>
                             /\ Base = 0 \/ \E k \in 1..Len(sent) : Base = EndOf(k)
                             /\ \A k \in 1..Len(sent) : EndOf(k) <= Base \/ EndOf(k) > Analysed
    BY <2>2 DEF FramesHandledOnce, Piece
  <2>4. /\ Base > 0 => stream[Base] \in Endings
        /\ reader # "analysing" => \A p \in 1..Len(readBuffer) : readBuffer[p] \notin Endings
        /\ \A k \in 1..Len(sent) : Matters(Piece(k)) /\ EndOf(k) <= Base + lastEnding =>
             \E i \in 1..Len(handled) : handled[i] = CallFor(k)
    BY <2>1, <2>3 DEF Undamaged
  <2>5. PICK seen : seen = IF reader = "analysing" THEN pos - 1 ELSE Len(readBuffer)
    OBVIOUS
  <2>6. /\ seen \in Nat /\ seen <= Len(readBuffer) /\ Analysed = Base + seen
        /\ \A p \in (lastEnding + 1)..seen : p \in 1..Len(readBuffer) /\ readBuffer[p] \notin Endings
    <3>1. CASE reader = "analysing"
      <4>1. seen = pos - 1 /\ Analysed = Base + seen
        BY <2>5, <3>1 DEF Analysed
      <4>2. seen \in Nat /\ seen <= Len(readBuffer)
        BY <2>2, <4>1
      <4>3. \A p \in (lastEnding + 1)..seen : p \in 1..Len(readBuffer) /\ readBuffer[p] \notin Endings
        BY <2>1, <2>2, <4>1 DEF Scanned
      <4> QED BY <4>1, <4>2, <4>3
    <3>2. CASE reader # "analysing"
      <4>1. seen = Len(readBuffer) /\ Analysed = Base + seen /\ lastEnding = 0
        BY <2>1, <2>5, <3>2 DEF Analysed, Scanned
      <4>2. seen \in Nat /\ seen <= Len(readBuffer)
        BY <2>2, <4>1
      <4>3. \A p \in (lastEnding + 1)..seen : p \in 1..Len(readBuffer)
        BY <4>1
      <4> QED BY <2>4, <3>2, <4>1, <4>2, <4>3
    <3> QED BY <3>1, <3>2
  <2>7. ASSUME NEW k \in 1..Len(sent), EndOf(k) <= Analysed PROVE EndOf(k) <= Base + lastEnding
    <3>1. SUFFICES ASSUME EndOf(k) > Base + lastEnding PROVE FALSE
      BY <2>1, <2>2, PieceTyped
    <3>2. EndOf(k) \in Nat /\ stream[EndOf(k)] \in Endings
      BY <2>1, PieceTyped, PieceFacts
    <3>3. PICK p \in Int : p = EndOf(k) - Base
      BY <2>2, <3>2
    <3>4. p \in (lastEnding + 1)..seen /\ EndOf(k) = Base + p
      <4>1. EndOf(k) <= Base + seen
        BY <2>6, <2>7
      <4>2. \A e, b, l, s \in Nat : e > b + l /\ e <= b + s => e - b \in (l + 1)..s /\ e = b + (e - b)
        OBVIOUS
      <4> QED BY <2>2, <2>6, <3>1, <3>2, <3>3, <4>1, <4>2
    <3>5. p \in 1..Len(readBuffer) /\ readBuffer[p] \notin Endings
      BY <2>6, <3>4
    <3>6. readBuffer[p] = stream[Base + p]
      BY <2>1, <3>5, Window
    <3> QED BY <3>2, <3>4, <3>5, <3>6
  <2>8. ASSUME NEW k \in 1..Len(sent), Matters(Piece(k)), EndOf(k) <= Analysed
        PROVE  \E i \in 1..Len(handled) :
                 handled[i] = CallFor(k) /\ \A j \in 1..Len(handled) : handled[j].upto = EndOf(k) => j = i
    <3>1. PICK i \in 1..Len(handled) : handled[i] = CallFor(k)
      BY <2>4, <2>7, <2>8
    <3>2. handled[i].upto = EndOf(k) /\ EndOf(k) \in Nat
      BY <2>1, <3>1, PieceTyped DEF CallFor
    <3>3. ASSUME NEW j \in 1..Len(handled), handled[j].upto = EndOf(k) PROVE j = i
      <4>1. ~(i < j) /\ ~(j < i)
        <5>1. /\ i < j => handled[i].upto < handled[j].upto
              /\ j < i => handled[j].upto < handled[i].upto
          BY <2>1 DEF Handled
        <5>2. \A u \in Nat : ~(u < u)
          OBVIOUS
        <5> QED BY <3>2, <3>3, <5>1, <5>2
      <4> QED BY <4>1
    <3> QED BY <3>1, <3>3
  <2>9. ASSUME reader = "waiting"
        PROVE  /\ Base = 0 \/ \E k \in 1..Len(sent) : Base = EndOf(k)
               /\ \A k \in 1..Len(sent) : EndOf(k) <= Base \/ EndOf(k) > Analysed
    <3>1. lastEnding = 0
      BY <2>1, <2>9 DEF Scanned
    <3>2. ASSUME NEW k \in 1..Len(sent) PROVE EndOf(k) <= Base \/ EndOf(k) > Analysed
      <4>1. EndOf(k) \in Nat /\ Analysed \in Nat
        BY <2>1, <2>2, <2>6, PieceTyped
      <4>2. EndOf(k) <= Analysed => EndOf(k) <= Base
        BY <2>2, <2>7, <3>1
      <4> QED BY <4>1, <4>2
    <3>3. Base = 0 \/ \E k \in 1..Len(sent) : Base = EndOf(k)
      <4>1. Base > 0 => Base \in 1..Len(stream)
        BY <2>2
      <4>2. Base > 0 => \E k \in 1..Len(sent) : EndOf(k) = Base
        BY <2>1, <2>4, <4>1, EndingEnds
      <4> QED BY <2>2, <4>2
    <3> QED BY <3>2, <3>3
  <2> QED BY <2>8, <2>9
<1> QED BY <1>1, Inductive, PTL

(* The exception of a line feed directly behind an ending (std::string with *)
(* the length -1) is thrown at the first byte of the buffer only, and only  *)
(* by a reader that lost bytes: it never cuts off a pass that has handled a *)
(* frame, so the next pass, over the same buffer, handles none again.       *)
THEOREM ThrowsFirstOnly ==
  Spec => [](reader = "analysing" /\ pos \in DOMAIN readBuffer /\ readBuffer[pos] = "LF"
               /\ lastEnding = pos - 1 => pos = 1 /\ damaged)
<1>1. ASSUME ParserInv, reader = "analysing", pos \in DOMAIN readBuffer, readBuffer[pos] = "LF",
             lastEnding = pos - 1
      PROVE  pos = 1 /\ damaged
  <2>1. TypeOK /\ Row /\ Suffix /\ Scanned /\ Undamaged
    BY <1>1 DEF ParserInv
  <2>2. DOMAIN readBuffer = 1..Len(readBuffer) /\ pos \in Nat /\ Len(readBuffer) \in Nat
    BY <2>1, Typed
  <2>3. pos <= Len(readBuffer)
    BY <1>1, <2>2
  <2>4. lastEnding = 0 /\ damaged
    BY <1>1, <2>1, <2>3, ThrowsFirst
  <2> QED BY <1>1, <2>2, <2>4
<1>2. ParserInv => (reader = "analysing" /\ pos \in DOMAIN readBuffer /\ readBuffer[pos] = "LF"
                      /\ lastEnding = pos - 1 => pos = 1 /\ damaged)
  BY <1>1
<1> QED BY <1>2, Inductive, PTL
=============================================================================
