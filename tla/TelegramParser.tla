--------------------------- MODULE TelegramParser ---------------------------
(***************************************************************************)
(* The reading side of the Pi: BaseSerial::Loop takes whatever the tty     *)
(* holds and PowerSupplySerial::AnalyseBuffer cuts it into telegrams       *)
(* <STX ... ETX> and text lines <... CR LF>.  The board sends whole        *)
(* frames, the tty delivers them in any portions.                          *)
(* Positions count from 1; lastEnding is the number of bytes consumed.     *)
(***************************************************************************)
EXTENDS Integers, Sequences, Functions

CONSTANTS
  Frames,        (* frames the board sends, sequences of bytes              *)
  MaxFrames,     (* bound: number of frames sent                            *)
  TtyCapacity,   (* bound: bytes the reader may be behind                   *)
  MaxBufferSize, (* MAXBUFFERSIZE                                           *)
  Cut            (* what is left of a frame that is under way at the start  *)

Byte    == UNION {Range(f) : f \in Frames \cup Cut}
Endings == {"ETX", "LF"}

(* The payloads are printable or codes above 5.  No text that only ends in  *)
(* "off" is sent: the board writes Off.                                     *)
EndsOnce(f) == f # <<>> /\ f[Len(f)] \in Endings /\ \A i \in 1..(Len(f) - 1) : f[i] \notin Endings
Telegram(f) == f[1] = "STX" /\ f[Len(f)] = "ETX" /\ \A i \in 2..Len(f) : f[i] # "STX"
NoStx(f)    == \A i \in 1..Len(f) : f[i] # "STX"
TextLine(f) == Len(f) >= 2 /\ f[Len(f)] = "LF" /\ NoStx(f)
OffAlone(f) == Len(f) > 3 /\ f[Len(f)] = "LF" => f[Len(f) - 2] # "off"

ASSUME FramesAssumption ==
  /\ Frames \cup Cut \subseteq Seq(Byte)
  /\ \A f \in Frames : EndsOnce(f) /\ (Telegram(f) \/ TextLine(f)) /\ OffAlone(f)
  /\ \A f \in Cut \ {<<>>} : EndsOnce(f) /\ NoStx(f) /\ OffAlone(f)
  /\ {MaxFrames, TtyCapacity, MaxBufferSize} \subseteq Nat /\ MaxFrames >= 1

VARIABLES
  reader,        (* "starting" until tcflush, "waiting" for bytes, or       *)
                 (* "analysing" in AnalyseBuffer                            *)
  readBuffer,    (* readBuffer_[0..currentReadPos_ - 1]                     *)
  pos, lastEnding,
  tty,           (* bytes received by the kernel                            *)
  rest,          (* rest of the frame being sent                            *)
  handled,       (* calls of the Handle functions and of the callback       *)
  stream,        (* history: all bytes of the frames sent                   *)
  sent,          (* history: the frames and how many bytes went before      *)
  damaged        (* history: bytes were flushed, overrun or came without a  *)
                 (* beginning                                               *)

serial  == <<tty, rest, stream, sent>>
vars    == <<reader, readBuffer, pos, lastEnding, serial, handled, damaged>>

Init ==
  /\ reader = "starting" /\ readBuffer = <<>> /\ pos = 1 /\ lastEnding = 0
  /\ rest \in Cut /\ tty = <<>> /\ stream = rest
  /\ sent = IF rest = <<>> THEN <<>> ELSE <<[frame |-> rest, from |-> 0]>>
  /\ handled = <<>> /\ damaged = (rest # <<>>)

-----------------------------------------------------------------------------
(* The board *)
StartFrame(frame) ==
  /\ rest = <<>> /\ Len(sent) < MaxFrames
  /\ rest' = frame /\ stream' = stream \o frame
  /\ sent' = Append(sent, [frame |-> frame, from |-> Len(stream)])
  /\ UNCHANGED <<reader, readBuffer, pos, lastEnding, tty, handled, damaged>>

SendByte ==
  /\ rest # <<>> /\ Len(tty) < TtyCapacity
  /\ tty' = Append(tty, Head(rest)) /\ rest' = Tail(rest)
  /\ UNCHANGED <<reader, readBuffer, pos, lastEnding, stream, sent, handled, damaged>>

-----------------------------------------------------------------------------
(* Loop *)
Flush ==
  /\ reader = "starting"
  /\ reader' = "waiting" /\ tty' = <<>> /\ damaged' = (damaged \/ tty # <<>>)
  /\ UNCHANGED <<readBuffer, pos, lastEnding, rest, stream, sent, handled>>

(* Mutant: off by one in the test for a full buffer. *)
OverRunLate == Len(readBuffer) + Len(tty) > MaxBufferSize + 1

OverRun == Len(readBuffer) + Len(tty) > MaxBufferSize

(* Mutant: an overrun drops the new bytes instead of the old ones. *)
ReadDroppingNew ==
  /\ reader = "waiting" /\ tty # <<>>
  /\ readBuffer' = IF OverRun THEN readBuffer ELSE readBuffer \o tty
  /\ tty' = <<>>
  /\ damaged' = (damaged \/ OverRun)
  /\ reader' = "analysing" /\ pos' = 1 /\ lastEnding' = 0
  /\ UNCHANGED <<rest, stream, sent, handled>>

Read ==
  /\ reader = "waiting" /\ tty # <<>>
  /\ LET kept  == IF OverRun THEN <<>> ELSE readBuffer
         bytes == IF OverRun /\ Len(tty) > MaxBufferSize THEN MaxBufferSize ELSE Len(tty)
     IN /\ readBuffer' = kept \o SubSeq(tty, 1, bytes)
        /\ tty' = SubSeq(tty, bytes + 1, Len(tty))
  /\ damaged' = (damaged \/ OverRun)
  /\ reader' = "analysing" /\ pos' = 1 /\ lastEnding' = 0
  /\ UNCHANGED <<rest, stream, sent, handled>>

-----------------------------------------------------------------------------
(* AnalyseBuffer, one byte a step *)

(* History: the bytes of the stream in front of readBuffer_.                *)
Base == Len(stream) - (Len(readBuffer) + Len(tty) + Len(rest))

Call(from) == Append(handled, [frame |-> SubSeq(readBuffer, from, pos), upto |-> Base + pos])

(* The loop is left by the exception or after the last byte. *)
Leaves == reader' = "waiting" /\ pos' = 1 /\ lastEnding' = 0

(* The search for STX runs back to the start of the buffer.  Without one it *)
(* reads the byte before readBuffer_, part of currentReadPos_ and never STX.*)
LastStx == {p \in 1..(pos - 1) : readBuffer[p] = "STX" /\ \A q \in (p + 1)..(pos - 1) : readBuffer[q] # "STX"}

EndOfTelegram ==
  /\ reader = "analysing" /\ pos <= Len(readBuffer) /\ readBuffer[pos] = "ETX"
  /\ \/ \E from \in LastStx : handled' = Call(from)
     \/ LastStx = {} /\ UNCHANGED handled
  /\ lastEnding' = pos /\ pos' = pos + 1
  /\ UNCHANGED <<reader, readBuffer, serial, damaged>>

Text == SubSeq(readBuffer, lastEnding + 1, pos - 2)

(* Mutant: every line of text is taken for the command to switch off. *)
EndOfLineUnchecked ==
  /\ reader = "analysing" /\ pos <= Len(readBuffer) /\ readBuffer[pos] = "LF"
  /\ IF lastEnding = pos - 1 THEN Leaves /\ UNCHANGED handled
     ELSE /\ handled' = Call(lastEnding + 1)
          /\ lastEnding' = pos /\ pos' = pos + 1 /\ UNCHANGED reader
  /\ UNCHANGED <<readBuffer, serial, damaged>>

(* A line feed directly behind an ending gives std::string the length -1:   *)
(* it throws, and the buffer stays as it is.                                *)
EndOfLine ==
  /\ reader = "analysing" /\ pos <= Len(readBuffer) /\ readBuffer[pos] = "LF"
  /\ IF lastEnding = pos - 1 THEN Leaves /\ UNCHANGED handled
     ELSE /\ handled' = IF Text = <<"off">> THEN Call(lastEnding + 1) ELSE handled
          /\ lastEnding' = pos /\ pos' = pos + 1 /\ UNCHANGED reader
  /\ UNCHANGED <<readBuffer, serial, damaged>>

(* An escape is replaced by a star for the log, which payloads do not tell. *)
OtherByte ==
  /\ reader = "analysing" /\ pos <= Len(readBuffer) /\ readBuffer[pos] \notin Endings
  /\ pos' = pos + 1
  /\ UNCHANGED <<reader, readBuffer, lastEnding, serial, handled, damaged>>

(* Mutant: the last ending is kept. *)
MoveRestOffByOne ==
  /\ reader = "analysing" /\ pos > Len(readBuffer)
  /\ readBuffer' = SubSeq(readBuffer, IF lastEnding = 0 THEN 1 ELSE lastEnding, Len(readBuffer))
  /\ Leaves
  /\ UNCHANGED <<serial, handled, damaged>>

MoveRest ==
  /\ reader = "analysing" /\ pos > Len(readBuffer)
  /\ readBuffer' = SubSeq(readBuffer, lastEnding + 1, Len(readBuffer))
  /\ Leaves
  /\ UNCHANGED <<serial, handled, damaged>>

AnalyseBuffer == EndOfTelegram \/ EndOfLine \/ OtherByte \/ MoveRest

-----------------------------------------------------------------------------
Done ==
  /\ Len(sent) = MaxFrames /\ rest = <<>> /\ tty = <<>> /\ reader = "waiting"
  /\ UNCHANGED vars

Next == (\E frame \in Frames : StartFrame(frame)) \/ SendByte \/ Flush \/ Read \/ AnalyseBuffer \/ Done

Spec == Init /\ [][Next]_vars

(* The board goes on sending, epoll wakes the reader and the loop goes on.  *)
Fairness ==
  /\ WF_vars(\E frame \in Frames : StartFrame(frame)) /\ WF_vars(SendByte)
  /\ WF_vars(Flush) /\ WF_vars(Read) /\ WF_vars(AnalyseBuffer)

FairSpec == Spec /\ Fairness

-----------------------------------------------------------------------------
(* Properties *)

(* The buffer never grows past its array, whatever the line does            *)
(* (BaseSerial::Loop, the check before read).                               *)
TypeOK ==
  /\ reader \in {"starting", "waiting", "analysing"}
  /\ readBuffer \in Seq(Byte) /\ Len(readBuffer) <= MaxBufferSize
  /\ pos \in 1..(Len(readBuffer) + 1) /\ lastEnding \in 0..(pos - 1)
  /\ tty \in Seq(Byte) /\ Len(tty) <= TtyCapacity
  /\ rest \in Seq(Byte) /\ stream \in Seq(Byte)
  /\ sent \in Seq([frame : Frames \cup Cut, from : Nat]) /\ Len(sent) <= MaxFrames
  /\ handled \in Seq([frame : Seq(Byte), upto : Nat]) /\ damaged \in BOOLEAN

(* Text lines other than "off" are only logged. *)
Matters(f) == f[1] = "STX" \/ (Len(f) = 3 /\ f[1] = "off" /\ f[3] = "LF")

EndOf(k) == sent[k].from + Len(sent[k].frame)

CallFor(k) == [frame |-> sent[k].frame, upto |-> EndOf(k)]

(* Bytes of the stream that AnalyseBuffer has looked at.                    *)
Analysed == Base + (IF reader = "analysing" THEN pos - 1 ELSE Len(readBuffer))

(* However AnalyseBuffer finds the bytes cut into reads, each frame is      *)
(* handled exactly once, in the pass that reads its last byte, and what is  *)
(* left in readBuffer_ is the beginning of the next frame.                  *)
FramesHandledOnce ==
  ~damaged =>
    /\ \A k \in DOMAIN sent : Matters(sent[k].frame) /\ EndOf(k) <= Analysed =>
         \E i \in DOMAIN handled :
           handled[i] = CallFor(k) /\ \A j \in DOMAIN handled : handled[j].upto = EndOf(k) => j = i
    /\ reader = "waiting" =>
         /\ Base = 0 \/ \E k \in DOMAIN sent : Base = EndOf(k)
         /\ \A k \in DOMAIN sent : EndOf(k) <= Base \/ EndOf(k) > Analysed

(* A flush in the middle of a frame, or an overrun of readBuffer_, may cost *)
(* frames, but AnalyseBuffer puts no frame together from two, handles none  *)
(* twice and keeps their order.                                             *)
NothingInvented ==
  /\ \A i \in DOMAIN handled : \E k \in DOMAIN sent : Matters(sent[k].frame) /\ handled[i] = CallFor(k)
  /\ \A i, j \in DOMAIN handled : i < j => handled[i].upto < handled[j].upto

Jammed == \E p \in DOMAIN readBuffer : readBuffer[p] = "LF" /\ (p = 1 \/ readBuffer[p - 1] \in Endings)

(* What is to come until MaxFrames are sent is at least that many bytes     *)
(* more than the buffer has room for: the shortest telegram has three.      *)
EnoughToCome == Len(readBuffer \o tty \o rest) + 3 * (MaxFrames - Len(sent)) > MaxBufferSize

TextUnderWay == "LF" \in Range(tty) \cup Range(rest)

(* A reader on which AnalyseBuffer throws at every pass is left by the next *)
(* overrun, if no text line is under way then.  With text lines it may be   *)
(* jammed for ever: an overrun that comes between CR and LF leaves the LF   *)
(* in front again (PowerSupplySerial.cpp:147, BaseSerial::Loop).            *)
Recovers == Jammed /\ EnoughToCome ~> ~Jammed \/ TextUnderWay
=============================================================================
