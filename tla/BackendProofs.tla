----------------------------- MODULE BackendProofs -----------------------------
(***************************************************************************)
(* Proofs about Backend: after the event loop the BackendController        *)
(* outlives the serial thread that calls it back, and what                 *)
(* SocketController promises about its clients still holds among the other *)
(* threads of the process.                                                 *)
(***************************************************************************)
EXTENDS Backend, SocketControllerProofs

SerialStates == {"closed", "open", "sleeping", "reading", "ended"}

(* CallbackTargetLives is inductive once the states of the serial thread    *)
(* are known: the thread is made in "starting" only, and main leaves        *)
(* "closing" for "deleting", and "finish" for "exited", only with a thread  *)
(* that has ended or never was.                                             *)
CallbackInv == serial \in SerialStates /\ CallbackTargetLives

LEMMA CallbackInit == BackendInit => CallbackInv
  BY DEF BackendInit, CallbackInv, CallbackTargetLives, SerialStates, SerialThread

LEMMA CallbackStep == CallbackInv /\ [BackendNext]_allVars => CallbackInv'
<1> SUFFICES ASSUME CallbackInv, [BackendNext]_allVars PROVE CallbackInv'
  OBVIOUS
<1> USE DEF CallbackInv, CallbackTargetLives, SerialStates, SerialThread
<1>1. CASE Starting
  BY <1>1 DEF Starting, NoSerial, SpawnSerial, WaitSerial, StartSockets, Finish, Terminate
<1>2. CASE Ending
  BY <1>2 DEF Ending, CloseSerial, JoinSerial, DeleteSockets
<1>3. CASE EventLoop \/ Interrupt \/ HandleDeviceMessage \/ SocketThread \/ ClientStep
  BY <1>3 DEF EventLoop, Interrupt, HandleDeviceMessage, SocketThread, ClientStep, ownVars
<1>4. CASE Flush
  BY <1>4 DEF Flush
<1>5. CASE PowerOff \/ SerialEnds
  BY <1>5 DEF PowerOff, SerialEnds
<1>6. CASE UNCHANGED allVars
  BY <1>6 DEF allVars, ownVars
<1> QED BY <1>1, <1>2, <1>3, <1>4, <1>5, <1>6 DEF BackendNext, MainThreads, Over

(* After the event loop, delete backendController finds no serial thread    *)
(* that could still call it, for any number of clients and whatever the     *)
(* wakeups that BaseSerial::Start loses (SleepCoversStart or not).          *)
THEOREM CallbackSafe == BackendSpec => []CallbackTargetLives
<1>1. CallbackInv => CallbackTargetLives
  BY DEF CallbackInv
<1> QED BY <1>1, CallbackInit, CallbackStep, PTL DEF BackendSpec

-----------------------------------------------------------------------------
(* The sockets in the process.  Main waits for the socket thread last, so   *)
(* the pipe is not written after that: the serial thread has ended, and     *)
(* udev is served by the event loop.                                        *)
JoinedLast == main = "joined" => phase = "exited"

LEMMA JoinedInit == BackendInit => JoinedLast
  BY DEF BackendInit, Init, JoinedLast

LEMMA JoinedStep == JoinedLast /\ [BackendNext]_allVars => JoinedLast'
<1> SUFFICES ASSUME JoinedLast, [BackendNext]_allVars PROVE JoinedLast'
  OBVIOUS
<1> USE DEF JoinedLast
<1>1. CASE Starting
  BY <1>1 DEF Starting, NoSerial, SpawnSerial, WaitSerial, StartSockets, Finish, Terminate, vars, send
<1>2. CASE CloseSerial \/ JoinSerial
  BY <1>2 DEF CloseSerial, JoinSerial, vars, send
<1>3. CASE DeleteSockets
  BY <1>3 DEF DeleteSockets, Stop, Join
<1>4. CASE EventLoop \/ Interrupt
  BY <1>4 DEF EventLoop, Interrupt, PipeReceive, SendAllLoad, SendAllWrite, Signal
<1>5. CASE HandleDeviceMessage \/ PowerOff
  BY <1>5 DEF HandleDeviceMessage, PowerOff, send, ownVars
<1>6. CASE SocketThread
  BY <1>6 DEF SocketThread, Loop, Poll, RoundEnds, HandleAccept, PushSocket, Receive, TellAll, Hup, CloseAll,
              send, ownVars
<1>7. CASE ClientStep
  BY <1>7 DEF ClientStep, Client, Connect, SendMessage, ReadBroadcast, Leave, send, ownVars
<1>8. CASE Flush \/ SerialEnds
  BY <1>8 DEF Flush, SerialEnds, vars, send
<1>9. CASE Over \/ UNCHANGED allVars
  BY <1>9 DEF Over, allVars, vars, send, ownVars
<1> QED BY <1>1, <1>2, <1>3, <1>4, <1>5, <1>6, <1>7, <1>8, <1>9 DEF BackendNext, MainThreads, Ending

(* Every step of the process is one of the SocketController or leaves it    *)
(* alone.                                                                   *)
LEMMA SocketStep ==
  ASSUME CallbackInv, JoinedLast, [BackendNext]_allVars PROVE [Next]_vars
<1>1. CASE Starting \/ CloseSerial \/ JoinSerial \/ Flush \/ SerialEnds \/ Over
  BY <1>1 DEF Starting, NoSerial, SpawnSerial, WaitSerial, StartSockets, Finish, Terminate, CloseSerial, JoinSerial,
              Flush, SerialEnds, Over, allVars
<1>2. CASE DeleteSockets \/ EventLoop \/ Interrupt \/ SocketThread \/ ClientStep
  BY <1>2 DEF DeleteSockets, EventLoop, Interrupt, SocketThread, ClientStep, Next, MainThread
<1>3. CASE HandleDeviceMessage
  <2>1. main # "joined" /\ UNCHANGED <<members, loop, internPipe, backlog, wires, send, history>>
    BY <1>3 DEF HandleDeviceMessage
  <2>2. CASE WorkerPipeHasRoom
    BY <1>3, <2>1, <2>2 DEF HandleDeviceMessage, PostMessage, Next
  <2>3. CASE ~WorkerPipeHasRoom
    BY <1>3, <2>1, <2>3 DEF HandleDeviceMessage, vars
  <2> QED BY <2>2, <2>3
<1>4. CASE PowerOff
  <2>1. main # "joined"
    BY <1>4 DEF PowerOff, CallbackInv, CallbackTargetLives, SerialThread, JoinedLast
  <2>2. UNCHANGED <<members, loop, internPipe, backlog, wires, send, history>>
    BY <1>4 DEF PowerOff
  <2>3. CASE WorkerPipeHasRoom
    BY <1>4, <2>1, <2>2, <2>3 DEF PowerOff, PostMessage, Next
  <2>4. CASE ~WorkerPipeHasRoom
    BY <1>4, <2>2, <2>4 DEF PowerOff, vars
  <2> QED BY <2>3, <2>4
<1>5. CASE UNCHANGED allVars
  BY <1>5 DEF allVars
<1> QED BY <1>1, <1>2, <1>3, <1>4, <1>5 DEF BackendNext, MainThreads, Ending

(* The process implements the SocketController: what main does on its way   *)
(* up and down, the serial thread and udev are, to the sockets, steps of    *)
(* SocketController or stutters, so each of its theorems holds in the       *)
(* process.  It rests on CallbackTargetLives: nobody posts to the worker    *)
(* pipe any more when the last thread has been joined.                      *)
THEOREM ProcessOfSockets == BackendSpec => Spec
<1>1. BackendInit => Init
  BY DEF BackendInit
<1>2. CallbackInv /\ JoinedLast /\ [BackendNext]_allVars => [Next]_vars
  BY SocketStep
<1> QED BY <1>1, <1>2, CallbackInit, CallbackStep, JoinedInit, JoinedStep, PTL DEF BackendSpec, Spec

(* In the whole process, while the serial thread and udev post to the       *)
(* worker pipe and main starts and stops the threads: an event found by     *)
(* poll is never applied to another descriptor (SocketController::Loop).    *)
THEOREM ProcessEventsSafe == BackendSpec => []EventsFitSockets
  BY ProcessOfSockets, EventsSafe, PTL

(* In the whole process: a power off that the serial thread posts and a     *)
(* camera that udev reports reach no client twice, and unless a client came *)
(* meanwhile at most one is missed for each that left (SendAll).            *)
THEOREM ProcessBroadcastSafe == BackendSpec => []BroadcastReaches
  BY ProcessOfSockets, BroadcastSafe, PTL

(* In the whole process: as long as the socket thread serves, what a client *)
(* sent before it hung up is read before its connection is closed           *)
(* (SocketController::Loop).  The end of the process closes the rest unread.*)
THEOREM ProcessLastWordsSafe == BackendSpec => LastWordsRead
  BY ProcessOfSockets, LastWordsSafe, PTL
=============================================================================
