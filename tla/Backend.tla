------------------------------- MODULE Backend -------------------------------
(***************************************************************************)
(* The backend process: main.cpp with the BackendController, whose serial  *)
(* thread reads the power supply board, and the SocketController.          *)
(* The main thread starts both, runs the event loop, and takes them down   *)
(* again; the serial thread calls back into the BackendController and      *)
(* posts to the worker pipe.                                               *)
(***************************************************************************)
EXTENDS SocketController

CONSTANT
  SleepCoversStart   (* TRUE: within the 500 ms the serial thread sleeps,    *)
                     (* main reaches cv.wait in BaseSerial::Start            *)

ASSUME SleepAssumption == SleepCoversStart \in BOOLEAN

VARIABLES
  phase,             (* the main thread before and after the event loop      *)
  serial,            (* the serial port and its thread                       *)
  serialRun,         (* BaseSerial::_run                                     *)
  shutdownInWork     (* PowerSupplySerial::_shutdownInWork                   *)

ownVars == <<phase, serial, serialRun, shutdownInWork>>
allVars == <<vars, ownVars>>

(* BackendController::Init: the port may be absent or locked; the process   *)
(* goes on without it.                                                      *)
BackendInit ==
  /\ Init
  /\ phase = "starting" /\ serial \in {"closed", "open"}
  /\ serialRun = TRUE /\ shutdownInWork = FALSE

-----------------------------------------------------------------------------
(* Start of the process *)

(* BackendController::Start fails without an open port, and nobody asks. *)
NoSerial ==
  /\ phase = "starting" /\ serial = "closed"
  /\ phase' = "sockets"
  /\ UNCHANGED <<vars, serial, serialRun, shutdownInWork>>

(* BaseSerial::Start; without epoll there is no thread, and nobody asks. *)
SpawnSerial ==
  /\ phase = "starting" /\ serial = "open"
  /\ \/ serial' = "sleeping" /\ phase' = "spawned"
     \/ serial' = "open" /\ phase' = "sockets"
  /\ UNCHANGED <<vars, serialRun, shutdownInWork>>

WaitSerial ==
  /\ phase = "spawned"
  /\ phase' = "waiting"
  /\ UNCHANGED <<vars, serial, serialRun, shutdownInWork>>

(* SocketController::Start: the thread runs, or pipe fails and main goes to *)
(* its end without BackendController::Stop.                                 *)
StartSockets ==
  /\ phase = "sockets"
  /\ phase' \in {"serving", "finish"}
  /\ UNCHANGED <<vars, serial, serialRun, shutdownInWork>>

SerialThread == {"sleeping", "reading"}

(* main deletes the BackendController, and with it the PowerSupplySerial    *)
(* and its callback, on this way without waiting for the serial thread.     *)
Finish ==
  /\ phase = "finish"
  /\ phase' = IF serial \in SerialThread THEN "destroying" ELSE "exited"
  /\ UNCHANGED <<vars, serial, serialRun, shutdownInWork>>

(* The destructor of a std::thread that was not joined ends the process, if *)
(* no call of the destroyed callback has done so before.                    *)
Terminate ==
  /\ phase = "destroying"
  /\ phase' = "aborted" /\ serial' = "ended"
  /\ UNCHANGED <<vars, serialRun, shutdownInWork>>

Starting == NoSerial \/ SpawnSerial \/ WaitSerial \/ StartSockets \/ Finish \/ Terminate

-----------------------------------------------------------------------------
(* End of the process *)

(* BackendController::Stop, BaseSerial::Close *)
CloseSerial ==
  /\ phase = "serving" /\ main = "leaving"
  /\ serialRun' = FALSE /\ phase' = "closing"
  /\ UNCHANGED <<vars, serial, shutdownInWork>>

(* Mutant: the thread is not joined. *)
JoinSerialLater ==
  /\ phase = "closing"
  /\ phase' = "deleting"
  /\ UNCHANGED <<vars, serial, serialRun, shutdownInWork>>

JoinSerial ==
  /\ phase = "closing" /\ serial \notin SerialThread
  /\ phase' = "deleting"
  /\ UNCHANGED <<vars, serial, serialRun, shutdownInWork>>

(* delete backendController, delete socketController *)
DeleteSockets ==
  /\ phase = "deleting" /\ (Stop \/ Join)
  /\ phase' = IF main' = "joined" THEN "exited" ELSE phase
  /\ UNCHANGED <<serial, serialRun, shutdownInWork>>

Ending == CloseSerial \/ JoinSerial \/ DeleteSockets

-----------------------------------------------------------------------------
(* The event loop *)

EventLoop ==
  /\ phase = "serving" /\ (PipeReceive \/ SendAllLoad \/ SendAllWrite)
  /\ UNCHANGED ownVars

Interrupt == phase = "serving" /\ Signal /\ UNCHANGED ownVars

(* UdevController::HandleDeviceMessage: a camera is told to all clients, a  *)
(* mounted storage only to the BackendController.                           *)
HandleDeviceMessage ==
  /\ phase = "serving" /\ main = "event loop"
  /\ IF WorkerPipeHasRoom
     THEN \E message \in {"all", "controller"} : workerPipe' = Append(workerPipe, message)
     ELSE UNCHANGED workerPipe
  /\ UNCHANGED <<members, loop, internPipe, backlog, wires, send, history, ownVars>>

MainThreads == Starting \/ EventLoop \/ Ending

-----------------------------------------------------------------------------
(* The serial thread *)

(* Mutant: the flush does not notify. *)
FlushSilently ==
  /\ serial = "sleeping" /\ (SleepCoversStart => phase = "waiting")
  /\ serial' = "reading"
  /\ UNCHANGED <<vars, phase, serialRun, shutdownInWork>>

(* End of the sleep, tcflush and notify_one, which is lost on a main that   *)
(* does not wait yet.                                                       *)
Flush ==
  /\ serial = "sleeping" /\ (SleepCoversStart => phase = "waiting")
  /\ serial' = "reading"
  /\ phase' = IF phase = "waiting" THEN "sockets" ELSE phase
  /\ UNCHANGED <<vars, serialRun, shutdownInWork>>

(* The board reports POWEROFF: HandleSystemState calls PowerOffEvent, which *)
(* posts to the worker pipe, and schedules the shutdown, which may fail and *)
(* is tried again with the next report.                                     *)
PowerOff ==
  /\ serial = "reading" /\ serialRun /\ ~shutdownInWork /\ phase # "destroying"
  /\ workerPipe' = IF WorkerPipeHasRoom THEN Append(workerPipe, "all") ELSE workerPipe
  /\ shutdownInWork' \in BOOLEAN
  /\ UNCHANGED <<members, loop, internPipe, backlog, wires, send, history, phase, serial, serialRun>>

(* epoll_wait times out after 500 ms and the thread sees _run. *)
SerialEnds ==
  /\ serial = "reading" /\ ~serialRun
  /\ serial' = "ended"
  /\ UNCHANGED <<vars, phase, serialRun, shutdownInWork>>

-----------------------------------------------------------------------------
SocketThread == phase \in {"serving", "closing", "deleting"} /\ Loop /\ UNCHANGED ownVars

ClientStep == phase \notin {"exited", "aborted"} /\ (\E c \in Clients : Client(c)) /\ UNCHANGED ownVars

Over == phase \in {"exited", "aborted"} /\ UNCHANGED allVars

BackendNext ==
  \/ MainThreads \/ Interrupt \/ HandleDeviceMessage
  \/ Flush \/ PowerOff \/ SerialEnds \/ SocketThread \/ ClientStep \/ Over

BackendSpec == BackendInit /\ [][BackendNext]_allVars

(* The threads run; clients read what they are sent; systemd ends a process *)
(* after the shutdown was scheduled, and the event loop, which serves its   *)
(* sources in turn, does not overlook the signal for ever.                  *)
BackendFairness ==
  /\ WF_allVars(MainThreads) /\ WF_allVars(SocketThread)
  /\ WF_allVars(Flush) /\ WF_allVars(SerialEnds)
  /\ \A c \in Clients : WF_allVars(phase # "exited" /\ ReadBroadcast(c) /\ UNCHANGED ownVars)
  /\ SF_allVars(shutdownInWork /\ Interrupt)

FairBackend == BackendSpec /\ BackendFairness

-----------------------------------------------------------------------------
(* Properties *)

(* The callback of the serial thread holds a pointer to the                 *)
(* BackendController: when the event loop has run, that is deleted only     *)
(* after the thread has ended, and no process exits around the thread.  The *)
(* way out of a failed SocketController::Start is not meant: there the      *)
(* thread may run on until std::terminate (main.cpp:367).                   *)
CallbackTargetLives ==
  phase \in {"deleting", "exited"} => serial \notin SerialThread

(* BaseSerial::Start returns, so that the process comes up or ends.         *)
StartReturns == phase = "starting" ~> phase \in {"serving", "aborted", "exited"}

(* A scheduled shutdown takes the process down in order: no thread and no   *)
(* client keeps it from ending.                                             *)
ShutdownCompletes ==
  shutdownInWork /\ phase = "serving" ~> phase = "exited"

(* A client that was told "selbstmord" can rely on it.                      *)
DeathIsFinal == pc = "tell" ~> phase = "exited"

(* Whatever a client sent before it hung up, its connection is closed.      *)
HungUpIsClosed == \A c \in Clients : isOpen[c] /\ peer[c] = "closed" ~> ~isOpen[c]
=============================================================================
