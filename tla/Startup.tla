------------------------------ MODULE Startup ------------------------------
(***************************************************************************)
(* The backend as a process among others: main.cpp from its arguments to   *)
(* the event loop and out again, started by systemd with a listening       *)
(* socket or by hand, ended by a signal, a failure or a crash, and started *)
(* again.  Processes meet in the configuration file, the path of the       *)
(* socket and the serial port.  What a process does while it serves is in  *)
(* Backend and SocketController.                                           *)
(***************************************************************************)
EXTENDS Integers, Sequences, FiniteSetsExt

CONSTANTS
  Processes,
  Users,             (* who starts the backend by hand; systemd is "root"    *)
  Arguments          (* command lines: sequences of [key, value], value      *)
                     (* "none" for an argument without '='                   *)

VARIABLES
  pc, args, user,
  socket,            (* the listening socket: "none", "own" or "systemd"     *)
  port,              (* the serial port: "none" or "named" by the file, then *)
                     (* "open", "locked" by another process or "missing"     *)
  stop,              (* sd_event_exit was called with an event loop          *)
  exitCode,          (* how the process ended                                *)
  alone,             (* no other process has run since it was started        *)
  path, owner,       (* what is at socketPath, and the user it belongs to    *)
  configFile,
  unit               (* systemd keeps the socket of carnine.socket           *)

own    == <<args, user, socket, stop, exitCode, alone>>
shared == <<path, owner, configFile, unit>>
vars   == <<pc, own, port, shared>>

Running(p) == pc[p] # "off"

Init ==
  /\ pc = [p \in Processes |-> "off"]
  /\ args = [p \in Processes |-> <<>>]
  /\ user = [p \in Processes |-> "root"]
  /\ socket = [p \in Processes |-> "none"]
  /\ port = [p \in Processes |-> "none"]
  /\ stop = [p \in Processes |-> FALSE]
  /\ exitCode = [p \in Processes |-> "none"]
  /\ alone = [p \in Processes |-> FALSE]
  /\ configFile \in {"absent", "broken", "complete", "disabled"}
  /\ unit \in BOOLEAN /\ path = IF unit THEN "systemd" ELSE "none"
  /\ owner = IF unit THEN "root" ELSE "none"

-----------------------------------------------------------------------------
(* Outside: systemd, the shell and the driver's editor. *)

SocketOfUnit == unit /\ \A q \in Processes : socket[q] # "systemd"

StartedBy == [socket : {"none"}, user : Users] \cup
             (IF SocketOfUnit THEN {[socket |-> "systemd", user |-> "root"]} ELSE {})

Start(p) ==
  /\ ~Running(p)
  /\ pc' = [pc EXCEPT ![p] = "args"]
  /\ \E a \in Arguments : args' = [args EXCEPT ![p] = a]
  /\ \E by \in StartedBy : socket' = [socket EXCEPT ![p] = by.socket] /\ user' = [user EXCEPT ![p] = by.user]
  /\ stop' = [stop EXCEPT ![p] = FALSE]
  /\ exitCode' = [exitCode EXCEPT ![p] = "none"]
  /\ alone' = [q \in Processes |-> q = p /\ \A r \in Processes : ~Running(r)]
  /\ UNCHANGED <<port, shared>>

Edit ==
  /\ configFile # "absent"
  /\ configFile' \in {"absent", "complete", "disabled"}
  /\ UNCHANGED <<pc, own, port, path, owner, unit>>

-----------------------------------------------------------------------------
(* The kernel closes what an ended process had open, and keeps the path. *)
Ended(p, code) ==
  /\ pc' = [pc EXCEPT ![p] = "off"]
  /\ socket' = [socket EXCEPT ![p] = "none"]
  /\ port' = [port EXCEPT ![p] = "none"]
  /\ exitCode' = [exitCode EXCEPT ![p] = code]
  /\ UNCHANGED <<args, user, stop, alone>>

Crash(p) ==
  /\ Running(p)
  /\ Ended(p, "killed")
  /\ UNCHANGED shared

(* SIGTERM and SIGINT: the default action before signal(), then the handler,*)
(* whose sd_event_exit fails as long as there is no event loop, then the    *)
(* sources of sd_event_add_signal.  A client's "die" ends the loop, too.    *)
Signal(p) ==
  \/ pc[p] = "args" /\ Ended(p, "killed") /\ UNCHANGED shared
  \/ /\ pc[p] \in {"mask", "socket", "bind", "udev", "ports", "serving"}
     /\ stop' = [stop EXCEPT ![p] = TRUE]
     /\ UNCHANGED <<pc, args, user, socket, port, exitCode, alone, shared>>

-----------------------------------------------------------------------------
(* main *)

Goto(p, place) == pc' = [pc EXCEPT ![p] = place] /\ UNCHANGED <<own, port, shared>>

GotoFinish(p, code) ==
  /\ pc' = [pc EXCEPT ![p] = "finish"]
  /\ exitCode' = [exitCode EXCEPT ![p] = code]
  /\ UNCHANGED <<args, user, socket, stop, alone, port, shared>>

(* CommandLineArgs: the first value given for a key counts. *)
GetParamValue(list, key) ==
  LET given == {i \in DOMAIN list : list[i].key = key /\ list[i].value # "none"}
  IN IF given = {} THEN "" ELSE list[Min(given)].value

Pharse(p) ==
  /\ pc[p] = "args"
  /\ IF GetParamValue(args[p], "--c") = "" THEN GotoFinish(p, "noConfig") ELSE Goto(p, "config")

(* BackendConfig::Load.  A complete file names a port, be it the default    *)
(* for a missing key; "" disables it; a file that is no JSON or cannot be   *)
(* read is logged and names none.                                           *)
Load(p) ==
  /\ pc[p] = "config"
  /\ IF configFile = "absent"
     THEN Goto(p, "create")
     ELSE /\ \E read \in {"none", IF configFile = "complete" THEN "named" ELSE "none"} :
               port' = [port EXCEPT ![p] = read]
          /\ pc' = [pc EXCEPT ![p] = "event"]
          /\ UNCHANGED <<own, shared>>

(* Where no file can be created, the defaults hold without one. *)
Create(p) ==
  /\ pc[p] = "create"
  /\ \/ /\ pc' = [pc EXCEPT ![p] = "write"]
        /\ configFile' = "broken"
        /\ UNCHANGED port
     \/ /\ pc' = [pc EXCEPT ![p] = "event"]
        /\ port' = [port EXCEPT ![p] = "named"]
        /\ UNCHANGED configFile
  /\ UNCHANGED <<own, path, owner, unit>>

WriteDefaults(p) ==
  /\ pc[p] = "write" /\ pc' = [pc EXCEPT ![p] = "event"]
  /\ configFile' = IF configFile = "absent" THEN "absent" ELSE "complete"
  /\ port' = [port EXCEPT ![p] = "named"]
  /\ UNCHANGED <<own, path, owner, unit>>

EventLoop(p)  == pc[p] = "event" /\ (Goto(p, "mask") \/ GotoFinish(p, "failed"))
AddSignals(p) == pc[p] = "mask" /\ (Goto(p, "socket") \/ GotoFinish(p, "failed"))

(* Mutant: the path of an earlier process is left in place. *)
ListenKeepingPath(p) ==
  /\ pc[p] = "socket"
  /\ IF socket[p] = "systemd" THEN Goto(p, "udev") ELSE Goto(p, "bind")

(* In /tmp a file is removed by its owner or by root. *)
MayUnlink(p) == user[p] \in {"root", owner}

Unlink(p) ==
  IF MayUnlink(p) THEN path' = "none" /\ owner' = "none" ELSE UNCHANGED <<path, owner>>

(* Whether unlink removed the path of an earlier process is not asked.      *)
Listen(p) ==
  /\ pc[p] = "socket"
  /\ \/ socket[p] = "systemd" /\ Goto(p, "udev")
     \/ /\ socket[p] = "none"
        /\ pc' = [pc EXCEPT ![p] = "bind"]
        /\ Unlink(p)
        /\ UNCHANGED <<own, port, configFile, unit>>
     \/ GotoFinish(p, "failed")

(* bind makes the path, and listen behind it may still fail. *)
Bind(p) ==
  /\ pc[p] = "bind"
  /\ \/ path # "none" /\ GotoFinish(p, "bindFailed")
     \/ /\ path = "none" /\ path' = p /\ owner' = user[p]
        /\ \/ /\ pc' = [pc EXCEPT ![p] = "udev"]
              /\ socket' = [socket EXCEPT ![p] = "own"]
              /\ UNCHANGED exitCode
           \/ /\ pc' = [pc EXCEPT ![p] = "finish"]
              /\ exitCode' = [exitCode EXCEPT ![p] = "failed"]
              /\ UNCHANGED socket
        /\ UNCHANGED <<args, user, stop, alone, port, configFile, unit>>
     \/ GotoFinish(p, "failed")

(* Mutant: a port another process has locked is used all the same. *)
OpenUnlocked(p) ==
  IF port[p] = "named" THEN port' = [port EXCEPT ![p] = "open"] ELSE UNCHANGED port

(* BaseSerial::Open: a port that is not there, or that another process has  *)
(* locked, stays closed, and nobody tries again.                            *)
Open(p) ==
  IF port[p] # "named" THEN UNCHANGED port
  ELSE \E found \in {"missing", IF \E q \in Processes : port[q] = "open" THEN "locked" ELSE "open"} :
         port' = [port EXCEPT ![p] = found]

UdevInit(p) == pc[p] = "udev" /\ (Goto(p, "ports") \/ GotoFinish(p, "failed"))

(* The port is open before the rest of the controllers comes up.  If that   *)
(* fails it stays so until the process has ended; if its thread runs by     *)
(* then, the process ends in std::terminate, a Crash.                       *)
Controllers(p) ==
  /\ pc[p] = "ports"
  /\ Open(p)
  /\ \/ /\ pc' = [pc EXCEPT ![p] = "serving"]
        /\ UNCHANGED own
     \/ /\ pc' = [pc EXCEPT ![p] = "finish"]
        /\ exitCode' = [exitCode EXCEPT ![p] = "failed"]
        /\ UNCHANGED <<args, user, socket, stop, alone>>
  /\ UNCHANGED shared

(* Mutant: Close joins the thread of a port that was never opened. *)
LeaveWithOpenPort(p) ==
  /\ pc[p] = "serving" /\ stop[p] /\ port[p] = "open"
  /\ pc' = [pc EXCEPT ![p] = "finish"]
  /\ port' = [port EXCEPT ![p] = "none"]
  /\ exitCode' = [exitCode EXCEPT ![p] = "done"]
  /\ UNCHANGED <<args, user, socket, stop, alone, shared>>

(* The event loop ends; BackendController::Stop closes the port. *)
Leave(p) ==
  /\ pc[p] = "serving" /\ stop[p]
  /\ pc' = [pc EXCEPT ![p] = "finish"]
  /\ port' = [port EXCEPT ![p] = "none"]
  /\ exitCode' = [exitCode EXCEPT ![p] = "done"]
  /\ UNCHANGED <<args, user, socket, stop, alone, shared>>

(* Every way out tries to remove the path, whoever listens behind it. *)
Finish(p) ==
  /\ pc[p] = "finish"
  /\ Unlink(p)
  /\ Ended(p, exitCode[p])
  /\ UNCHANGED <<configFile, unit>>

Main(p) ==
  \/ Pharse(p) \/ Load(p) \/ Create(p) \/ WriteDefaults(p) \/ EventLoop(p) \/ AddSignals(p)
  \/ Listen(p) \/ Bind(p) \/ UdevInit(p) \/ Controllers(p) \/ Leave(p) \/ Finish(p)

Next == Edit \/ \E p \in Processes : Start(p) \/ Main(p) \/ Signal(p) \/ Crash(p)

Spec == Init /\ [][Next]_vars

(* A process keeps running; nothing is assumed of the rest. *)
FairSpec == Spec /\ \A p \in Processes : WF_vars(Main(p))

-----------------------------------------------------------------------------
(* Properties *)

TypeOK ==
  /\ pc \in [Processes -> {"off", "args", "config", "create", "write", "event", "mask",
                           "socket", "bind", "udev", "ports", "serving", "finish"}]
  /\ args \in [Processes -> Arguments \cup {<<>>}]
  /\ user \in [Processes -> Users \cup {"root"}] /\ owner \in Users \cup {"root", "none"}
  /\ socket \in [Processes -> {"none", "own", "systemd"}]
  /\ port \in [Processes -> {"none", "named", "open", "locked", "missing"}]
  /\ stop \in [Processes -> BOOLEAN] /\ alone \in [Processes -> BOOLEAN]
  /\ exitCode \in [Processes -> {"none", "killed", "noConfig", "failed", "bindFailed", "done"}]
  /\ path \in Processes \cup {"none", "systemd"}
  /\ configFile \in {"absent", "broken", "complete", "disabled"} /\ unit \in BOOLEAN

(* At most one process talks to the board: two would both answer it, and    *)
(* each would read half of its telegrams.                                   *)
PortExclusive == \A p, q \in Processes : port[p] = "open" /\ port[q] = "open" => p = q

(* What earlier processes left when they crashed or ended keeps no later    *)
(* one, if it runs alone, from its socket and its port: it fails to bind    *)
(* only where a file stands that its user may not remove, once it serves on *)
(* a socket of its own clients reach that one, and a port it named is not   *)
(* locked.  That the port is there is not said, nor that clients reach the  *)
(* socket of systemd, whose path an earlier process may have removed.       *)
AloneIsWhole ==
  \A p \in Processes : alone[p] =>
    /\ exitCode[p] = "bindFailed" => path # "none" /\ ~MayUnlink(p)
    /\ pc[p] = "serving" => (socket[p] = "own" => path = p) /\ port[p] # "locked"

(* Once there is an event loop, no signal is lost: wherever it strikes, the *)
(* process ends.                                                            *)
SignalEnds == \A p \in Processes : stop[p] ~> pc[p] = "off"
=============================================================================
