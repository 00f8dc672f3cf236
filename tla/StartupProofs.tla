---------------------------- MODULE StartupProofs ----------------------------
(***************************************************************************)
(* Proofs about Startup: one process at most has the serial port, and what *)
(* earlier processes left keeps none that runs alone from its socket and   *)
(* its port, for any number of processes and users and every command line. *)
(***************************************************************************)
EXTENDS Startup, TLAPS

(* An ended process has nothing open. *)
OffIsClosed == \A p \in Processes : pc[p] = "off" => port[p] = "none" /\ socket[p] = "none"

(* Who runs alone runs alone. *)
AloneRuns == \A p, q \in Processes : alone[p] /\ q # p => pc[q] = "off"

(* Where a process has a socket of its own. *)
Bound == {"udev", "ports", "serving", "finish"}
OwnIsBound == \A p \in Processes : socket[p] = "own" => pc[p] \in Bound

(* What a process that runs alone may rely on on its way up. *)
Undisturbed ==
  \A p \in Processes : alone[p] =>
    /\ exitCode[p] = "bindFailed" => path # "none" /\ ~MayUnlink(p)
    /\ pc[p] = "bind" /\ path # "none" => ~MayUnlink(p)
    /\ pc[p] \in {"udev", "ports", "serving"} /\ socket[p] = "own" => path = p
    /\ port[p] # "locked"

IInv == TypeOK /\ PortExclusive /\ OffIsClosed /\ AloneRuns /\ OwnIsBound /\ Undisturbed

LEMMA InitIInv == Init => IInv
  BY DEF Init, IInv, TypeOK, PortExclusive, OffIsClosed, AloneRuns, OwnIsBound, Undisturbed

-----------------------------------------------------------------------------
(* Each step keeps the types. *)
LEMMA TypeStep == TypeOK /\ [Next]_vars => TypeOK'
<1> SUFFICES ASSUME TypeOK, [Next]_vars PROVE TypeOK'
  OBVIOUS
<1> USE DEF TypeOK
<1>1. CASE Edit
  BY <1>1 DEF Edit, own
<1>2. ASSUME NEW p \in Processes, Start(p) PROVE TypeOK'
  BY <1>2 DEF Start, StartedBy, SocketOfUnit, Running, shared
<1>3. ASSUME NEW p \in Processes, Main(p) PROVE TypeOK'
  <2> USE DEF Goto, GotoFinish, Ended, Unlink, own, shared
  <2>1. CASE Pharse(p)
    BY <2>1 DEF Pharse
  <2>2. CASE Load(p) \/ Create(p) \/ WriteDefaults(p)
    BY <2>2 DEF Load, Create, WriteDefaults
  <2>3. CASE EventLoop(p) \/ AddSignals(p) \/ UdevInit(p)
    BY <2>3 DEF EventLoop, AddSignals, UdevInit
  <2>4. CASE Listen(p) \/ Bind(p)
    BY <2>4 DEF Listen, Bind
  <2>5. CASE Controllers(p)
    BY <2>5 DEF Controllers, Open
  <2>6. CASE Leave(p) \/ Finish(p)
    BY <2>6 DEF Leave, Finish
  <2> QED BY <1>3, <2>1, <2>2, <2>3, <2>4, <2>5, <2>6 DEF Main
<1>4. ASSUME NEW p \in Processes, Signal(p) PROVE TypeOK'
  BY <1>4 DEF Signal, Ended, shared
<1>5. ASSUME NEW p \in Processes, Crash(p) PROVE TypeOK'
  BY <1>5 DEF Crash, Ended, shared
<1>6. CASE UNCHANGED vars
  BY <1>6 DEF vars, own, shared
<1> QED BY <1>1, <1>2, <1>3, <1>4, <1>5, <1>6 DEF Next

-----------------------------------------------------------------------------
(* Nobody opens a port another process has open, and an end closes it. *)
LEMMA PortStep == IInv /\ [Next]_vars => PortExclusive' /\ OffIsClosed'
<1> SUFFICES ASSUME IInv, [Next]_vars PROVE PortExclusive' /\ OffIsClosed'
  OBVIOUS
<1> USE DEF IInv, TypeOK, PortExclusive, OffIsClosed
<1>1. CASE Edit
  BY <1>1 DEF Edit, own
<1>2. ASSUME NEW p \in Processes, Start(p) PROVE PortExclusive' /\ OffIsClosed'
  BY <1>2 DEF Start, StartedBy, SocketOfUnit, Running, shared
<1>3. ASSUME NEW p \in Processes, Main(p) PROVE PortExclusive' /\ OffIsClosed'
  <2> USE DEF Goto, GotoFinish, Ended, Unlink, own, shared
  <2>1. CASE Pharse(p)
    BY <2>1 DEF Pharse
  <2>2. CASE Load(p) \/ Create(p) \/ WriteDefaults(p)
    BY <2>2 DEF Load, Create, WriteDefaults
  <2>3. CASE EventLoop(p) \/ AddSignals(p) \/ UdevInit(p)
    BY <2>3 DEF EventLoop, AddSignals, UdevInit
  <2>4. CASE Listen(p) \/ Bind(p)
    BY <2>4 DEF Listen, Bind
  <2>5. CASE Controllers(p)
    BY <2>5 DEF Controllers, Open
  <2>6. CASE Leave(p) \/ Finish(p)
    BY <2>6 DEF Leave, Finish
  <2> QED BY <1>3, <2>1, <2>2, <2>3, <2>4, <2>5, <2>6 DEF Main
<1>4. ASSUME NEW p \in Processes, Signal(p) PROVE PortExclusive' /\ OffIsClosed'
  BY <1>4 DEF Signal, Ended, shared
<1>5. ASSUME NEW p \in Processes, Crash(p) PROVE PortExclusive' /\ OffIsClosed'
  BY <1>5 DEF Crash, Ended, shared
<1>6. CASE UNCHANGED vars
  BY <1>6 DEF vars, own, shared
<1> QED BY <1>1, <1>2, <1>3, <1>4, <1>5, <1>6 DEF Next

(* A process keeps running alone until another one starts, and the steps of *)
(* a process that runs with others do not touch what one alone relies on.   *)
LEMMA AloneStep == IInv /\ [Next]_vars => AloneRuns' /\ OwnIsBound' /\ Undisturbed'
<1> DEFINE Goal == AloneRuns /\ OwnIsBound /\ Undisturbed
<1> SUFFICES ASSUME IInv, [Next]_vars PROVE Goal'
  OBVIOUS
<1> USE DEF IInv, TypeOK, AloneRuns, OwnIsBound, Bound, Undisturbed, MayUnlink
<1>1. CASE Edit
  BY <1>1 DEF Edit, own
<1>2. ASSUME NEW p \in Processes, Start(p) PROVE Goal'
  <2>1. AloneRuns'
    BY <1>2 DEF Start, Running
  <2>2. OwnIsBound'
    BY <1>2 DEF Start, StartedBy, SocketOfUnit
  <2>3. Undisturbed'
    BY <1>2 DEF Start, StartedBy, SocketOfUnit, shared, Running, OffIsClosed
  <2> QED BY <2>1, <2>2, <2>3
<1>3. ASSUME NEW p \in Processes, Main(p) PROVE Goal'
  <2> USE DEF Goto, GotoFinish, Ended, Unlink, own, shared
  <2>1. CASE Pharse(p)
    <3>1. CASE GotoFinish(p, "noConfig")
      <4>1. pc[p] = "args" /\ pc'[p] = "finish" /\ exitCode'[p] = "noConfig"
        BY <2>1, <3>1 DEF Pharse
      <4>2. \A q \in Processes : q # p => pc'[q] = pc[q] /\ exitCode'[q] = exitCode[q]
        BY <3>1
      <4>3. UNCHANGED <<socket, alone, port, path, owner, user>>
        BY <3>1
      <4>4. AloneRuns'
        BY <4>1, <4>2, <4>3
      <4>5. OwnIsBound'
        BY <4>1, <4>2, <4>3
      <4>6. Undisturbed'
        BY <4>1, <4>2, <4>3
      <4> QED BY <4>4, <4>5, <4>6
    <3>2. CASE Goto(p, "config")
      BY <2>1, <3>2 DEF Pharse
    <3> QED BY <2>1, <3>1, <3>2 DEF Pharse
  <2>2. CASE Load(p)
    BY <2>2 DEF Load
  <2>3. CASE Create(p) \/ WriteDefaults(p)
    BY <2>3 DEF Create, WriteDefaults
  <2>4. CASE EventLoop(p) \/ AddSignals(p) \/ UdevInit(p)
    BY <2>4 DEF EventLoop, AddSignals, UdevInit
  <2>5. CASE Listen(p)
    BY <2>5 DEF Listen
  <2>6. CASE Bind(p)
    BY <2>6 DEF Bind
  <2>7. CASE Controllers(p)
    BY <2>7 DEF Controllers, Open, OffIsClosed
  <2>8. CASE Leave(p)
    BY <2>8 DEF Leave
  <2>9. CASE Finish(p)
    BY <2>9 DEF Finish
  <2> QED BY <1>3, <2>1, <2>2, <2>3, <2>4, <2>5, <2>6, <2>7, <2>8, <2>9 DEF Main
<1>4. ASSUME NEW p \in Processes, Signal(p) PROVE Goal'
  BY <1>4 DEF Signal, Ended, shared
<1>5. ASSUME NEW p \in Processes, Crash(p) PROVE Goal'
  BY <1>5 DEF Crash, Ended, shared, Running
<1>6. CASE UNCHANGED vars
  BY <1>6 DEF vars, own, shared
<1> QED BY <1>1, <1>2, <1>3, <1>4, <1>5, <1>6 DEF Next

LEMMA Invariant == Spec => []IInv
<1>1. IInv /\ [Next]_vars => IInv'
  BY TypeStep, PortStep, AloneStep DEF IInv
<1> QED BY InitIInv, <1>1, PTL DEF Spec

-----------------------------------------------------------------------------
(* At most one process talks to the board (BaseSerial::Open).               *)
THEOREM OnePort == Spec => []PortExclusive
<1>1. IInv => PortExclusive
  BY DEF IInv
<1> QED BY Invariant, <1>1, PTL

(* A process that runs alone is refused its path only by the file of        *)
(* another user, is reached behind it, and finds its port unlocked,         *)
(* whatever crashed before it (main.cpp, unlink before bind, and the lock   *)
(* of BaseSerial::Open, which ends with the process that took it).          *)
THEOREM AloneComesUp == Spec => []AloneIsWhole
<1>1. IInv => AloneIsWhole
  BY DEF IInv, AloneIsWhole, Undisturbed
<1> QED BY Invariant, <1>1, PTL
=============================================================================
