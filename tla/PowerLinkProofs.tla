-------------------------- MODULE PowerLinkProofs --------------------------
(***************************************************************************)
(* Proofs about the closed loop of board and Pi, for boots, halts, windows *)
(* and a delay of any length and any number of faults.  The board of the   *)
(* loop is the board of PowerSupply, so that everything proved of that     *)
(* board holds in the loop; and the latch of the backend is never stale.   *)
(***************************************************************************)
EXTENDS PowerLink, PowerSupplyProofs, SequenceTheorems

LEMMA BackendCommands == NoRelayCommands /\ NoResetCommands
  BY LinkAssumption
  DEF NoRelayCommands, NoResetCommands, CmdAlive, CmdService, CmdRelais, CmdBootloader,
      CmdPowerOnTime

(* The part of LinkTypeOK that is about the Pi. *)
PiTypes ==
  /\ pi \in PiStates /\ left \in Nat /\ bootTakes \in {0} \cup BootSeconds
  /\ toPi \in States \cup {"none"} /\ shutdownInWork \in BOOLEAN
  /\ faults \in 0..MaxFaults /\ owed \in Int
  /\ pi = "off" <=> Pi \notin relais

(* A powered Pi finds the board in its loop: it is switched off only in     *)
(* IDLE, and there the relay is off.                                        *)
LEMMA BoardListens ==
  ASSUME IInv, PiTypes, pi # "off"
  PROVE  at \in Loop
<1>1. Pi \in relais /\ systemState # "IDLE"
  BY BackendCommands DEF PiTypes, IInv, RelayInterlock
<1>2. selfHold /\ at \notin {"unpowered", "resetting", "draining"}
  BY <1>1, BackendCommands DEF IInv, SupplyInv
<1> QED BY <1>2 DEF IInv, TypeInv, TypeOK, PlaceTypes

(* What the Pi sends is a byte the board may receive. *)
LEMMA WriteIsReceive ==
  ASSUME IInv, PiTypes, pi # "off", NEW byte \in Commands,
         Write(byte), UNCHANGED <<boardVars, dig3>>
  PROVE  ReceiveByte(byte)
<1>1. at \in Loop
  BY BoardListens
<1> QED BY <1>1 DEF Write, boardVars, ReceiveByte, timers, config, pins

(* Every step of the loop is a step of the board, or none of it. *)
LEMMA BoardNext == IInv /\ PiTypes /\ [LinkNext]_linkVars => [Next]_vars
<1> SUFFICES ASSUME IInv, PiTypes, [LinkNext]_linkVars PROVE Next \/ UNCHANGED vars
  OBVIOUS
<1>1. CASE UNCHANGED linkVars
  BY <1>1 DEF linkVars
<1>2. CASE BoardStep
  BY <1>2 DEF BoardStep, Next, MainLoop
<1>3. CASE Second
  BY <1>3 DEF Second, Next, MainLoop
<1>4. CASE Ignition \/ Dig3Follows
  BY <1>4 DEF Ignition, Dig3Follows, Next, Environment, PinChange
<1>5. CASE BackendUp \/ Halt
  BY <1>5 DEF BackendUp, Halt
<1>6. CASE HandleSystemState
  <2>1. pi # "off" /\ UNCHANGED <<boardVars, dig3>> /\ (UNCHANGED rx \/ Write(CmdAlive))
    BY <1>6 DEF HandleSystemState
  <2>2. CASE UNCHANGED rx
    BY <2>1, <2>2 DEF vars, boardVars, timers, config, pins
  <2>3. CASE Write(CmdAlive)
    BY <2>1, <2>3, WriteIsReceive, LinkAssumption DEF Next, Environment
  <2> QED BY <2>1, <2>2, <2>3
<1>7. CASE ServiceModeOn
  <2>1. pi # "off" /\ UNCHANGED <<boardVars, dig3>> /\ Write(CmdService)
    BY <1>7 DEF ServiceModeOn
  <2> QED BY <2>1, WriteIsReceive, LinkAssumption DEF Next, Environment
<1>8. CASE LoseTelegram \/ Hang \/ Cancel
  BY <1>8 DEF LoseTelegram, Hang, Cancel, Fault
<1> QED BY <1>1, <1>2, <1>3, <1>4, <1>5, <1>6, <1>7, <1>8 DEF LinkNext, PiStep

-----------------------------------------------------------------------------
(* The relay of the Pi is the one link from the board to its supply. *)
LEMMA RelayTypes ==
  ASSUME PiTypes, SupplyFollowsRelay
  PROVE  /\ pi' \in PiStates /\ left' \in Nat /\ bootTakes' \in {0} \cup BootSeconds
         /\ toPi' \in States \cup {"none"} /\ shutdownInWork' \in BOOLEAN
         /\ faults' \in 0..MaxFaults
         /\ pi' = "off" <=> Pi \notin relais'
<1> USE LinkAssumption DEF PiTypes, PiStates
<1>1. CASE Pi \in relais /\ Pi \in relais'
  BY <1>1 DEF SupplyFollowsRelay
<1>2. CASE Pi \in relais /\ Pi \notin relais'
  <2>1. /\ pi' = "off" /\ left' = 0 /\ bootTakes' = 0
        /\ toPi' = "none" /\ shutdownInWork' = FALSE /\ faults' = 0
    BY <1>2 DEF SupplyFollowsRelay, SupplyEnds
  <2>2. shutdownInWork' \in BOOLEAN
    BY <2>1, Zenon
  <2>3. faults' \in 0..MaxFaults /\ left' \in Nat
    BY <2>1
  <2> QED BY <1>2, <2>1, <2>2, <2>3
<1>3. CASE Pi \notin relais /\ Pi \in relais'
  <2>1. /\ pi' = "booting" /\ bootTakes' \in BootSeconds /\ left' = bootTakes'
        /\ toPi' = "none" /\ shutdownInWork' = FALSE /\ faults' = 0
    BY <1>3 DEF SupplyFollowsRelay, SupplyStarts
  <2>2. shutdownInWork' \in BOOLEAN
    BY <2>1, Zenon
  <2>3. faults' \in 0..MaxFaults /\ left' \in Nat
    BY <2>1
  <2> QED BY <1>3, <2>1, <2>2, <2>3
<1>4. CASE Pi \notin relais /\ Pi \notin relais'
  BY <1>4 DEF SupplyFollowsRelay
<1> QED BY <1>1, <1>2, <1>3, <1>4

LEMMA PiTypesNext == ASSUME IInv, IInv', PiTypes, LinkNext PROVE PiTypes'
<1>1. CASE BoardStep
  <2>1. powerOffTimer' \in Nat /\ faults \in Int /\ owed \in Int
    BY DEF IInv, TypeInv, TypeOK, TimerTypes, PiTypes
  <2>2. owed' \in {-1, owed, faults + Slack(powerOffTimer')}
    BY <1>1 DEF BoardStep
  <2>3. owed' \in Int
    BY <2>1, <2>2, LinkAssumption DEF Slack
  <2> QED BY <1>1, <2>3, RelayTypes DEF BoardStep, PiTypes
<1> USE DEF PiTypes, PiStates, vars, boardVars, piVars
<1>2. CASE Second
  <2>1. sent' = Status /\ systemState \in States /\ Dec(left) \in Nat
    BY <1>2, DecType DEF Second, Timer1000ms, IInv, TypeInv, TypeOK, PlaceTypes
  <2>2. toPi' \in States \cup {"none"}
    BY <1>2, <2>1 DEF Second, Heard, Status
  <2> QED BY <1>2, <2>1, <2>2 DEF Second, Timer1000ms
<1>3. CASE Ignition \/ Dig3Follows
  BY <1>3 DEF Ignition, Dig3Follows, Pin
<1>4. CASE BackendUp \/ Halt
  BY <1>4 DEF BackendUp, Halt
<1>5. CASE HandleSystemState
  <2>1. /\ pi = "up" /\ toPi' = "none"
        /\ UNCHANGED <<bootTakes, owed, relais>>
    BY <1>5 DEF HandleSystemState
  <2>2. \/ pi' = "halting" /\ left' = HaltSeconds /\ shutdownInWork' = TRUE /\ UNCHANGED faults
        \/ faults < MaxFaults /\ faults' = faults + 1 /\ UNCHANGED <<pi, left, shutdownInWork>>
        \/ UNCHANGED <<pi, left, shutdownInWork, faults>>
    BY <1>5 DEF HandleSystemState, PowerOffSystemdBus
  <2>3. shutdownInWork' \in BOOLEAN
    BY <2>2, Zenon
  <2>4. left' \in Nat /\ faults' \in 0..MaxFaults /\ pi' \in PiStates /\ pi' # "off"
    BY <2>1, <2>2, LinkAssumption
  <2> QED BY <2>1, <2>3, <2>4
<1>6. CASE ServiceModeOn
  BY <1>6 DEF ServiceModeOn
<1>7. CASE LoseTelegram \/ Hang \/ Cancel
  BY <1>7, LinkAssumption DEF LoseTelegram, Hang, Cancel, Fault
<1> QED BY <1>1, <1>2, <1>3, <1>4, <1>5, <1>6, <1>7 DEF LinkNext, PiStep

-----------------------------------------------------------------------------
(* The way out of POWEROFF goes through the cut supply. *)
LEMMA LeavesByCut ==
  ASSUME systemState = "POWEROFF", BoardStep
  PROVE  systemState' = "POWEROFF" \/ Pi \notin relais'
<1>1. CASE NoSecond \/ NoCommand
  BY <1>1 DEF NoSecond, NoCommand
<1>2. CASE Branch
  BY <1>2
  DEF Branch, PowerOn, CancelPowerOn, BootPi, CancelBoot, EnterRun, AliveTimeout,
      CarOffline, PiHalted, CutPower, SwitchOff, NoTransition
<1>3. CASE Interpret
  BY <1>3
  DEF Interpret, SwitchRelais, Bootloader, OtherCommand, SignOfLife, RequestPowerOff,
      ToggleDebug, SetPowerOnTime, ReadPowerOnTime, SetServiceMode
<1>4. CASE Hardware
  BY <1>4 DEF Hardware, PowerUp, PowerLoss, ChipReset, WatchdogReset, main, InitIO
<1> QED BY <1>1, <1>2, <1>3, <1>4 DEF BoardStep

(* A telegram that says POWEROFF is read while the board still is there, and *)
(* a Pi without supply has neither a telegram nor a latch.                   *)
LatchInv ==
  /\ pi = "off" => toPi = "none" /\ ~shutdownInWork
  /\ toPi = "POWEROFF" => systemState = "POWEROFF"
  /\ LatchNotStale

LEMMA LatchNext == ASSUME IInv, PiTypes, LatchInv, LinkNext PROVE LatchInv'
<1> USE DEF LatchInv, LatchNotStale
<1>1. CASE BoardStep
  <2>1. CASE Pi \in relais /\ Pi \in relais'
    <3>1. UNCHANGED <<pi, toPi, shutdownInWork>>
      BY <1>1, <2>1 DEF BoardStep, SupplyFollowsRelay
    <3> QED BY <1>1, <2>1, <3>1, LeavesByCut
  <2>2. CASE Pi \in relais /\ Pi \notin relais'
    BY <1>1, <2>2 DEF BoardStep, SupplyFollowsRelay, SupplyEnds
  <2>3. CASE Pi \notin relais /\ Pi \in relais'
    BY <1>1, <2>3 DEF BoardStep, SupplyFollowsRelay, SupplyStarts
  <2>4. CASE Pi \notin relais /\ Pi \notin relais'
    <3>1. pi = "off" /\ UNCHANGED <<pi, toPi, shutdownInWork>>
      BY <1>1, <2>4 DEF BoardStep, SupplyFollowsRelay, PiTypes
    <3> QED BY <3>1
  <2> QED BY <2>1, <2>2, <2>3, <2>4
<1>2. CASE Second
  <2>1. UNCHANGED <<systemState, pi, shutdownInWork>> /\ sent' = Status
    BY <1>2 DEF Second, Timer1000ms
  <2>2. toPi' \in {systemState, "none"} /\ (pi # "up" => toPi' = "none")
    BY <1>2, <2>1 DEF Second, Heard, Status
  <2> QED BY <2>1, <2>2
<1> USE DEF vars, boardVars, piVars
<1>3. CASE Ignition \/ Dig3Follows
  BY <1>3 DEF Ignition, Dig3Follows, Pin
<1>4. CASE BackendUp \/ Halt
  BY <1>4 DEF BackendUp, Halt
<1>5. CASE HandleSystemState
  BY <1>5 DEF HandleSystemState, PowerOffSystemdBus
<1>6. CASE ServiceModeOn
  BY <1>6 DEF ServiceModeOn
<1>7. CASE LoseTelegram \/ Hang \/ Cancel
  BY <1>7 DEF LoseTelegram, Hang, Cancel, Fault
<1> QED BY <1>1, <1>2, <1>3, <1>4, <1>5, <1>6, <1>7 DEF LinkNext, PiStep

-----------------------------------------------------------------------------
(* The invariant of the loop: that of the board, and the Pi's share. *)
LinkInv == IInv /\ PiTypes /\ LatchInv

LEMMA LinkInvariant == LinkSpec => []LinkInv
<1>1. LinkInit => LinkInv
  <2> SUFFICES ASSUME LinkInit PROVE LinkInv
    OBVIOUS
  <2>1. IInv
    BY InitIInv DEF LinkInit
  <2>2. PiTypes
    <3>1. shutdownInWork \in BOOLEAN
      BY Zenon DEF LinkInit
    <3> QED BY <3>1, LinkAssumption DEF LinkInit, Init, PiTypes, PiStates
  <2>3. LatchInv
    BY DEF LinkInit, LatchInv, LatchNotStale
  <2> QED BY <2>1, <2>2, <2>3 DEF LinkInv
<1>2. LinkInv /\ [LinkNext]_linkVars => LinkInv'
  <2>1. ASSUME LinkInv, LinkNext PROVE LinkInv'
    <3>1. IInv'
      BY <2>1, BoardNext, StepIInv DEF LinkInv
    <3> QED BY <2>1, <3>1, PiTypesNext, LatchNext DEF LinkInv
  <2>2. ASSUME LinkInv, UNCHANGED linkVars PROVE LinkInv'
    <3>1. IInv'
      BY <2>2, StepIInv DEF LinkInv, linkVars
    <3> QED BY <2>2, <3>1
      DEF LinkInv, linkVars, vars, piVars, PiTypes, LatchInv, LatchNotStale
  <2> QED BY <2>1, <2>2
<1> QED BY <1>1, <1>2, PTL DEF LinkSpec

(* The loop adds nothing the board of PowerSupply could not do: whatever a  *)
(* Pi sends is received inside the main loop.                               *)
THEOREM BoardOfTheLoop == LinkSpec => Spec
<1>1. LinkInit => Init
  BY DEF LinkInit
<1>2. LinkInv /\ [LinkNext]_linkVars => [Next]_vars
  BY BoardNext DEF LinkInv
<1> QED BY <1>1, <1>2, LinkInvariant, PTL DEF LinkSpec, Spec

(* Types of board and Pi; the Pi runs exactly while its relay is on.        *)
THEOREM LinkTypeCorrect == LinkSpec => []LinkTypeOK
<1>1. LinkInv => LinkTypeOK
  BY DEF LinkInv, IInv, TypeInv, TypeOK, PiTypes, LinkTypeOK
<1> QED BY <1>1, LinkInvariant, PTL

(* _shutdownInWork never outlives the POWEROFF it was set in, although no   *)
(* line of the backend resets it.                                           *)
THEOREM LatchSafe == LinkSpec => []LatchNotStale
<1>1. LinkInv => LatchNotStale
  BY DEF LinkInv, LatchInv
<1> QED BY <1>1, LinkInvariant, PTL

-----------------------------------------------------------------------------
(* What the counter of the board knows of a healthy Pi. *)

(* A telegram that will be answered, or its answer on the way.              *)
AnswerUnderway ==
  toPi \in {"PIBOOT", "RUN"} \/ rx \in {<<CmdAlive>>, <<CmdService, CmdAlive>>}

Waiting == IF AnswerUnderway THEN 1 ELSE 0

(* Seconds the board has counted for the Pi, with those it was cheated of. *)
Reserve == piAlive + Waiting + faults

(* One telegram is answered at a time, before the next; a message of a      *)
(* client may slip in.                                                      *)
RxInv ==
  /\ rx \in {<<>>, <<CmdAlive>>, <<CmdService>>, <<CmdService, CmdAlive>>}
  /\ toPi # "none" => rx \in {<<>>, <<CmdService>>}

(* The bound of the model keeps piAlive from wrapping. *)
CountInv ==
  /\ piAlive <= MaxAlive + 1
  /\ systemState # "RUN" \/ ~kl15 => piAlive <= MaxAlive

SupervisedInv ==
  systemState \in {"PIBOOT", "RUN"} =>
    pi \in {"booting", "up", "hung"} /\ toPi \in {"none", "PIBOOT", "RUN"}

(* Board and Pi count the same seconds of the boot; from then on each       *)
(* second leaves an answer or a fault, as far as CapAlive lets it count.    *)
BootInv ==
  systemState = "PIBOOT" =>
    /\ bootTimer <= BootTime /\ (at # "machine" => bootTimer > 0)
    /\ pi = "booting" => left = bootTakes - (BootTime - bootTimer)
    /\ pi = "up" => Reserve >= 2 \/ Reserve >= BootTime - bootTimer - bootTakes

(* In RUN a second takes one and its answer gives it back: the reserve of   *)
(* the boot stays what it was, less the faults.                             *)
RunInv ==
  systemState = "RUN" =>
    /\ pi = "booting" => bootTakes >= BootTime
    /\ pi = "up" =>
         bootTakes >= BootTime \/ Reserve >= 3 \/ Reserve >= 1 + BootTime - bootTakes

HealthInv == RxInv /\ CountInv /\ SupervisedInv /\ BootInv /\ RunInv

(* Receive rings of at most two bytes, without the sequences. *)
LEMMA Rings ==
  /\ CmdAlive # CmdService
  /\ Head(<<CmdAlive>>) = CmdAlive /\ Tail(<<CmdAlive>>) = <<>>
  /\ Head(<<CmdService>>) = CmdService /\ Tail(<<CmdService>>) = <<>>
  /\ Head(<<CmdService, CmdAlive>>) = CmdService
  /\ Tail(<<CmdService, CmdAlive>>) = <<CmdAlive>>
  /\ <<>> # <<CmdAlive>> /\ <<>> # <<CmdService>> /\ <<>> # <<CmdService, CmdAlive>>
  /\ <<CmdAlive>> # <<CmdService>> /\ <<CmdAlive>> # <<CmdService, CmdAlive>>
  /\ <<CmdService>> # <<CmdService, CmdAlive>>
<1> USE DEF CmdAlive, CmdService
<1>1. CmdAlive # CmdService
  OBVIOUS
<1>2. /\ Head(<<CmdAlive>>) = CmdAlive /\ Tail(<<CmdAlive>>) = <<>>
      /\ Head(<<CmdService>>) = CmdService /\ Tail(<<CmdService>>) = <<>>
  OBVIOUS
<1>3. /\ Head(<<CmdService, CmdAlive>>) = CmdService
      /\ Tail(<<CmdService, CmdAlive>>) = <<CmdAlive>>
  OBVIOUS
<1>4. <<>> # <<CmdAlive>> /\ <<>> # <<CmdService>> /\ <<>> # <<CmdService, CmdAlive>>
  OBVIOUS
<1>5. /\ <<CmdAlive>> # <<CmdService>> /\ <<CmdAlive>> # <<CmdService, CmdAlive>>
      /\ <<CmdService>> # <<CmdService, CmdAlive>>
  OBVIOUS
<1> QED BY <1>1, <1>2, <1>3, <1>4, <1>5

(* The ring of the code holds more than the two bytes that ever wait. *)
LEMMA Writes ==
  /\ rx = <<>> => Received(CmdAlive) = <<CmdAlive>> /\ Received(CmdService) = <<CmdService>>
  /\ rx = <<CmdService>> => Received(CmdAlive) = <<CmdService, CmdAlive>>
<1>1. /\ Len(<<>>) < RxCapacity /\ Len(<<CmdService>>) < RxCapacity
  BY LinkAssumption, BytesAssumption DEF CmdService
<1>2. /\ Append(<<>>, CmdAlive) = <<CmdAlive>> /\ Append(<<>>, CmdService) = <<CmdService>>
  BY DEF CmdAlive, CmdService
<1>3. Append(<<CmdService>>, CmdAlive) = <<CmdService, CmdAlive>>
  <2> DEFINE s == Append(<<CmdService>>, CmdAlive)
             t == <<CmdService, CmdAlive>>
  <2>1. s \in Seq(Int) /\ Len(s) = 2 /\ s[1] = CmdService /\ s[2] = CmdAlive
    BY DEF CmdAlive, CmdService
  <2>2. t \in Seq(Int) /\ Len(t) = 2 /\ t[1] = CmdService /\ t[2] = CmdAlive
    BY DEF CmdAlive, CmdService
  <2> HIDE DEF s, t
  <2>3. \A i \in 1..Len(s) : s[i] = t[i]
    BY <2>1, <2>2
  <2>4. s = t
    BY <2>1, <2>2, <2>3, SeqEqual
  <2> QED BY <2>4 DEF s, t
<1> QED BY <1>1, <1>2, <1>3 DEF Received

(* Of all commands only the two of the backend are ever read. *)
LEMMA OnlyBackendCommands ==
  ASSUME IInv, Interpret
  PROVE  SignOfLife \/ SetServiceMode(CmdService, TRUE)
<1>1. at # "argument"
  BY BackendCommands DEF IInv, SupplyInv
<1>2. rx # <<>> => Head(rx) \in {CmdAlive, CmdService}
  BY TailType, LinkAssumption DEF IInv, TypeInv, TypeOK, LineTypes
<1>3. ASSUME NEW byte \in Commands
      PROVE  ~SwitchRelais(byte) /\ ~Bootloader(byte) /\ ~OtherCommand(byte)
  BY LinkAssumption
  DEF SwitchRelais, Bootloader, OtherCommand, CmdRelais, CmdBootloader, KnownCommands,
      CmdAlive, CmdService, CmdVersion
<1>4. ~RequestPowerOff /\ ~ToggleDebug /\ ~SetPowerOnTime /\ ~SetServiceMode(CmdWatchdog, FALSE)
  BY <1>2
  DEF RequestPowerOff, ToggleDebug, SetPowerOnTime, SetServiceMode, Read,
      CmdAlive, CmdService, CmdPowerOff, CmdDebug, CmdPowerOnTime, CmdWatchdog
<1>5. ~ReadPowerOnTime
  BY <1>1 DEF ReadPowerOnTime
<1> QED BY <1>3, <1>4, <1>5 DEF Interpret

LEMMA Undisturbed ==
  ASSUME SupplyFollowsRelay, Pi \in relais <=> Pi \in relais'
  PROVE  UNCHANGED <<pi, left, bootTakes, toPi, shutdownInWork, faults>>
  BY DEF SupplyFollowsRelay

-----------------------------------------------------------------------------
(* Integers and bounds the arithmetic below rests on. *)
LEMMA Numbers ==
  ASSUME IInv, PiTypes
  PROVE  /\ piAlive \in Nat /\ bootTimer \in Nat /\ faults \in Nat /\ left \in Nat
         /\ bootTakes \in Nat /\ BootTime \in Nat \ {0} /\ Waiting \in {0, 1}
         /\ MaxAlive \in Nat /\ MaxAlive >= 3 /\ MaxAlive + 2 < ByteMod /\ ByteMod \in Nat
  BY LinkAssumption, BytesAssumption, TimesAssumption
  DEF IInv, TypeInv, TypeOK, TimerTypes, PiTypes, Waiting

LEMMA NoWrap ==
  ASSUME IInv, PiTypes, CountInv
  PROVE  (piAlive + 1) % ByteMod = piAlive + 1
  BY Numbers DEF CountInv

LEMMA BumpedAlive ==
  ASSUME IInv, PiTypes, CountInv
  PROVE  /\ Bumped = IF piAlive + 1 > 3 THEN 3 ELSE piAlive + 1
         /\ CapAlive(piAlive) = IF piAlive > 3 THEN 3 ELSE piAlive
  BY NoWrap DEF Bumped, CapAlive

(* Commands of the backend move the counter and the ring, nothing else of   *)
(* what the invariant speaks of.                                            *)
LEMMA CommandStep ==
  ASSUME IInv, PiTypes, HealthInv, BoardStep, Interpret
  PROVE  /\ UNCHANGED <<systemState, bootTimer, kl15, pi, left, bootTakes, toPi, faults>>
         /\ RxInv' /\ at' # "machine" /\ at # "machine"
         /\ \/ AnswerUnderway /\ ~AnswerUnderway' /\ piAlive' = Bumped
            \/ (AnswerUnderway' <=> AnswerUnderway) /\ piAlive' = CapAlive(piAlive)
<1> USE Rings
<1>1. SignOfLife \/ SetServiceMode(CmdService, TRUE)
  BY OnlyBackendCommands
<1>2. UNCHANGED <<systemState, bootTimer, kl15, relais>> /\ at = "uart" /\ at' = "timers"
  BY <1>1 DEF SignOfLife, SetServiceMode, Read, Reply, timers, pins
<1>3. UNCHANGED <<pi, left, bootTakes, toPi, faults>>
  BY <1>2, Undisturbed DEF BoardStep
<1>4. CASE SignOfLife
  <2>1. rx = <<CmdAlive>> /\ rx' = <<>> /\ toPi = "none"
    BY <1>4 DEF SignOfLife, Read, HealthInv, RxInv
  <2>2. piAlive' = Bumped
    BY <1>4 DEF SignOfLife
  <2> QED BY <1>2, <1>3, <2>1, <2>2 DEF RxInv, AnswerUnderway
<1>5. CASE SetServiceMode(CmdService, TRUE)
  <2>1. \/ rx = <<CmdService>> /\ rx' = <<>>
        \/ rx = <<CmdService, CmdAlive>> /\ rx' = <<CmdAlive>> /\ toPi = "none"
    BY <1>5 DEF SetServiceMode, Read, HealthInv, RxInv
  <2>2. piAlive' = CapAlive(piAlive)
    BY <1>5 DEF SetServiceMode
  <2> QED BY <1>2, <1>3, <2>1, <2>2 DEF RxInv, AnswerUnderway
<1> QED BY <1>1, <1>4, <1>5

LEMMA Sums ==
  \A m, n, k \in Nat :
    m + n + k \in Nat /\ (m + n >= 3 => m + n + k >= 3)
  OBVIOUS

LEMMA ReserveType ==
  ASSUME IInv, PiTypes
  PROVE  Reserve = piAlive + Waiting + faults /\ Reserve \in Nat
  BY Numbers DEF Reserve

(* Where board and Pi stay where they are, a reserve that does not shrink,  *)
(* or is as large as CapAlive allows, keeps what it promised.               *)
LEMMA StaysHealthy ==
  ASSUME IInv, PiTypes, HealthInv,
         UNCHANGED <<systemState, bootTimer, pi, left, bootTakes>>,
         systemState = "PIBOOT" /\ at' # "machine" => bootTimer > 0,
         Reserve' \in Nat, pi = "up" => Reserve' >= Reserve \/ Reserve' >= 3
  PROVE  BootInv' /\ RunInv'
<1>1. BootInv'
  BY Numbers, ReserveType DEF HealthInv, BootInv
<1>2. RunInv'
  BY Numbers, ReserveType DEF HealthInv, RunInv
<1> QED BY <1>1, <1>2

LEMMA HealthCommand ==
  ASSUME IInv, PiTypes, IInv', PiTypes', HealthInv, BoardStep, Interpret
  PROVE  HealthInv'
<1>1. RxInv' /\ SupervisedInv'
  BY CommandStep DEF HealthInv, SupervisedInv
<1>2. piAlive' \in Nat /\ (piAlive' <= 3 \/ piAlive' = piAlive) /\ Waiting' \in {0, 1}
  BY CommandStep, BumpedAlive, Numbers DEF HealthInv, Waiting
<1>3. CountInv'
  BY <1>2, CommandStep, Numbers DEF HealthInv, CountInv
<1>4. Reserve' \in Nat /\ (Reserve' >= Reserve \/ Reserve' >= 3)
  <2>1. faults' = faults
    BY CommandStep
  <2>2. \/ piAlive' + Waiting' = piAlive + Waiting
        \/ piAlive' + Waiting' >= 3
    BY CommandStep, BumpedAlive, Numbers DEF HealthInv, Waiting
  <2>3. Reserve = piAlive + Waiting + faults /\ Reserve' = piAlive' + Waiting' + faults'
    BY DEF Reserve
  <2>4. /\ piAlive \in Nat /\ Waiting \in Nat /\ faults \in Nat
        /\ piAlive' \in Nat /\ Waiting' \in Nat
    BY <1>2, Numbers
  <2>5. Reserve \in Nat /\ Reserve' \in Nat
    BY <2>1, <2>3, <2>4, Sums, Zenon
  <2>6. CASE piAlive' + Waiting' = piAlive + Waiting
    <3>1. Reserve' = Reserve
      BY <2>1, <2>3, <2>6, Zenon
    <3> QED BY <2>5, <3>1
  <2>7. CASE piAlive' + Waiting' >= 3
    BY <2>1, <2>3, <2>4, <2>7, Sums, Zenon
  <2> QED BY <2>2, <2>5, <2>6, <2>7
<1>5. /\ UNCHANGED <<systemState, bootTimer, pi, left, bootTakes>>
      /\ systemState = "PIBOOT" => bootTimer > 0
  BY CommandStep DEF HealthInv, BootInv
<1>6. BootInv' /\ RunInv'
  BY <1>4, <1>5, StaysHealthy
<1> QED BY <1>1, <1>3, <1>6 DEF HealthInv

(* Outside PIBOOT and RUN only the ring and the bound are at stake. *)
LEMMA HealthElsewhere ==
  ASSUME IInv, PiTypes, IInv', HealthInv, SupplyFollowsRelay,
         systemState' \notin {"PIBOOT", "RUN"}, rx' \in {rx, <<>>},
         piAlive' <= MaxAlive
  PROVE  HealthInv'
<1>1. toPi' \in {toPi, "none"}
  BY DEF SupplyFollowsRelay, SupplyEnds, SupplyStarts
<1>2. RxInv'
  BY <1>1, Rings DEF HealthInv, RxInv
<1>3. CountInv'
  <2>1. MaxAlive \in Nat /\ piAlive' \in Nat
    BY LinkAssumption, BytesAssumption DEF IInv, TypeInv, TypeOK, TimerTypes
  <2> QED BY <2>1 DEF CountInv
<1> QED BY <1>2, <1>3 DEF HealthInv, SupervisedInv, BootInv, RunInv

LEMMA HealthHardware ==
  ASSUME IInv, PiTypes, IInv', HealthInv, BoardStep, Hardware
  PROVE  HealthInv'
<1>1. systemState' = "IDLE" /\ rx' = <<>> /\ piAlive' = 0
  BY DEF Hardware, PowerUp, PowerLoss, ChipReset, WatchdogReset, main, InitGlobalVariables
<1>2. piAlive' <= MaxAlive
  BY <1>1, Numbers
<1> QED BY <1>1, <1>2, HealthElsewhere DEF BoardStep

(* Nothing happens: no second, no command, no branch taken. *)
LEMMA HealthIdle ==
  ASSUME IInv, PiTypes, IInv', PiTypes', HealthInv, SupplyFollowsRelay,
         UNCHANGED <<systemState, bootTimer, piAlive, relais, kl15, rx>>,
         systemState = "PIBOOT" /\ at' # "machine" => bootTimer > 0
  PROVE  HealthInv'
<1>1. UNCHANGED <<pi, left, bootTakes, toPi, faults>>
  BY Undisturbed
<1>2. Reserve' = Reserve
  BY <1>1 DEF Reserve, Waiting, AnswerUnderway
<1>3. BootInv' /\ RunInv'
  BY <1>1, <1>2, ReserveType, StaysHealthy
<1>4. RxInv' /\ CountInv' /\ SupervisedInv'
  BY <1>1 DEF HealthInv, RxInv, CountInv, SupervisedInv
<1> QED BY <1>3, <1>4 DEF HealthInv

LEMMA HealthBootPi ==
  ASSUME IInv, PiTypes, IInv', HealthInv, SupplyFollowsRelay, BootPi
  PROVE  HealthInv'
<1>1. /\ systemState = "POWERON" /\ systemState' = "PIBOOT" /\ bootTimer' = BootTime
      /\ Pi \in relais' /\ at' = "uart" /\ UNCHANGED <<piAlive, kl15, rx>>
  BY DEF BootPi, Machine, SetRelaisOn, pins
<1>2. Pi \notin relais
  BY <1>1, BackendCommands DEF IInv, RelayInterlock
<1>3. pi' = "booting" /\ left' = bootTakes' /\ toPi' = "none" /\ bootTakes' \in Nat
  BY <1>1, <1>2, LinkAssumption DEF SupplyFollowsRelay, SupplyStarts
<1>4. BootInv' /\ SupervisedInv' /\ RunInv'
  BY <1>1, <1>3, Numbers DEF BootInv, SupervisedInv, RunInv
<1>5. RxInv' /\ CountInv'
  BY <1>1, <1>3 DEF HealthInv, RxInv, CountInv
<1> QED BY <1>4, <1>5 DEF HealthInv

LEMMA HealthEnterRun ==
  ASSUME IInv, PiTypes, IInv', PiTypes', HealthInv, SupplyFollowsRelay, EnterRun
  PROVE  HealthInv'
<1>1. /\ systemState = "PIBOOT" /\ systemState' = "RUN" /\ bootTimer = 0 /\ kl15
      /\ UNCHANGED <<relais, kl15, rx>>
  BY DEF EnterRun, pins
<1>2. piAlive' = piAlive + 1 /\ piAlive <= MaxAlive
  BY <1>1, NoWrap DEF EnterRun, HealthInv, CountInv
<1>3. UNCHANGED <<pi, left, bootTakes, toPi, faults>>
  BY <1>1, Undisturbed
<1>4. RxInv' /\ CountInv' /\ SupervisedInv'
  BY <1>1, <1>2, <1>3, Numbers DEF HealthInv, RxInv, CountInv, SupervisedInv
<1>5. Reserve' = Reserve + 1
  <2>1. Waiting' = Waiting
    BY <1>1, <1>3 DEF Waiting, AnswerUnderway
  <2>2. \A m, n, k \in Nat : (m + 1) + n + k = (m + n + k) + 1
    OBVIOUS
  <2>3. piAlive \in Nat /\ Waiting \in Nat /\ faults \in Nat
    BY Numbers
  <2> QED BY <1>2, <1>3, <2>1, <2>2, <2>3 DEF Reserve
<1>6. pi = "booting" => bootTakes >= BootTime
  BY <1>1, Numbers DEF HealthInv, BootInv
<1>7. pi = "up" => Reserve >= 2 \/ Reserve >= BootTime - bootTakes
  BY <1>1, Numbers DEF HealthInv, BootInv
<1>8. RunInv' /\ BootInv'
  BY <1>1, <1>3, <1>5, <1>6, <1>7, Numbers, ReserveType DEF RunInv, BootInv
<1> QED BY <1>4, <1>8 DEF HealthInv

LEMMA HealthBranch ==
  ASSUME IInv, PiTypes, IInv', PiTypes', HealthInv, SupplyFollowsRelay, Branch
  PROVE  HealthInv'
<1>1. CASE PowerOn \/ CancelPowerOn \/ CancelBoot \/ CarOffline \/ PiHalted \/ CutPower \/ SwitchOff
  <2>1. /\ systemState' \notin {"PIBOOT", "RUN"} /\ rx' = rx /\ piAlive' = piAlive
        /\ systemState # "RUN" \/ ~kl15
    BY <1>1 DEF PowerOn, CancelPowerOn, CancelBoot, CarOffline, PiHalted, CutPower, SwitchOff
  <2> QED BY <2>1, HealthElsewhere DEF HealthInv, CountInv
<1>2. CASE AliveTimeout
  <2>1. systemState' = "POWEROFF" /\ rx' = rx /\ piAlive' = 0
    BY <1>2 DEF AliveTimeout
  <2>2. piAlive' <= MaxAlive
    BY <2>1, Numbers
  <2> QED BY <2>1, <2>2, HealthElsewhere
<1>3. CASE NoTransition
  <2>1. UNCHANGED <<systemState, bootTimer, piAlive, relais, kl15, rx>>
    BY <1>3 DEF NoTransition, timers, pins
  <2>2. systemState = "PIBOOT" => bootTimer > 0
    BY <1>3 DEF NoTransition
  <2> QED BY <2>1, <2>2, HealthIdle
<1> QED BY <1>1, <1>2, <1>3, HealthBootPi, HealthEnterRun DEF Branch

LEMMA HealthBoard ==
  ASSUME IInv, PiTypes, IInv', PiTypes', HealthInv, BoardStep
  PROVE  HealthInv'
<1>1. CASE NoSecond \/ NoCommand
  <2>1. /\ UNCHANGED <<systemState, bootTimer, piAlive, relais, kl15, rx>>
        /\ at # "machine"
    BY <1>1 DEF NoSecond, NoCommand, timers, pins
  <2>2. systemState = "PIBOOT" => bootTimer > 0
    BY <2>1 DEF HealthInv, BootInv
  <2> QED BY <2>1, <2>2, HealthIdle DEF BoardStep
<1> QED BY <1>1, HealthBranch, HealthCommand, HealthHardware DEF BoardStep

LEMMA DecValue == \A n \in Nat : (n > 0 => Dec(n) = n - 1) /\ (n = 0 => Dec(n) = 0)
  BY DEF Dec

LEMMA HealthSecond ==
  ASSUME IInv, PiTypes, IInv', PiTypes', HealthInv, Second
  PROVE  HealthInv'
<1> USE Rings
<1>1. /\ at = "timers" /\ at' = "machine"
      /\ UNCHANGED <<systemState, kl15, rx, pi, bootTakes, faults>>
  BY DEF Second, Timer1000ms, pins
<1>2. /\ toPi = "none" /\ (pi = "up" => rx = <<>>)
      /\ toPi' = IF pi = "up" THEN systemState ELSE "none"
      /\ left' = Dec(left) /\ (pi = "booting" => left # 0)
  BY DEF Second, SecondDone, Heard, Timer1000ms, Status
<1>3. piAlive' = IF systemState = "RUN" /\ ~serviceMode THEN Dec(piAlive) ELSE piAlive
  BY DEF Second, Timer1000ms, AliveAfterSecond
<1>4. piAlive' \in Nat /\ piAlive' <= piAlive /\ piAlive <= piAlive' + 1
      /\ (systemState # "RUN" => piAlive' = piAlive)
  BY <1>3, DecValue, Numbers
<1>5. RxInv' /\ CountInv' /\ SupervisedInv'
  <2>1. RxInv' /\ SupervisedInv'
    BY <1>1, <1>2 DEF HealthInv, RxInv, SupervisedInv
  <2>2. CountInv'
    BY <1>1, <1>4, Numbers DEF HealthInv, CountInv
  <2> QED BY <2>1, <2>2
<1>6. ASSUME pi = "up", systemState \in {"PIBOOT", "RUN"}
      PROVE  /\ Reserve = piAlive + faults /\ Reserve' = piAlive' + 1 + faults
             /\ Reserve \in Nat /\ Reserve' \in Nat
  <2>1. Waiting = 0 /\ Waiting' = 1
    BY <1>1, <1>2, <1>6 DEF Waiting, AnswerUnderway
  <2>2. \A m, n \in Nat : m + 0 + n = m + n /\ m + n \in Nat /\ m + 1 + n \in Nat
    OBVIOUS
  <2> QED BY <1>1, <1>4, <2>1, <2>2, Numbers DEF Reserve
<1>7. BootInv'
  <2> SUFFICES ASSUME systemState = "PIBOOT" PROVE BootInv'
    BY <1>1 DEF BootInv
  <2>1. bootTimer > 0 /\ bootTimer' = bootTimer - 1 /\ bootTimer <= BootTime
    BY <1>1, DecValue, Numbers DEF Second, Timer1000ms, HealthInv, BootInv
  <2>2. pi = "booting" => left' = bootTakes' - (BootTime - bootTimer')
    BY <1>1, <1>2, <2>1, DecValue, Numbers DEF HealthInv, BootInv
  <2>3. pi = "up" => Reserve' = Reserve + 1 /\ Reserve \in Nat
    BY <1>4, <1>6, Numbers
  <2>4. pi = "up" => Reserve' >= 2 \/ Reserve' >= BootTime - bootTimer' - bootTakes'
    BY <1>1, <2>1, <2>3, Numbers DEF HealthInv, BootInv
  <2> QED BY <1>1, <2>1, <2>2, <2>4, Numbers DEF BootInv
<1>8. RunInv'
  <2> SUFFICES ASSUME systemState = "RUN" PROVE RunInv'
    BY <1>1 DEF RunInv
  <2>1. pi = "up" => Reserve' >= Reserve /\ Reserve' \in Nat /\ Reserve \in Nat
    BY <1>4, <1>6, Numbers
  <2> QED BY <1>1, <2>1, Numbers DEF HealthInv, RunInv
<1> QED BY <1>5, <1>7, <1>8 DEF HealthInv

-----------------------------------------------------------------------------
(* The Pi and its driver. *)
LEMMA HealthAnswer ==
  ASSUME IInv, PiTypes, PiTypes', LatchInv, HealthInv, HandleSystemState
  PROVE  HealthInv'
<1> USE Rings
<1>1. /\ pi = "up" /\ toPi # "none" /\ toPi' = "none" /\ rx \in {<<>>, <<CmdService>>}
      /\ UNCHANGED <<at, systemState, bootTimer, piAlive, kl15, bootTakes>>
  BY DEF HandleSystemState, boardVars, timers, HealthInv, RxInv
<1>2. rx' \in {rx, Received(CmdAlive)} /\ (toPi \in {"PIBOOT", "RUN"} => rx' = Received(CmdAlive))
  BY DEF HandleSystemState, Write
<1>3. rx' \in {<<>>, <<CmdService>>, <<CmdAlive>>, <<CmdService, CmdAlive>>}
  BY <1>1, <1>2, Writes
<1>4. RxInv' /\ CountInv'
  BY <1>1, <1>3 DEF HealthInv, RxInv, CountInv
<1>5. ASSUME systemState \in {"PIBOOT", "RUN"} PROVE BootInv' /\ RunInv' /\ SupervisedInv'
  <2>1. toPi \in {"PIBOOT", "RUN"}
    BY <1>1, <1>5 DEF HealthInv, SupervisedInv
  <2>2. UNCHANGED <<pi, left, faults>>
    BY <2>1 DEF HandleSystemState
  <2>3. rx' \in {<<CmdAlive>>, <<CmdService, CmdAlive>>}
    BY <1>1, <1>2, <2>1, Writes
  <2>4. Waiting' = Waiting
    BY <2>1, <2>3 DEF Waiting, AnswerUnderway
  <2>5. Reserve' = Reserve
    BY <1>1, <2>2, <2>4 DEF Reserve
  <2>6. BootInv' /\ RunInv'
    <3>1. systemState = "PIBOOT" /\ at' # "machine" => bootTimer > 0
      BY <1>1 DEF HealthInv, BootInv
    <3> QED BY <1>1, <2>2, <2>5, <3>1, ReserveType, StaysHealthy
  <2> QED BY <1>1, <2>2, <2>6 DEF SupervisedInv
<1>6. CASE systemState \notin {"PIBOOT", "RUN"}
  BY <1>1, <1>4, <1>6 DEF HealthInv, BootInv, RunInv, SupervisedInv
<1> QED BY <1>4, <1>5, <1>6 DEF HealthInv

LEMMA HealthClient ==
  ASSUME IInv, PiTypes, HealthInv, ServiceModeOn
  PROVE  HealthInv'
<1> USE Rings
<1>1. /\ rx = <<>> /\ rx' = <<CmdService>>
      /\ UNCHANGED <<at, systemState, bootTimer, piAlive, kl15, pi, left, bootTakes, toPi, faults>>
  BY Writes DEF ServiceModeOn, Write, boardVars, piVars, timers
<1>2. Reserve' = Reserve
  BY <1>1 DEF Reserve, Waiting, AnswerUnderway
<1>3. systemState = "PIBOOT" /\ at' # "machine" => bootTimer > 0
  BY <1>1 DEF HealthInv, BootInv
<1>4. BootInv' /\ RunInv'
  BY <1>1, <1>2, <1>3, ReserveType, StaysHealthy
<1>5. RxInv' /\ CountInv' /\ SupervisedInv'
  BY <1>1 DEF HealthInv, RxInv, CountInv, SupervisedInv
<1> QED BY <1>4, <1>5 DEF HealthInv

LEMMA HealthPins ==
  ASSUME IInv, PiTypes, HealthInv, Ignition \/ Dig3Follows
  PROVE  HealthInv'
<1>1. UNCHANGED <<at, systemState, bootTimer, piAlive, rx, pi, left, bootTakes, toPi, faults>>
  BY DEF Ignition, Dig3Follows, Pin, piVars, timers
<1>2. kl15' = kl15 \/ (systemState = "RUN" => piAlive <= MaxAlive)
  BY DEF Ignition, Dig3Follows, Pin
<1>3. Reserve' = Reserve
  BY <1>1 DEF Reserve, Waiting, AnswerUnderway
<1>4. systemState = "PIBOOT" /\ at' # "machine" => bootTimer > 0
  BY <1>1 DEF HealthInv, BootInv
<1>5. BootInv' /\ RunInv'
  BY <1>1, <1>3, <1>4, ReserveType, StaysHealthy
<1>6. RxInv' /\ CountInv' /\ SupervisedInv'
  BY <1>1, <1>2 DEF HealthInv, RxInv, CountInv, SupervisedInv
<1> QED BY <1>5, <1>6 DEF HealthInv

LEMMA HealthUp ==
  ASSUME IInv, PiTypes, PiTypes', HealthInv, BackendUp
  PROVE  HealthInv'
<1>1. /\ pi = "booting" /\ left = 0 /\ pi' = "up"
      /\ UNCHANGED <<at, systemState, bootTimer, piAlive, kl15, rx, left, bootTakes, toPi, faults>>
  BY DEF BackendUp, vars, timers, pins
<1>2. Reserve' = Reserve
  BY <1>1 DEF Reserve, Waiting, AnswerUnderway
<1>3. BootInv'
  BY <1>1, <1>2, Numbers, ReserveType DEF HealthInv, BootInv
<1>4. RunInv'
  BY <1>1, Numbers DEF HealthInv, RunInv
<1>5. RxInv' /\ CountInv' /\ SupervisedInv'
  BY <1>1 DEF HealthInv, RxInv, CountInv, SupervisedInv
<1> QED BY <1>3, <1>4, <1>5 DEF HealthInv

LEMMA HealthLost ==
  ASSUME IInv, PiTypes, PiTypes', HealthInv, LoseTelegram
  PROVE  HealthInv'
<1>1. /\ toPi' = "none" /\ faults' = faults + 1
      /\ UNCHANGED <<at, systemState, bootTimer, piAlive, kl15, rx, pi, left, bootTakes>>
  BY DEF LoseTelegram, Fault, vars, timers, pins
<1>2. Reserve' \in Nat /\ Reserve' >= Reserve
  <2>1. Waiting' \in {0, 1}
    BY DEF Waiting
  <2>2. \A m, k \in Nat : \A n, n1 \in {0, 1} :
           m + n1 + (k + 1) \in Nat /\ m + n1 + (k + 1) >= m + n + k
    OBVIOUS
  <2>3. Reserve' = piAlive + Waiting' + (faults + 1)
    BY <1>1 DEF Reserve
  <2> QED BY <2>1, <2>2, <2>3, Numbers, ReserveType
<1>3. systemState = "PIBOOT" /\ at' # "machine" => bootTimer > 0
  BY <1>1 DEF HealthInv, BootInv
<1>4. BootInv' /\ RunInv'
  BY <1>1, <1>2, <1>3, StaysHealthy
<1>5. RxInv' /\ CountInv' /\ SupervisedInv'
  BY <1>1 DEF HealthInv, RxInv, CountInv, SupervisedInv
<1> QED BY <1>4, <1>5 DEF HealthInv

LEMMA HealthGone ==
  ASSUME HealthInv, Halt \/ Hang \/ Cancel
  PROVE  HealthInv'
<1>1. UNCHANGED <<at, systemState, bootTimer, piAlive, kl15, rx>>
  BY DEF Halt, Hang, Cancel, Fault, vars, timers, pins
<1>2. toPi' \in {toPi, "none"}
  BY DEF Halt, Hang, Cancel
<1>3. pi' = "hung" \/ systemState \notin {"PIBOOT", "RUN"}
  BY DEF Halt, Hang, Cancel, HealthInv, SupervisedInv
<1> QED BY <1>1, <1>2, <1>3
        DEF HealthInv, RxInv, CountInv, SupervisedInv, BootInv, RunInv

LEMMA HealthNext ==
  ASSUME IInv, IInv', PiTypes, PiTypes', LatchInv, HealthInv, LinkNext
  PROVE  HealthInv'
  BY HealthBoard, HealthSecond, HealthPins, HealthUp, HealthAnswer, HealthClient, HealthLost,
     HealthGone
  DEF LinkNext, PiStep

(* A Pi that was up a second before its boot time ended, two seconds if it  *)
(* has lost a telegram since, is never taken for hung: for all times, all   *)
(* boots, and service mode or not.                                          *)
THEOREM HealthySafe == LinkSpec => []HealthyPiKept
<1>1. LinkInit => HealthInv
  BY LinkAssumption
  DEF LinkInit, Init, HealthInv, RxInv, CountInv, SupervisedInv, BootInv, RunInv
<1>2. LinkInv /\ LinkInv' /\ HealthInv /\ [LinkNext]_linkVars => HealthInv'
  <2>1. ASSUME LinkInv, LinkInv', HealthInv, LinkNext PROVE HealthInv'
    BY <2>1, HealthNext DEF LinkInv
  <2>2. ASSUME HealthInv, UNCHANGED linkVars PROVE HealthInv'
    BY <2>2
    DEF linkVars, vars, piVars, timers, pins, HealthInv, RxInv, CountInv, SupervisedInv,
        BootInv, RunInv, Reserve, Waiting, AnswerUnderway
  <2> QED BY <2>1, <2>2
<1>3. LinkInv /\ HealthInv => HealthyPiKept
  <2> SUFFICES ASSUME LinkInv, HealthInv, systemState = "RUN", piAlive = 0, pi = "up",
                      ~(faults > 1), ~(bootTakes + faults >= BootTime)
               PROVE  FALSE
    BY DEF HealthyPiKept
  <2>1. IInv /\ PiTypes
    BY DEF LinkInv
  <2>2. faults \in {0, 1} /\ bootTakes + faults < BootTime /\ bootTakes < BootTime
    BY <2>1, Numbers
  <2>3. Reserve <= 1 + faults /\ Reserve \in Nat
    BY <2>1, <2>2, Numbers, ReserveType
  <2>4. Reserve >= 3 \/ Reserve >= 1 + BootTime - bootTakes
    BY <2>1, <2>2, Numbers DEF HealthInv, RunInv
  <2> QED BY <2>1, <2>2, <2>3, <2>4, Numbers
<1> QED BY <1>1, <1>2, <1>3, LinkInvariant, PTL DEF LinkSpec

-----------------------------------------------------------------------------
(* The seconds a shutdown window has left. *)

(* A Pi that has booted for a second does not pull Dig3 before it halts. *)
DigInv ==
  /\ pi = "booting" =>
       bootTakes \in BootSeconds /\ left <= bootTakes /\ (left < bootTakes => ~dig3)
  /\ pi \in {"up", "halting"} => ~dig3

(* A window that owes a clean stop is open for a Pi that ran. *)
OwedInv ==
  /\ systemState # "POWEROFF" => owed < 0
  /\ owed >= 0 => pi \in {"up", "halting", "halted", "hung"}

Told == IF toPi = "POWEROFF" THEN 1 ELSE 0

(* Each fault costs a second of the slack the window was opened with; once  *)
(* the shutdown is scheduled the window outlasts it.                        *)
SpareInv ==
  owed >= 0 /\ faults <= owed =>
    /\ pi = "up" =>
         ~shutdownInWork /\ powerOffTimer + Told >= owed - faults + HaltSeconds + 2
    /\ pi = "halting" => powerOffTimer >= left + 1

LEMMA StopNumbers ==
  ASSUME IInv, PiTypes
  PROVE  /\ powerOffTimer \in Nat /\ faults \in Nat /\ left \in Nat /\ owed \in Int
         /\ HaltSeconds \in Nat \ {0} /\ Told \in {0, 1} /\ BootSeconds \subseteq Nat \ {0}
  BY LinkAssumption DEF IInv, TypeInv, TypeOK, TimerTypes, PiTypes, Told

(* Of the board no step but the relay of the Pi touches the Pi, and none    *)
(* its pin.                                                                 *)
LEMMA BoardAndPi ==
  ASSUME PiTypes, BoardStep
  PROVE  /\ dig3' = dig3
         /\ \/ (Pi \in relais <=> Pi \in relais')
               /\ UNCHANGED <<pi, left, bootTakes, toPi, shutdownInWork, faults>>
            \/ pi' = "off" /\ owed' = -1
            \/ /\ Pi \notin relais /\ Pi \in relais'
               /\ pi' = "booting" /\ left' = bootTakes' /\ bootTakes' \in BootSeconds
<1>1. dig3' = dig3
  BY DEF BoardStep, NoSecond, NoCommand, Branch, PowerOn, CancelPowerOn, BootPi, CancelBoot,
         EnterRun, AliveTimeout, CarOffline, PiHalted, CutPower, SwitchOff, NoTransition,
         Interpret, SwitchRelais, Bootloader, OtherCommand, SignOfLife, RequestPowerOff,
         ToggleDebug, SetPowerOnTime, ReadPowerOnTime, SetServiceMode,
         Hardware, PowerUp, PowerLoss, ChipReset, WatchdogReset, main, pins
<1>2. CASE Pi \in relais <=> Pi \in relais'
  BY <1>1, <1>2, Undisturbed DEF BoardStep
<1>3. CASE Pi \in relais /\ Pi \notin relais'
  BY <1>1, <1>3 DEF BoardStep, SupplyFollowsRelay, SupplyEnds
<1>4. CASE Pi \notin relais /\ Pi \in relais'
  BY <1>1, <1>4 DEF BoardStep, SupplyFollowsRelay, SupplyStarts
<1> QED BY <1>2, <1>3, <1>4

LEMMA DigNext ==
  ASSUME IInv, PiTypes, DigInv, LinkNext PROVE DigInv'
<1> USE DEF DigInv
<1>1. CASE BoardStep
  <2>1. BootSeconds \subseteq Nat
    BY StopNumbers
  <2>2. \A n \in BootSeconds : n <= n /\ ~(n < n)
    BY <2>1
  <2> QED BY <1>1, <2>2, BoardAndPi
<1>2. CASE Second
  <2>1. UNCHANGED <<pi, bootTakes, dig3>> /\ left' = Dec(left) /\ dig3 = (pi = "halted")
        /\ (pi = "booting" => left # 0)
    BY <1>2 DEF Second, Timer1000ms, SecondDone, pins
  <2>2. pi \in {"booting", "up", "halting"} => ~dig3
    BY <2>1
  <2>3. pi = "booting" => left' < left
    BY <2>1, DecValue, StopNumbers
  <2> QED BY <2>1, <2>2, <2>3, StopNumbers, DecValue
<1>3. CASE Dig3Follows
  <2>1. UNCHANGED <<pi, left, bootTakes>> /\ dig3' = ~dig3 /\ dig3 # (pi = "halted")
    BY <1>3 DEF Dig3Follows, Pin, piVars
  <2>2. ASSUME pi # "halted" PROVE ~dig3'
    <3>1. (pi = "halted") = FALSE /\ dig3 \in BOOLEAN
      BY <2>2, Zenon DEF IInv, TypeInv, TypeOK, PlaceTypes
    <3> QED BY <2>1, <3>1, Zenon
  <2> QED BY <2>1, <2>2
<1>4. CASE Ignition
  BY <1>4 DEF Ignition, Pin, piVars
<1>5. CASE BackendUp
  <2>1. pi = "booting" /\ left = 0 /\ pi' = "up" /\ dig3' = dig3
    BY <1>5 DEF BackendUp, vars, pins
  <2> QED BY <2>1, StopNumbers
<1>6. CASE HandleSystemState
  <2>1. pi = "up" /\ pi' \in {"up", "halting"} /\ dig3' = dig3
    BY <1>6 DEF HandleSystemState, PowerOffSystemdBus
  <2> QED BY <2>1
<1>7. CASE ServiceModeOn
  BY <1>7 DEF ServiceModeOn, piVars
<1>8. CASE Halt \/ LoseTelegram \/ Hang \/ Cancel
  <2>1. dig3' = dig3 /\ (pi' \in {"halted", "hung"} \/ (pi \in {"up", "halting"} /\ pi' = "up"))
    BY <1>8 DEF Halt, LoseTelegram, Hang, Cancel, Fault, vars, pins
  <2> QED BY <2>1
<1> QED BY <1>1, <1>2, <1>3, <1>4, <1>5, <1>6, <1>7, <1>8 DEF LinkNext, PiStep

OwedSpareInv == OwedInv /\ SpareInv

LEMMA NothingOwed ==
  ASSUME owed' < 0, owed' \in Int PROVE OwedSpareInv'
  BY DEF OwedSpareInv, OwedInv, SpareInv

(* What a step of the board does to window and state, seen from the Pi. *)
LEMMA BoardWindow ==
  ASSUME IInv, BoardStep
  PROVE  \/ UNCHANGED <<systemState, powerOffTimer>> /\ (Pi \in relais <=> Pi \in relais')
         \/ systemState # "POWEROFF" /\ systemState' # "POWEROFF"
         \/ systemState = "PIBOOT" /\ systemState' = "POWEROFF"
         \/ /\ systemState = "RUN" /\ systemState' = "POWEROFF"
            /\ Pi \in relais <=> Pi \in relais'
         \/ systemState = "POWEROFF" /\ systemState' = "POWEROFF" /\ dig3 /\ relais' = relais
         \/ systemState = "POWEROFF" /\ powerOffTimer = 0 /\ Pi \notin relais'
         \/ Hardware
<1> USE DEF timers
<1>1. CASE NoSecond \/ NoCommand
  BY <1>1 DEF NoSecond, NoCommand
<1>2. CASE Interpret
  BY <1>2, OnlyBackendCommands DEF SignOfLife, SetServiceMode
<1>3. CASE Branch
  <2>1. CASE PowerOn \/ CancelPowerOn \/ BootPi \/ EnterRun \/ CancelBoot
    BY <2>1 DEF PowerOn, CancelPowerOn, BootPi, EnterRun, CancelBoot
  <2>2. CASE AliveTimeout \/ CarOffline
    BY <2>2 DEF AliveTimeout, CarOffline, SetRelaisOff, Pi, Amp
  <2>3. CASE PiHalted \/ CutPower
    BY <2>3 DEF PiHalted, CutPower
  <2>4. CASE SwitchOff \/ NoTransition
    BY <2>4 DEF SwitchOff, NoTransition
  <2> QED BY <1>3, <2>1, <2>2, <2>3, <2>4 DEF Branch
<1> QED BY <1>1, <1>2, <1>3 DEF BoardStep

LEMMA OwedBoard ==
  ASSUME IInv, IInv', PiTypes, PiTypes', LatchInv, DigInv, OwedSpareInv, BoardStep
  PROVE  OwedSpareInv'
<1> SUFFICES ASSUME owed' >= 0 PROVE OwedSpareInv'
  BY NothingOwed DEF PiTypes
<1>1. Pi \in relais'
  BY DEF BoardStep
<1>2. owed \in Int /\ ~Hardware
  BY <1>1, StopNumbers
  DEF Hardware, PowerUp, PowerLoss, ChipReset, WatchdogReset, main, InitIO
<1>3. CASE owed' = owed
  <2>1. systemState = "POWEROFF" /\ pi \in {"up", "halting", "halted", "hung"}
    BY <1>2, <1>3 DEF OwedSpareInv, OwedInv
  <2>2. UNCHANGED <<pi, left, bootTakes, toPi, shutdownInWork, faults>>
    <3>1. Pi \in relais
      BY <2>1 DEF PiTypes
    <3> QED BY <1>1, <3>1, Undisturbed DEF BoardStep
  <2>3. \/ UNCHANGED <<systemState, powerOffTimer>>
        \/ systemState' = "POWEROFF" /\ dig3
    BY <1>1, <1>2, <2>1, BoardWindow
  <2>4. CASE UNCHANGED <<systemState, powerOffTimer>>
    BY <1>3, <2>2, <2>4 DEF OwedSpareInv, OwedInv, SpareInv, Told
  <2>5. CASE systemState' = "POWEROFF" /\ dig3
    <3>1. pi \notin {"up", "halting"}
      BY <2>5 DEF DigInv
    <3> QED BY <1>3, <2>1, <2>2, <2>5, <3>1 DEF OwedSpareInv, OwedInv, SpareInv
  <2> QED BY <2>3, <2>4, <2>5
<1>4. CASE owed' # owed
  <2>1. /\ pi = "up" /\ systemState = "RUN" /\ systemState' = "POWEROFF"
        /\ owed' = faults + Slack(powerOffTimer')
    BY <1>1, <1>4 DEF BoardStep
  <2>2. UNCHANGED <<pi, toPi, shutdownInWork, faults>>
    <3>1. Pi \in relais
      BY <2>1 DEF PiTypes
    <3> QED BY <1>1, <3>1, Undisturbed DEF BoardStep
  <2>3. ~shutdownInWork /\ toPi # "POWEROFF"
    BY <2>1 DEF LatchInv, LatchNotStale
  <2>4. powerOffTimer' \in Nat /\ Told' = 0
    BY <2>2, <2>3 DEF IInv, TypeInv, TypeOK, TimerTypes, Told
  <2>5. powerOffTimer' + Told' >= owed' - faults' + HaltSeconds + 2
    BY <2>1, <2>2, <2>4, StopNumbers DEF Slack
  <2> QED BY <2>1, <2>2, <2>3, <2>5 DEF OwedSpareInv, OwedInv, SpareInv
<1> QED BY <1>3, <1>4

LEMMA OwedSecond ==
  ASSUME IInv, IInv', PiTypes, PiTypes', OwedSpareInv, Second
  PROVE  OwedSpareInv'
<1> SUFFICES ASSUME owed' >= 0 PROVE OwedSpareInv'
  BY NothingOwed DEF PiTypes
<1>1. /\ UNCHANGED <<systemState, pi, shutdownInWork, faults, owed>>
      /\ toPi = "none" /\ left' = Dec(left) /\ (pi = "halting" => left # 0)
      /\ toPi' = IF pi = "up" THEN systemState ELSE "none"
      /\ powerOffTimer' = IF systemState = "POWEROFF" THEN Dec(powerOffTimer) ELSE powerOffTimer
  BY DEF Second, Timer1000ms, SecondDone, Heard, Status
<1>2. systemState = "POWEROFF"
  BY <1>1, StopNumbers DEF OwedSpareInv, OwedInv
<1>3. OwedInv'
  BY <1>1 DEF OwedSpareInv, OwedInv
<1>4. ASSUME faults <= owed, pi = "up"
      PROVE  ~shutdownInWork' /\ powerOffTimer' + Told' >= owed' - faults' + HaltSeconds + 2
  <2>1. ~shutdownInWork /\ powerOffTimer + 0 >= owed - faults + HaltSeconds + 2
    BY <1>1, <1>4 DEF OwedSpareInv, SpareInv, Told
  <2>2. powerOffTimer > 0 /\ powerOffTimer' = powerOffTimer - 1
    BY <1>1, <1>2, <1>4, <2>1, StopNumbers, DecValue
  <2>3. Told' = 1
    BY <1>1, <1>2, <1>4 DEF Told
  <2> QED BY <1>1, <2>1, <2>2, <2>3, StopNumbers
<1>5. ASSUME faults <= owed, pi = "halting"
      PROVE  powerOffTimer' >= left' + 1
  <2>1. powerOffTimer >= left + 1
    BY <1>1, <1>5 DEF OwedSpareInv, SpareInv
  <2> QED BY <1>1, <1>2, <1>5, <2>1, StopNumbers, DecValue
<1>6. SpareInv'
  BY <1>1, <1>4, <1>5 DEF SpareInv
<1> QED BY <1>3, <1>6 DEF OwedSpareInv

LEMMA OwedAnswer ==
  ASSUME IInv, PiTypes, PiTypes', OwedSpareInv, HandleSystemState
  PROVE  OwedSpareInv'
<1> SUFFICES ASSUME owed' >= 0 PROVE OwedSpareInv'
  BY NothingOwed DEF PiTypes
<1>1. /\ pi = "up" /\ toPi' = "none" /\ owed' = owed
      /\ UNCHANGED <<systemState, powerOffTimer>>
  BY DEF HandleSystemState, boardVars, timers
<1>2. Told' = 0
  BY <1>1 DEF Told
<1>3. CASE UNCHANGED <<pi, left, shutdownInWork, faults>> /\ toPi # "POWEROFF"
  BY <1>1, <1>2, <1>3 DEF OwedSpareInv, OwedInv, SpareInv, Told
<1>4. CASE toPi = "POWEROFF" /\ ~shutdownInWork
  <2>1. Told = 1
    BY <1>4 DEF Told
  <2>2. faults <= owed => powerOffTimer + 1 >= owed - faults + HaltSeconds + 2
    BY <1>1, <2>1 DEF OwedSpareInv, SpareInv
  <2>3. CASE pi' = "halting" /\ left' = HaltSeconds /\ faults' = faults
    BY <1>1, <2>2, <2>3, StopNumbers DEF OwedSpareInv, OwedInv, SpareInv
  <2>4. CASE faults' = faults + 1 /\ UNCHANGED <<pi, shutdownInWork>>
    BY <1>1, <1>2, <1>4, <2>2, <2>4, StopNumbers DEF OwedSpareInv, OwedInv, SpareInv
  <2> QED BY <1>4, <2>3, <2>4 DEF HandleSystemState, PowerOffSystemdBus
<1>5. CASE toPi = "POWEROFF" /\ shutdownInWork
  <2>1. UNCHANGED <<pi, faults>>
    BY <1>5 DEF HandleSystemState
  <2>2. ~(faults <= owed)
    BY <1>1, <1>5 DEF OwedSpareInv, SpareInv
  <2> QED BY <1>1, <2>1, <2>2 DEF OwedSpareInv, OwedInv, SpareInv
<1>6. CASE toPi # "POWEROFF"
  <2>1. UNCHANGED <<pi, left, shutdownInWork, faults>>
    BY <1>6 DEF HandleSystemState
  <2> QED BY <1>3, <1>6, <2>1
<1> QED BY <1>4, <1>5, <1>6

LEMMA OwedPi ==
  ASSUME IInv, PiTypes, PiTypes', OwedSpareInv,
         \/ Ignition \/ Dig3Follows \/ ServiceModeOn \/ BackendUp \/ Halt
         \/ LoseTelegram \/ Hang \/ Cancel
  PROVE  OwedSpareInv'
<1>1. UNCHANGED <<systemState, powerOffTimer>>
  BY DEF Ignition, Dig3Follows, Pin, ServiceModeOn, BackendUp, Halt, LoseTelegram, Hang,
         Cancel, Fault, vars, boardVars, timers
<1>2. CASE Ignition \/ Dig3Follows \/ ServiceModeOn
  BY <1>1, <1>2
  DEF Ignition, Dig3Follows, ServiceModeOn, piVars, OwedSpareInv, OwedInv, SpareInv, Told
<1>3. CASE BackendUp
  <2>1. ~(owed >= 0) /\ owed' = owed
    BY <1>3 DEF BackendUp, OwedSpareInv, OwedInv
  <2> QED BY <2>1, NothingOwed, StopNumbers
<1>4. CASE Halt \/ Hang
  BY <1>1, <1>4 DEF Halt, Hang, OwedSpareInv, OwedInv, SpareInv
<1>5. CASE LoseTelegram
  <2>1. /\ pi = "up" /\ faults' = faults + 1 /\ toPi' = "none"
        /\ UNCHANGED <<pi, left, owed, shutdownInWork>>
    BY <1>5 DEF LoseTelegram, Fault
  <2>2. Told' = 0
    BY <2>1 DEF Told
  <2> QED BY <1>1, <2>1, <2>2, StopNumbers DEF OwedSpareInv, OwedInv, SpareInv
<1>6. CASE Cancel
  BY <1>6, NothingOwed DEF Cancel
<1> QED BY <1>2, <1>3, <1>4, <1>5, <1>6

(* The supply of a Pi whose backend ran is cut after it has halted, for     *)
(* windows and halts of any length: only hanging, a cancelled shutdown or   *)
(* more faults than the window has seconds to spare can tear it down.       *)
THEOREM StopsCleanly == LinkSpec => StopsClean
<1>1. LinkInit => DigInv /\ OwedSpareInv
  BY DEF LinkInit, Init, DigInv, OwedSpareInv, OwedInv, SpareInv
<1>2. LinkInv /\ LinkInv' /\ DigInv /\ OwedSpareInv /\ [LinkNext]_linkVars
        => DigInv' /\ OwedSpareInv'
  <2>1. ASSUME LinkInv, LinkInv', DigInv, OwedSpareInv, LinkNext PROVE DigInv' /\ OwedSpareInv'
    <3>1. DigInv'
      BY <2>1, DigNext DEF LinkInv
    <3>2. OwedSpareInv'
      BY <2>1, OwedBoard, OwedSecond, OwedAnswer, OwedPi DEF LinkInv, LinkNext, PiStep
    <3> QED BY <3>1, <3>2
  <2>2. ASSUME DigInv, OwedSpareInv, UNCHANGED linkVars PROVE DigInv' /\ OwedSpareInv'
    BY <2>2 DEF linkVars, vars, piVars, timers, pins, DigInv, OwedSpareInv, OwedInv, SpareInv, Told
  <2> QED BY <2>1, <2>2
<1>3. LinkInv /\ DigInv /\ OwedSpareInv /\ [LinkNext]_linkVars =>
        [/\ Pi \in relais /\ Pi \notin relais'
         /\ owed >= 0 /\ systemState = "POWEROFF"
         => pi \in {"halted", "hung"} \/ faults > owed]_linkVars
  <2> SUFFICES ASSUME LinkInv, OwedSpareInv, LinkNext, Pi \in relais, Pi \notin relais',
                      owed >= 0, systemState = "POWEROFF", pi \notin {"halted", "hung"},
                      ~(faults > owed)
               PROVE  FALSE
    BY DEF linkVars
  <2>1. IInv /\ PiTypes
    BY DEF LinkInv
  <2>2. pi \in {"up", "halting"} /\ faults <= owed
    BY <2>1, StopNumbers DEF OwedSpareInv, OwedInv
  <2>3. powerOffTimer > 0
    <3>1. CASE pi = "up"
      BY <2>1, <2>2, <3>1, StopNumbers DEF OwedSpareInv, SpareInv
    <3>2. CASE pi = "halting"
      BY <2>1, <2>2, <3>2, StopNumbers DEF OwedSpareInv, SpareInv
    <3> QED BY <2>2, <3>1, <3>2
  <2>4. at \in Loop /\ at # "argument" /\ selfHold
    BY <2>1, <2>2, BoardListens, BackendCommands DEF IInv, SupplyInv
  <2>5. ~Hardware
    BY <2>3, <2>4 DEF Hardware, PowerUp, PowerLoss, ChipReset, WatchdogReset, Supplied, Loop
  <2>6. ~BoardStep
    BY <2>1, <2>3, <2>5, BoardWindow
  <2> QED BY <2>6 DEF LinkNext, PiStep, Second, Timer1000ms, Ignition, Dig3Follows, Pin,
                      HandleSystemState, ServiceModeOn, BackendUp, Halt, LoseTelegram, Hang,
                      Cancel, Fault, boardVars, vars
<1> QED BY <1>1, <1>2, <1>3, LinkInvariant, PTL DEF LinkSpec, StopsClean

=============================================================================
