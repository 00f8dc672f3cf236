----------------------------- MODULE PowerLink -----------------------------
(***************************************************************************)
(* The closed loop of the power supply board and the Raspberry Pi it       *)
(* supplies.  The relay of the Pi starts and ends it; the status telegram  *)
(* the board sends each second reaches PowerSupplySerial of the backend on *)
(* the Pi, which answers '+' or schedules a shutdown; the halted Pi pulls  *)
(* Dig3.                                                                   *)
(*                                                                         *)
(* Board and Pi share one clock, Second.  The Pi is prompt: what is due    *)
(* within a second (an answer, the end of a boot or of a halt) happens     *)
(* before the next one.  Where it is not, that is a fault, and the faults  *)
(* since the Pi was powered are counted.                                   *)
(***************************************************************************)
EXTENDS PowerSupply

CONSTANTS
  BootSeconds,       (* what a boot of the Pi up to the backend may take     *)
  HaltSeconds,       (* from the scheduled shutdown to the pulled Dig3       *)
  MaxFaults,         (* bound on the faults while the Pi is powered          *)
  MaxAlive           (* bound on piAlive when the ignition goes off in RUN:  *)
                     (* EnterRun counts without a cap, one for each boot     *)

ASSUME LinkAssumption ==
  /\ BootSeconds \subseteq Nat \ {0} /\ BootSeconds # {}
  /\ HaltSeconds \in Nat \ {0} /\ MaxFaults \in Nat /\ MaxAlive \in Nat
  /\ Commands = {CmdAlive, CmdService} /\ RxCapacity > 1
  /\ MaxAlive >= 3 /\ MaxAlive + 2 < ByteMod

VARIABLES
  pi,                (* what the Pi does                                     *)
  left,              (* seconds until its boot or halt is done               *)
  bootTakes,         (* seconds of its last boot                             *)
  toPi,              (* system state of the telegram the backend has to read *)
  shutdownInWork,    (* PowerSupplySerial::_shutdownInWork                   *)
  faults,            (* faults since the Pi was powered                      *)
  owed               (* faults the open shutdown window allows, -1 for none  *)

piVars   == <<pi, left, bootTakes, toPi, shutdownInWork, faults, owed>>
linkVars == <<vars, piVars>>

boardVars == <<at, systemState, timers, piAlive, config, serviceMode,
               relais, selfHold, kl15, usb, sent>>

PiStates == {"off", "booting", "up", "hung", "halting", "halted"}

LinkInit ==
  /\ Init
  /\ pi = "off" /\ left = 0 /\ bootTakes = 0 /\ toPi = "none"
  /\ shutdownInWork = FALSE /\ faults = 0 /\ owed = -1

-----------------------------------------------------------------------------
(* The board: its steps, and the relay that supplies the Pi. *)

SupplyStarts ==
  /\ pi' = "booting" /\ bootTakes' \in BootSeconds /\ left' = bootTakes'
  /\ toPi' = "none" /\ shutdownInWork' = FALSE /\ faults' = 0

SupplyEnds ==
  /\ pi' = "off" /\ left' = 0 /\ bootTakes' = 0
  /\ toPi' = "none" /\ shutdownInWork' = FALSE /\ faults' = 0

SupplyFollowsRelay ==
  IF Pi \in relais
  THEN IF Pi \in relais' THEN UNCHANGED <<pi, left, bootTakes, toPi, shutdownInWork, faults>>
                         ELSE SupplyEnds
  ELSE IF Pi \in relais' THEN SupplyStarts
                         ELSE UNCHANGED <<pi, left, bootTakes, toPi, shutdownInWork, faults>>

(* Seconds a shutdown window has to spare for a Pi that is told of it with  *)
(* the next telegram.                                                       *)
Slack(window) == window - HaltSeconds - 2

BoardStep ==
  /\ NoSecond \/ Branch \/ Interpret \/ NoCommand \/ Hardware
  /\ SupplyFollowsRelay
  /\ owed' = IF Pi \notin relais' THEN -1
             ELSE IF pi = "up" /\ systemState = "RUN" /\ systemState' = "POWEROFF"
             THEN faults + Slack(powerOffTimer')
             ELSE owed

(* Nothing of the last second is left over. *)
SecondDone ==
  /\ toPi = "none" /\ (pi = "up" => rx = <<>>)
  /\ ~(pi \in {"booting", "halting"} /\ left = 0)
  /\ dig3 = (pi = "halted")

(* Of a telegram only the system state has an effect: HandleCommandResult   *)
(* and HandleExternVoltage log, HandlePiAlive and HandleKlemme15 are empty. *)
Heard(telegram) == IF telegram.type = "status" THEN telegram.state ELSE "none"

Second ==
  /\ Timer1000ms /\ SecondDone
  /\ left' = Dec(left)
  /\ toPi' = IF pi = "up" THEN Heard(sent') ELSE "none"
  /\ UNCHANGED <<pi, bootTakes, shutdownInWork, faults, owed>>

(* The driver turns the key. *)
Ignition ==
  /\ systemState = "RUN" => piAlive <= MaxAlive
  /\ Pin(kl15, <<dig3, usb>>)
  /\ UNCHANGED piVars

-----------------------------------------------------------------------------
(* The Pi *)

(* The backend opens the port, which flushes it, and starts to read. *)
BackendUp ==
  /\ pi = "booting" /\ left = 0
  /\ pi' = "up"
  /\ UNCHANGED <<vars, left, bootTakes, toPi, shutdownInWork, faults, owed>>

Halt ==
  /\ pi = "halting" /\ left = 0
  /\ pi' = "halted"
  /\ UNCHANGED <<vars, left, bootTakes, toPi, shutdownInWork, faults, owed>>

(* gpio-poweroff drives Dig3 while the Pi is halted and powered. *)
Dig3Follows ==
  /\ dig3 # (pi = "halted")
  /\ Pin(dig3, <<kl15, usb>>)
  /\ UNCHANGED piVars

(* Mutant: the latch is set although logind refused. *)
PowerOffSystemdBusLatchesFirst ==
  /\ shutdownInWork' = TRUE
  /\ \/ pi' = "halting" /\ left' = HaltSeconds /\ UNCHANGED faults
     \/ faults < MaxFaults /\ faults' = faults + 1 /\ UNCHANGED <<pi, left>>

(* PowerOffSystemdBus: logind takes the shutdown, or bus or call fails and  *)
(* the next telegram tries again.                                           *)
PowerOffSystemdBus ==
  \/ pi' = "halting" /\ left' = HaltSeconds /\ shutdownInWork' = TRUE /\ UNCHANGED faults
  \/ faults < MaxFaults /\ faults' = faults + 1 /\ UNCHANGED <<pi, left, shutdownInWork>>

Write(byte) == rx' = Received(byte)

(* Mutant: a booting board gets no answer. *)
HandleSystemStateInRunOnly ==
  /\ pi = "up" /\ toPi # "none" /\ toPi' = "none"
  /\ IF toPi = "RUN" THEN Write(CmdAlive) ELSE UNCHANGED rx
  /\ IF toPi = "POWEROFF" /\ ~shutdownInWork
     THEN PowerOffSystemdBus
     ELSE UNCHANGED <<pi, left, shutdownInWork, faults>>
  /\ UNCHANGED <<boardVars, dig3, bootTakes, owed>>

(* Mutant: only a booting board gets an answer. *)
HandleSystemStateInBootOnly ==
  /\ pi = "up" /\ toPi # "none" /\ toPi' = "none"
  /\ IF toPi = "PIBOOT" THEN Write(CmdAlive) ELSE UNCHANGED rx
  /\ IF toPi = "POWEROFF" /\ ~shutdownInWork
     THEN PowerOffSystemdBus
     ELSE UNCHANGED <<pi, left, shutdownInWork, faults>>
  /\ UNCHANGED <<boardVars, dig3, bootTakes, owed>>

HandleSystemState ==
  /\ pi = "up" /\ toPi # "none" /\ toPi' = "none"
  /\ IF toPi \in {"IDLE", "POWEROFF"} THEN UNCHANGED rx ELSE Write(CmdAlive)
  /\ IF toPi = "POWEROFF" /\ ~shutdownInWork
     THEN PowerOffSystemdBus
     ELSE UNCHANGED <<pi, left, shutdownInWork, faults>>
  /\ UNCHANGED <<boardVars, dig3, bootTakes, owed>>

(* BackendController::HandleWorkerMessage: a client's watchdog message with *)
(* state false; one with state true does nothing.                           *)
ServiceModeOn ==
  /\ pi = "up" /\ rx = <<>>
  /\ Write(CmdService)
  /\ UNCHANGED <<boardVars, dig3, piVars>>

Fault ==
  /\ pi \in {"up", "halting"} /\ faults < MaxFaults
  /\ faults' = faults + 1
  /\ UNCHANGED <<vars, bootTakes, shutdownInWork>>

(* A telegram garbled or behind a jam of the reader, or an answer that      *)
(* BaseSerial::Write could not write and only logs.                         *)
LoseTelegram == Fault /\ pi = "up" /\ toPi # "none" /\ toPi' = "none" /\ UNCHANGED <<pi, left, owed>>

(* The backend hangs or dies. *)
Hang == Fault /\ pi = "up" /\ pi' = "hung" /\ toPi' = "none" /\ UNCHANGED <<left, owed>>

(* shutdown -c: from then on the window owes nobody a clean stop. *)
Cancel ==
  /\ Fault /\ pi = "halting" /\ left = HaltSeconds
  /\ pi' = "up" /\ left' = 0 /\ owed' = -1
  /\ UNCHANGED toPi

PiStep == BackendUp \/ Halt \/ Dig3Follows \/ HandleSystemState

-----------------------------------------------------------------------------
LinkNext == BoardStep \/ Second \/ Ignition \/ PiStep \/ ServiceModeOn \/ LoseTelegram \/ Hang \/ Cancel

LinkSpec == LinkInit /\ [][LinkNext]_linkVars

(* The processor runs, the clock ticks and the Pi is prompt; the driver,    *)
(* the clients and the faults are free.                                     *)
LinkFairness == WF_linkVars(BoardStep) /\ SF_linkVars(Second) /\ WF_linkVars(PiStep)

FairLink == LinkSpec /\ LinkFairness

-----------------------------------------------------------------------------
(* Properties *)

(* Types; without supply the Pi is off, and with it never.                  *)
LinkTypeOK ==
  /\ PlaceTypes /\ TimerTypes
  /\ pi \in PiStates /\ left \in Nat /\ bootTakes \in {0} \cup BootSeconds
  /\ toPi \in States \cup {"none"} /\ shutdownInWork \in BOOLEAN
  /\ faults \in 0..MaxFaults /\ owed \in Int
  /\ (pi = "off") = (Pi \notin relais)

(* The counter of the board (piAlive) and the answers of the backend fit    *)
(* together: a Pi that is up a second before the boot time ends is never    *)
(* taken for hung, and one that is up two seconds before survives a lost    *)
(* telegram.  It survives no second one, however much later: an answer only *)
(* makes up for the second that asked for it.                               *)
HealthyPiKept ==
  systemState = "RUN" /\ piAlive = 0 /\ pi = "up" =>
    faults > 1 \/ bootTakes + faults >= BootTime

(* The supply of a Pi whose backend ran when the board ended RUN, for the   *)
(* ignition or because it took the Pi for hung, is cut after the Pi has     *)
(* halted, unless it hung meanwhile, somebody cancelled the shutdown, or    *)
(* more attempts failed than the window has seconds to spare.               *)
StopsClean ==
  [][/\ Pi \in relais /\ Pi \notin relais'
     /\ owed >= 0 /\ systemState = "POWEROFF"
     => pi \in {"halted", "hung"} \/ faults > owed]_linkVars

(* _shutdownInWork is set once and never reset: that it never swallows the  *)
(* shutdown a later ignition off asks for holds only because the board      *)
(* always cuts a Pi it has told POWEROFF.                                   *)
LatchNotStale == shutdownInWork => systemState = "POWEROFF"

Prompt == bootTakes < BootTime /\ faults = 0

(* Ignition on for good, a board that does not drain its capacitor and a Pi *)
(* that in the end boots in time and makes no more faults: board and Pi     *)
(* settle in RUN, whatever stops, cuts and hangs came before.               *)
SettlesInRun ==
  <>[](kl15 /\ at # "draining" /\ (pi = "off" \/ Prompt)) => <>[](systemState = "RUN" /\ pi = "up")
=============================================================================
