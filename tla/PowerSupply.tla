---------------------------- MODULE PowerSupply ----------------------------
(***************************************************************************)
(* The firmware of the power supply board (RaspberryPower.c): an ATmega    *)
(* that watches the ignition (Klemme 15), switches the relays of the       *)
(* display, the Raspberry Pi and the amplifier, supervises the Pi with an  *)
(* alive counter and obeys one-byte commands from the UART.                *)
(*                                                                         *)
(* The main loop is single threaded.  A pass runs the timers, one branch   *)
(* of the state machine and at most one command; `at` is the place in the  *)
(* pass.  Interrupts (UART reception) and pins change between the places.  *)
(* A second (Int1000msCount reaching its limit) elapses at any pass.       *)
(* LEDs, ADC values and the debug text on the UART are left out.           *)
(***************************************************************************)
EXTENDS Integers, Sequences

CONSTANTS
  Commands,          (* bytes the other end of the UART may send           *)
  RxCapacity,        (* bytes the receive ring holds                       *)
  FirstEeprom,       (* contents of EEPROM byte 1 before the first start   *)
  IdleTime,          (* seconds in IDLE after a start                      *)
  CancelTime,        (* seconds in IDLE after a cancelled power on         *)
  BootTime,          (* seconds given to the Pi to boot                    *)
  RunBootTime,       (* value left in bootTimer while the Pi runs          *)
  OffTime,           (* seconds given to the Pi to shut down               *)
  HangTime,          (* seconds before a silent Pi is cut                  *)
  DefaultPowerOnTime,(* EEPROM default of the power on delay               *)
  MaxPowerOnTime,    (* largest accepted power on delay                    *)
  ByteMod            (* number of values of uint8_t                        *)

ASSUME TimesAssumption ==
  /\ IdleTime \in Nat /\ CancelTime \in Nat /\ RunBootTime \in Nat
  /\ BootTime \in Nat \ {0} /\ OffTime \in Nat \ {0} /\ HangTime \in Nat \ {0}
  /\ MaxPowerOnTime \in 1..255 /\ DefaultPowerOnTime \in 1..MaxPowerOnTime

ASSUME BytesAssumption ==
  /\ Commands \subseteq 0..255 /\ FirstEeprom \subseteq 0..255
  /\ RxCapacity \in Nat \ {0}
  /\ ByteMod \in Nat /\ ByteMod > 4

VARIABLES
  at,                (* place in the main loop, or why it is not running   *)
  systemState, powerOnTimer, bootTimer, powerOffTimer, idleTimer, piAlive,
  powerOnTime, sendDebugMessages, serviceMode,
  eepromDebug, eepromPowerOnTime,
  relais,            (* outputs PORTB0..2 that are on                      *)
  selfHold,          (* PORTC5: the board keeps its own supply             *)
  kl15, dig3, usb,   (* input pins                                         *)
  rx,                (* received bytes not yet read                        *)
  sent               (* telegram the last step handed to the UART          *)

timers == <<powerOnTimer, bootTimer, powerOffTimer, idleTimer>>
config == <<powerOnTime, sendDebugMessages, eepromDebug, eepromPowerOnTime>>
pins   == <<kl15, dig3, usb>>
vars   == <<at, systemState, timers, piAlive, config, serviceMode,
            relais, selfHold, pins, rx, sent>>

States  == {"IDLE", "POWERON", "PIBOOT", "RUN", "POWEROFF"}
Loop    == {"timers", "machine", "uart", "argument"}
Display == 0
Pi      == 1
Amp     == 2
Relays  == {Display, Pi, Amp}

(* ASCII of the commands Interpret knows. *)
CmdRelais    == 49..54           \* '1'..'6'
CmdAlive     == 43               \* '+'
CmdPowerOff  == 36               \* '$'
CmdDebug     == 35               \* '#'
CmdPowerOnTime == 42             \* '*'
CmdService   == 33               \* '!'
CmdWatchdog  == 63               \* '?'
CmdVersion   == 118              \* 'v'
CmdBootloader == {85, 117}       \* 'U', 'u'
KnownCommands == CmdRelais \cup CmdBootloader \cup
  {CmdAlive, CmdPowerOff, CmdDebug, CmdPowerOnTime, CmdService, CmdWatchdog, CmdVersion}

NoTelegram == [type |-> "none"]
Status     == [type |-> "status", kl15 |-> kl15, alive |-> piAlive', state |-> systemState]
CommandResult(response) == [type |-> "result", response |-> response]
Telegrams ==
  {NoTelegram} \cup {CommandResult(r) : r \in {"ACK", "NACK"}}
  \cup [type : {"status"}, kl15 : BOOLEAN, alive : 0..(ByteMod - 1), state : States]

-----------------------------------------------------------------------------
(* Start of the program: Init and main up to the loop. *)

ValidPowerOnTime(byte) == byte >= 1 /\ byte <= MaxPowerOnTime

CheckedPowerOnTime(byte) == IF ValidPowerOnTime(byte) THEN byte ELSE DefaultPowerOnTime

InitGlobalVariables ==
  /\ powerOnTimer' = 0
  /\ bootTimer' = 0
  /\ powerOffTimer' = 0
  /\ idleTimer' = IdleTime
  /\ piAlive' = 0
  /\ serviceMode' = FALSE

InitIO == relais' = {} /\ selfHold' = TRUE

main ==
  /\ at' = "timers"
  /\ InitGlobalVariables
  /\ InitIO
  /\ rx' = <<>>
  /\ eepromDebug' = IF eepromDebug \in {0, 1} THEN eepromDebug ELSE 1
  /\ eepromPowerOnTime' = CheckedPowerOnTime(eepromPowerOnTime)
  /\ systemState' = "IDLE"
  /\ sendDebugMessages' = (eepromDebug' = 1)
  /\ powerOnTime' = eepromPowerOnTime'
  /\ sent' = NoTelegram
  /\ UNCHANGED pins

Init ==
  /\ at = "unpowered" /\ systemState = "IDLE"
  /\ powerOnTimer = 0 /\ bootTimer = 0 /\ powerOffTimer = 0 /\ idleTimer = 0
  /\ piAlive = 0 /\ serviceMode = FALSE
  /\ powerOnTime = DefaultPowerOnTime /\ sendDebugMessages = FALSE
  /\ relais = {} /\ selfHold = FALSE /\ rx = <<>> /\ sent = NoTelegram
  /\ eepromDebug \in {0, 1, 255}
  /\ eepromPowerOnTime \in FirstEeprom
  /\ kl15 = FALSE /\ dig3 = FALSE /\ usb = FALSE

-----------------------------------------------------------------------------
(* Hardware around the program. *)

(* The supply comes from the ignition, the USB plug or the self hold. *)
Supplied == kl15 \/ usb \/ selfHold

PowerUp ==
  /\ at = "unpowered" /\ Supplied
  /\ main

PowerLoss ==
  /\ at # "unpowered" /\ ~Supplied
  /\ at' = "unpowered" /\ systemState' = "IDLE"
  /\ powerOnTimer' = 0 /\ bootTimer' = 0 /\ powerOffTimer' = 0 /\ idleTimer' = 0
  /\ piAlive' = 0 /\ serviceMode' = FALSE
  /\ powerOnTime' = DefaultPowerOnTime /\ sendDebugMessages' = FALSE
  /\ relais' = {} /\ selfHold' = FALSE /\ rx' = <<>> /\ sent' = NoTelegram
  /\ UNCHANGED <<pins, eepromDebug, eepromPowerOnTime>>

Pin(pin, others) ==
  /\ pin' = ~pin
  /\ UNCHANGED <<at, systemState, timers, piAlive, config, serviceMode,
                 relais, selfHold, others, rx, sent>>

PinChange == Pin(kl15, <<dig3, usb>>) \/ Pin(dig3, <<kl15, usb>>) \/ Pin(usb, <<kl15, dig3>>)

(* Mutant: the handler does not look whether the ring is full. *)
ReceivedUnchecked(byte) == Append(rx, byte)

(* USART_RX_vect: a byte that finds the ring full is dropped. *)
Received(byte) == IF Len(rx) < RxCapacity THEN Append(rx, byte) ELSE rx

ReceiveByte(byte) ==
  /\ at \in Loop
  /\ rx' = Received(byte)
  /\ UNCHANGED <<at, systemState, timers, piAlive, config, serviceMode,
                 relais, selfHold, pins, sent>>

(* ResetTheChip: interrupts off and a loop until the watchdog bites. *)
ChipReset ==
  /\ at = "resetting"
  /\ main

(* GetDataIn waits without wdt_reset: a missing argument ends in a reset. *)
WatchdogReset ==
  /\ at = "argument" /\ rx = <<>>
  /\ main

-----------------------------------------------------------------------------
(* Timer1ms / Timer1000ms *)

(* Mutant: a timer that has run down goes on. *)
DecUnguarded(n) == n - 1

Dec(n) == IF n > 0 THEN n - 1 ELSE 0

(* Mutant: the service mode test is dropped the wrong way round. *)
AliveAfterSecondSwapped ==
  IF systemState = "RUN" /\ serviceMode THEN Dec(piAlive) ELSE piAlive

AliveAfterSecond ==
  IF systemState = "RUN" /\ ~serviceMode THEN Dec(piAlive) ELSE piAlive

(* Mutant: the shutdown window does not run down. *)
Timer1000msNoWindow ==
  /\ at = "timers" /\ at' = "machine"
  /\ powerOnTimer' = IF systemState = "POWERON" /\ powerOnTimer < powerOnTime
                     THEN powerOnTimer + 1 ELSE powerOnTimer
  /\ piAlive' = AliveAfterSecond
  /\ idleTimer' = IF systemState = "IDLE" THEN Dec(idleTimer) ELSE idleTimer
  /\ bootTimer' = IF systemState = "PIBOOT" THEN Dec(bootTimer) ELSE bootTimer
  /\ sent' = Status
  /\ UNCHANGED <<systemState, powerOffTimer, config, serviceMode, relais, selfHold, pins, rx>>

Timer1000ms ==
  /\ at = "timers" /\ at' = "machine"
  /\ powerOnTimer' = IF systemState = "POWERON" /\ powerOnTimer < powerOnTime
                     THEN powerOnTimer + 1 ELSE powerOnTimer
  /\ piAlive' = AliveAfterSecond
  /\ powerOffTimer' = IF systemState = "POWEROFF" THEN Dec(powerOffTimer) ELSE powerOffTimer
  /\ idleTimer' = IF systemState = "IDLE" THEN Dec(idleTimer) ELSE idleTimer
  /\ bootTimer' = IF systemState = "PIBOOT" THEN Dec(bootTimer) ELSE bootTimer
  /\ sent' = Status
  /\ UNCHANGED <<systemState, config, serviceMode, relais, selfHold, pins, rx>>

NoSecond ==
  /\ at = "timers" /\ at' = "machine"
  /\ sent' = NoTelegram
  /\ UNCHANGED <<systemState, timers, piAlive, config, serviceMode,
                 relais, selfHold, pins, rx>>

-----------------------------------------------------------------------------
(* The state machine of MainLoop, one action per branch. *)

Machine == at = "machine" /\ at' = "uart" /\ sent' = NoTelegram

SetRelaisOn(nr)  == relais' = relais \cup {nr}
SetRelaisOff(nr) == relais' = relais \ {nr}

PowerOn ==
  /\ Machine
  /\ systemState = "IDLE" /\ kl15
  /\ systemState' = "POWERON"
  /\ SetRelaisOn(Display)
  /\ bootTimer' = 0
  /\ UNCHANGED <<powerOnTimer, powerOffTimer, idleTimer, piAlive, config, serviceMode,
                 selfHold, pins, rx>>

PowerOnDelayPending == powerOnTimer < powerOnTime
(* Mutant: off by one at the end of the power on delay. *)
PowerOnDelayOverLate == powerOnTimer > powerOnTime

PowerOnDelayOver == powerOnTimer = powerOnTime

(* Mutant: the cancelled start leaves the display on. *)
CancelPowerOnKeepsDisplay ==
  /\ Machine
  /\ systemState = "POWERON" /\ (PowerOnDelayPending \/ PowerOnDelayOver) /\ ~kl15
  /\ systemState' = "IDLE"
  /\ powerOnTimer' = 0 /\ bootTimer' = 0 /\ idleTimer' = CancelTime
  /\ UNCHANGED <<powerOffTimer, piAlive, config, serviceMode, relais, selfHold, pins, rx>>

CancelPowerOn ==
  /\ Machine
  /\ systemState = "POWERON" /\ (PowerOnDelayPending \/ PowerOnDelayOver) /\ ~kl15
  /\ systemState' = "IDLE"
  /\ powerOnTimer' = 0 /\ bootTimer' = 0 /\ idleTimer' = CancelTime
  /\ SetRelaisOff(Display)
  /\ UNCHANGED <<powerOffTimer, piAlive, config, serviceMode, selfHold, pins, rx>>

BootPi ==
  /\ Machine
  /\ systemState = "POWERON" /\ PowerOnDelayOver /\ kl15
  /\ systemState' = "PIBOOT"
  /\ SetRelaisOn(Pi)
  /\ powerOnTimer' = 0 /\ bootTimer' = BootTime
  /\ UNCHANGED <<powerOffTimer, idleTimer, piAlive, config, serviceMode, selfHold, pins, rx>>

(* The ignition went off while the Pi booted: powerOffTimer is not set. *)
CancelBoot ==
  /\ Machine
  /\ systemState = "PIBOOT" /\ bootTimer = 0 /\ ~kl15
  /\ systemState' = "POWEROFF"
  /\ powerOnTimer' = 0 /\ bootTimer' = 0
  /\ UNCHANGED <<powerOffTimer, idleTimer, piAlive, config, serviceMode,
                 relais, selfHold, pins, rx>>

EnterRun ==
  /\ Machine
  /\ systemState = "PIBOOT" /\ bootTimer = 0 /\ kl15
  /\ systemState' = "RUN"
  /\ powerOnTimer' = 0 /\ bootTimer' = RunBootTime
  /\ piAlive' = (piAlive + 1) % ByteMod
  /\ UNCHANGED <<powerOffTimer, idleTimer, config, serviceMode, relais, selfHold, pins, rx>>

AliveTimeout ==
  /\ Machine
  /\ systemState = "RUN" /\ piAlive = 0
  /\ systemState' = "POWEROFF"
  /\ SetRelaisOff(Amp)
  /\ powerOffTimer' = HangTime
  /\ UNCHANGED <<powerOnTimer, bootTimer, idleTimer, piAlive, config, serviceMode,
                 selfHold, pins, rx>>

(* Mutant: the ignition goes off and no window is opened. *)
CarOfflineNoWindow ==
  /\ Machine
  /\ systemState = "RUN" /\ piAlive # 0 /\ ~kl15
  /\ systemState' = "POWEROFF"
  /\ SetRelaisOff(Amp)
  /\ powerOnTimer' = 0 /\ bootTimer' = 0
  /\ UNCHANGED <<powerOffTimer, idleTimer, piAlive, config, serviceMode, selfHold, pins, rx>>

CarOffline ==
  /\ Machine
  /\ systemState = "RUN" /\ piAlive # 0 /\ ~kl15
  /\ systemState' = "POWEROFF"
  /\ SetRelaisOff(Amp)
  /\ powerOnTimer' = 0 /\ bootTimer' = 0 /\ powerOffTimer' = OffTime
  /\ UNCHANGED <<idleTimer, piAlive, config, serviceMode, selfHold, pins, rx>>

(* The halted Pi pulls Dig3. *)
PiHalted ==
  /\ Machine
  /\ systemState = "POWEROFF" /\ powerOffTimer > 0 /\ dig3
  /\ powerOffTimer' = 0
  /\ UNCHANGED <<systemState, powerOnTimer, bootTimer, idleTimer, piAlive, config,
                 serviceMode, relais, selfHold, pins, rx>>

(* Mutant: the supply is cut while the window is open. *)
CutPowerEarly ==
  /\ Machine
  /\ systemState = "POWEROFF"
  /\ systemState' = "IDLE"
  /\ relais' = {}
  /\ idleTimer' = 0
  /\ UNCHANGED <<powerOnTimer, bootTimer, powerOffTimer, piAlive, config, serviceMode,
                 selfHold, pins, rx>>

(* Mutant: the relay of the Pi is forgotten. *)
CutPowerKeepsPi ==
  /\ Machine
  /\ systemState = "POWEROFF" /\ powerOffTimer = 0
  /\ systemState' = "IDLE"
  /\ relais' = relais \ {Display, Amp}
  /\ idleTimer' = 0
  /\ UNCHANGED <<powerOnTimer, bootTimer, powerOffTimer, piAlive, config, serviceMode,
                 selfHold, pins, rx>>

CutPower ==
  /\ Machine
  /\ systemState = "POWEROFF" /\ powerOffTimer = 0
  /\ systemState' = "IDLE"
  /\ relais' = {}
  /\ idleTimer' = 0
  /\ UNCHANGED <<powerOnTimer, bootTimer, powerOffTimer, piAlive, config, serviceMode,
                 selfHold, pins, rx>>

(* With USB the chip sleeps until the watchdog resets it, without USB it   *)
(* drains the capacitor for ever.                                          *)
SwitchOff ==
  /\ at = "machine"
  /\ systemState = "IDLE" /\ ~kl15 /\ idleTimer = 0
  /\ selfHold' = FALSE
  /\ at' = IF usb THEN "resetting" ELSE "draining"
  /\ sent' = NoTelegram
  /\ UNCHANGED <<systemState, timers, piAlive, config, serviceMode, relais, pins, rx>>

NoTransition ==
  /\ Machine
  /\ CASE systemState = "IDLE"     -> ~kl15 /\ idleTimer > 0
       [] systemState = "POWERON"  -> IF PowerOnDelayPending THEN kl15 ELSE ~PowerOnDelayOver
       [] systemState = "PIBOOT"   -> bootTimer > 0
       [] systemState = "RUN"      -> piAlive # 0 /\ kl15
       [] systemState = "POWEROFF" -> powerOffTimer > 0 /\ ~dig3
  /\ UNCHANGED <<systemState, timers, piAlive, config, serviceMode,
                 relais, selfHold, pins, rx>>

-----------------------------------------------------------------------------
(* Interpret: the commands, one per pass. *)

CapAlive(n) == IF n > 3 THEN 3 ELSE n
Bumped      == CapAlive((piAlive + 1) % ByteMod)

Read(byte) == at = "uart" /\ rx # <<>> /\ Head(rx) = byte /\ rx' = Tail(rx)

Reply(response) == sent' = CommandResult(response) /\ at' = "timers"

NoCommand ==
  /\ at = "uart" /\ rx = <<>>
  /\ at' = "timers" /\ sent' = NoTelegram
  /\ UNCHANGED <<systemState, timers, piAlive, config, serviceMode,
                 relais, selfHold, pins, rx>>

(* '1'..'3' switch a relay on, '4'..'6' off; '4' alone is no sign of life. *)
SwitchRelais(byte) ==
  /\ byte \in CmdRelais /\ Read(byte)
  /\ IF byte <= 51 THEN SetRelaisOn(byte - 49) ELSE SetRelaisOff(byte - 52)
  /\ piAlive' = IF byte = 52 THEN CapAlive(piAlive) ELSE Bumped
  /\ Reply("ACK")
  /\ UNCHANGED <<systemState, timers, config, serviceMode, selfHold, pins>>

SignOfLife ==
  /\ Read(CmdAlive)
  /\ piAlive' = Bumped
  /\ Reply("ACK")
  /\ UNCHANGED <<systemState, timers, config, serviceMode, relais, selfHold, pins>>

RequestPowerOff ==
  /\ Read(CmdPowerOff)
  /\ SetRelaisOff(Amp)
  /\ piAlive' = Bumped
  /\ systemState' = "POWEROFF"
  /\ powerOffTimer' = OffTime
  /\ Reply("ACK")
  /\ UNCHANGED <<powerOnTimer, bootTimer, idleTimer, config, serviceMode, selfHold, pins>>

ToggleDebug ==
  /\ Read(CmdDebug)
  /\ piAlive' = Bumped
  /\ sendDebugMessages' = ~sendDebugMessages
  /\ eepromDebug' = IF sendDebugMessages' THEN 1 ELSE 0
  /\ Reply("ACK")
  /\ UNCHANGED <<systemState, timers, powerOnTime, eepromPowerOnTime, serviceMode,
                 relais, selfHold, pins>>

SetPowerOnTime ==
  /\ Read(CmdPowerOnTime)
  /\ at' = "argument" /\ sent' = NoTelegram
  /\ UNCHANGED <<systemState, timers, piAlive, config, serviceMode, relais, selfHold, pins>>

(* The digit that follows '*'; uint8_t arithmetic. *)
Digit(byte) == IF byte >= 48 THEN byte - 48 ELSE byte + 208

(* Mutant: a refused delay stays in powerOnTime. *)
ReadPowerOnTimeNoRestore ==
  /\ at = "argument" /\ rx # <<>>
  /\ rx' = Tail(rx)
  /\ LET time == Digit(Head(rx)) IN
     /\ powerOnTime' = time
     /\ IF ValidPowerOnTime(time)
        THEN eepromPowerOnTime' = time /\ Reply("ACK")
        ELSE UNCHANGED eepromPowerOnTime /\ Reply("NACK")
  /\ piAlive' = CapAlive(piAlive)
  /\ UNCHANGED <<systemState, timers, sendDebugMessages, eepromDebug, serviceMode,
                 relais, selfHold, pins>>

ReadPowerOnTime ==
  /\ at = "argument" /\ rx # <<>>
  /\ rx' = Tail(rx)
  /\ LET time == Digit(Head(rx)) IN
     IF ValidPowerOnTime(time)
     THEN powerOnTime' = time /\ eepromPowerOnTime' = time /\ Reply("ACK")
     ELSE powerOnTime' = eepromPowerOnTime /\ UNCHANGED eepromPowerOnTime /\ Reply("NACK")
  /\ piAlive' = CapAlive(piAlive)
  /\ UNCHANGED <<systemState, timers, sendDebugMessages, eepromDebug, serviceMode,
                 relais, selfHold, pins>>

SetServiceMode(byte, mode) ==
  /\ Read(byte)
  /\ serviceMode' = mode
  /\ piAlive' = CapAlive(piAlive)
  /\ Reply("ACK")
  /\ UNCHANGED <<systemState, timers, config, relais, selfHold, pins>>

Bootloader(byte) ==
  /\ byte \in CmdBootloader /\ Read(byte)
  /\ at' = "resetting" /\ sent' = NoTelegram
  /\ UNCHANGED <<systemState, timers, piAlive, config, serviceMode, relais, selfHold, pins>>

OtherCommand(byte) ==
  /\ byte \notin KnownCommands \ {CmdVersion} /\ Read(byte)
  /\ piAlive' = CapAlive(piAlive)
  /\ Reply(IF byte = CmdVersion THEN "ACK" ELSE "NACK")
  /\ UNCHANGED <<systemState, timers, config, serviceMode, relais, selfHold, pins>>

-----------------------------------------------------------------------------
Branch ==
  \/ PowerOn \/ CancelPowerOn \/ BootPi \/ CancelBoot \/ EnterRun \/ AliveTimeout
  \/ CarOffline \/ PiHalted \/ CutPower \/ SwitchOff \/ NoTransition

Interpret ==
  \/ \E byte \in Commands : SwitchRelais(byte) \/ Bootloader(byte) \/ OtherCommand(byte)
  \/ SignOfLife \/ RequestPowerOff \/ ToggleDebug \/ SetPowerOnTime \/ ReadPowerOnTime
  \/ SetServiceMode(CmdService, TRUE) \/ SetServiceMode(CmdWatchdog, FALSE)

MainLoop == Timer1000ms \/ NoSecond \/ Branch \/ Interpret \/ NoCommand

Hardware == PowerUp \/ PowerLoss \/ ChipReset \/ WatchdogReset

Environment == PinChange \/ \E byte \in Commands : ReceiveByte(byte)

Next == MainLoop \/ Hardware \/ Environment

Spec == Init /\ [][Next]_vars

(* The processor keeps executing and the clock keeps ticking; nothing is   *)
(* assumed of the pins or of the other end of the UART.                    *)
Fairness == WF_vars(MainLoop) /\ SF_vars(Timer1000ms) /\ WF_vars(Hardware)

FairSpec == Spec /\ Fairness

-----------------------------------------------------------------------------
(* Properties *)

PlaceTypes ==
  /\ at \in Loop \cup {"unpowered", "resetting", "draining"}
  /\ systemState \in States /\ serviceMode \in BOOLEAN
  /\ relais \subseteq Relays /\ selfHold \in BOOLEAN
  /\ kl15 \in BOOLEAN /\ dig3 \in BOOLEAN /\ usb \in BOOLEAN

TimerTypes ==
  /\ powerOnTimer \in 0..MaxPowerOnTime
  /\ bootTimer \in Nat /\ powerOffTimer \in Nat /\ idleTimer \in Nat
  /\ piAlive \in 0..(ByteMod - 1)

ConfigTypes ==
  /\ powerOnTime \in 1..MaxPowerOnTime /\ sendDebugMessages \in BOOLEAN
  /\ eepromDebug \in 0..255 /\ eepromPowerOnTime \in 0..255

LineTypes ==
  /\ rx \in Seq(Commands) /\ Len(rx) <= RxCapacity
  /\ sent \in Telegrams

(* Every variable keeps its type; the timers never run below zero and the  *)
(* receive ring never holds more than its capacity.                        *)
TypeOK == PlaceTypes /\ TimerTypes /\ ConfigTypes /\ LineTypes

(* The configuration the running program uses is the one the EEPROM holds, *)
(* so a reset at any point of the loop, also in the middle of a '*' or '#' *)
(* command, starts again with the values the driver chose.                 *)
ConfigPersistent ==
  at \in Loop =>
    /\ powerOnTime = eepromPowerOnTime
    /\ eepromDebug = IF sendDebugMessages THEN 1 ELSE 0

(* A shutdown window is open only while the board stops the Pi: no path    *)
(* through a cancelled start, a '$' or a reset leaves a window behind that *)
(* the next shutdown would inherit.                                        *)
WindowOnlyWhileStopping == powerOffTimer > 0 => systemState = "POWEROFF"

(* The commands that switch relays by hand; the backend never sends them.  *)
NoRelayCommands == Commands \cap CmdRelais = {}

(* As long as nobody switches relays by hand the outputs follow the state: *)
(* the Pi is powered from PIBOOT on, the display one state earlier, and in *)
(* IDLE both are off, whatever order ignition, '$' and resets come in.     *)
RelayInterlock ==
  NoRelayCommands =>
    /\ systemState \in {"PIBOOT", "RUN"} => {Display, Pi} \subseteq relais
    /\ systemState = "POWERON" => Display \in relais /\ Pi \notin relais
    /\ systemState = "IDLE" => Display \notin relais /\ Pi \notin relais

(* The board never gives up its own supply while the Pi runs from it: the  *)
(* ignition may go at any time without tearing the Pi down.                *)
HoldWhilePowered == NoRelayCommands /\ ~selfHold => Pi \notin relais

(* The commands that end in a reset of the chip.                           *)
NoResetCommands == Commands \cap (CmdBootloader \cup {CmdPowerOnTime}) = {}

PiPhase == CASE systemState \in {"IDLE", "POWERON"} -> "off"
             [] systemState = "PIBOOT"   -> "booting"
             [] systemState = "RUN"      -> "running"
             [] systemState = "POWEROFF" -> "stopping"

PiCountdown == CASE systemState = "PIBOOT"   -> bootTimer
                 [] systemState = "POWEROFF" -> powerOffTimer
                 [] OTHER -> 0

Promise == INSTANCE PiPower WITH
  phase      <- PiPhase,
  powered    <- Pi \in relais,
  countdown  <- PiCountdown,
  Windows    <- {OffTime, HangTime},
  Manual     <- ~NoRelayCommands,
  Resettable <- ~NoResetCommands

(* The board keeps the promise of PiPower: seen through the outputs and    *)
(* the timers, the supply of the Pi is never cut before its shutdown       *)
(* window has run out, been closed by Dig3 or never been owed.             *)
KeepsPromise == Promise!Spec

(* Nobody asks for a power off; each '$' opens the shutdown window anew.   *)
NoPowerOffWaits == \A i \in 1..Len(rx) : rx[i] # CmdPowerOff

(* Ignition off for good and no more '$': the Pi is in the end without     *)
(* power for good.                                                         *)
IgnitionOffStopsPi == <>[](~kl15 /\ NoPowerOffWaits) => <>[](Pi \notin relais)

(* Ignition on for good, no more '$', and the board not caught draining    *)
(* its capacitor: the Pi is powered again and again, whatever it does or   *)
(* fails to do.                                                            *)
IgnitionOnStartsPi ==
  <>[](kl15 /\ NoPowerOffWaits /\ at # "draining") => []<>(Pi \in relais)

(* A Pi that falls silent outside the service mode does not run for ever.  *)
Silent == systemState = "RUN" /\ rx = <<>> /\ ~serviceMode
SilentPiIsCutOff == ~<>[]Silent

(* RaspberryPower.c:635, "Cancel Power on": the ignition going off during  *)
(* the power on delay cancels the start.                                   *)
PowerOnIsCancelled == <>[]~kl15 => <>[](systemState # "POWERON")

(* RaspberryPower.c:216: the board that switched itself off waits for the  *)
(* ignition to power on.                                                   *)
WaitsForIgnition == <>[]kl15 => []<>(at \in Loop)
=============================================================================
