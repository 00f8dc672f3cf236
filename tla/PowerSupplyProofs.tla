------------------------- MODULE PowerSupplyProofs -------------------------
(* Proofs about the power supply firmware, for every set of commands, every *)
(* capacity of the receive ring and all durations.                          *)
EXTENDS PowerSupply, TLAPS

(* Typing and the agreement of the configuration with the EEPROM need each  *)
(* other: a refused '*' reloads powerOnTime from the EEPROM.                *)
TypeInv == TypeOK /\ ConfigPersistent

LEMMA DecType ==
  /\ \A n \in Nat : Dec(n) \in Nat
  /\ \A n \in 0..(ByteMod - 1) : Dec(n) \in 0..(ByteMod - 1)
  BY BytesAssumption DEF Dec

LEMMA CheckedType ==
  ASSUME NEW byte \in 0..255
  PROVE  CheckedPowerOnTime(byte) \in (0..255) \cap (1..MaxPowerOnTime)
  BY TimesAssumption DEF CheckedPowerOnTime, ValidPowerOnTime

LEMMA DigitType == \A byte \in 0..255 : Digit(byte) \in Int
  BY DEF Digit

LEMMA StatusType ==
  ASSUME PlaceTypes, NEW n \in 0..(ByteMod - 1)
  PROVE  [type |-> "status", kl15 |-> kl15, alive |-> n, state |-> systemState] \in Telegrams
  BY DEF Telegrams, PlaceTypes

LEMMA ResultType ==
  /\ NoTelegram \in Telegrams
  /\ CommandResult("ACK") \in Telegrams /\ CommandResult("NACK") \in Telegrams
  BY DEF Telegrams, CommandResult, NoTelegram

LEMMA RingType ==
  ASSUME NEW byte \in Commands, rx \in Seq(Commands), Len(rx) <= RxCapacity
  PROVE  Received(byte) \in Seq(Commands) /\ Len(Received(byte)) <= RxCapacity
  BY BytesAssumption DEF Received

LEMMA TailType ==
  ASSUME rx \in Seq(Commands), Len(rx) <= RxCapacity, rx # <<>>
  PROVE  Head(rx) \in Commands /\ Tail(rx) \in Seq(Commands) /\ Len(Tail(rx)) <= RxCapacity
  BY BytesAssumption

LEMMA CapType ==
  ASSUME NEW n \in 0..(ByteMod - 1)
  PROVE  /\ CapAlive(n) \in 0..(ByteMod - 1)
         /\ CapAlive((n + 1) % ByteMod) \in 0..(ByteMod - 1)
         /\ (n + 1) % ByteMod \in 0..(ByteMod - 1)
<1>1. (n + 1) % ByteMod \in 0..(ByteMod - 1)
  BY BytesAssumption
<1> QED BY <1>1, BytesAssumption DEF CapAlive

-----------------------------------------------------------------------------
LEMMA TypeInit == Init => TypeInv
<1> SUFFICES ASSUME Init PROVE TypeInv
  OBVIOUS
<1>1. PlaceTypes BY DEF Init, PlaceTypes, States, Relays
<1>2. TimerTypes BY TimesAssumption, BytesAssumption DEF Init, TimerTypes
<1>3. ConfigTypes
  <2>1. eepromPowerOnTime \in 0..255 /\ eepromDebug \in 0..255
    BY BytesAssumption DEF Init
  <2> QED BY <2>1, TimesAssumption DEF Init, ConfigTypes
<1>4. LineTypes BY BytesAssumption, ResultType DEF Init, LineTypes
<1>5. ConfigPersistent BY DEF Init, ConfigPersistent, Loop
<1> QED BY <1>1, <1>2, <1>3, <1>4, <1>5 DEF TypeInv, TypeOK

(* One lemma per part of the typing, one step per group of actions. *)
LEMMA PlaceNext == ASSUME PlaceTypes, Next PROVE PlaceTypes'
<1> USE DEF PlaceTypes, Loop, States, pins
<1>1. CASE Hardware
  BY <1>1 DEF Hardware, PowerUp, PowerLoss, ChipReset, WatchdogReset, main, InitIO,
              InitGlobalVariables
<1>2. CASE Environment
  BY <1>2 DEF Environment, PinChange, Pin, ReceiveByte
<1>3. CASE Timer1000ms \/ NoSecond \/ NoCommand
  BY <1>3 DEF Timer1000ms, NoSecond, NoCommand
<1>4. CASE Branch
  BY <1>4 DEF Branch, PowerOn, CancelPowerOn, BootPi, CancelBoot, EnterRun, AliveTimeout,
              CarOffline, PiHalted, CutPower, SwitchOff, NoTransition, Machine,
              SetRelaisOn, SetRelaisOff, Relays
<1>5. CASE Interpret
  <2>1. relais' \subseteq Relays
    <3>1. ASSUME NEW byte \in Commands, SwitchRelais(byte) PROVE relais' \subseteq Relays
      <4>1. byte \in 49..51 => byte - 49 \in Relays
        BY DEF Relays, Display, Pi, Amp
      <4>2. \/ byte \in 49..51 /\ relais' = relais \cup {byte - 49}
            \/ relais' = relais \ {byte - 52}
        BY <3>1 DEF SwitchRelais, CmdRelais, SetRelaisOn, SetRelaisOff
      <4> QED BY <4>1, <4>2
    <3> QED BY <1>5, <3>1
      DEF Interpret, Bootloader, OtherCommand, SignOfLife, RequestPowerOff, SetRelaisOff,
          ToggleDebug, SetPowerOnTime, ReadPowerOnTime, SetServiceMode
  <2>2. at' \in Loop \cup {"resetting"} /\ UNCHANGED <<selfHold, pins>>
    BY <1>5
    DEF Interpret, SwitchRelais, Bootloader, OtherCommand, SignOfLife, RequestPowerOff,
        ToggleDebug, SetPowerOnTime, ReadPowerOnTime, SetServiceMode, Reply
  <2>3. systemState' \in {systemState, "POWEROFF"} /\ serviceMode' \in {serviceMode, TRUE, FALSE}
    BY <1>5
    DEF Interpret, SwitchRelais, Bootloader, OtherCommand, SignOfLife, RequestPowerOff,
        ToggleDebug, SetPowerOnTime, ReadPowerOnTime, SetServiceMode
  <2> QED BY <2>1, <2>2, <2>3
<1> QED BY <1>1, <1>2, <1>3, <1>4, <1>5 DEF Next, MainLoop

LEMMA TimerNext ==
  ASSUME TimerTypes, powerOnTime \in 1..MaxPowerOnTime, Next PROVE TimerTypes'
<1> USE TimesAssumption, BytesAssumption DEF TimerTypes, timers
<1>1. CASE Hardware
  BY <1>1 DEF Hardware, PowerUp, PowerLoss, ChipReset, WatchdogReset, main, InitIO,
              InitGlobalVariables
<1>2. CASE Environment
  BY <1>2 DEF Environment, PinChange, Pin, ReceiveByte
<1>3. CASE Timer1000ms
  BY <1>3, DecType DEF Timer1000ms, AliveAfterSecond
<1>4. CASE NoSecond \/ NoCommand
  BY <1>4 DEF NoSecond, NoCommand
<1>5. CASE Branch
  <2>1. /\ powerOnTimer' \in {powerOnTimer, 0}
        /\ bootTimer' \in {bootTimer, 0, BootTime, RunBootTime}
        /\ powerOffTimer' \in {powerOffTimer, 0, HangTime, OffTime}
        /\ idleTimer' \in {idleTimer, 0, CancelTime}
        /\ piAlive' \in {piAlive, (piAlive + 1) % ByteMod}
    BY <1>5
    DEF Branch, PowerOn, CancelPowerOn, BootPi, CancelBoot, EnterRun, AliveTimeout,
        CarOffline, PiHalted, CutPower, SwitchOff, NoTransition
  <2> QED BY <2>1, CapType
<1>6. CASE Interpret
  BY <1>6, CapType
  DEF Interpret, SwitchRelais, Bootloader, OtherCommand, SignOfLife, RequestPowerOff,
      ToggleDebug, SetPowerOnTime, ReadPowerOnTime, SetServiceMode, Bumped
<1> QED BY <1>1, <1>2, <1>3, <1>4, <1>5, <1>6 DEF Next, MainLoop

LEMMA ConfigNext ==
  ASSUME ConfigTypes, ConfigPersistent, rx # <<>> => Head(rx) \in 0..255, Next
  PROVE  ConfigTypes' /\ ConfigPersistent'
<1> USE DEF ConfigTypes, ConfigPersistent, Loop, config
<1>1. CASE PowerLoss
  BY <1>1, TimesAssumption DEF PowerLoss
<1>2. CASE main
  <2>1. eepromPowerOnTime' \in (0..255) \cap (1..MaxPowerOnTime)
    BY <1>2, CheckedType DEF main, InitIO
  <2>2. eepromDebug' \in {0, 1}
    BY <1>2 DEF main, InitIO
  <2>3. powerOnTime' = eepromPowerOnTime' /\ at' \in Loop
    BY <1>2 DEF main, InitIO
  <2>4. sendDebugMessages' = (eepromDebug' = 1)
    BY <1>2 DEF main, InitIO
  <2>5. sendDebugMessages' \in BOOLEAN /\ eepromDebug' = IF sendDebugMessages' THEN 1 ELSE 0
    <3>1. CASE eepromDebug' = 1 BY <2>4, <3>1
    <3>2. CASE eepromDebug' = 0 BY <2>4, <3>2
    <3> QED BY <2>2, <3>1, <3>2
  <2> QED BY <2>1, <2>2, <2>3, <2>5
<1>3. CASE at \in Loop /\ UNCHANGED config
  BY <1>3
<1>4. CASE Environment
  <2>1. UNCHANGED <<at, config>>
    BY <1>4 DEF Environment, PinChange, Pin, ReceiveByte
  <2> QED BY <2>1
<1>5. CASE Timer1000ms \/ NoSecond \/ NoCommand
  BY <1>3, <1>5 DEF Timer1000ms, NoSecond, NoCommand
<1>6. CASE Branch
  BY <1>3, <1>6
  DEF Branch, PowerOn, CancelPowerOn, BootPi, CancelBoot, EnterRun, AliveTimeout,
      CarOffline, PiHalted, CutPower, SwitchOff, NoTransition, Machine
<1>7. CASE ReadPowerOnTime
  <2>1. /\ powerOnTime' = eepromPowerOnTime'
        /\ eepromPowerOnTime' \in 1..MaxPowerOnTime
    <3>1. at \in Loop /\ Head(rx) \in 0..255
      BY <1>7 DEF ReadPowerOnTime
    <3>2. powerOnTime = eepromPowerOnTime
      BY <3>1
    <3>3. Digit(Head(rx)) \in Int
      BY <3>1, DigitType
    <3> QED BY <1>7, <3>2, <3>3, TimesAssumption DEF ReadPowerOnTime, ValidPowerOnTime
  <2>2. at \in Loop /\ UNCHANGED <<sendDebugMessages, eepromDebug>>
    BY <1>7 DEF ReadPowerOnTime
  <2> QED BY <2>1, <2>2, TimesAssumption
<1>8. CASE ToggleDebug
  <2>1. /\ at \in Loop /\ UNCHANGED <<powerOnTime, eepromPowerOnTime>>
        /\ sendDebugMessages' \in BOOLEAN
        /\ eepromDebug' = IF sendDebugMessages' THEN 1 ELSE 0
    BY <1>8 DEF ToggleDebug, Read
  <2> QED BY <2>1
<1>9. CASE Interpret /\ ~ReadPowerOnTime /\ ~ToggleDebug
  BY <1>3, <1>9
  DEF Interpret, SwitchRelais, Bootloader, OtherCommand, SignOfLife, RequestPowerOff,
      SetPowerOnTime, SetServiceMode, Read
<1> QED BY <1>1, <1>2, <1>4, <1>5, <1>6, <1>7, <1>8, <1>9
        DEF Next, MainLoop, Hardware, PowerUp, ChipReset, WatchdogReset

LEMMA LineNext == ASSUME TypeOK, Next PROVE LineTypes'
<1>1. \/ rx' \in {rx, <<>>}
      \/ (rx # <<>> /\ rx' = Tail(rx))
      \/ \E byte \in Commands : rx' = Received(byte)
  BY DEF Next, MainLoop, Hardware, PowerUp, PowerLoss, ChipReset, WatchdogReset, main, InitIO,
      Environment, PinChange, Pin, ReceiveByte, Timer1000ms, NoSecond, NoCommand,
      Branch, PowerOn, CancelPowerOn, BootPi, CancelBoot, EnterRun, AliveTimeout,
      CarOffline, PiHalted, CutPower, SwitchOff, NoTransition, Read,
      Interpret, SwitchRelais, Bootloader, OtherCommand, SignOfLife,
      RequestPowerOff, ToggleDebug, SetPowerOnTime, ReadPowerOnTime, SetServiceMode
<1>2. rx' \in Seq(Commands) /\ Len(rx') <= RxCapacity
  <2>1. rx \in Seq(Commands) /\ Len(rx) <= RxCapacity
    BY DEF TypeOK, LineTypes
  <2>2. <<>> \in Seq(Commands) /\ Len(<<>>) <= RxCapacity
    BY BytesAssumption
  <2> QED BY <1>1, <2>1, <2>2, RingType, TailType
<1>3. \/ sent' \in {sent, NoTelegram, CommandResult("ACK"), CommandResult("NACK")}
      \/ Timer1000ms
  BY DEF Next, MainLoop, Hardware, PowerUp, PowerLoss, ChipReset, WatchdogReset, main, InitIO,
      Environment, PinChange, Pin, ReceiveByte, NoSecond, NoCommand,
      Branch, PowerOn, CancelPowerOn, BootPi, CancelBoot, EnterRun, AliveTimeout,
      CarOffline, PiHalted, CutPower, SwitchOff, NoTransition, Machine, Reply,
      Interpret, SwitchRelais, Bootloader, OtherCommand, SignOfLife,
      RequestPowerOff, ToggleDebug, SetPowerOnTime, ReadPowerOnTime, SetServiceMode
<1>4. CASE Timer1000ms
  <2>1. piAlive' \in 0..(ByteMod - 1)
    BY <1>4, DecType DEF Timer1000ms, AliveAfterSecond, TypeOK, TimerTypes
  <2>2. sent' \in Telegrams
    BY <1>4, <2>1, StatusType DEF Timer1000ms, Status, TypeOK
  <2> QED BY <1>2, <2>2 DEF LineTypes
<1> QED BY <1>2, <1>3, <1>4, ResultType DEF TypeOK, LineTypes

LEMMA TypeNext == TypeInv /\ [Next]_vars => TypeInv'
<1>1. ASSUME TypeInv, Next PROVE TypeInv'
  <2>1. rx # <<>> => Head(rx) \in 0..255
    BY <1>1, TailType, BytesAssumption DEF TypeInv, TypeOK, LineTypes
  <2>2. powerOnTime \in 1..MaxPowerOnTime
    BY <1>1 DEF TypeInv, TypeOK, ConfigTypes
  <2> QED BY <1>1, <2>1, <2>2, PlaceNext, TimerNext, ConfigNext, LineNext DEF TypeInv, TypeOK
<1>2. ASSUME TypeInv, UNCHANGED vars PROVE TypeInv'
  BY <1>2 DEF vars, timers, config, pins, TypeInv, TypeOK, PlaceTypes, TimerTypes,
              ConfigTypes, LineTypes, ConfigPersistent
<1> QED BY <1>1, <1>2

(* Every variable keeps its type: timers stay natural, uint8_t counters in  *)
(* their width, the receive ring within its capacity.                       *)
THEOREM TypeCorrect == Spec => []TypeOK
<1>1. TypeInv => TypeOK
  BY DEF TypeInv
<1> QED BY <1>1, TypeInit, TypeNext, PTL DEF Spec

(* The configuration in use is the one in the EEPROM whenever the main loop *)
(* runs, whatever '*', '#' and resets come in the middle of each other.     *)
THEOREM ConfigSurvives == Spec => []ConfigPersistent
<1>1. TypeInv => ConfigPersistent
  BY DEF TypeInv
<1> QED BY <1>1, TypeInit, TypeNext, PTL DEF Spec

-----------------------------------------------------------------------------
(* The window: every step that leaves POWEROFF finds or leaves it closed.   *)
LEMMA WindowNext ==
  ASSUME powerOffTimer \in Nat, WindowOnlyWhileStopping, Next
  PROVE  WindowOnlyWhileStopping'
<1> USE DEF WindowOnlyWhileStopping, timers
<1>1. CASE Hardware
  BY <1>1 DEF Hardware, PowerUp, PowerLoss, ChipReset, WatchdogReset, main, InitIO,
              InitGlobalVariables
<1>2. CASE Environment
  BY <1>2 DEF Environment, PinChange, Pin, ReceiveByte
<1>3. CASE Timer1000ms \/ NoSecond \/ NoCommand
  BY <1>3 DEF Timer1000ms, NoSecond, NoCommand, Dec
<1>4. CASE Branch
  <2>1. \/ systemState' = "POWEROFF" \/ powerOffTimer' = 0
        \/ (powerOffTimer' = powerOffTimer /\ systemState # "POWEROFF")
        \/ (powerOffTimer' = powerOffTimer /\ systemState' = systemState)
    BY <1>4
    DEF Branch, PowerOn, CancelPowerOn, BootPi, CancelBoot, EnterRun, AliveTimeout,
        CarOffline, PiHalted, CutPower, SwitchOff, NoTransition
  <2> QED BY <2>1
<1>5. CASE Interpret
  BY <1>5
  DEF Interpret, SwitchRelais, Bootloader, OtherCommand, SignOfLife, RequestPowerOff,
      ToggleDebug, SetPowerOnTime, ReadPowerOnTime, SetServiceMode
<1> QED BY <1>1, <1>2, <1>3, <1>4, <1>5 DEF Next, MainLoop

(* A shutdown window is open only in POWEROFF.                              *)
THEOREM WindowSafe == Spec => []WindowOnlyWhileStopping
<1>1. Init => WindowOnlyWhileStopping
  BY DEF Init, WindowOnlyWhileStopping
<1>2. TypeInv /\ WindowOnlyWhileStopping /\ [Next]_vars => WindowOnlyWhileStopping'
  <2>1. ASSUME TypeInv, WindowOnlyWhileStopping, Next PROVE WindowOnlyWhileStopping'
    BY <2>1, WindowNext DEF TypeInv, TypeOK, TimerTypes
  <2>2. WindowOnlyWhileStopping /\ UNCHANGED vars => WindowOnlyWhileStopping'
    BY DEF vars, timers, WindowOnlyWhileStopping
  <2> QED BY <2>1, <2>2
<1> QED BY <1>1, <1>2, TypeInit, TypeNext, PTL DEF Spec

-----------------------------------------------------------------------------
(* Without relay commands every step keeps the relays in step with the      *)
(* state of the machine.                                                    *)
LEMMA InterlockNext == ASSUME RelayInterlock, Next PROVE RelayInterlock'
<1> SUFFICES ASSUME NoRelayCommands
             PROVE  /\ systemState' \in {"PIBOOT", "RUN"} => {Display, Pi} \subseteq relais'
                    /\ systemState' = "POWERON" => Display \in relais' /\ Pi \notin relais'
                    /\ systemState' = "IDLE" => Display \notin relais' /\ Pi \notin relais'
  BY DEF RelayInterlock, NoRelayCommands
<1> USE DEF RelayInterlock
<1>1. CASE UNCHANGED <<systemState, relais>>
  BY <1>1
<1>2. CASE Hardware
  BY <1>2 DEF Hardware, PowerUp, PowerLoss, ChipReset, WatchdogReset, main, InitIO
<1>3. CASE Environment
  BY <1>1, <1>3 DEF Environment, PinChange, Pin, ReceiveByte
<1>4. CASE Timer1000ms \/ NoSecond \/ NoCommand
  BY <1>1, <1>4 DEF Timer1000ms, NoSecond, NoCommand
<1>5. CASE Branch
  <2> USE DEF Display, Pi, Amp, SetRelaisOn, SetRelaisOff
  <2>1. CASE PowerOn BY <2>1 DEF PowerOn
  <2>2. CASE CancelPowerOn BY <2>2 DEF CancelPowerOn
  <2>3. CASE BootPi BY <2>3 DEF BootPi
  <2>4. CASE EnterRun BY <2>4 DEF EnterRun
  <2>5. CASE CutPower BY <2>5 DEF CutPower
  <2>6. CASE CancelBoot \/ AliveTimeout \/ CarOffline
    BY <2>6 DEF CancelBoot, AliveTimeout, CarOffline
  <2>7. CASE PiHalted \/ SwitchOff \/ NoTransition
    BY <1>1, <2>7 DEF PiHalted, SwitchOff, NoTransition
  <2> QED BY <1>5, <2>1, <2>2, <2>3, <2>4, <2>5, <2>6, <2>7 DEF Branch
<1>6. CASE Interpret
  <2>1. ASSUME NEW byte \in Commands, SwitchRelais(byte) PROVE FALSE
    BY <2>1 DEF SwitchRelais, NoRelayCommands
  <2>2. CASE RequestPowerOff
    BY <2>2 DEF RequestPowerOff
  <2> QED BY <1>1, <1>6, <2>1, <2>2
    DEF Interpret, Bootloader, OtherCommand, SignOfLife, ToggleDebug, SetPowerOnTime,
        ReadPowerOnTime, SetServiceMode
<1> QED BY <1>2, <1>3, <1>4, <1>5, <1>6 DEF Next, MainLoop

(* As long as nobody switches relays by hand the outputs follow the state.  *)
THEOREM InterlockSafe == Spec => []RelayInterlock
<1>1. Init => RelayInterlock
  BY DEF Init, RelayInterlock
<1>2. RelayInterlock /\ [Next]_vars => RelayInterlock'
  <2>1. RelayInterlock /\ UNCHANGED vars => RelayInterlock'
    BY DEF vars, RelayInterlock, NoRelayCommands
  <2> QED BY <2>1, InterlockNext
<1> QED BY <1>1, <1>2, PTL DEF Spec

-----------------------------------------------------------------------------
(* When the board may stand without its own supply, and which commands it   *)
(* takes to be reset outside IDLE.                                          *)
SupplyInv ==
  /\ ~selfHold => at \in {"unpowered", "resetting", "draining"} /\ systemState = "IDLE"
  /\ at \in {"unpowered", "draining"} => ~selfHold
  /\ at = "resetting" => ~selfHold \/ ~NoResetCommands
  /\ at = "argument" => ~NoResetCommands

LEMMA SupplyNext == ASSUME TypeOK, SupplyInv, Next PROVE SupplyInv'
<1> USE DEF SupplyInv, NoResetCommands, pins
<1>1. CASE Hardware
  BY <1>1 DEF Hardware, PowerUp, PowerLoss, ChipReset, WatchdogReset, main, InitIO, Supplied
<1>2. CASE Environment
  BY <1>2 DEF Environment, PinChange, Pin, ReceiveByte
<1>3. CASE Timer1000ms \/ NoSecond \/ NoCommand
  BY <1>3 DEF Timer1000ms, NoSecond, NoCommand
<1>4. CASE Branch
  BY <1>4 DEF Branch, PowerOn, CancelPowerOn, BootPi, CancelBoot, EnterRun, AliveTimeout,
              CarOffline, PiHalted, CutPower, SwitchOff, NoTransition, Machine
<1>5. CASE SetPowerOnTime
  <2>1. CmdPowerOnTime \in Commands
    BY <1>5, TailType DEF SetPowerOnTime, Read, TypeOK, LineTypes
  <2> QED BY <1>5, <2>1 DEF SetPowerOnTime, Read
<1>6. CASE \E byte \in Commands : Bootloader(byte)
  BY <1>6 DEF Bootloader, Read
<1>7. CASE Interpret /\ ~SetPowerOnTime /\ ~(\E byte \in Commands : Bootloader(byte))
  BY <1>7
  DEF Interpret, SwitchRelais, OtherCommand, SignOfLife, RequestPowerOff, ToggleDebug,
      ReadPowerOnTime, SetServiceMode, Read, Reply
<1> QED BY <1>1, <1>2, <1>3, <1>4, <1>5, <1>6, <1>7 DEF Next, MainLoop

(* The invariant the refinement and the supply theorem rest on.             *)
IInv == TypeInv /\ WindowOnlyWhileStopping /\ RelayInterlock /\ SupplyInv

LEMMA InitIInv == Init => IInv
  BY TypeInit DEF Init, IInv, WindowOnlyWhileStopping, RelayInterlock, SupplyInv

LEMMA StepIInv == IInv /\ [Next]_vars => IInv'
<1>1. ASSUME IInv, Next PROVE IInv'
  <2>1. TypeOK /\ powerOffTimer \in Nat
    BY <1>1 DEF IInv, TypeInv, TypeOK, TimerTypes
  <2> QED BY <1>1, <2>1, TypeNext, WindowNext, InterlockNext, SupplyNext DEF IInv
<1>2. ASSUME IInv, UNCHANGED vars PROVE IInv'
  <2>1. TypeInv'
    BY <1>2, TypeNext DEF IInv
  <2> QED BY <1>2, <2>1
    DEF IInv, vars, timers, WindowOnlyWhileStopping, RelayInterlock, NoRelayCommands,
        SupplyInv, NoResetCommands
<1> QED BY <1>1, <1>2

LEMMA Inductive == Spec => []IInv
  BY InitIInv, StepIInv, PTL DEF Spec

(* The board never gives up its own supply while the Pi runs from it.       *)
THEOREM HoldSafe == Spec => []HoldWhilePowered
<1>1. IInv => HoldWhilePowered
  BY DEF IInv, SupplyInv, RelayInterlock, HoldWhilePowered
<1> QED BY <1>1, Inductive, PTL

-----------------------------------------------------------------------------
(* The refinement: what PiPower sees of a state, and one step per action.   *)
LEMMA Seen ==
  /\ systemState \in {"IDLE", "POWERON"} => PiPhase = "off" /\ PiCountdown = 0
  /\ systemState = "PIBOOT" => PiPhase = "booting" /\ PiCountdown = bootTimer
  /\ systemState = "RUN" => PiPhase = "running" /\ PiCountdown = 0
  /\ systemState = "POWEROFF" => PiPhase = "stopping" /\ PiCountdown = powerOffTimer
  BY DEF PiPhase, PiCountdown

LEMMA SeenNext ==
  /\ systemState' \in {"IDLE", "POWERON"} => PiPhase' = "off" /\ PiCountdown' = 0
  /\ systemState' = "PIBOOT" => PiPhase' = "booting" /\ PiCountdown' = bootTimer'
  /\ systemState' = "RUN" => PiPhase' = "running" /\ PiCountdown' = 0
  /\ systemState' = "POWEROFF" => PiPhase' = "stopping" /\ PiCountdown' = powerOffTimer'
  BY DEF PiPhase, PiCountdown

(* The relay of the Pi may only move while PiPower is off by hand or by a   *)
(* command that resets the board.                                           *)
LEMMA ResetStep ==
  ASSUME IInv, systemState' = "IDLE", relais' = {},
         (systemState = "IDLE" /\ ~selfHold) \/ ~NoResetCommands
  PROVE  Promise!Next \/ UNCHANGED Promise!piVars
<1> USE DEF Promise!Next, Promise!piVars
<1>1. CASE ~NoResetCommands
  BY <1>1, SeenNext DEF Promise!Reset
<1>2. CASE systemState = "IDLE" /\ Pi \in relais
  <2>1. ~NoRelayCommands
    BY <1>2 DEF IInv, RelayInterlock
  <2> QED BY <1>2, <2>1, Seen, SeenNext DEF Promise!Switch
<1>3. CASE systemState = "IDLE" /\ Pi \notin relais
  BY <1>3, Seen, SeenNext
<1> QED BY <1>1, <1>2, <1>3

LEMMA PromiseStep == ASSUME IInv, Next PROVE Promise!Next \/ UNCHANGED Promise!piVars
<1> USE Seen, SeenNext DEF Promise!Next, Promise!piVars, timers
<1>0. /\ systemState \in States /\ bootTimer \in Nat /\ powerOffTimer \in Nat
  BY DEF IInv, TypeInv, TypeOK, PlaceTypes, TimerTypes
<1>1. CASE UNCHANGED <<systemState, timers, relais>>
  BY <1>1 DEF PiPhase, PiCountdown
<1>2. CASE Hardware
  BY <1>2, ResetStep
  DEF Hardware, PowerUp, PowerLoss, ChipReset, WatchdogReset, main, InitIO, Supplied, IInv, SupplyInv
<1>3. CASE Environment \/ NoSecond \/ NoCommand
  BY <1>1, <1>3 DEF Environment, PinChange, Pin, ReceiveByte, NoSecond, NoCommand
<1>4. CASE Timer1000ms
  BY <1>0, <1>4 DEF Timer1000ms, Dec, States, Promise!Tick
<1>5. CASE Branch
  <2> USE DEF Display, Pi, Amp, SetRelaisOn, SetRelaisOff
  <2>1. CASE PowerOn \/ CancelPowerOn
    BY <2>1 DEF PowerOn, CancelPowerOn
  <2>2. CASE BootPi
    BY <2>2 DEF BootPi, Promise!SwitchOn
  <2>3. CASE CancelBoot
    <3>1. powerOffTimer = 0
      BY <1>0, <2>3 DEF CancelBoot, IInv, WindowOnlyWhileStopping
    <3> QED BY <2>3, <3>1 DEF CancelBoot, Promise!GiveUp
  <2>4. CASE EnterRun
    BY <2>4 DEF EnterRun, Promise!BootDone
  <2>5. CASE AliveTimeout \/ CarOffline
    BY <2>5 DEF AliveTimeout, CarOffline, Promise!Stop
  <2>6. CASE PiHalted
    BY <2>6 DEF PiHalted, Promise!Halted
  <2>7. CASE CutPower
    BY <2>7 DEF CutPower, Promise!Cut
  <2>8. CASE SwitchOff \/ NoTransition
    BY <1>1, <2>8 DEF SwitchOff, NoTransition
  <2> QED BY <1>5, <2>1, <2>2, <2>3, <2>4, <2>5, <2>6, <2>7, <2>8 DEF Branch
<1>6. CASE Interpret
  <2>1. ASSUME NEW byte \in Commands, SwitchRelais(byte)
        PROVE  Promise!Next \/ UNCHANGED Promise!piVars
    <3>1. ~NoRelayCommands
      BY <2>1 DEF SwitchRelais, NoRelayCommands
    <3>2. PiPhase' = PiPhase /\ PiCountdown' = PiCountdown
      BY <2>1 DEF SwitchRelais, PiPhase, PiCountdown
    <3> QED BY <3>1, <3>2 DEF Promise!Switch
  <2>2. CASE RequestPowerOff
    BY <2>2 DEF RequestPowerOff, SetRelaisOff, Pi, Amp, Promise!Stop
  <2> QED BY <1>1, <1>6, <2>1, <2>2
    DEF Interpret, Bootloader, OtherCommand, SignOfLife, ToggleDebug, SetPowerOnTime,
        ReadPowerOnTime, SetServiceMode
<1> QED BY <1>2, <1>3, <1>4, <1>5, <1>6 DEF Next, MainLoop

(* The firmware implements PiPower: the supply of the Pi is cut only at the *)
(* end of a shutdown window, whatever the ignition, the Pi and the serial   *)
(* line do; only relay and reset commands weaken the promise.               *)
THEOREM PromiseKept == Spec => KeepsPromise
<1>1. Init => Promise!Init
  BY Seen DEF Init, Promise!Init
<1>2. IInv /\ [Next]_vars => [Promise!Next]_(Promise!piVars)
  <2>1. UNCHANGED vars => UNCHANGED Promise!piVars
    BY DEF vars, timers, Promise!piVars, PiPhase, PiCountdown
  <2> QED BY <2>1, PromiseStep
<1> QED BY <1>1, <1>2, Inductive, PTL DEF Spec, KeepsPromise, Promise!Spec
=============================================================================
