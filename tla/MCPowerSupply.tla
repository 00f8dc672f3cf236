--------------------------- MODULE MCPowerSupply ---------------------------
(* Instances of PowerSupply for TLC.  The durations are scaled to one to    *)
(* three seconds; every timer still expires, is renewed and is left running.*)
EXTENDS PowerSupply

(* The commands of the backend, '+' '$' '!', those of a terminal, '?' '#'   *)
(* '*', a digit that is both a relay command and a delay after '*', and the *)
(* command that starts the boot loader.                                     *)
AllCommands == {CmdAlive, CmdPowerOff, CmdService, CmdWatchdog, CmdDebug, CmdPowerOnTime, 49, 85}
BackendCommands == {CmdAlive, CmdPowerOff, CmdService}
DriverCommands == BackendCommands \cup {CmdWatchdog, CmdVersion}
DelayCommands == {CmdPowerOnTime, 49}

(* A delay below the default, and the content of an erased EEPROM.          *)
SeveralEeproms == {1, 255}
=============================================================================
