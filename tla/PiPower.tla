------------------------------ MODULE PiPower ------------------------------
(***************************************************************************)
(* What the power supply board promises the Raspberry Pi, without relays,  *)
(* commands or main loop: the supply is switched on for a boot, and it is  *)
(* cut only when a shutdown window has run out, when the halted Pi closed  *)
(* the window itself, or when a start is given up before the Pi ran.       *)
(* A board that accepts relay or reset commands promises less; the two     *)
(* constants say which.                                                    *)
(***************************************************************************)
EXTENDS Integers

CONSTANTS
  BootTime,     (* length of the boot phase                                *)
  Windows,      (* lengths a shutdown window may be opened with            *)
  Manual,       (* TRUE when commands may switch the supply directly       *)
  Resettable    (* TRUE when commands may reset the board                  *)

VARIABLES phase, powered, countdown

piVars == <<phase, powered, countdown>>

Init == phase = "off" /\ ~powered /\ countdown = 0

SwitchOn ==
  /\ phase = "off"
  /\ phase' = "booting" /\ powered' = TRUE /\ countdown' = BootTime

Tick ==
  /\ countdown > 0
  /\ countdown' = countdown - 1
  /\ UNCHANGED <<phase, powered>>

BootDone ==
  /\ phase = "booting" /\ countdown = 0
  /\ phase' = "running"
  /\ UNCHANGED <<powered, countdown>>

GiveUp ==
  /\ phase = "booting" /\ countdown = 0
  /\ phase' = "stopping"
  /\ UNCHANGED <<powered, countdown>>

(* The ignition, a silent Pi or the Pi's own request; a request may come in *)
(* any phase and opens the window anew.                                     *)
Stop ==
  /\ phase' = "stopping" /\ countdown' \in Windows
  /\ UNCHANGED powered

Halted ==
  /\ phase = "stopping" /\ countdown > 0
  /\ countdown' = 0
  /\ UNCHANGED <<phase, powered>>

Cut ==
  /\ phase = "stopping" /\ countdown = 0
  /\ phase' = "off" /\ powered' = FALSE
  /\ UNCHANGED countdown

Switch ==
  /\ Manual
  /\ powered' = ~powered
  /\ UNCHANGED <<phase, countdown>>

Reset ==
  /\ Resettable
  /\ phase' = "off" /\ powered' = FALSE /\ countdown' = 0

Next ==
  \/ SwitchOn \/ Tick \/ BootDone \/ GiveUp \/ Stop \/ Halted \/ Cut
  \/ Switch \/ Reset

Spec == Init /\ [][Next]_piVars
=============================================================================
