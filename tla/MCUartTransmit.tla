--------------------------- MODULE MCUartTransmit ---------------------------
(* Instances of UartTransmit for TLC. *)
EXTENDS UartTransmit
TwoBytes == {"a", "b"}
=============================================================================
