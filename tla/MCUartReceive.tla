--------------------------- MODULE MCUartReceive ---------------------------
(* An instance of UartReceive for TLC. *)
EXTENDS UartReceive
TwoBytes == {"a", "b"}
=============================================================================
