------------------------- MODULE MCSocketController -------------------------
(* Instances of SocketController for TLC. *)
EXTENDS SocketController
CONSTANTS c1, c2
TwoClients == {c1, c2}
=============================================================================
