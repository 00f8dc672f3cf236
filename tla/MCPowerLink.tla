---------------------------- MODULE MCPowerLink ----------------------------
(* An instance of PowerLink for TLC. *)
EXTENDS PowerLink
LinkCommands == {CmdAlive, CmdService}
=============================================================================
