-------------------------- MODULE MCTelegramParser --------------------------
(* Frames as the board sends them; a payload is one byte.                   *)
EXTENDS TelegramParser

State == <<"STX", "state", "ETX">>
Alive == <<"STX", "alive", "count", "ETX">>
Off   == <<"off", "CR", "LF">>
Empty == <<"CR", "LF">>

BoardFrames == {State, Alive, Off, Empty}
FrameEnds   == {<<>>, <<"LF">>, <<"ETX">>, <<"state", "ETX">>}
=============================================================================
