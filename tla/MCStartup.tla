----------------------------- MODULE MCStartup -----------------------------
(* An instance of Startup for TLC. *)
EXTENDS Startup
Arg(key, value) == [key |-> key, value |-> value]
(* The documented call, the call with '=', and one with the value twice.    *)
CommandLines == {<<Arg("--c", "none"), Arg("file", "none")>>,
                 <<Arg("--c", "file"), Arg("--c", "")>>}
=============================================================================
