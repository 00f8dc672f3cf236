------------------------------ MODULE MCBackend ------------------------------
(* Instances of Backend for TLC. *)
EXTENDS Backend
CONSTANT c1
OneClient == {c1}
=============================================================================
