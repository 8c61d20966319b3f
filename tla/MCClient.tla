------------------------------ MODULE MCClient ------------------------------
(* Client with finite constants for TLC. *)
EXTENDS Client

(* Reads of stdin with every action, before and after data. *)
SomeChunks == {<<"Data">>, <<"Data", "Detach">>, <<"Data", "Suspend", "Data">>, <<"Help", "Detach">>}
=============================================================================
