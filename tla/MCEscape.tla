------------------------------ MODULE MCEscape ------------------------------
(* Escape against a reference for whole inputs, for TLC. *)
EXTENDS Escape, SequencesExt

(* However the input is cut into chunks, the actions are the reference's,  *)
(* in the reference's order: nothing is lost, doubled or overtaken by a    *)
(* command (client.rs:53-128).                                             *)
MatchesReference ==
  actions \o dataBuf = FlattenSeq([p \in 1 .. Len(typed) |-> Yields(typed, p)])
=============================================================================
