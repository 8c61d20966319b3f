------------------------------- MODULE Escape -------------------------------
(***************************************************************************)
(* EscapeProcessor of src/client.rs: the ~. ~^Z ~? ~~ sequences in what    *)
(* the user types.  Stdin is read in chunks; process() runs once per chunk *)
(* and keeps its state from one to the next, also across reconnects.       *)
(* Bytes are abstracted to the classes the processor tells apart; \r and   *)
(* \n are both "nl".                                                       *)
(***************************************************************************)
EXTENDS Integers, Sequences

CONSTANT MaxTyped    \* bound: bytes the user types

ASSUME EscapeConstants == MaxTyped \in Nat

VARIABLES
  typed,     \* every byte processed so far
  state,     \* EscapeState
  dataBuf,   \* data_buf: bytes of this chunk not yet in an action
  actions    \* the actions so far, Data(bytes) written as its bytes

vars == <<typed, state, dataBuf, actions>>

Bytes == {"nl", "~", ".", "^Z", "?", "x"}
CommandOf == [b \in {".", "^Z", "?"} |->
                CASE b = "." -> "Detach" [] b = "^Z" -> "Suspend" [] b = "?" -> "Help"]

Detached == actions # <<>> /\ actions[Len(actions)] = "Detach"

Init ==
  /\ typed = <<>> /\ dataBuf = <<>> /\ actions = <<>>
  /\ state = "AfterNewline"

-----------------------------------------------------------------------------
(* One byte b of a chunk, by the state the processor is in. *)
Read(b) ==
  /\ ~Detached /\ Len(typed) < MaxTyped
  /\ typed' = Append(typed, b)

Push(bytes) == dataBuf' = dataBuf \o bytes /\ UNCHANGED actions
Flush(more) == actions' = actions \o dataBuf \o more /\ dataBuf' = <<>>

NewlineForgotten(b) == "Normal"
PlainState(b) == IF b = "nl" THEN "AfterNewline" ELSE "Normal"

InNormal(b) ==
  /\ state = "Normal" /\ Read(b)
  /\ state' = PlainState(b)
  /\ Push(<<b>>)

(* A tilde at the start of a line is held back. *)
InAfterNewline(b) ==
  /\ state = "AfterNewline" /\ Read(b)
  /\ IF b = "~" THEN state' = "AfterTilde" /\ Flush(<<>>)
                ELSE state' = PlainState(b) /\ Push(<<b>>)

UnknownDropsTilde(b) == <<b>>
Unknown(b) == IF b = "~" THEN <<"~">> ELSE <<"~", b>>

(* A command follows the data before it; Detach leaves the state alone. *)
InAfterTilde(b) ==
  /\ state = "AfterTilde" /\ Read(b)
  /\ IF b \in DOMAIN CommandOf
     THEN /\ Flush(<<CommandOf[b]>>)
          /\ state' = IF b = "." THEN state ELSE "Normal"
     ELSE /\ Push(Unknown(b))
          /\ state' = PlainState(b)

(* The end of a chunk: what is buffered becomes a last Data action. *)
EndChunk ==
  /\ dataBuf # <<>>
  /\ Flush(<<>>)
  /\ UNCHANGED <<typed, state>>

Next ==
  \/ \E b \in Bytes : InNormal(b) \/ InAfterNewline(b) \/ InAfterTilde(b)
  \/ EndChunk

Spec == Init /\ [][Next]_vars

-----------------------------------------------------------------------------
(* What the help text promises (client.rs:18-24), without a state machine: *)
(* a tilde is an escape exactly when it is the first byte of a line, ...   *)
Escapes(s, p) == s[p] = "~" /\ (p = 1 \/ s[p - 1] = "nl")

(* ... it is held until the next byte, which it turns into a command, or   *)
(* is a second tilde that stands for one, or sets the first tilde free.    *)
Yields(s, p) ==
  IF Escapes(s, p) THEN <<>>
  ELSE IF p = 1 \/ ~Escapes(s, p - 1) THEN <<s[p]>>
  ELSE IF s[p] \in {".", "^Z", "?"} THEN <<CommandOf[s[p]]>>
  ELSE IF s[p] = "~" THEN <<"~">> ELSE <<"~", s[p]>>

(* The state says what the typed bytes say: AfterTilde exactly when an     *)
(* escape is pending (or has just detached), AfterNewline exactly at the   *)
(* start of a line (client.rs:33-37).                                      *)
StateMatches ==
  LET n == Len(typed) IN
  /\ state = "AfterNewline" <=> (n = 0 \/ typed[n] = "nl")
  /\ state = "AfterTilde" <=>
       n > 0 /\ (Escapes(typed, n) \/ (n > 1 /\ Escapes(typed, n - 1) /\ typed[n] = "."))
=============================================================================
