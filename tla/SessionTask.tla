---------------------------- MODULE SessionTask ----------------------------
(***************************************************************************)
(* What a session task promises to the daemon and to the clients handed to *)
(* it, without sockets, PTY or shell: connections are served one at a      *)
(* time, in the order of the hand-offs; the client that is pushed aside    *)
(* may be told Detached, the one present at the end may be told Exit, and  *)
(* nobody is told more than one of the two.                                *)
(***************************************************************************)
EXTENDS Sequences

CONSTANTS Conn, NoConn

VARIABLES
  phase,   \* "waiting" for a first client, "serving", "idle" or "over"
  seen,    \* connections ever handed over
  queue,   \* those not served yet
  owner,   \* the one served now, or served last
  word     \* the last word each was told: "none", "Detached" or "Exit"

vars == <<phase, seen, queue, owner, word>>

Init ==
  /\ phase = "waiting" /\ seen = {} /\ queue = <<>> /\ owner = NoConn
  /\ word = [c \in Conn |-> "none"]

HandOff(c) ==
  /\ phase # "over" /\ c \notin seen
  /\ seen' = seen \cup {c} /\ queue' = Append(queue, c)
  /\ UNCHANGED <<phase, owner, word>>

(* A client is taken up when there is none, ... *)
Serve ==
  /\ phase \in {"waiting", "idle"} /\ queue # <<>>
  /\ phase' = "serving" /\ owner' = Head(queue) /\ queue' = Tail(queue)
  /\ UNCHANGED <<seen, word>>

(* ... or in place of the present one, which is told if it still listens. *)
Takeover ==
  /\ phase = "serving" /\ queue # <<>>
  /\ owner' = Head(queue) /\ queue' = Tail(queue)
  /\ word' \in {word, [word EXCEPT ![owner] = "Detached"]}
  /\ UNCHANGED <<phase, seen>>

Leave ==
  /\ phase = "serving"
  /\ phase' = "idle"
  /\ UNCHANGED <<seen, queue, owner, word>>

Finish ==
  /\ phase # "over"
  /\ phase' = "over"
  /\ \/ UNCHANGED word
     \/ phase = "serving" /\ word' = [word EXCEPT ![owner] = "Exit"]
  /\ UNCHANGED <<seen, queue, owner>>

Next == (\E c \in Conn : HandOff(c)) \/ Serve \/ Takeover \/ Leave \/ Finish

Spec == Init /\ [][Next]_vars
=============================================================================
