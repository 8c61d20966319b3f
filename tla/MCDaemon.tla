------------------------------ MODULE MCDaemon ------------------------------
(* Daemon with finite constants for TLC. *)
EXTENDS Daemon

CONSTANTS a, b, c, s

(* A name that is no number, and the texts of the ids 0 and 1, which a     *)
(* user may also choose as names.                                          *)
Texts == {"work", "0", "1"}
TextOfId == [i \in Ids |-> IF i = 0 THEN "0" ELSE "1"]

Req(o, t) == [op |-> o, arg |-> t]

ThreeClients == {a, b, c}
WithStranger == {a, b, s}
OneStranger == {s}

(* The calls that race for the session "work": by its name, and by the id *)
(* of the first of two sessions that have it one after the other.          *)
NamedCalls == {Req("New", "work"), Req("Attach", "0"), Req("Kill", "work"), Req("List", "")}
(* Calls that start a session, are wrong, and end the daemon. *)
LastCalls == {Req("New", "work"), Req("Other", ""), Req("KillServer", "")}
=============================================================================
