------------------------------ MODULE MCSession ------------------------------
(* Session with finite constants for TLC. *)
EXTENDS Session, TLC

CONSTANTS c1, c2

TwoConns == {c1, c2}
ConnSymmetry == Permutations(Conn)

(* Every kind of frame; or only the kind that fills the PTY's input, where *)
(* the others would cost states and block nothing else.                    *)
AnyFrame == Frames
DataOnly == {"Data"}

(* A shell that ends by a signal, or with a code of its own. *)
Signalled == {-1}
Coded == {3}
=============================================================================
