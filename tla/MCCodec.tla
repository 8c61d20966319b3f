------------------------------ MODULE MCCodec ------------------------------
(* Codec with finite constants for TLC. *)
EXTENDS Codec

A == 97

SomeEntry(n, p) ==
  [id |-> Digit(p), name |-> n, pty_path |-> <<>>, shell_pid |-> p,
   created_at |-> 7, attached |-> p > 0, last_heartbeat |-> p]

(* Names and values with and without separators, next to each other. *)
Infos == {[type |-> SessionInfo, body |-> b] :
           b \in {<<>>} \cup {<<SomeEntry(n, 0), SomeEntry(o, 1)>> :
                              n, o \in {<<>>, <<Tab>>, <<A, Newline>>}}}

Envs == {[type |-> Env, body |-> b] :
          b \in {<<>>} \cup {<<<<<<A>>, v>>, <<<<A, A>>, w>>>> :
                             v, w \in {<<>>, <<Equals, A>>, <<A, Newline, A>>, <<Return>>}}}

(* Data that looks like a Ping, and data of the greatest length. *)
Simple == {[type |-> Data, body |-> <<5, 0, 0, 0, 0>>],
           [type |-> Data, body |-> [i \in 1 .. MaxFrameSize |-> 255]],
           [type |-> Resize, body |-> <<300, 24>>],
           [type |-> Exit, body |-> -1],
           [type |-> 5, body |-> <<>>],
           [type |-> 17, body |-> <<A, Tab>>]}

AllFrames == Infos \cup Envs \cup Simple

(* An unknown type, a Resize and an Exit that are too short, a name that is *)
(* no text, a length beyond the limit.                                      *)
SomeJunk == {<<255, 0, 0, 0, 0>>, <<2, 0, 0, 0, 1, 9>>, <<3, 0, 0, 0, 3, 0, 0, 0>>,
             <<16, 0, 0, 0, 1, 200>>, <<1>> \o U32(MaxFrameSize + 1)}
=============================================================================
