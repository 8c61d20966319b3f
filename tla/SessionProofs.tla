--------------------------- MODULE SessionProofs ---------------------------
(***************************************************************************)
(* Theorems about the session task, for every value of its constants: its  *)
(* types, what it reports, how it ends, and that it implements the         *)
(* abstract SessionTask.                                                   *)
(***************************************************************************)
EXTENDS Session, TLAPS

USE SessionConstants DEF SessionConstants, taskVars, metaVars, ptyVars, shellVars, netVars, Over

(* What the await points say about the task's local variables. *)
Control ==
  /\ pc = "awaitFirst" => framed = NoConn
  /\ pc \in {"envWait", "relay", "write", "send", "awaitClient"} => framed \in Conn
  /\ pc = "send" => reply \in Reply
  /\ ~Over => (newer # NoConn <=> pc = "send" /\ reply.kind = "Detached")

(* The endings by an error of the machine, which all look alike.           *)
ErrorEnd == SetUpFails \/ WriteFails \/ IoFails

LEMMA ErrorEnds ==
  ErrorEnd =>
    /\ ~Over /\ pc # "send"
    /\ End("noShell") \/ End("ioError")
    /\ UNCHANGED <<rx, framed, newer, reply, metaVars, ptyVars, env, status, kill, netVars>>
  BY DEF ErrorEnd, SetUpFails, WriteFails, IoFails, End

(* The initial state is well typed. *)
LEMMA InitTyped == Init => TypeOK /\ Control
<1> SUFFICES ASSUME Init PROVE TypeOK /\ Control
  OBVIOUS
<1>1. TaskOK /\ Control
  BY DEF Init, TaskOK, Control, Nothing
<1>2. ShellOK
  BY DEF Init, ShellOK
<1>3. FlagsOK
  BY DEF Init, FlagsOK
<1>4. NetOK
  BY DEF Init, NetOK, Peers
<1> QED
  BY <1>1, <1>2, <1>3, <1>4 DEF TypeOK

-----------------------------------------------------------------------------
(* One lemma per part of the type invariant; in each, one step per action  *)
(* that touches the part, and one for all the others.                      *)

(* The task's own variables: the queue, the two connections, the reply.    *)
LEMMA TaskTyped ==
  TaskOK /\ Control /\ ShellOK /\ [Next]_vars => TaskOK' /\ Control'
<1> SUFFICES ASSUME TaskOK, Control, ShellOK, [Next]_vars PROVE TaskOK' /\ Control'
  OBVIOUS
<1> USE DEF TaskOK, Control
<1>1. CASE FirstClient \/ NextClient
  BY <1>1 DEF FirstClient, NextClient, Receive, Relay
<1>2. CASE EnvFrame \/ EnvEnd \/ EnvTimeout
  BY <1>2 DEF EnvFrame, EnvEnd, EnvTimeout, SpawnShell, Relay, End
<1>3. CASE TakeData \/ TakeResize \/ TakeEnv \/ TakeEof
  BY <1>3 DEF TakeData, TakeResize, TakeEnv, TakeFrame, TakeEof
<1>4. CASE TakePing
  BY <1>4 DEF TakePing, TakeFrame, Msg, Reply
<1>5. CASE TakeError \/ DoneAlone \/ ErrorEnd \/ ChannelClosed \/ Cancelled
  BY <1>5, ErrorEnds DEF TakeError, DoneAlone, ChannelClosed, Cancelled, End
<1>6. CASE WritePty
  BY <1>6 DEF WritePty
<1>7. CASE ReadPty
  BY <1>7 DEF ReadPty, Msg, Reply, ShellOK
<1>8. CASE PtyGone \/ ShellDone
  BY <1>8 DEF PtyGone, ShellDone, Announce, Msg, Reply, ShellOK
<1>9. CASE Takeover
  BY <1>9 DEF Takeover, Receive, Msg, Reply
<1>10. CASE SendOk \/ SendError
  BY <1>10 DEF SendOk, SendError, AfterSend, NextFramed, End, Fatal, Nothing
<1>11. ASSUME NEW c \in Conn, HandOff(c)
       PROVE  TaskOK' /\ Control'
  BY <1>11 DEF HandOff
<1>12. CASE \/ UNCHANGED vars \/ PtyWritable \/ Abort \/ ShellWrite \/ ShellRead \/ ShellExit
           \/ \E c \in Conn : ClientLeave(c) \/ ClientRead(c) \/ \E f \in Frames : ClientSend(c, f)
  BY <1>12 DEF vars, PtyWritable, Abort, ShellWrite, ShellRead, ShellExit,
               ClientLeave, ClientRead, ClientSend
<1> QED
  BY <1>1, <1>2, <1>3, <1>4, <1>5, <1>6, <1>7, <1>8, <1>9, <1>10, <1>11, <1>12
     DEF Next, Task, ErrorEnd

(* The metadata, the shell and the PTY's counters. *)
LEMMA ShellTyped == TaskOK /\ Control /\ ShellOK /\ [Next]_vars => ShellOK'
<1> SUFFICES ASSUME TaskOK, Control, ShellOK, [Next]_vars PROVE ShellOK'
  OBVIOUS
<1> USE DEF ShellOK
<1>1. CASE FirstClient \/ NextClient \/ Takeover
  BY <1>1 DEF FirstClient, NextClient, Takeover, Relay
<1>2. CASE EnvFrame \/ EnvEnd \/ EnvTimeout
  BY <1>2 DEF EnvFrame, EnvEnd, EnvTimeout, SpawnShell, Relay, End
<1>3. CASE TakeData \/ TakeEnv \/ TakeEof
  BY <1>3 DEF TakeData, TakeEnv, TakeFrame, TakeEof
<1>4. CASE TakeResize \/ TakePing
  BY <1>4 DEF TakeResize, TakePing, TakeFrame, TaskOK
<1>5. CASE TakeError \/ DoneAlone \/ ErrorEnd \/ ChannelClosed \/ Cancelled
  BY <1>5, ErrorEnds DEF TakeError, DoneAlone, ChannelClosed, Cancelled, End
<1>6. CASE WritePty
  BY <1>6 DEF WritePty, Room
<1>7. CASE ReadPty
  BY <1>7 DEF ReadPty
<1>8. CASE PtyGone \/ ShellDone
  BY <1>8 DEF PtyGone, ShellDone
<1>9. CASE SendOk \/ SendError
  BY <1>9 DEF SendOk, SendError, AfterSend, End
<1>10. CASE ShellWrite \/ ShellRead \/ ShellExit
  <2>1. CASE ShellWrite
    BY <2>1 DEF ShellWrite
  <2>2. CASE ShellRead
    BY <2>2 DEF ShellRead
  <2>3. CASE ShellExit
    BY <2>3 DEF ShellExit
  <2> QED
    BY <1>10, <2>1, <2>2, <2>3
<1>11. CASE PtyWritable \/ Abort \/ UNCHANGED vars
  BY <1>11 DEF PtyWritable, Abort, vars
<1>12. CASE \E c \in Conn : \/ HandOff(c) \/ ClientLeave(c) \/ ClientRead(c)
                           \/ \E f \in Frames : ClientSend(c, f)
  BY <1>12 DEF HandOff, ClientLeave, ClientRead, ClientSend
<1> QED
  BY <1>1, <1>2, <1>3, <1>4, <1>5, <1>6, <1>7, <1>8, <1>9, <1>10, <1>11, <1>12
     DEF Next, Task, ErrorEnd

(* The two Boolean variables. *)
LEMMA FlagsTyped == FlagsOK /\ [Next]_vars => FlagsOK'
<1> SUFFICES ASSUME FlagsOK, [Next]_vars PROVE FlagsOK'
  OBVIOUS
<1> USE DEF FlagsOK
<1>1. CASE EnvFrame \/ EnvEnd \/ EnvTimeout
  BY <1>1 DEF EnvFrame, EnvEnd, EnvTimeout, SpawnShell
<1>2. CASE WritePty \/ PtyWritable
  BY <1>2 DEF WritePty, PtyWritable
<1>3. CASE \/ FirstClient \/ NextClient \/ Takeover \/ ReadPty \/ PtyGone \/ ShellDone
          \/ TakeData \/ TakeResize \/ TakePing \/ TakeEnv \/ TakeEof \/ TakeError
  BY <1>3 DEF FirstClient, NextClient, Takeover, ReadPty, PtyGone, ShellDone,
              TakeData, TakeResize, TakePing, TakeEnv, TakeFrame, TakeEof, TakeError
<1>4. CASE SendOk \/ SendError \/ DoneAlone \/ ErrorEnd \/ ChannelClosed \/ Cancelled
  BY <1>4, ErrorEnds DEF SendOk, SendError, AfterSend, DoneAlone, ChannelClosed, Cancelled
<1>5. CASE \/ Abort \/ ShellWrite \/ ShellRead \/ ShellExit \/ UNCHANGED vars
          \/ \E c \in Conn : \/ HandOff(c) \/ ClientLeave(c) \/ ClientRead(c)
                             \/ \E f \in Frames : ClientSend(c, f)
  BY <1>5 DEF Abort, ShellWrite, ShellRead, ShellExit, vars,
              HandOff, ClientLeave, ClientRead, ClientSend
<1> QED
  BY <1>1, <1>2, <1>3, <1>4, <1>5 DEF Next, Task, ErrorEnd

(* The connections. *)
LEMMA NetTyped == TaskOK /\ Control /\ NetOK /\ [Next]_vars => NetOK'
<1> SUFFICES ASSUME TaskOK, Control, NetOK, [Next]_vars PROVE NetOK'
  OBVIOUS
<1> USE DEF NetOK
<1>0. ASSUME net[framed] # <<>>, net' = [net EXCEPT ![framed] = Tail(@)]
      PROVE  net' \in [Conn -> Seq(Frames)]
  <2>1. ASSUME NEW c \in Conn PROVE net'[c] \in Seq(Frames)
    BY <1>0, <2>1
  <2> QED
    BY <1>0, <2>1
<1>1. CASE EnvFrame \/ EnvTimeout
  <2>1. CASE EnvFrame
    BY <1>0, <2>1 DEF EnvFrame, SpawnShell
  <2>2. CASE EnvTimeout
    BY <2>2 DEF EnvTimeout, SpawnShell
  <2> QED
    BY <1>1, <2>1, <2>2
<1>2. CASE EnvEnd
  BY <1>2 DEF EnvEnd, SpawnShell, Peers
<1>3. CASE TakeData \/ TakeResize \/ TakePing \/ TakeEnv
  <2>1. ASSUME NEW f, TakeFrame(f) PROVE NetOK'
    BY <1>0, <2>1 DEF TakeFrame
  <2> QED
    BY <1>3, <2>1 DEF TakeData, TakeResize, TakePing, TakeEnv
<1>4. CASE SendOk
  BY <1>4 DEF SendOk, AfterSend, Control
<1>5. ASSUME NEW c \in Conn, HandOff(c) \/ ClientLeave(c) \/ ClientRead(c)
      PROVE  NetOK'
  <2>1. CASE HandOff(c)
    BY <2>1 DEF HandOff, Peers
  <2>2. CASE ClientLeave(c)
    BY <2>2 DEF ClientLeave, Peers
  <2>3. CASE ClientRead(c)
    BY <2>3 DEF ClientRead
  <2> QED
    BY <1>5, <2>1, <2>2, <2>3
<1>6. ASSUME NEW c \in Conn, NEW f \in Frames, ClientSend(c, f)
      PROVE  NetOK'
  BY <1>6 DEF ClientSend
<1>7. CASE \/ FirstClient \/ NextClient \/ TakeEof \/ TakeError \/ WritePty
          \/ ReadPty \/ PtyGone \/ ShellDone \/ Takeover \/ SendError
          \/ DoneAlone \/ ErrorEnd \/ ChannelClosed \/ Cancelled
          \/ PtyWritable \/ Abort \/ ShellWrite \/ ShellRead \/ ShellExit \/ UNCHANGED vars
  BY <1>7, ErrorEnds DEF FirstClient, NextClient, TakeEof, TakeError, WritePty, ReadPty, PtyGone,
              ShellDone, Takeover, SendError, AfterSend, DoneAlone, ChannelClosed,
              Cancelled, PtyWritable, Abort, ShellWrite, ShellRead, ShellExit, vars
<1> QED
  BY <1>1, <1>2, <1>3, <1>4, <1>5, <1>6, <1>7 DEF Next, Task, ErrorEnd

(* The type invariant holds of every session: no step of the task, of a    *)
(* client, of the shell or of the daemon leaves the types, whatever the    *)
(* capacities of the sockets and of the PTY.                               *)
THEOREM TypeCorrect == Spec => []TypeOK
<1>1. Init => TypeOK /\ Control
  BY InitTyped
<1>2. TypeOK /\ Control /\ [Next]_vars => TypeOK' /\ Control'
  BY TaskTyped, ShellTyped, FlagsTyped, NetTyped DEF TypeOK
<1> QED
  BY <1>1, <1>2, PTL DEF Spec

-----------------------------------------------------------------------------
(* Custody of the connections: the queue, new_framed and framed never      *)
(* share a connection, and one that has not been served has heard nothing. *)
Custody ==
  /\ \A i, j \in DOMAIN rx : rx[i] = rx[j] => i = j
  /\ \A i \in DOMAIN rx : rx[i] # framed /\ rx[i] # newer /\ peer[rx[i]] # "idle"
  /\ newer # NoConn => newer # framed /\ peer[newer] # "idle"
  /\ framed # NoConn => peer[framed] # "idle"
  /\ \A c \in Conn : c \in Queued \/ c = newer \/ peer[c] = "idle" => out[c] = <<>>

(* Taking the head of a queue leaves the rest of it, one place earlier. *)
LEMMA TailShifts ==
  ASSUME NEW S, NEW s \in Seq(S), s # <<>>
  PROVE  /\ 1 \in DOMAIN s /\ Head(s) = s[1] /\ Head(s) \in S
         /\ \A i \in DOMAIN Tail(s) : i + 1 \in DOMAIN s /\ Tail(s)[i] = s[i + 1]
         /\ \A i \in DOMAIN s : i # 1 => i - 1 \in DOMAIN Tail(s) /\ Tail(s)[i - 1] = s[i]
  OBVIOUS

(* Receiving splits the queue into its head, which was there only once, and *)
(* the connections still queued.                                            *)
LEMMA ReceiveSplits ==
  ASSUME TaskOK, Custody, Receive
  PROVE  /\ Head(rx) \in Conn /\ Head(rx) \in Queued /\ Head(rx) \notin Queued'
         /\ Queued = Queued' \cup {Head(rx)}
         /\ \A i, j \in DOMAIN rx' : rx'[i] = rx'[j] => i = j
         /\ Head(rx) # framed /\ Head(rx) # newer /\ peer[Head(rx)] # "idle"
<1> USE DEF TaskOK, Receive
<1>1. /\ 1 \in DOMAIN rx /\ Head(rx) = rx[1] /\ Head(rx) \in Conn
      /\ \A i \in DOMAIN Tail(rx) : i + 1 \in DOMAIN rx /\ Tail(rx)[i] = rx[i + 1]
      /\ \A i \in DOMAIN rx : i # 1 => i - 1 \in DOMAIN Tail(rx) /\ Tail(rx)[i - 1] = rx[i]
  BY TailShifts
<1>2. \A i \in DOMAIN Tail(rx) : i \in Nat \ {0}
  OBVIOUS
<1>3. \A i, j \in DOMAIN rx : rx[i] = rx[j] => i = j
  BY DEF Custody
<1>4. \A i, j \in DOMAIN rx' : rx'[i] = rx'[j] => i = j
  BY <1>1, <1>2, <1>3
<1>5. Head(rx) \notin Queued'
  BY <1>1, <1>2, <1>3 DEF Queued
<1>6. Queued = Queued' \cup {Head(rx)}
  <2>1. ASSUME NEW c, c \in Queued PROVE c \in Queued' \cup {Head(rx)}
    BY <1>1, <2>1 DEF Queued
  <2>2. ASSUME NEW c, c \in Queued' PROVE c \in Queued
    BY <1>1, <2>2 DEF Queued
  <2>3. Head(rx) \in Queued
    BY <1>1 DEF Queued
  <2> QED
    BY <2>1, <2>2, <2>3
<1>7. Head(rx) # framed /\ Head(rx) # newer /\ peer[Head(rx)] # "idle"
  BY <1>1 DEF Custody
<1> QED
  BY <1>1, <1>4, <1>5, <1>6, <1>7

(* Every step keeps the custody of the connections. *)
LEMMA CustodyKept == TypeOK /\ Control /\ Custody /\ [Next]_vars => Custody'
<1> SUFFICES ASSUME TypeOK, Control, Custody, [Next]_vars PROVE Custody'
  OBVIOUS
<1> USE DEF TypeOK
<1>0. ASSUME UNCHANGED <<rx, framed, newer, peer, out>> PROVE Custody'
  BY <1>0 DEF Custody, Queued
<1>1. CASE FirstClient \/ NextClient
  <2>1. Receive /\ framed' = Head(rx) /\ UNCHANGED <<newer, peer, out>>
    BY <1>1 DEF FirstClient, NextClient
  <2> HIDE DEF TypeOK
  <2>2. /\ Head(rx) \in Conn /\ Head(rx) \notin Queued' /\ Queued = Queued' \cup {Head(rx)}
        /\ \A i, j \in DOMAIN rx' : rx'[i] = rx'[j] => i = j
        /\ Head(rx) # newer /\ peer[Head(rx)] # "idle"
    BY <2>1, ReceiveSplits DEF TypeOK
  <2>3. \A i \in DOMAIN rx' : rx'[i] \in Queued' /\ rx'[i] \in Queued
    BY <2>2 DEF Queued
  <2>4. \A c \in Queued : c # newer /\ peer[c] # "idle"
    BY DEF Custody, Queued
  <2>5. \A c \in Conn : c \in Queued' \/ c = newer' \/ peer'[c] = "idle" => out'[c] = <<>>
    BY <2>1, <2>2 DEF Custody
  <2> QED
    BY <2>1, <2>2, <2>3, <2>4, <2>5 DEF Custody
<1>2. CASE Takeover
  <2>1. Receive /\ newer' = Head(rx) /\ UNCHANGED <<framed, peer, out>>
    BY <1>2 DEF Takeover
  <2> HIDE DEF TypeOK
  <2>2. /\ Head(rx) \in Conn /\ Head(rx) \notin Queued' /\ Queued = Queued' \cup {Head(rx)}
        /\ \A i, j \in DOMAIN rx' : rx'[i] = rx'[j] => i = j
        /\ Head(rx) # framed /\ peer[Head(rx)] # "idle"
    BY <2>1, ReceiveSplits DEF TypeOK
  <2>3. \A i \in DOMAIN rx' : rx'[i] \in Queued' /\ rx'[i] \in Queued
    BY <2>2 DEF Queued
  <2>4. \A c \in Queued : c # framed /\ peer[c] # "idle"
    BY DEF Custody, Queued
  <2>5. \A c \in Conn : c \in Queued' \/ c = newer' \/ peer'[c] = "idle" => out'[c] = <<>>
    BY <2>1, <2>2 DEF Custody
  <2> QED
    BY <2>1, <2>2, <2>3, <2>4, <2>5 DEF Custody
<1>3. CASE EnvEnd
  <2>1. /\ UNCHANGED <<rx, framed, newer, out>> /\ framed \in Conn
        /\ peer' = [peer EXCEPT ![framed] = IF @ = "exit" THEN "open" ELSE "closed"]
    BY <1>3 DEF EnvEnd, SpawnShell, Control
  <2>2. \A c \in Conn : peer[c] # "idle" => peer'[c] # "idle"
    BY <2>1 DEF NetOK
  <2>3. \A c \in Conn : peer[c] = "idle" <=> peer'[c] = "idle"
    BY <2>1, <2>2 DEF NetOK, Custody
  <2>4. \A i \in DOMAIN rx : rx[i] \in Conn
    BY DEF TaskOK
  <2> QED
    BY <2>1, <2>3, <2>4 DEF Custody, Queued, TaskOK
<1>4. CASE SendOk \/ SendError
  <2>1. /\ UNCHANGED <<rx, peer>> /\ newer' = NoConn /\ framed \in Conn
        /\ framed' = framed \/ (framed' = newer /\ newer # NoConn)
    <3>1. pc = "send" /\ \E ok \in BOOLEAN : AfterSend(ok)
      BY <1>4 DEF SendOk, SendError
    <3>2. framed \in Conn /\ (reply.kind = "Detached" => newer # NoConn)
      BY <3>1 DEF Control
    <3> QED
      BY <3>1, <3>2 DEF AfterSend, NextFramed
  <2>3. \A c \in Conn : c # framed => out'[c] = out[c]
    <3>1. CASE SendOk
      BY <3>1 DEF SendOk, NetOK
    <3>2. CASE SendError
      BY <3>2 DEF SendError
    <3> QED
      BY <1>4, <3>1, <3>2
  <2>2. \A i \in DOMAIN rx : rx[i] \in Conn
    BY DEF TaskOK
  <2> QED
    BY <2>1, <2>2, <2>3 DEF Custody, Queued, TaskOK
<1>5. ASSUME NEW c \in Conn, HandOff(c)
      PROVE  Custody'
  <2>1. /\ UNCHANGED <<framed, newer, out>> /\ peer[c] = "idle"
        /\ rx' = Append(rx, c) /\ peer' = [peer EXCEPT ![c] = "open"]
    BY <1>5 DEF HandOff
  <2>2. /\ \A i \in DOMAIN rx : i \in DOMAIN rx' /\ rx'[i] = rx[i] /\ rx[i] \in Conn /\ rx[i] # c
        /\ \A i \in DOMAIN rx' : i \in DOMAIN rx \/ (i = Len(rx) + 1 /\ rx'[i] = c)
    <3>1. /\ DOMAIN rx' = 1 .. (Len(rx) + 1) /\ DOMAIN rx = 1 .. Len(rx) /\ Len(rx) \in Nat
          /\ \A i \in 1 .. Len(rx) : rx'[i] = rx[i] /\ rx[i] \in Conn
          /\ rx'[Len(rx) + 1] = c
      BY <2>1 DEF TaskOK
    <3>2. \A i \in DOMAIN rx : rx[i] # c
      BY <2>1 DEF Custody
    <3>3. \A i \in 1 .. (Len(rx) + 1) : i \in 1 .. Len(rx) \/ i = Len(rx) + 1
      BY <3>1
    <3>4. \A i \in 1 .. Len(rx) : i \in 1 .. (Len(rx) + 1)
      BY <3>1
    <3> HIDE DEF TypeOK
    <3> QED
      BY <3>1, <3>2, <3>3, <3>4
  <2>3. \A d \in Conn : peer'[d] = IF d = c THEN "open" ELSE peer[d]
    BY <2>1 DEF NetOK
  <2>4. framed # c /\ newer # c
    BY <2>1 DEF Custody
  <2>5. \A i, j \in DOMAIN rx' : rx'[i] = rx'[j] => i = j
    BY <2>2 DEF Custody
  <2>6. \A i \in DOMAIN rx' : rx'[i] # framed' /\ rx'[i] # newer' /\ peer'[rx'[i]] # "idle"
    BY <2>1, <2>2, <2>3, <2>4 DEF Custody
  <2>7. \A d \in Conn : d \in Queued' => d \in Queued \/ d = c
    BY <2>2 DEF Queued
  <2>8. \A d \in Conn : d \in Queued' \/ d = newer' \/ peer'[d] = "idle" => out'[d] = <<>>
    BY <2>1, <2>3, <2>7 DEF Custody
  <2> QED
    BY <2>1, <2>3, <2>4, <2>5, <2>6, <2>8 DEF Custody, TaskOK
<1>6. ASSUME NEW c \in Conn, ClientLeave(c)
      PROVE  Custody'
  <2>1. /\ UNCHANGED <<rx, framed, newer, out>> /\ peer[c] = "open"
        /\ \A d \in Conn : peer'[d] = "idle" <=> peer[d] = "idle"
    BY <1>6 DEF ClientLeave, NetOK
  <2>2. \A i \in DOMAIN rx : rx[i] \in Conn
    BY DEF TaskOK
  <2> QED
    BY <2>1, <2>2 DEF Custody, Queued, TaskOK
<1>7. CASE \/ EnvFrame \/ EnvTimeout \/ TakeData \/ TakeResize \/ TakePing \/ TakeEnv
          \/ TakeEof \/ TakeError \/ WritePty \/ ReadPty \/ PtyGone \/ ShellDone
          \/ DoneAlone \/ ErrorEnd \/ ChannelClosed \/ Cancelled
  <2>1. UNCHANGED <<rx, framed, newer, peer, out>>
    BY <1>7, ErrorEnds DEF EnvFrame, EnvTimeout, SpawnShell, TakeData, TakeResize, TakePing,
                TakeEnv, TakeFrame, TakeEof, TakeError, WritePty, ReadPty, PtyGone, ShellDone,
                DoneAlone, ChannelClosed, Cancelled
  <2> QED
    BY <1>0, <2>1
<1>8. CASE \/ PtyWritable \/ Abort \/ ShellWrite \/ ShellRead \/ ShellExit \/ UNCHANGED vars
          \/ \E c \in Conn : ClientRead(c) \/ \E fr \in Frames : ClientSend(c, fr)
  <2>1. UNCHANGED <<rx, framed, newer, peer, out>>
    BY <1>8 DEF PtyWritable, Abort, ShellWrite, ShellRead, ShellExit, vars, ClientRead, ClientSend
  <2> QED
    BY <1>0, <2>1
<1> QED
  BY <1>1, <1>2, <1>3, <1>4, <1>5, <1>6, <1>7, <1>8 DEF Next, Task, ErrorEnd

-----------------------------------------------------------------------------
(* A step that sends nothing, and takes charge of no connection that has   *)
(* heard anything, leaves the last words last.                             *)
LEMMA QuietStep ==
  ASSUME LastWord, UNCHANGED out, \A c \in Conn : c \in Held' => c \in Held \/ out[c] = <<>>
  PROVE  LastWord'
  BY DEF LastWord

(* What is appended to a connection in the task's hands was not preceded   *)
(* by a last word, and a last word leaves its hands with the same step.    *)
LEMMA SendKeepsLastWord ==
  ASSUME TypeOK, Control, Custody, LastWord, SendOk PROVE LastWord'
<1> USE DEF NetOK, TaskOK
<1>1. /\ pc = "send" /\ ~Over /\ framed \in Conn /\ framed # NoConn /\ reply \in Reply
      /\ out' = [out EXCEPT ![framed] = Append(@, reply)] /\ rx' = rx /\ newer' = NoConn
      /\ framed' = NextFramed
      /\ reply.kind = "Exit" => Over'
      /\ reply.kind = "Detached" => newer # NoConn
  BY DEF SendOk, AfterSend, Control, Fatal, End
<1>2. framed \in Held
  BY <1>1 DEF Held
<1>3. \A i \in DOMAIN out[framed] : ~IsFinal(out[framed][i])
  BY <1>1, <1>2 DEF LastWord
<1>4. IsFinal(reply) => framed \notin Held'
  <2>1. CASE reply.kind = "Exit"
    BY <1>1, <2>1 DEF Held
  <2>2. CASE reply.kind = "Detached"
    <3>1. framed' = newer /\ newer # framed
      BY <1>1, <2>2 DEF NextFramed, Custody
    <3>2. framed \notin Queued'
      BY <1>1 DEF Queued, Custody
    <3> QED
      BY <1>1, <3>1, <3>2 DEF Held
  <2> QED
    BY <2>1, <2>2 DEF IsFinal
<1>5. \A c \in Conn : c \in Held' => c \in Held
  BY <1>1 DEF Held, NextFramed, Queued
<1>6. ASSUME NEW c \in Conn, NEW i \in DOMAIN out'[c], IsFinal(out'[c][i])
      PROVE  i = Len(out'[c]) /\ c \notin Held'
  <2>1. CASE c # framed
    <3>1. out'[c] = out[c]
      BY <1>1, <2>1
    <3> QED
      BY <1>5, <1>6, <3>1 DEF LastWord
  <2>2. CASE c = framed
    <3>1. /\ out[c] \in Seq(Reply) /\ out'[c] = Append(out[c], reply)
      BY <1>1, <2>2 DEF TypeOK
    <3>2. /\ DOMAIN out[c] = 1 .. Len(out[c]) /\ Len(out[c]) \in Nat
          /\ DOMAIN out'[c] = 1 .. (Len(out[c]) + 1) /\ Len(out'[c]) = Len(out[c]) + 1
          /\ \A j \in 1 .. Len(out[c]) : out'[c][j] = out[c][j]
          /\ out'[c][Len(out[c]) + 1] = reply
      BY <1>1, <3>1
    <3>3. i = Len(out[c]) + 1
      BY <1>3, <1>6, <2>2, <3>2
    <3> QED
      BY <1>4, <1>6, <2>2, <3>2, <3>3
  <2> QED
    BY <2>1, <2>2
<1> QED
  BY <1>6 DEF LastWord

(* Every other step is quiet. *)
LEMMA LastWordKept ==
  TypeOK /\ Control /\ Custody /\ LastWord /\ [Next]_vars => LastWord'
<1> SUFFICES ASSUME TypeOK, Control, Custody, LastWord, [Next]_vars PROVE LastWord'
  OBVIOUS
<1>0. ASSUME UNCHANGED <<rx, framed, newer, out>>, Over => Over' PROVE LastWord'
  BY <1>0, QuietStep DEF Held, Queued
<1>1. CASE FirstClient \/ NextClient \/ Takeover
  <2>1. /\ Receive /\ UNCHANGED out /\ ~Over
        /\ \/ framed' = Head(rx) /\ newer' = newer
           \/ framed' = framed /\ newer' = Head(rx)
    BY <1>1 DEF FirstClient, NextClient, Takeover
  <2>2. Queued = Queued' \cup {Head(rx)}
    BY <2>1, ReceiveSplits DEF TypeOK
  <2>3. Held' \subseteq Held
    BY <2>1, <2>2 DEF Held
  <2> QED
    BY <2>1, <2>3, QuietStep
<1>2. CASE SendOk
  BY <1>2, SendKeepsLastWord
<1>3. CASE SendError
  <2>1. /\ UNCHANGED <<rx, out>> /\ newer' = NoConn /\ framed' \in {framed, newer} /\ ~Over
    BY <1>3 DEF SendError, AfterSend, NextFramed
  <2>2. Held' \subseteq Held
    BY <2>1 DEF Held, Queued
  <2> QED
    BY <2>1, <2>2, QuietStep
<1>4. ASSUME NEW c \in Conn, HandOff(c)
      PROVE  LastWord'
  <2>1. /\ UNCHANGED <<framed, newer, out, pc>> /\ out[c] = <<>>
        /\ rx' = Append(rx, c)
    BY <1>4 DEF HandOff, Custody
  <2>2. ASSUME NEW d \in Conn, d \in Queued' PROVE d \in Queued \/ d = c
    <3>1. PICK i \in DOMAIN rx' : d = rx'[i]
      BY <2>2 DEF Queued
    <3>2. /\ DOMAIN rx' = 1 .. (Len(rx) + 1) /\ DOMAIN rx = 1 .. Len(rx) /\ Len(rx) \in Nat
          /\ \A j \in 1 .. Len(rx) : rx'[j] = rx[j]
          /\ rx'[Len(rx) + 1] = c
      BY <2>1 DEF TypeOK, TaskOK
    <3>3. i \in 1 .. Len(rx) \/ i = Len(rx) + 1
      BY <3>1, <3>2
    <3> QED
      BY <3>1, <3>2, <3>3 DEF Queued
  <2>3. \A d \in Conn : d \in Held' => d \in Held \/ out[d] = <<>>
    BY <2>1, <2>2 DEF Held
  <2> QED
    BY <2>1, <2>3, QuietStep
<1>5. CASE \/ EnvFrame \/ EnvEnd \/ EnvTimeout \/ TakeData \/ TakeResize \/ TakePing
          \/ TakeEnv \/ TakeEof \/ TakeError \/ WritePty \/ ReadPty \/ PtyGone \/ ShellDone
          \/ DoneAlone \/ ErrorEnd \/ ChannelClosed \/ Cancelled
  <2>1. UNCHANGED <<rx, framed, newer, out>> /\ ~Over
    BY <1>5, ErrorEnds DEF EnvFrame, EnvEnd, EnvTimeout, SpawnShell, TakeData, TakeResize, TakePing,
                TakeEnv, TakeFrame, TakeEof, TakeError, WritePty, ReadPty, PtyGone,
                ShellDone, DoneAlone, ChannelClosed, Cancelled
  <2> QED
    BY <1>0, <2>1
<1>6. CASE \/ PtyWritable \/ Abort \/ ShellWrite \/ ShellRead \/ ShellExit \/ UNCHANGED vars
          \/ \E c \in Conn : \/ ClientLeave(c) \/ ClientRead(c)
                             \/ \E fr \in Frames : ClientSend(c, fr)
  <2>1. UNCHANGED <<pc, rx, framed, newer, out>>
    BY <1>6 DEF PtyWritable, Abort, ShellWrite, ShellRead, ShellExit, vars,
                ClientLeave, ClientRead, ClientSend
  <2> QED
    BY <1>0, <2>1
<1> QED
  BY <1>1, <1>2, <1>3, <1>4, <1>5, <1>6 DEF Next, Task, ErrorEnd

(* What all theorems about the session task rest on. *)
LEMMA Solid == Spec => [](TypeOK /\ Control /\ Custody /\ LastWord)
<1>1. Init => TypeOK /\ Control /\ Custody /\ LastWord
  <2>1. Init => Custody /\ LastWord
    BY DEF Init, Custody, LastWord, Queued
  <2> QED
    BY <2>1, InitTyped
<1>2. TypeOK /\ Control /\ Custody /\ LastWord /\ [Next]_vars
        => TypeOK' /\ Control' /\ Custody' /\ LastWord'
  BY TaskTyped, ShellTyped, FlagsTyped, NetTyped, CustodyKept, LastWordKept DEF TypeOK
<1> QED
  BY <1>1, <1>2, PTL DEF Spec

(* Detached and Exit are last words, for any number of clients and any     *)
(* traffic: after the takeover at server.rs:274 and the end at 301 the     *)
(* task sends that client nothing and holds its connection no more.        *)
THEOREM LastWordIsLast == Spec => []LastWord
<1> QED
  BY Solid, PTL

-----------------------------------------------------------------------------
(* The shell's output through takeovers and reconnects: nothing is lost,   *)
(* doubled or put out of order, for any number of clients and chunks.      *)
InHand == pc = "send" /\ reply.kind = "Data"

(* The last chunk that was sent while the task goes on. *)
LastSent == IF InHand THEN taken - 1 ELSE taken

InOrder(c) ==
  \A i, j \in DOMAIN out[c] :
    i < j /\ out[c][i].kind = "Data" /\ out[c][j].kind = "Data" => out[c][i].val < out[c][j].val

Contiguous(c) == \A x, y \in Chunks(c) : x .. y \subseteq Chunks(c)

(* What OutputOnce needs: who is served has the latest of the chunks, if   *)
(* it has any, and a chunk in hand is the next one.                        *)
Counted ==
  /\ InHand => reply.val = taken /\ taken > 0
  /\ \A c \in Conn : \A x \in Chunks(c) : x \in 1 .. taken
  /\ ~Over => \A c \in Conn : \A x \in Chunks(c) : x <= LastSent
  /\ ~Over => \A x \in 1 .. LastSent : \E c \in Conn : x \in Chunks(c)
  /\ \A x \in 1 .. (taken - 1) : \E c \in Conn : x \in Chunks(c)

Pieces ==
  /\ \A c, d \in Conn : c # d => Chunks(c) \cap Chunks(d) = {}
  /\ \A c \in Conn : InOrder(c) /\ Contiguous(c)
  /\ ~Over /\ framed # NoConn /\ Chunks(framed) # {} => LastSent \in Chunks(framed)

LEMMA OutputFollows == ASSUME TypeOK, Counted, Pieces PROVE OutputOnce
<1>1. /\ UNION {Chunks(c) : c \in Conn} \subseteq 1 .. taken
      /\ 1 .. (taken - 1) \subseteq UNION {Chunks(c) : c \in Conn}
  BY DEF Counted
<1>2. ~InHand /\ ~Over => taken = 0 \/ taken \in UNION {Chunks(c) : c \in Conn}
  <2>1. taken \in Nat
    BY DEF TypeOK, ShellOK
  <2> QED
    BY <2>1 DEF Counted, LastSent
<1> QED
  BY <1>1, <1>2 DEF Pieces, InOrder, Contiguous, InHand, OutputOnce

LEMMA OutputInit == Init => Counted /\ Pieces
  BY DEF Init, Counted, Pieces, InOrder, Contiguous, Chunks, InHand, LastSent, Nothing

(* A chunk or a reply that is sent. *)
LEMMA ChunkAdded ==
  ASSUME TypeOK, Control, SendOk
  PROVE  /\ framed \in Conn
         /\ \A c \in Conn \ {framed} : out'[c] = out[c]
         /\ DOMAIN out[framed] = 1 .. Len(out[framed]) /\ Len(out[framed]) \in Nat
         /\ DOMAIN out'[framed] = 1 .. Len(out[framed]) + 1
         /\ \A j \in DOMAIN out[framed] : out'[framed][j] = out[framed][j]
         /\ out'[framed][Len(out[framed]) + 1] = reply
<1>1. /\ framed \in Conn /\ reply \in Reply /\ out \in [Conn -> Seq(Reply)]
      /\ out' = [out EXCEPT ![framed] = Append(@, reply)]
  BY DEF SendOk, Control, TypeOK, NetOK
<1>2. /\ out'[framed] = Append(out[framed], reply) /\ out[framed] \in Seq(Reply)
      /\ \A c \in Conn \ {framed} : out'[c] = out[c]
  BY <1>1
<1> QED
  BY <1>1, <1>2

LEMMA ChunksSent ==
  ASSUME TypeOK, Control, SendOk, NEW c \in Conn
  PROVE  Chunks(c)' = IF c = framed /\ reply.kind = "Data" THEN Chunks(c) \cup {reply.val}
                                                           ELSE Chunks(c)
<1>1. CASE c # framed
  BY <1>1, ChunkAdded DEF Chunks
<1>2. CASE c = framed
  <2> DEFINE Now == {out'[c][i].val : i \in {j \in DOMAIN out'[c] : out'[c][j].kind = "Data"}}
  <2>1. \A x : x \in Now <=> \E j \in DOMAIN out'[c] : out'[c][j].kind = "Data" /\ x = out'[c][j].val
    OBVIOUS
  <2>2. \A x : x \in Chunks(c) <=> \E j \in DOMAIN out[c] : out[c][j].kind = "Data" /\ x = out[c][j].val
    BY DEF Chunks
  <2>3. Chunks(c)' = Now
    BY DEF Chunks
  <2> HIDE DEF Now
  <2>4. \A x : x \in Now <=> x \in Chunks(c) \/ (reply.kind = "Data" /\ x = reply.val)
    BY <1>2, <2>1, <2>2, ChunkAdded
  <2> QED
    BY <1>2, <2>3, <2>4
<1> QED
  BY <1>1, <1>2

(* Steps that send nothing; a chunk may be taken in hand, and another      *)
(* client without chunks be taken up.                                      *)
LEMMA OutputQuiet ==
  ASSUME TypeOK, Control, Counted, Pieces, UNCHANGED <<out, taken>>,
         InHand' => InHand /\ reply' = reply,
         ~Over' => ~Over /\ (InHand => InHand'),
         framed' # framed => Chunks(framed') = {}
  PROVE  Counted' /\ Pieces'
<1>1. \A c : Chunks(c)' = Chunks(c)
  BY DEF Chunks
<1>2. ~Over' => LastSent' = LastSent
  BY DEF LastSent
<1>3. Counted'
  BY <1>1, <1>2 DEF Counted
<1>4. Chunks(framed)' = Chunks(framed')
  BY DEF Chunks
<1>5. Pieces'
  BY <1>1, <1>2, <1>4 DEF Pieces, InOrder, Contiguous
<1> QED
  BY <1>3, <1>5

(* A chunk is read: it is the one after the last that was sent. *)
LEMMA OutputRead == ASSUME TypeOK, Control, Counted, Pieces, ReadPty PROVE Counted' /\ Pieces'
<1>1. /\ pc = "relay" /\ pc' = "send" /\ taken' = taken + 1 /\ taken \in Nat
      /\ reply' = Msg("Data", taken + 1) /\ UNCHANGED <<out, framed>>
  BY DEF ReadPty, TypeOK, ShellOK
<1>2. InHand' /\ reply'.val = taken' /\ LastSent' = taken /\ LastSent = taken
  BY <1>1 DEF InHand, LastSent, Msg
<1>3. \A c : Chunks(c)' = Chunks(c)
  BY <1>1 DEF Chunks
<1>4. Counted'
  BY <1>1, <1>2, <1>3 DEF Counted
<1>5. Pieces'
  BY <1>1, <1>2, <1>3 DEF Pieces, InOrder, Contiguous
<1> QED
  BY <1>4, <1>5

(* The chunk in hand is sent, and becomes the last of its piece. *)
LEMMA OutputSent ==
  ASSUME TypeOK, Control, Custody, Counted, Pieces, SendOk PROVE Counted' /\ Pieces'
<1>0. /\ pc = "send" /\ ~Over /\ taken' = taken /\ taken \in Nat /\ framed \in Conn /\ framed # NoConn
      /\ framed' = NextFramed /\ pc' # "send" /\ LastSent' = taken
      /\ (newer # NoConn <=> reply.kind = "Detached")
  BY DEF SendOk, AfterSend, End, Control, TypeOK, ShellOK, LastSent, InHand
<1>1. CASE reply.kind = "Data"
  <2>1. reply.val = taken /\ taken > 0 /\ LastSent = taken - 1 /\ framed' = framed
    BY <1>0, <1>1 DEF Counted, InHand, LastSent, NextFramed
  <2>2. \A c \in Conn : Chunks(c)' = IF c = framed THEN Chunks(c) \cup {taken} ELSE Chunks(c)
    BY <1>1, <2>1, ChunksSent
  <2>3. \A c \in Conn : \A x \in Chunks(c) : x \in Nat /\ x < taken
    BY <1>0, <2>1 DEF Counted
  <2>4. Counted'
    <3>1. ~InHand'
      BY <1>0 DEF InHand
    <3>2. \A c \in Conn : \A x \in Chunks(c)' : x \in 1 .. taken
      BY <1>0, <2>1, <2>2 DEF Counted
    <3>3. \A x \in 1 .. taken : \E c \in Conn : x \in Chunks(c)'
      <4>1. \A x \in 1 .. taken : x \in 1 .. LastSent \/ x = taken
        BY <1>0, <2>1
      <4>2. \A x \in 1 .. LastSent : \E c \in Conn : x \in Chunks(c)
        BY <1>0 DEF Counted
      <4> QED
        BY <1>0, <2>2, <4>1, <4>2
    <3> QED
      BY <1>0, <3>1, <3>2, <3>3 DEF Counted
  <2>5. \A c, d \in Conn : c # d => Chunks(c)' \cap Chunks(d)' = {}
    <3>1. \A c, d \in Conn : c # d => Chunks(c) \cap Chunks(d) = {}
      BY DEF Pieces
    <3>2. \A c \in Conn : taken \notin Chunks(c)
      BY <1>0, <2>3
    <3> QED
      BY <2>2, <3>1, <3>2
  <2>6. \A c \in Conn : InOrder(c)'
    <3>1. ASSUME NEW c \in Conn, NEW i \in DOMAIN out'[c], NEW j \in DOMAIN out'[c],
                 i < j, out'[c][i].kind = "Data", out'[c][j].kind = "Data"
          PROVE  out'[c][i].val < out'[c][j].val
      <4>1. CASE c # framed
        BY <3>1, <4>1, ChunkAdded DEF Pieces, InOrder
      <4>2. CASE c = framed /\ j \in DOMAIN out[c]
        <5>1. i \in DOMAIN out[c]
          BY <3>1, <4>2, ChunkAdded
        <5> QED
          BY <3>1, <4>2, <5>1, ChunkAdded DEF Pieces, InOrder
      <4>3. CASE c = framed /\ j \notin DOMAIN out[c]
        <5>1. j = Len(out[c]) + 1 /\ i \in DOMAIN out[c]
          BY <3>1, <4>3, ChunkAdded
        <5>2. out'[c][j].val = taken /\ out'[c][i] = out[c][i]
          BY <2>1, <4>3, <5>1, ChunkAdded
        <5>3. out[c][i].val \in Chunks(c)
          BY <3>1, <5>1, <5>2 DEF Chunks
        <5> QED
          BY <2>3, <5>2, <5>3
      <4> QED
        BY <4>1, <4>2, <4>3
    <3> QED
      BY <3>1 DEF InOrder
  <2>7. \A c \in Conn : Contiguous(c)'
    <3>1. ASSUME NEW c \in Conn, NEW x \in Chunks(c)', NEW y \in Chunks(c)' PROVE x .. y \subseteq Chunks(c)'
      <4>1. Contiguous(c)
        BY DEF Pieces
      <4>2. CASE c # framed
        BY <2>2, <3>1, <4>1, <4>2 DEF Contiguous
      <4>3. CASE c = framed /\ y \in Chunks(c)
        <5>1. CASE x \in Chunks(c)
          BY <2>2, <4>1, <4>3, <5>1 DEF Contiguous
        <5>2. CASE x = taken
          BY <1>0, <2>2, <2>3, <4>3, <5>2
        <5> QED
          BY <2>2, <3>1, <5>1, <5>2
      <4>4. CASE c = framed /\ y = taken
        <5>1. CASE x = taken
          BY <1>0, <2>2, <4>4, <5>1
        <5>2. CASE x \in Chunks(c)
          <6>1. taken - 1 \in Chunks(c)
            BY <1>0, <2>1, <4>4, <5>2 DEF Pieces
          <6>2. x .. (taken - 1) \subseteq Chunks(c)
            BY <4>1, <5>2, <6>1 DEF Contiguous
          <6>3. \A z \in x .. taken : z \in x .. (taken - 1) \/ z = taken
            BY <1>0, <2>3, <5>2
          <6> QED
            BY <2>2, <4>4, <6>2, <6>3
        <5> QED
          BY <2>2, <3>1, <5>1, <5>2
      <4> QED
        BY <2>2, <3>1, <4>2, <4>3, <4>4
    <3> QED
      BY <3>1 DEF Contiguous
  <2>8. Pieces'
    <3>1. \A c \in Conn : c = framed => taken \in Chunks(c)'
      BY <2>2
    <3>2. LastSent' \in Chunks(framed)'
      BY <1>0, <2>1, <3>1 DEF Chunks
    <3> QED
      BY <2>5, <2>6, <2>7, <3>2 DEF Pieces
  <2> QED
    BY <2>4, <2>8
<1>2. CASE reply.kind # "Data"
  <2>1. LastSent = taken /\ ~InHand'
    BY <1>0, <1>2 DEF LastSent, InHand
  <2>2. \A c \in Conn : Chunks(c)' = Chunks(c)
    BY <1>2, ChunksSent
  <2>3. Counted'
    BY <1>0, <2>1, <2>2 DEF Counted
  <2>4. \A c \in Conn : InOrder(c)'
    <3>1. ASSUME NEW c \in Conn, NEW i \in DOMAIN out'[c], NEW j \in DOMAIN out'[c],
                 i < j, out'[c][i].kind = "Data", out'[c][j].kind = "Data"
          PROVE  out'[c][i].val < out'[c][j].val
      <4>1. CASE c # framed
        BY <3>1, <4>1, ChunkAdded DEF Pieces, InOrder
      <4>2. CASE c = framed
        <5>1. i \in DOMAIN out[c] /\ j \in DOMAIN out[c]
          BY <1>2, <3>1, <4>2, ChunkAdded
        <5> QED
          BY <3>1, <4>2, <5>1, ChunkAdded DEF Pieces, InOrder
      <4> QED
        BY <4>1, <4>2
    <3> QED
      BY <3>1 DEF InOrder
  <2>5. ~Over' /\ framed' # NoConn /\ Chunks(framed)' # {} => LastSent' \in Chunks(framed)'
    <3>1. CASE reply.kind = "Detached"
      <4>1. newer \in Conn /\ out[newer] = <<>> /\ framed' = newer
        BY <1>0, <3>1 DEF NextFramed, Custody, TypeOK, TaskOK
      <4>2. \A c \in Conn : c = newer => Chunks(c)' = {}
        <5>1. \A c \in Conn : c = newer => Chunks(c) = {}
          BY <4>1 DEF Chunks
        <5> QED
          BY <2>2, <5>1
      <4> QED
        BY <4>1, <4>2 DEF Chunks
    <3>2. CASE reply.kind # "Detached"
      <4>1. framed' = framed
        BY <1>0, <3>2 DEF NextFramed
      <4>2. \A c \in Conn : c = framed /\ Chunks(c)' # {} => taken \in Chunks(c)'
        BY <1>0, <2>1, <2>2 DEF Pieces
      <4> QED
        BY <1>0, <4>1, <4>2 DEF Chunks
    <3> QED
      BY <3>1, <3>2
  <2>6. Pieces'
    BY <2>2, <2>4, <2>5 DEF Pieces, Contiguous
  <2> QED
    BY <2>3, <2>6
<1> QED
  BY <1>1, <1>2

LEMMA OutputNext ==
  ASSUME TypeOK, Control, Custody, Counted, Pieces, [Next]_vars PROVE Counted' /\ Pieces'
<1>1. CASE FirstClient \/ NextClient
  <2>1. /\ UNCHANGED <<out, taken>> /\ pc' \in {"envWait", "relay"} /\ ~Over /\ pc # "send"
        /\ framed' = Head(rx) /\ Receive
    BY <1>1 DEF FirstClient, NextClient, Relay
  <2>2. framed' \in Conn /\ Chunks(framed') = {}
    BY <2>1, ReceiveSplits DEF TypeOK, Custody, Chunks
  <2> QED
    BY <2>1, <2>2, OutputQuiet DEF InHand
<1>2. CASE ReadPty
  BY <1>2, OutputRead
<1>3. CASE SendOk
  BY <1>3, OutputSent
<1>4. CASE SendError
  <2>1. /\ UNCHANGED <<out, taken>> /\ pc' # "send" /\ ~Over /\ (~Over' => ~InHand)
        /\ framed' = NextFramed
    BY <1>4 DEF SendError, AfterSend, End, Fatal, InHand
  <2>2. framed' # framed => Chunks(framed') = {}
    <3>1. framed' # framed => framed' = newer /\ newer \in Conn /\ out[newer] = <<>>
      BY <1>4, <2>1 DEF NextFramed, SendError, AfterSend, Control, Custody, TypeOK, TaskOK
    <3> QED
      BY <3>1 DEF Chunks
  <2> QED
    BY <2>1, <2>2, OutputQuiet DEF InHand
<1>5. CASE PtyGone \/ ShellDone \/ Takeover \/ TakePing
  <2>1. /\ UNCHANGED <<out, taken, framed>> /\ pc = "relay" /\ pc' = "send" /\ reply'.kind # "Data"
    BY <1>5 DEF PtyGone, ShellDone, Announce, Takeover, TakePing, TakeFrame, Msg
  <2> QED
    BY <2>1, OutputQuiet DEF InHand
<1>6. CASE \/ EnvFrame \/ EnvEnd \/ EnvTimeout \/ TakeData \/ TakeResize \/ TakeEnv \/ TakeEof
          \/ TakeError \/ WritePty \/ DoneAlone \/ ErrorEnd \/ ChannelClosed
  <2>1. UNCHANGED <<out, taken, framed>> /\ pc # "send" /\ pc' # "send" /\ ~Over
    BY <1>6, ErrorEnds DEF EnvFrame, EnvEnd, EnvTimeout, SpawnShell, Relay, End, TakeData,
                TakeResize, TakeEnv, TakeFrame, TakeEof, TakeError, WritePty, DoneAlone, ChannelClosed
  <2> QED
    BY <2>1, OutputQuiet DEF InHand
<1>7. CASE Cancelled
  BY <1>7, OutputQuiet DEF Cancelled, End, InHand
<1>8. CASE \/ PtyWritable \/ Abort \/ ShellWrite \/ ShellRead \/ ShellExit \/ UNCHANGED vars
          \/ \E c \in Conn : \/ HandOff(c) \/ ClientLeave(c) \/ ClientRead(c)
                             \/ \E f \in Frames : ClientSend(c, f)
  <2>1. UNCHANGED <<pc, framed, reply, out, taken>>
    BY <1>8 DEF PtyWritable, Abort, ShellWrite, ShellRead, ShellExit, vars, HandOff, ClientLeave,
                ClientRead, ClientSend
  <2> QED
    BY <2>1, OutputQuiet DEF InHand
<1> QED
  BY <1>1, <1>2, <1>3, <1>4, <1>5, <1>6, <1>7, <1>8 DEF Next, Task, ErrorEnd

(* All that is read from the PTY reaches one client, once and in order,    *)
(* through every takeover (server.rs:257, 272-275).                        *)
THEOREM OutputIsRelayedOnce == Spec => []OutputOnce
<1>1. Init => Counted /\ Pieces
  BY OutputInit
<1>2. TypeOK /\ Control /\ Custody /\ Counted /\ Pieces /\ [Next]_vars => Counted' /\ Pieces'
  BY OutputNext
<1>3. TypeOK /\ Counted /\ Pieces => OutputOnce
  BY OutputFollows
<1> QED
  BY <1>1, <1>2, <1>3, Solid, PTL DEF Spec

-----------------------------------------------------------------------------
(***************************************************************************)
(* How a session ends: what becomes of the shell, what the last client is  *)
(* told, and what gritty ls shows until then.                              *)
(***************************************************************************)
(* The code a client may be told for the shell's wait status. *)
Truthful(code) ==
  code = (IF status = -1 THEN 1 ELSE status) \/ (PtyHangup /\ code = 0)

(* The shell and the metadata go with the await point the task is at; an   *)
(* Exit is only sent for a shell that has exited.                          *)
Stage ==
  /\ ~Over => /\ shell # "hup"
              /\ shell = "unborn" <=> pc \in {"awaitFirst", "envWait"}
              /\ attached = "unset" <=> pc \in {"awaitFirst", "envWait"}
              /\ attached = "yes" <=> pc \in {"relay", "write", "send"}
              /\ attached = "no" => peer[framed] # "open"
  /\ Over => shell # "running"
  /\ pc = "done" /\ kill = "no" => shell = "exited"

Telling ==
  /\ pc = "send" /\ reply.kind = "Exit" => shell = "exited" /\ Truthful(reply.val)
  /\ ExitCodeTruthful

Ends == Stage /\ Telling /\ EndAnnounced

(* Every step keeps the stages in step with each other. *)
LEMMA StageKept == TypeOK /\ Control /\ Custody /\ Stage /\ Telling /\ [Next]_vars => Stage'
<1> SUFFICES ASSUME TypeOK, Control, Custody, Stage, Telling, [Next]_vars PROVE Stage'
  OBVIOUS
<1> USE DEF Stage
<1>1. CASE FirstClient
  BY <1>1 DEF FirstClient, Receive
<1>2. CASE EnvFrame \/ EnvEnd \/ EnvTimeout
  BY <1>2 DEF EnvFrame, EnvEnd, EnvTimeout, SpawnShell, Relay, End
<1>3. CASE TakeData \/ TakeResize \/ TakePing \/ TakeEnv
  BY <1>3 DEF TakeData, TakeResize, TakePing, TakeEnv, TakeFrame
<1>4. CASE TakeEof
  BY <1>4 DEF TakeEof
<1>5. CASE TakeError \/ DoneAlone \/ ErrorEnd \/ ChannelClosed \/ Cancelled
  BY <1>5, ErrorEnds DEF TakeError, DoneAlone, ChannelClosed, Cancelled, End
<1>6. CASE WritePty \/ ReadPty \/ Takeover
  BY <1>6 DEF WritePty, ReadPty, Takeover, Receive
<1>7. CASE PtyGone \/ ShellDone
  BY <1>7 DEF PtyGone, ShellDone, Announce
<1>8. CASE SendOk \/ SendError
  BY <1>8 DEF SendOk, SendError, AfterSend, End, Fatal, Telling
<1>9. CASE NextClient
  BY <1>9 DEF NextClient, Receive, Relay
<1>10. ASSUME NEW c \in Conn, HandOff(c) PROVE Stage'
  BY <1>10 DEF HandOff, Custody, Control, TypeOK, NetOK
<1>11. ASSUME NEW c \in Conn, ClientLeave(c) PROVE Stage'
  BY <1>11 DEF ClientLeave, TypeOK, NetOK, Control
<1>12. CASE Abort
  BY <1>12 DEF Abort
<1>13. CASE ShellExit
  BY <1>13 DEF ShellExit
<1>14. CASE \/ PtyWritable \/ ShellWrite \/ ShellRead \/ UNCHANGED vars
            \/ \E c \in Conn : ClientRead(c) \/ \E f \in Frames : ClientSend(c, f)
  <2>1. UNCHANGED <<pc, framed, reply, attached, shell, kill, peer>>
    BY <1>14 DEF PtyWritable, ShellWrite, ShellRead, vars, ClientRead, ClientSend
  <2> QED
    BY <2>1
<1> QED
  BY <1>1, <1>2, <1>3, <1>4, <1>5, <1>6, <1>7, <1>8, <1>9, <1>10, <1>11, <1>12, <1>13, <1>14
  DEF Next, Task, ErrorEnd

(* A step that sends, or starts to send, an Exit has the shell's code.     *)
LEMMA TellingKept ==
  TypeOK /\ Control /\ Stage /\ Telling /\ [Next]_vars => Telling'
<1> SUFFICES ASSUME TypeOK, Control, Stage, Telling, [Next]_vars PROVE Telling'
  OBVIOUS
<1>0. ASSUME UNCHANGED out,
             shell = "exited" => shell' = "exited" /\ status' = status,
             (pc = "send" /\ reply.kind = "Exit" => shell = "exited" /\ Truthful(reply.val))'
      PROVE  Telling'
  <2>1. ExitCodeTruthful'
    BY <1>0 DEF Telling, ExitCodeTruthful
  <2> QED
    BY <1>0, <2>1 DEF Telling
<1>1. CASE FirstClient \/ NextClient \/ Takeover
  BY <1>0, <1>1 DEF FirstClient, NextClient, Takeover, Relay, Msg
<1>2. CASE EnvFrame \/ EnvEnd \/ EnvTimeout
  BY <1>0, <1>2 DEF EnvFrame, EnvEnd, EnvTimeout, SpawnShell, Relay, End, Stage
<1>3. CASE TakeData \/ TakeResize \/ TakePing \/ TakeEnv \/ TakeEof
  BY <1>0, <1>3 DEF TakeData, TakeResize, TakePing, TakeEnv, TakeFrame, TakeEof, Msg
<1>4. CASE TakeError \/ DoneAlone \/ ErrorEnd \/ ChannelClosed \/ Cancelled
  BY <1>0, <1>4, ErrorEnds DEF TakeError, DoneAlone, ChannelClosed, Cancelled, End
<1>5. CASE WritePty \/ ReadPty
  BY <1>0, <1>5 DEF WritePty, ReadPty, Msg
<1>6. CASE PtyGone \/ ShellDone
  BY <1>0, <1>6 DEF PtyGone, ShellDone, Announce, Msg, Truthful
<1>7. CASE SendOk
  <2>1. /\ pc = "send" /\ reply \in Reply /\ framed \in Conn /\ pc' # "send"
        /\ out' = [out EXCEPT ![framed] = Append(@, reply)]
        /\ shell = "exited" => shell' = "exited"
        /\ status' = status
    BY <1>7 DEF SendOk, AfterSend, End, Control
  <2>2. ASSUME NEW c \in Conn, NEW i \in DOMAIN out'[c], out'[c][i].kind = "Exit"
        PROVE  shell' = "exited" /\ Truthful(out'[c][i].val)
    <3>1. CASE c = framed /\ i = Len(out[c]) + 1
      <4>1. out'[c][i] = reply
        BY <2>1, <3>1 DEF TypeOK, NetOK
      <4> QED
        BY <2>1, <2>2, <4>1 DEF Telling
    <3>2. CASE ~(c = framed /\ i = Len(out[c]) + 1)
      <4>1. i \in DOMAIN out[c] /\ out'[c][i] = out[c][i]
        BY <2>1, <2>2, <3>2 DEF TypeOK, NetOK
      <4> QED
        BY <2>1, <2>2, <4>1 DEF Telling, ExitCodeTruthful, Truthful
    <3> QED
      BY <3>1, <3>2
  <2> QED
    BY <2>1, <2>2 DEF Telling, ExitCodeTruthful, Truthful
<1>8. CASE SendError
  <2>1. /\ UNCHANGED <<out, status>> /\ pc' # "send"
        /\ shell = "exited" => shell' = "exited"
    BY <1>8 DEF SendError, AfterSend, End
  <2> QED
    BY <1>0, <2>1
<1>9. ASSUME NEW c \in Conn,
             HandOff(c) \/ ClientLeave(c) \/ ClientRead(c) \/ \E f \in Frames : ClientSend(c, f)
      PROVE  Telling'
  <2>1. UNCHANGED <<pc, reply, out, shell, status>>
    BY <1>9 DEF HandOff, ClientLeave, ClientRead, ClientSend
  <2> QED
    BY <2>1 DEF Telling, ExitCodeTruthful, Truthful
<1>10. CASE Abort \/ PtyWritable \/ ShellWrite \/ ShellRead \/ UNCHANGED vars
  <2>1. UNCHANGED <<pc, reply, out, shell, status>>
    BY <1>10 DEF Abort, PtyWritable, ShellWrite, ShellRead, vars
  <2> QED
    BY <2>1 DEF Telling, ExitCodeTruthful, Truthful
<1>11. CASE ShellExit
  BY <1>11 DEF ShellExit, Telling, ExitCodeTruthful
<1> QED
  BY <1>1, <1>2, <1>3, <1>4, <1>5, <1>6, <1>7, <1>8, <1>9, <1>10, <1>11 DEF Next, Task, ErrorEnd

(* A task that is over is left alone by everyone.                          *)
LEMMA OverIsFinal == Over /\ [Next]_vars => UNCHANGED <<pc, framed, out, peer>>
<1> SUFFICES ASSUME Over, [Next]_vars PROVE UNCHANGED <<pc, framed, out, peer>>
  OBVIOUS
<1>1. ASSUME NEW c \in Conn
      PROVE  ~HandOff(c) /\ ~ClientLeave(c) /\ ~ClientRead(c)
             /\ \A f \in Frames : ~ClientSend(c, f)
  BY DEF HandOff, ClientLeave, ClientRead, ClientSend, Held
<1>2. ~Task /\ ~ErrorEnd
  BY ErrorEnds
     DEF Task, FirstClient, EnvFrame, EnvEnd, EnvTimeout, TakeData, TakeResize,
         TakePing, TakeEnv, TakeFrame, TakeEof, TakeError, WritePty, WriteFails, ReadPty,
         PtyGone, ShellDone, Takeover, SendOk, SendError, NextClient, DoneAlone,
         ChannelClosed, Cancelled
<1> QED
  BY <1>1, <1>2
     DEF Next, ErrorEnd, PtyWritable, Abort, ShellWrite, ShellRead, ShellExit, vars

(* Each way to end either told the client, or had lost it, or is one of    *)
(* the two that tell nobody.                                               *)
LEMMA EndAnnouncedKept ==
  TypeOK /\ Control /\ Custody /\ Stage /\ EndAnnounced /\ [Next]_vars => EndAnnounced'
<1> SUFFICES ASSUME TypeOK, Control, Custody, Stage, EndAnnounced, [Next]_vars
             PROVE  EndAnnounced'
  OBVIOUS
<1>1. CASE Over
  BY <1>1, OverIsFinal DEF EndAnnounced
<1>2. CASE SendOk
  <2>1. /\ framed \in Conn /\ reply \in Reply
        /\ out' = [out EXCEPT ![framed] = Append(@, reply)]
        /\ Over' => reply.kind = "Exit" /\ framed' = framed
    BY <1>2 DEF SendOk, AfterSend, End, NextFramed, Fatal, Control
  <2>2. out'[framed] = Append(out[framed], reply)
    BY <2>1 DEF TypeOK, NetOK
  <2>3. out'[framed] # <<>> /\ out'[framed][Len(out'[framed])] = reply
    BY <2>1, <2>2 DEF TypeOK, NetOK
  <2> QED
    BY <2>1, <2>3 DEF EndAnnounced
<1>3. CASE SendError
  <2>1. /\ peer[framed] # "open" /\ UNCHANGED peer
        /\ Over' => framed' = framed
    BY <1>3 DEF SendError, AfterSend, End, NextFramed, Fatal
  <2> QED
    BY <2>1 DEF EndAnnounced
<1>4. CASE DoneAlone \/ ChannelClosed \/ TakeError
  <2>1. framed = NoConn \/ peer[framed] # "open"
    BY <1>4 DEF DoneAlone, ChannelClosed, TakeError, Stage, Control, TypeOK, ShellOK
  <2>2. UNCHANGED <<framed, peer>>
    BY <1>4 DEF DoneAlone, ChannelClosed, TakeError
  <2> QED
    BY <2>1, <2>2 DEF EndAnnounced
<1>5. CASE EnvFrame \/ EnvEnd \/ EnvTimeout \/ ErrorEnd \/ Cancelled
  <2>1. Over' => pc' \in {"noShell", "ioError", "aborted"}
    BY <1>5, ErrorEnds DEF EnvFrame, EnvEnd, EnvTimeout, SpawnShell, Cancelled, Relay, End
  <2> QED
    BY <2>1 DEF EndAnnounced
<1>6. CASE \/ FirstClient \/ TakeData \/ TakeResize \/ TakePing \/ TakeEnv \/ TakeEof
          \/ WritePty \/ ReadPty \/ PtyGone \/ ShellDone \/ Takeover \/ NextClient
  <2>1. ~Over'
    BY <1>6 DEF FirstClient, TakeData, TakeResize, TakePing, TakeEnv, TakeFrame, TakeEof,
                WritePty, ReadPty, PtyGone, ShellDone, Announce, Takeover, NextClient, Relay
  <2> QED
    BY <2>1 DEF EndAnnounced
<1>7. CASE /\ ~Over
           /\ \/ PtyWritable \/ Abort \/ ShellWrite \/ ShellRead \/ ShellExit \/ UNCHANGED vars
              \/ \E c \in Conn : \/ HandOff(c) \/ ClientLeave(c) \/ ClientRead(c)
                                 \/ \E f \in Frames : ClientSend(c, f)
  <2>1. UNCHANGED pc
    BY <1>7 DEF PtyWritable, Abort, ShellWrite, ShellRead, ShellExit, vars,
                HandOff, ClientLeave, ClientRead, ClientSend
  <2> QED
    BY <1>7, <2>1 DEF EndAnnounced
<1> QED
  BY <1>1, <1>2, <1>3, <1>4, <1>5, <1>6, <1>7 DEF Next, Task, ErrorEnd

-----------------------------------------------------------------------------
(* The inductive invariant of this module holds in every state.            *)
LEMMA EndsHold == Spec => [](TypeOK /\ Control /\ Custody /\ LastWord /\ Ends)
<1>1. Init => Ends
  BY DEF Init, Ends, Stage, Telling, ExitCodeTruthful, EndAnnounced, Nothing
<1>2. TypeOK /\ Control /\ Custody /\ Ends /\ [Next]_vars => Ends'
  BY StageKept, TellingKept, EndAnnouncedKept DEF Ends
<1> QED
  BY <1>1, <1>2, Solid, PTL DEF Spec

(* The shell outlives every client and not the task, whatever the clients  *)
(* do and whenever the daemon aborts it (server.rs:42-47, 279-303).        *)
THEOREM ShellFateHolds == Spec => []ShellFate
<1>1. Ends => ShellFate
  BY DEF Ends, Stage, ShellFate
<1> QED
  BY <1>1, EndsHold, PTL

(* The code of every Exit is the shell's, or the 0 that a hang-up of the   *)
(* PTY stands for (server.rs:253, 262, 280, 298).                          *)
THEOREM ExitCodesAreTrue == Spec => []ExitCodeTruthful
<1>1. Ends => ExitCodeTruthful
  BY DEF Ends, Telling
<1> QED
  BY <1>1, EndsHold, PTL

(* However a session ends by itself, the client it serves has left, or was *)
(* told Exit, unless the shell could not be spawned or the PTY or wait()   *)
(* failed (server.rs:301; 135, 197-202, 247, 264, 280).                    *)
THEOREM EndIsAnnounced == Spec => []EndAnnounced
<1>1. Ends => EndAnnounced
  BY DEF Ends
<1> QED
  BY <1>1, EndsHold, PTL

(* What gritty ls shows of a live session is right at every step           *)
(* (server.rs:152-157, 184-186, 289-291).                                  *)
THEOREM AttachedIsRight == Spec => []AttachedFlag
<1>1. Ends => AttachedFlag
  BY DEF Ends, Stage, AttachedFlag
<1> QED
  BY <1>1, EndsHold, PTL

-----------------------------------------------------------------------------
(***************************************************************************)
(* Session implements SessionTask: the proof of the refinement.            *)
(***************************************************************************)
(* The mapping of Session!Promise, by name. *)
PhaseBar ==
  CASE pc = "awaitFirst"  -> "waiting"
    [] pc = "awaitClient" -> "idle"
    [] Over               -> "over"
    [] OTHER              -> "serving"
SeenBar == {c \in Conn : peer[c] # "idle"}
QueueBar == IF newer = NoConn THEN rx ELSE <<newer>> \o rx
WordBar ==
  [c \in Conn |->
    IF \E i \in DOMAIN out[c] : IsFinal(out[c][i]) THEN out[c][Len(out[c])].kind ELSE "none"]

Serving == pc \in {"envWait", "relay", "write", "send"}

LEMMA Phase ==
  /\ pc = "awaitFirst" => PhaseBar = "waiting"
  /\ pc = "awaitClient" => PhaseBar = "idle"
  /\ Over => PhaseBar = "over"
  /\ Serving => PhaseBar = "serving"
  BY DEF PhaseBar, Serving

LEMMA PhaseNext ==
  /\ pc' = "awaitFirst" => PhaseBar' = "waiting"
  /\ pc' = "awaitClient" => PhaseBar' = "idle"
  /\ Over' => PhaseBar' = "over"
  /\ Serving' => PhaseBar' = "serving"
  BY DEF PhaseBar, Serving

(* A connection in front of a queue. *)
LEMMA InFront ==
  ASSUME NEW c \in Conn, NEW s \in Seq(Conn)
  PROVE  /\ <<c>> \o s \in Seq(Conn) /\ <<c>> \o s # <<>>
         /\ Head(<<c>> \o s) = c /\ Tail(<<c>> \o s) = s
         /\ \A d \in Conn : <<c>> \o Append(s, d) = Append(<<c>> \o s, d)
  OBVIOUS

LEMMA HeadInFront ==
  ASSUME NEW s \in Seq(Conn), s # <<>> PROVE <<Head(s)>> \o Tail(s) = s
  OBVIOUS

(* Nothing SessionTask sees. *)
LEMMA Stutters ==
  ASSUME UNCHANGED <<rx, framed, newer, out>>, PhaseBar' = PhaseBar, SeenBar' = SeenBar
  PROVE  UNCHANGED Promise!vars
  BY DEF Promise!vars, PhaseBar, SeenBar, IsFinal

(* The task ends and says nothing. *)
LEMMA Finishes ==
  ASSUME ~Over, TypeOK, Over', UNCHANGED <<rx, framed, newer, out, peer>>
  PROVE  Promise!Finish
<1>1. PhaseBar # "over" /\ PhaseBar' = "over" /\ SeenBar' = SeenBar /\ WordBar' = WordBar
  BY PhaseNext DEF PhaseBar, SeenBar, WordBar, IsFinal
<1> QED
  BY <1>1 DEF Promise!Finish, PhaseBar, SeenBar, WordBar

LEMMA RefinesInit == Init => Promise!Init
  BY DEF Init, Promise!Init, IsFinal

LEMMA TakesUp ==
  ASSUME TypeOK, Control, FirstClient \/ NextClient PROVE Promise!Serve
<1>1. /\ rx # <<>> /\ rx' = Tail(rx) /\ framed' = Head(rx) /\ newer = NoConn
      /\ UNCHANGED <<newer, peer, out>> /\ pc \in {"awaitFirst", "awaitClient"}
  BY DEF FirstClient, NextClient, Receive, Control
<1>2. PhaseBar \in {"waiting", "idle"}
  BY <1>1, Phase
<1>3. PhaseBar' = "serving"
  BY PhaseNext DEF FirstClient, NextClient, Relay, Serving
<1> QED
  BY <1>1, <1>2, <1>3 DEF Promise!Serve, PhaseBar, IsFinal

(* A send that is answered by the peer, or fails. *)
LEMMA SendRefines ==
  ASSUME TypeOK, Control, Custody, LastWord, SendOk \/ SendError
  PROVE  Promise!Next \/ UNCHANGED Promise!vars
<1>0. /\ pc = "send" /\ framed \in Conn /\ framed \in Held /\ framed # NoConn
      /\ UNCHANGED <<rx, peer>> /\ newer' = NoConn /\ framed' = NextFramed
      /\ reply \in Reply /\ (newer # NoConn <=> reply.kind = "Detached")
  BY DEF SendOk, SendError, AfterSend, Control, Held
<1>1. /\ SeenBar' = SeenBar /\ PhaseBar = "serving"
      /\ PhaseBar' = "serving" \/ PhaseBar' = "over"
      /\ PhaseBar' = "over" <=> reply.kind = "Exit" \/ (SendError /\ reply.kind = "Data")
  <2>1. SeenBar' = SeenBar /\ PhaseBar = "serving"
    BY <1>0, Phase DEF SeenBar, Serving
  <2>2. CASE pc' = "relay"
    <3>1. reply.kind # "Exit" /\ ~(SendError /\ reply.kind = "Data")
      BY <2>2 DEF SendOk, SendError, AfterSend, End, Fatal
    <3> QED
      BY <2>1, <2>2, <3>1, PhaseNext DEF Serving
  <2>3. CASE pc' \in {"lost", "done"}
    <3>1. reply.kind = "Exit" \/ (SendError /\ reply.kind = "Data")
      BY <2>3 DEF SendOk, SendError, AfterSend, End, Fatal
    <3> QED
      BY <2>1, <2>3, <3>1, PhaseNext
  <2> QED
    BY <2>2, <2>3 DEF SendOk, SendError, AfterSend, End
<1>2. \/ WordBar' = WordBar
      \/ reply.kind \in {"Detached", "Exit"} /\ WordBar' = [WordBar EXCEPT ![framed] = reply.kind]
  <2>1. CASE SendError
    BY <2>1 DEF SendError, WordBar, IsFinal
  <2>2. CASE SendOk
    <3>1. /\ out' = [out EXCEPT ![framed] = Append(@, reply)] /\ out \in [Conn -> Seq(Reply)]
      BY <2>2 DEF SendOk, TypeOK, NetOK
    <3>2. \A i \in DOMAIN out[framed] : ~IsFinal(out[framed][i])
      BY <1>0 DEF LastWord
    <3>3. /\ out'[framed] = Append(out[framed], reply) /\ out[framed] \in Seq(Reply)
          /\ \A c \in Conn \ {framed} : out'[c] = out[c]
      BY <1>0, <3>1
    <3>4. /\ DOMAIN out'[framed] = 1 .. Len(out[framed]) + 1 /\ Len(out'[framed]) = Len(out[framed]) + 1
          /\ \A j \in DOMAIN out[framed] : out'[framed][j] = out[framed][j]
          /\ out'[framed][Len(out[framed]) + 1] = reply
          /\ DOMAIN out[framed] = 1 .. Len(out[framed]) /\ Len(out[framed]) \in Nat
      BY <1>0, <3>3
    <3>5. \A c \in Conn \ {framed} : WordBar'[c] = WordBar[c]
      BY <3>3 DEF WordBar, IsFinal
    <3>6. WordBar[framed] = "none"
      BY <1>0, <3>2 DEF WordBar
    <3>7. CASE IsFinal(reply)
      <4>1. WordBar'[framed] = reply.kind
        <5>1. \E i \in DOMAIN out'[framed] : IsFinal(out'[framed][i])
          BY <3>4, <3>7
        <5>2. WordBar'[framed] =
                IF \E i \in DOMAIN out'[framed] : IsFinal(out'[framed][i])
                THEN out'[framed][Len(out'[framed])].kind ELSE "none"
          BY <1>0, Zenon DEF WordBar, IsFinal
        <5>3. out'[framed][Len(out'[framed])] = reply
          BY <3>4
        <5> QED
          BY <5>1, <5>2, <5>3, Zenon
      <4>2. WordBar' = [WordBar EXCEPT ![framed] = reply.kind]
        <5>1. WordBar' = [c \in Conn |-> WordBar'[c]] /\ WordBar = [c \in Conn |-> WordBar[c]]
          BY Zenon DEF WordBar
        <5> QED
          BY <1>0, <3>5, <4>1, <5>1
      <4> QED
        BY <3>7, <4>2 DEF IsFinal
    <3>8. CASE ~IsFinal(reply)
      <4>1. \A i \in DOMAIN out'[framed] : ~IsFinal(out'[framed][i])
        BY <3>2, <3>4, <3>8
      <4>2. WordBar'[framed] = "none"
        BY <1>0, <4>1 DEF WordBar, IsFinal
      <4>3. WordBar' = WordBar
        BY <3>5, <3>6, <4>2 DEF WordBar
      <4> QED
        BY <4>3
    <3> QED
      BY <3>7, <3>8
  <2> QED
    BY <2>1, <2>2
<1>3. CASE reply.kind = "Detached"
  <2>1. newer \in Conn /\ newer # NoConn /\ framed' = newer /\ rx \in Seq(Conn)
    BY <1>0, <1>3 DEF NextFramed, TypeOK, TaskOK
  <2>2. QueueBar # <<>> /\ framed' = Head(QueueBar) /\ QueueBar' = Tail(QueueBar)
    BY <1>0, <2>1, InFront DEF QueueBar
  <2>3. PhaseBar' = "serving" /\ WordBar' \in {WordBar, [WordBar EXCEPT ![framed] = "Detached"]}
    BY <1>1, <1>2, <1>3
  <2>4. Promise!Takeover
    BY <1>1, <2>2, <2>3 DEF Promise!Takeover, PhaseBar, SeenBar, QueueBar, WordBar
  <2> QED
    BY <2>4 DEF Promise!Next
<1>4. CASE reply.kind # "Detached"
  <2>1. newer = NoConn /\ UNCHANGED <<rx, newer, framed>>
    BY <1>0, <1>4 DEF NextFramed
  <2>2. CASE PhaseBar' = "over"
    <3>1. WordBar' = WordBar \/ WordBar' = [WordBar EXCEPT ![framed] = "Exit"]
      BY <1>2, <1>4
    <3>2. Promise!Finish
      BY <1>1, <2>1, <2>2, <3>1 DEF Promise!Finish, PhaseBar, SeenBar, WordBar
    <3> QED
      BY <3>2 DEF Promise!Next
  <2>3. CASE PhaseBar' = "serving"
    <3>1. WordBar' = WordBar
      BY <1>1, <1>2, <1>4, <2>3
    <3>2. UNCHANGED Promise!vars
      BY <1>1, <2>1, <2>3, <3>1 DEF Promise!vars, PhaseBar, SeenBar, WordBar
    <3> QED
      BY <3>2
  <2> QED
    BY <1>1, <2>2, <2>3
<1> QED
  BY <1>3, <1>4

LEMMA HandOffRefines ==
  ASSUME TypeOK, Control, NEW c \in Conn, HandOff(c) PROVE Promise!HandOff(c)
<1>1. /\ ~Over /\ peer[c] = "idle" /\ rx' = Append(rx, c) /\ peer' = [peer EXCEPT ![c] = "open"]
      /\ UNCHANGED <<pc, framed, newer, out>>
  BY DEF HandOff
<1>2. PhaseBar # "over" /\ PhaseBar' = PhaseBar
  BY <1>1 DEF PhaseBar
<1>3. c \notin SeenBar /\ SeenBar' = SeenBar \cup {c}
  BY <1>1 DEF SeenBar, TypeOK, NetOK
<1>4. QueueBar' = Append(QueueBar, c)
  BY <1>1, InFront DEF QueueBar, TypeOK, TaskOK
<1>5. WordBar' = WordBar
  BY <1>1 DEF WordBar, IsFinal
<1> QED
  BY <1>1, <1>2, <1>3, <1>4, <1>5 DEF Promise!HandOff, PhaseBar, SeenBar, QueueBar, WordBar

LEMMA RefinesNext ==
  TypeOK /\ Control /\ Custody /\ LastWord /\ [Next]_vars => [Promise!Next]_(Promise!vars)
<1> SUFFICES ASSUME TypeOK, Control, Custody, LastWord, [Next]_vars
             PROVE  Promise!Next \/ UNCHANGED Promise!vars
  OBVIOUS
<1>1. CASE FirstClient \/ NextClient
  BY <1>1, TakesUp DEF Promise!Next
<1>2. CASE EnvFrame \/ EnvEnd \/ EnvTimeout
  <2>1. /\ pc = "envWait" /\ UNCHANGED <<rx, framed, newer, out>> /\ pc' \in {"relay", "noShell"}
    BY <1>2 DEF EnvFrame, EnvEnd, EnvTimeout, SpawnShell, Relay, End
  <2>2. SeenBar' = SeenBar
    <3>1. peer' = peer \/ \E p \in {"open", "closed"} : peer' = [peer EXCEPT ![framed] = p]
      BY <1>2 DEF EnvFrame, EnvEnd, EnvTimeout
    <3>2. framed \in Conn /\ peer[framed] # "idle" /\ peer \in [Conn -> Peers]
      BY <2>1 DEF Control, Custody, TypeOK, NetOK
    <3> QED
      BY <3>1, <3>2 DEF SeenBar
  <2>3. CASE pc' = "relay"
    BY <2>1, <2>2, <2>3, Phase, PhaseNext, Stutters DEF Serving
  <2>4. CASE pc' = "noShell"
    <3>1. /\ PhaseBar # "over" /\ PhaseBar' = "over" /\ WordBar' = WordBar
      BY <2>1, <2>4, PhaseNext DEF PhaseBar, WordBar, IsFinal
    <3>2. Promise!Finish
      BY <2>1, <2>2, <3>1 DEF Promise!Finish, PhaseBar, SeenBar, WordBar
    <3> QED
      BY <3>2 DEF Promise!Next
  <2> QED
    BY <2>1, <2>3, <2>4
<1>3. CASE \/ TakeData \/ TakeResize \/ TakePing \/ TakeEnv \/ WritePty \/ ReadPty \/ PtyGone
          \/ ShellDone
  <2>1. /\ Serving /\ Serving' /\ UNCHANGED <<rx, framed, newer, out, peer>>
    BY <1>3 DEF TakeData, TakeResize, TakePing, TakeEnv, TakeFrame, WritePty, ReadPty, PtyGone,
                ShellDone, Announce, Serving
  <2>2. PhaseBar' = PhaseBar /\ SeenBar' = SeenBar
    BY <2>1, Phase, PhaseNext DEF SeenBar
  <2> QED
    BY <2>1, <2>2, Stutters
<1>4. CASE TakeEof
  <2>1. /\ UNCHANGED <<rx, framed, newer, out, peer>> /\ PhaseBar = "serving" /\ PhaseBar' = "idle"
    BY <1>4, Phase, PhaseNext DEF TakeEof, Serving
  <2>2. WordBar' = WordBar /\ SeenBar' = SeenBar
    BY <2>1 DEF WordBar, SeenBar, IsFinal
  <2>3. Promise!Leave
    BY <2>1, <2>2 DEF Promise!Leave, PhaseBar, SeenBar, WordBar
  <2> QED
    BY <2>3 DEF Promise!Next
<1>5. CASE TakeError \/ DoneAlone \/ ErrorEnd \/ ChannelClosed \/ Cancelled
  <2>1. ~Over /\ Over' /\ UNCHANGED <<rx, framed, newer, out, peer>>
    BY <1>5, ErrorEnds DEF TakeError, DoneAlone, ChannelClosed, Cancelled, End
  <2> QED
    BY <2>1, Finishes DEF Promise!Next
<1>6. CASE Takeover
  <2>1. /\ rx # <<>> /\ rx' = Tail(rx) /\ newer' = Head(rx) /\ UNCHANGED <<framed, peer, out>>
        /\ pc = "relay" /\ pc' = "send" /\ newer = NoConn /\ rx \in Seq(Conn)
    BY <1>6 DEF Takeover, Receive, Control, TypeOK, TaskOK
  <2>2. newer' \in Conn /\ newer' # NoConn
    BY <2>1
  <2>3. QueueBar' = QueueBar
    BY <2>1, <2>2, HeadInFront DEF QueueBar
  <2>4. PhaseBar' = PhaseBar
    BY <2>1, Phase, PhaseNext DEF Serving
  <2>5. SeenBar' = SeenBar /\ WordBar' = WordBar
    BY <2>1 DEF SeenBar, WordBar, IsFinal
  <2>6. UNCHANGED Promise!vars
    BY <2>1, <2>3, <2>4, <2>5 DEF Promise!vars, PhaseBar, SeenBar, QueueBar, WordBar
  <2> QED
    BY <2>6
<1>7. CASE SendOk \/ SendError
  BY <1>7, SendRefines
<1>8. CASE \E c \in Conn : HandOff(c)
  BY <1>8, HandOffRefines DEF Promise!Next
<1>9. CASE \E c \in Conn : ClientLeave(c)
  <2>1. PICK c \in Conn : ClientLeave(c)
    BY <1>9
  <2>2. UNCHANGED <<pc, rx, framed, newer, out>> /\ SeenBar' = SeenBar
    BY <2>1 DEF ClientLeave, SeenBar, TypeOK, NetOK
  <2> QED
    BY <2>2, Stutters DEF PhaseBar
<1>10. CASE \/ PtyWritable \/ Abort \/ ShellWrite \/ ShellRead \/ ShellExit \/ UNCHANGED vars
           \/ \E c \in Conn : ClientRead(c) \/ \E f \in Frames : ClientSend(c, f)
  <2>1. UNCHANGED <<pc, rx, framed, newer, out, peer>>
    BY <1>10 DEF PtyWritable, Abort, ShellWrite, ShellRead, ShellExit, vars, ClientRead, ClientSend
  <2> QED
    BY <2>1, Stutters DEF PhaseBar, SeenBar
<1> QED
  BY <1>1, <1>2, <1>3, <1>4, <1>5, <1>6, <1>7, <1>8, <1>9, <1>10 DEF Next, Task, ErrorEnd

(* server::run keeps what SessionTask promises to the daemon and to its    *)
(* clients, for any number of them and any bound.                          *)
THEOREM TaskIsImplemented == Spec => ImplementsTask
<1>1. Init => Promise!Init
  BY RefinesInit
<1>2. TypeOK /\ Control /\ Custody /\ LastWord /\ [Next]_vars => [Promise!Next]_(Promise!vars)
  BY RefinesNext
<1> QED
  BY <1>1, <1>2, Solid, PTL DEF Spec, ImplementsTask, Promise!Spec
=============================================================================
