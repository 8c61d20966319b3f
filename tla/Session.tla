------------------------------ MODULE Session ------------------------------
(***************************************************************************)
(* One gritty session task: server::run of src/server.rs, with the PTY,    *)
(* the shell and the clients that the daemon hands to it.                  *)
(*                                                                         *)
(* The task is sequential; every value of pc is one of its await points,   *)
(* and one action runs from an await point to the next.  The select! arms  *)
(* of an await point are separate actions of the same pc.                  *)
(***************************************************************************)
EXTENDS Integers, Sequences, FiniteSets

CONSTANTS
  Conn,       \* client connections (Framed<UnixStream, FrameCodec>)
  NoConn,     \* "no connection": framed before the first client
  Status,     \* wait statuses the shell can end with; -1 is death by signal
  Kinds,      \* bound: the kinds of frame the clients send
  MaxFrames,  \* bound: frames one client sends
  MaxChunks,  \* bound: chunks of output the shell writes
  SockCap,    \* frames a socket holds before a send has to wait
  InCap,      \* input frames the PTY holds before a write has to wait
  OutCap,     \* output chunks the PTY holds before the shell has to wait
  PtyHangup   \* does the PTY report EOF/EIO once the shell is gone?

ASSUME SessionConstants ==
  /\ NoConn \notin Conn
  /\ Status \subseteq Int
  /\ MaxFrames \in Nat /\ MaxChunks \in Nat
  /\ SockCap \in Nat \ {0} /\ InCap \in Nat \ {0} /\ OutCap \in Nat \ {0}
  /\ PtyHangup \in BOOLEAN

VARIABLES
  pc,         \* the await point the task is at
  rx,         \* client_rx: connections handed over and not yet received
  framed,     \* the connection being served (or last served)
  newer,      \* new_framed while the old client is being told Detached
  reply,      \* the frame framed.send is sending
  attached,   \* metadata.attached, "unset" before the OnceLock is filled
  beat,       \* connection whose Ping set metadata.last_heartbeat
  win,        \* connection whose Resize set the PTY's window size
  env,        \* was an Env frame applied to the shell?
  shell,      \* "unborn", "running", "exited", or "hup" (hung up on by us)
  status,     \* the shell's wait status once it has exited
  written,    \* chunks of output the shell has written to the PTY
  taken,      \* chunks the task has read from the PTY
  inp,        \* input frames in the PTY that the shell has not read
  wready,     \* tokio's cached "master is writable" bit
  kill,       \* "no"; "abort" after handle.abort(); "dropped": client_tx too
  net,        \* frames of each client the task has not read
  sent,       \* how many frames each client has sent
  peer,       \* client end, see below
  out,        \* frames sent to each client, in order
  got         \* how many of them the client has read

taskVars == <<pc, rx, framed, newer, reply>>
metaVars == <<attached, beat>>
ptyVars  == <<win, written, taken, inp, wready>>
shellVars == <<env, shell, status>>
netVars  == <<net, sent, peer, out, got>>
vars == <<taskVars, metaVars, ptyVars, shellVars, kill, netVars>>

(* What follows the unread frames of a client: nothing yet ("open"), an    *)
(* Exit frame, EOF ("closed"), or a read error ("error": a frame cut off   *)
(* by the disconnect, or ECONNRESET because the client's end went away     *)
(* with frames it had not read).  "idle" clients are not connected.        *)
Peers == {"idle", "open", "exit", "closed", "error"}

Frames == {"Env", "Data", "Resize", "Ping"}
Reply == [kind : {"Data", "Pong", "Detached", "Exit"}, val : Int]
Nothing == [kind |-> "Nothing", val |-> 0]
Msg(k, v) == [kind |-> k, val |-> v]

(* run has returned, or was aborted.  "done": break or Ok (lines 89, 172,   *)
(* 178, 300); by "?" or return Err: "noShell" (a set-up call or the spawn  *)
(* failed), "ioError" (the PTY or wait() failed) and "lost" (framed.next() *)
(* or the send of Data failed).                                            *)
Over == pc \in {"done", "noShell", "ioError", "lost", "aborted"}
Queued == {rx[i] : i \in DOMAIN rx}

(* Connections the task holds, or will: what a client sends there matters. *)
Held == IF Over THEN {} ELSE Queued \cup ({framed, newer} \ {NoConn})

Init ==
  /\ pc = "awaitFirst" /\ rx = <<>> /\ framed = NoConn /\ newer = NoConn
  /\ reply = Nothing
  /\ attached = "unset" /\ beat = NoConn /\ win = NoConn
  /\ env = FALSE /\ shell = "unborn" /\ status = 0
  /\ written = 0 /\ taken = 0 /\ inp = 0 /\ wready = TRUE
  /\ kill = "no"
  /\ net = [c \in Conn |-> <<>>] /\ sent = [c \in Conn |-> 0]
  /\ peer = [c \in Conn |-> "idle"]
  /\ out = [c \in Conn |-> <<>>] /\ got = [c \in Conn |-> 0]

-----------------------------------------------------------------------------
(* Each operator named after a bug is what its successor would be with     *)
(* that bug; no action uses it.                                            *)

(* The task ends: run returns or its future is dropped.  Dropping          *)
(* ManagedChild sends SIGHUP to the shell's process group.                 *)
EndWithoutHangup(p) == pc' = p /\ UNCHANGED shell

End(p) ==
  /\ pc' = p
  /\ shell' = IF shell = "running" THEN "hup" ELSE shell

(* openpty, dup, fcntl and AsyncFd::new come before the first await.       *)
SetUpFails ==
  /\ pc = "awaitFirst"
  /\ End("noShell")
  /\ UNCHANGED <<rx, framed, newer, reply, metaVars, ptyVars, env, status, kill, netVars>>

(* client_rx.recv() yields the oldest connection handed over. *)
ReceiveAndDrain == rx # <<>> /\ rx' = <<>>

Receive ==
  /\ rx # <<>>
  /\ rx' = Tail(rx)

FirstClient ==
  /\ pc = "awaitFirst"
  /\ Receive
  /\ framed' = Head(rx)
  /\ pc' = "envWait"
  /\ UNCHANGED <<newer, reply, metaVars, ptyVars, shellVars, kill, netVars>>

(* The relay starts; gritty ls shows the session as attached. *)
RelayUnmarked == pc' = "relay" /\ UNCHANGED attached

Relay == pc' = "relay" /\ attached' = "yes"

(* Spawning the login shell and filling the metadata slot; there is no     *)
(* await between them.  The spawn itself may fail (a bad $SHELL).          *)
SpawnShell(hasEnv) ==
  \/ /\ Relay /\ shell' = "running" /\ env' = hasEnv
     /\ UNCHANGED <<rx, framed, newer, reply, beat, ptyVars, status, kill, sent, out, got>>
  \/ /\ End("noShell")
     /\ UNCHANGED <<rx, framed, newer, reply, metaVars, ptyVars, env, status, kill, sent, out, got>>

(* The 100 ms wait for an Env frame.  Whatever comes first is consumed:    *)
(* an Env is applied, any other frame, an EOF or an error is discarded.    *)
EnvFrame ==
  /\ pc = "envWait"
  /\ net[framed] # <<>>
  /\ net' = [net EXCEPT ![framed] = Tail(@)]
  /\ SpawnShell(Head(net[framed]) = "Env")
  /\ UNCHANGED peer

EnvEnd ==
  /\ pc = "envWait"
  /\ net[framed] = <<>> /\ peer[framed] # "open"
  /\ peer' = [peer EXCEPT ![framed] = IF @ = "exit" THEN "open" ELSE "closed"]
  /\ SpawnShell(FALSE)
  /\ UNCHANGED net

EnvTimeout ==
  /\ pc = "envWait"
  /\ SpawnShell(FALSE)
  /\ UNCHANGED <<net, peer>>

-----------------------------------------------------------------------------
(* The relay's framed.next() arm, one action per kind of frame.            *)
TakeFrame(f) ==
  /\ pc = "relay"
  /\ net[framed] # <<>> /\ Head(net[framed]) = f
  /\ net' = [net EXCEPT ![framed] = Tail(@)]
  /\ UNCHANGED <<rx, framed, newer, attached, written, taken, inp, wready,
                 shellVars, kill, sent, peer, out, got>>

TakeData ==
  /\ TakeFrame("Data")
  /\ pc' = "write"
  /\ UNCHANGED <<reply, beat, win>>

TakeResize ==
  /\ TakeFrame("Resize")
  /\ win' = framed
  /\ UNCHANGED <<pc, reply, beat>>

TakePing ==
  /\ TakeFrame("Ping")
  /\ beat' = framed
  /\ pc' = "send" /\ reply' = Msg("Pong", 0)
  /\ UNCHANGED win

(* A late Env, like every control frame, is read and ignored. *)
TakeEnv ==
  /\ TakeFrame("Env")
  /\ UNCHANGED <<pc, reply, beat, win>>

(* EOF or an Exit frame: the client is gone, the shell stays. *)
TakeEof ==
  /\ pc = "relay"
  /\ net[framed] = <<>> /\ peer[framed] \in {"closed", "exit"}
  /\ pc' = "awaitClient" /\ attached' = "no"
  /\ UNCHANGED <<rx, framed, newer, reply, beat, ptyVars, shellVars, kill, netVars>>

(* A connection reset or a cut-off frame is an error of the whole task. *)
TakeError ==
  /\ pc = "relay"
  /\ net[framed] = <<>> /\ peer[framed] = "error"
  /\ End("lost")
  /\ UNCHANGED <<rx, framed, newer, reply, metaVars, ptyVars, env, status, kill, netVars>>

(* Room for one more frame in the PTY's input. *)
RoomOffByOne == inp <= InCap

Room == inp < InCap

(* writable().await, then one write that is never retried: when the bit    *)
(* was stale (try_io would block) the frame is dropped and the bit cleared.*)
WritePty ==
  /\ pc = "write" /\ wready
  /\ IF Room THEN inp' = inp + 1 /\ wready' = TRUE
             ELSE inp' = inp /\ wready' = FALSE
  /\ pc' = "relay"
  /\ UNCHANGED <<rx, framed, newer, reply, metaVars, win, written, taken, shellVars, kill, netVars>>

(* A master whose slave is gone refuses the write with EIO, and the error  *)
(* is returned: this end of the shell, unlike the others, tells nobody.    *)
WriteFails ==
  /\ pc = "write"
  /\ PtyHangup /\ shell = "exited"
  /\ End("ioError")
  /\ UNCHANGED <<rx, framed, newer, reply, metaVars, ptyVars, env, status, kill, netVars>>

(* Any other error of the PTY (writable, write, readable, read) or of      *)
(* child.wait() returns from run as well.                                  *)
IoFails ==
  /\ pc \in {"relay", "write", "awaitClient"}
  /\ End("ioError")
  /\ UNCHANGED <<rx, framed, newer, reply, metaVars, ptyVars, env, status, kill, netVars>>

-----------------------------------------------------------------------------
(* The readable() arm. *)
ReadPty ==
  /\ pc = "relay"
  /\ taken < written
  /\ taken' = taken + 1
  /\ pc' = "send" /\ reply' = Msg("Data", taken + 1)
  /\ UNCHANGED <<rx, framed, newer, metaVars, win, written, inp, wready, shellVars, kill, netVars>>

AnnounceRawStatus(guess) == pc' = "send" /\ reply' = Msg("Exit", status)
AnnounceToNobody(guess) == End("done") /\ UNCHANGED reply
AnnounceNever(guess) == UNCHANGED <<pc, reply>>

(* RelayExit::ShellExited: try_wait may know better than the arm's guess.  *)
Announce(guess) ==
  \E known \in {k \in BOOLEAN : k => shell = "exited"} :
    /\ reply' = Msg("Exit", IF known /\ status # -1 THEN status ELSE guess)
    /\ pc' = "send"

PtyGone ==
  /\ pc = "relay"
  /\ PtyHangup /\ shell = "exited" /\ taken = written
  /\ Announce(0)
  /\ UNCHANGED <<rx, framed, newer, metaVars, ptyVars, shellVars, kill, netVars>>

(* The child.wait() arm; a shell killed by a signal counts as code 1. *)
ShellDone ==
  /\ pc = "relay"
  /\ shell = "exited"
  /\ Announce(IF status = -1 THEN 1 ELSE status)
  /\ UNCHANGED <<rx, framed, newer, metaVars, ptyVars, shellVars, kill, netVars>>

(* The client_rx.recv() arm: a newer client takes the session over. *)
Takeover ==
  /\ pc = "relay"
  /\ Receive
  /\ newer' = Head(rx)
  /\ pc' = "send" /\ reply' = Msg("Detached", 0)
  /\ UNCHANGED <<framed, metaVars, ptyVars, shellVars, kill, netVars>>

-----------------------------------------------------------------------------
(* Only the send of Data is followed by a "?". *)
FatalNever(ok) == FALSE

Fatal(ok) == ~ok /\ reply.kind = "Data"

(* After Detached the newer connection replaces the old one. *)
KeepFramed == framed

NextFramed == IF reply.kind = "Detached" THEN newer ELSE framed

(* framed.send(reply).await returned; what the task does next depends on   *)
(* which send it was.                                                      *)
AfterSend(ok) ==
  /\ \/ Fatal(ok) /\ End("lost")
     \/ reply.kind = "Exit" /\ End("done")
     \/ ~Fatal(ok) /\ reply.kind # "Exit" /\ pc' = "relay" /\ UNCHANGED shell
  /\ framed' = NextFramed
  /\ newer' = NoConn
  /\ reply' = Nothing
  /\ UNCHANGED <<rx, metaVars, ptyVars, env, status, kill, net, sent, peer, got>>

SendOk ==
  /\ pc = "send" /\ peer[framed] \in {"open", "exit"}
  /\ Len(out[framed]) - got[framed] < SockCap
  /\ out' = [out EXCEPT ![framed] = Append(@, reply)]
  /\ AfterSend(TRUE)

SendError ==
  /\ pc = "send" /\ peer[framed] \in {"exit", "closed", "error"}
  /\ AfterSend(FALSE)
  /\ UNCHANGED out

-----------------------------------------------------------------------------
(* No client is attached: the two arms of the outer select!. *)
NextClient ==
  /\ pc = "awaitClient"
  /\ Receive
  /\ framed' = Head(rx)
  /\ Relay
  /\ UNCHANGED <<newer, reply, beat, ptyVars, shellVars, kill, netVars>>

DoneAlone ==
  /\ pc = "awaitClient"
  /\ shell = "exited"
  /\ End("done")
  /\ UNCHANGED <<rx, framed, newer, reply, metaVars, ptyVars, env, status, kill, netVars>>

(* recv() returns None: the daemon dropped client_tx.  The relay ignores   *)
(* it; without a client the task returns.                                  *)
ChannelClosed ==
  /\ pc \in {"awaitFirst", "awaitClient"}
  /\ kill = "dropped" /\ rx = <<>>
  /\ End("done")
  /\ UNCHANGED <<rx, framed, newer, reply, metaVars, ptyVars, env, status, kill, netVars>>

(* An aborted task is dropped at whichever await point it is at. *)
Cancelled ==
  /\ kill # "no" /\ ~Over
  /\ End("aborted")
  /\ UNCHANGED <<rx, framed, newer, reply, metaVars, ptyVars, env, status, kill, netVars>>

Task ==
  \/ FirstClient \/ EnvFrame \/ EnvEnd \/ EnvTimeout
  \/ TakeData \/ TakeResize \/ TakePing \/ TakeEnv \/ TakeEof \/ TakeError
  \/ WritePty \/ WriteFails \/ ReadPty \/ PtyGone \/ ShellDone \/ Takeover
  \/ SendOk \/ SendError
  \/ NextClient \/ DoneAlone \/ ChannelClosed \/ Cancelled

-----------------------------------------------------------------------------
(* The environment: the daemon, ...                                        *)
HandOff(c) ==
  /\ kill = "no" /\ ~Over /\ peer[c] = "idle"
  /\ rx' = Append(rx, c)
  /\ peer' = [peer EXCEPT ![c] = "open"]
  /\ UNCHANGED <<pc, framed, newer, reply, metaVars, ptyVars, shellVars, kill, net, sent, out, got>>

Abort ==
  /\ kill' = CASE kill = "no" -> "abort" [] kill = "abort" -> "dropped"
               [] OTHER -> kill
  /\ kill' # kill
  /\ UNCHANGED <<taskVars, metaVars, ptyVars, shellVars, netVars>>

(* ... the clients (only a first frame can be an Env), ...                 *)
ClientSend(c, f) ==
  /\ c \in Held /\ peer[c] = "open" /\ sent[c] < MaxFrames /\ f \in Kinds
  /\ f = "Env" => sent[c] = 0
  /\ net' = [net EXCEPT ![c] = Append(@, f)]
  /\ sent' = [sent EXCEPT ![c] = @ + 1]
  /\ UNCHANGED <<taskVars, metaVars, ptyVars, shellVars, kill, peer, out, got>>

ClientLeave(c) ==
  /\ c \in Held /\ peer[c] = "open"
  /\ \E how \in {"exit", "closed", "error"} :
       /\ how = "closed" => got[c] = Len(out[c])
       /\ peer' = [peer EXCEPT ![c] = how]
  /\ UNCHANGED <<taskVars, metaVars, ptyVars, shellVars, kill, net, sent, out, got>>

ClientRead(c) ==
  /\ c \in Held /\ peer[c] \in {"open", "exit"} /\ got[c] < Len(out[c])
  /\ got' = [got EXCEPT ![c] = @ + 1]
  /\ UNCHANGED <<taskVars, metaVars, ptyVars, shellVars, kill, net, sent, peer, out>>

(* ... and the shell behind its PTY.                                       *)
ShellWrite ==
  /\ shell = "running" /\ written < MaxChunks /\ written - taken < OutCap
  /\ written' = written + 1
  /\ UNCHANGED <<taskVars, metaVars, win, taken, inp, wready, shellVars, kill, netVars>>

ShellRead ==
  /\ shell = "running" /\ inp > 0
  /\ inp' = inp - 1
  /\ UNCHANGED <<taskVars, metaVars, win, written, taken, wready, shellVars, kill, netVars>>

ShellExit ==
  /\ shell = "running"
  /\ shell' = "exited" /\ status' \in Status
  /\ UNCHANGED <<taskVars, metaVars, ptyVars, env, kill, netVars>>

(* epoll tells the runtime that the master is writable again.              *)
PtyWritable ==
  /\ ~wready /\ Room
  /\ wready' = TRUE
  /\ UNCHANGED <<taskVars, metaVars, win, written, taken, inp, shellVars, kill, netVars>>

(* SetUpFails and IoFails may happen and never have to: they are no part   *)
(* of Task, whose progress is assumed below.                               *)
Next ==
  \/ Task \/ SetUpFails \/ IoFails \/ PtyWritable
  \/ \E c \in Conn : HandOff(c) \/ ClientLeave(c) \/ ClientRead(c)
  \/ \E c \in Conn, f \in Frames : ClientSend(c, f)
  \/ Abort \/ ShellWrite \/ ShellRead \/ ShellExit

Spec == Init /\ [][Next]_vars

(* The runtime polls a task that can run, and select! starts at a random   *)
(* arm, so an arm that is ready again and again is taken in the end.       *)
TaskFairness ==
  /\ WF_vars(Task) /\ WF_vars(PtyWritable)
  /\ SF_vars(Takeover) /\ SF_vars(ShellDone)

(* What must happen to a session nobody kills.  Nothing is assumed of the  *)
(* clients and the shell: they may stop reading for good.                  *)
NotKilled == Init /\ [][Next /\ UNCHANGED kill]_vars
FairSession == NotKilled /\ TaskFairness

-----------------------------------------------------------------------------
(* Every variable has its type. *)
TaskOK ==
  /\ pc \in {"awaitFirst", "envWait", "relay", "write", "send", "awaitClient",
             "done", "noShell", "ioError", "lost", "aborted"}
  /\ rx \in Seq(Conn)
  /\ framed \in Conn \cup {NoConn} /\ newer \in Conn \cup {NoConn}
  /\ reply \in Reply \cup {Nothing}

ShellOK ==
  /\ attached \in {"unset", "yes", "no"} /\ beat \in Conn \cup {NoConn}
  /\ win \in Conn \cup {NoConn}
  /\ shell \in {"unborn", "running", "exited", "hup"} /\ status \in Int
  /\ written \in Nat /\ taken \in Nat /\ inp \in 0..InCap
  /\ kill \in {"no", "abort", "dropped"}

FlagsOK == env \in BOOLEAN /\ wready \in BOOLEAN

NetOK ==
  /\ net \in [Conn -> Seq(Frames)] /\ sent \in [Conn -> Nat]
  /\ peer \in [Conn -> Peers]
  /\ out \in [Conn -> Seq(Reply)] /\ got \in [Conn -> Nat]

TypeOK == TaskOK /\ ShellOK /\ FlagsOK /\ NetOK

IsFinal(m) == m.kind \in {"Detached", "Exit"}

(* Detached and Exit are last words: a client that was told one (the       *)
(* takeover at server.rs:274, the end at 301) is told nothing after it,    *)
(* and the task neither serves nor queues its connection any more.         *)
LastWord ==
  \A c \in Conn : \A i \in DOMAIN out[c] :
    IsFinal(out[c][i]) => i = Len(out[c]) /\ c \notin Held

Chunks(c) == {out[c][i].val : i \in {j \in DOMAIN out[c] : out[c][j].kind = "Data"}}

(* Shell output is relayed exactly once and in order: across takeovers and *)
(* reconnects each client gets one contiguous piece, the pieces do not     *)
(* overlap, and all that was read from the PTY was sent, but for the one   *)
(* chunk being sent (server.rs:257) when the task is still at it or ended. *)
OutputOnce ==
  LET inHand == pc = "send" /\ reply.kind = "Data"
      sentAll == UNION {Chunks(c) : c \in Conn}
  IN /\ \A c \in Conn, d \in Conn : c # d => Chunks(c) \cap Chunks(d) = {}
     /\ \A c \in Conn : \A i, j \in DOMAIN out[c] :
          i < j /\ out[c][i].kind = "Data" /\ out[c][j].kind = "Data"
            => out[c][i].val < out[c][j].val
     /\ \A c \in Conn : \A x, y \in Chunks(c) : x..y \subseteq Chunks(c)
     /\ sentAll \subseteq 1..taken
     /\ 1..(taken - 1) \subseteq sentAll
     /\ ~inHand /\ ~Over => taken = 0 \/ taken \in sentAll

(* The code in an Exit frame is the shell's own (1 when a signal killed    *)
(* it); only a PTY that reports the hang-up before the child has been      *)
(* collected can make it the 0 of server.rs:253 and 262.                   *)
ExitCodeTruthful ==
  \A c \in Conn : \A i \in DOMAIN out[c] :
    out[c][i].kind = "Exit" =>
      /\ shell = "exited"
      /\ \/ out[c][i].val = IF status = -1 THEN 1 ELSE status
         \/ PtyHangup /\ out[c][i].val = 0

(* However a session ends by itself, a client it has taken up and that is  *)
(* still there has been told so by Exit (server.rs:301), but for two kinds *)
(* of end that say nothing: no shell could be spawned (line 135), or the   *)
(* PTY or wait() failed (197-202, 247, 264, 280).  In particular the error *)
(* of a connection (242, 257) ends the session only if that connection is  *)
(* the client's own, and it is gone.                                       *)
EndAnnounced ==
  Over /\ pc # "aborted" /\ framed # NoConn /\ peer[framed] = "open" =>
    \/ out[framed] # <<>> /\ out[framed][Len(out[framed])].kind = "Exit"
    \/ pc \in {"noShell", "ioError"}

(* What gritty ls shows: a live session is marked attached exactly while   *)
(* the task serves a client, and detached only once that client has left,  *)
(* through every takeover and reconnect (server.rs:184-186 and 289-291).   *)
AttachedFlag ==
  ~Over /\ attached # "unset" =>
    /\ attached = "yes" <=> pc \in {"relay", "write", "send"}
    /\ attached = "no" => peer[framed] # "open"

(* The shell outlives every client and not the task: a task that is over   *)
(* leaves no running shell, and one that returned on its own (not killed)  *)
(* did so because the shell had exited (server.rs:279-303, 42-47).         *)
ShellFate ==
  /\ Over => shell # "running"
  /\ shell = "hup" => Over
  /\ pc = "done" /\ kill = "no" => shell = "exited"

(* The task keeps the promises the daemon relies on: hand-offs are served  *)
(* in order, one at a time, with at most one last word each.  A connection *)
(* being taken up (new_framed, server.rs:272-275) still counts as queued.  *)
Promise == INSTANCE SessionTask WITH
  phase <- CASE pc = "awaitFirst"  -> "waiting"
             [] pc = "awaitClient" -> "idle"
             [] Over               -> "over"
             [] OTHER              -> "serving",
  seen  <- {c \in Conn : peer[c] # "idle"},
  queue <- IF newer = NoConn THEN rx ELSE <<newer>> \o rx,
  owner <- framed,
  word  <- [c \in Conn |->
             IF \E i \in DOMAIN out[c] : IsFinal(out[c][i])
             THEN out[c][Len(out[c])].kind ELSE "none"]

ImplementsTask == Promise!Spec

-----------------------------------------------------------------------------
(* The two awaits of the relay that have no timeout: a send to a client    *)
(* that does not read (server.rs:234, 257, 274 and 301), and the wait for  *)
(* room in the PTY of a shell that does not read (197).                    *)
ReaderStalled ==
  pc = "send" /\ peer[framed] = "open" /\ Len(out[framed]) - got[framed] >= SockCap
InputFull == pc = "write" /\ ~wready /\ ~Room
Blocked == ReaderStalled \/ InputFull

(* A client handed to the session is served in the end, or the session is  *)
(* over, unless the relay stays blocked for ever on a client or a shell    *)
(* that stopped reading (server.rs:197, 234, 257, 274, 301).               *)
TakeoverServed == \A c \in Conn : (c \in Queued) ~> (framed = c \/ Over \/ []Blocked)

(* Once the shell has exited the session ends (server.rs:279-303), with    *)
(* the same exception.                                                     *)
ShellExitEndsSession == (shell = "exited") ~> (Over \/ []Blocked)

(* README.md:9: shells survive client disconnect and network failure.      *)
SurvivesDisconnect == pc = "lost" => shell # "hup"
=============================================================================
