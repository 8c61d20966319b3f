------------------------------- MODULE Daemon -------------------------------
(***************************************************************************)
(* The gritty daemon: the accept loop of daemon::run with its session      *)
(* registry, the control connections of clients, and the session tasks it  *)
(* spawns, each as far as SessionTask promises (Session has the detail).   *)
(*                                                                         *)
(* The loop is one task; pc is the await point it is at: "accept" (the     *)
(* select!), "read" (the one request of a connection), "answer" (sending   *)
(* the reply), or how it ended: "down" (shut down) or "crashed" (an error  *)
(* from accept).  An answer is short and its socket fresh, so sending it   *)
(* does not block, but other tasks run meanwhile.                          *)
(***************************************************************************)
EXTENDS Integers, Sequences

CONSTANTS
  Client,       \* control connections, one per gritty command
  Stranger,     \* those whose peer runs under another uid
  NoClient,
  Text,         \* what users type as session names and targets
  NoName,       \* the empty name of an unnamed session
  IdText,       \* id.to_string() of each session id
  MaxSessions,  \* bound: sessions created in the daemon's lifetime
  Request       \* bound: the requests clients make

Ids == 0 .. (MaxSessions - 1)
NoId == MaxSessions
Ops == {"New", "Attach", "List", "Kill", "KillServer", "Other"}
NoRequest == [op |-> "none", arg |-> NoName]

ASSUME DaemonConstants ==
  /\ MaxSessions \in Nat
  /\ Stranger \subseteq Client /\ NoClient \notin Client
  /\ NoName \notin Text
  /\ IdText \in [Ids -> Text]
  /\ \A i, j \in Ids : IdText[i] = IdText[j] => i = j
  /\ Request \subseteq [op : Ops, arg : Text \cup {NoName}]

VARIABLES
  pc,       \* see above
  backlog,  \* connections waiting in the listener
  cur,      \* the connection being handled
  reply,    \* the answer being sent
  to,       \* the session the connection goes to after the answer, or NoId
  listed,   \* ids in the sessions map
  name,     \* name of each session ever created
  nextId,
  files,    \* do ctl.sock and daemon.pid exist?
  signal,   \* has SIGTERM or SIGINT arrived?
  phase,    \* of each session's task: "none" until spawned, then "waiting",
            \* "serving" or "idle", at last "exited", "failed" or "aborted"
  joined,   \* ids whose JoinHandle says is_finished
  abort,    \* ids whose JoinHandle was aborted
  rx,       \* each task's client_rx
  owner,    \* the client each task serves or served last
  stage,    \* of each connection: "away", "open" or "closed" (by the daemon)
  left,     \* connections whose client is gone
  req,      \* what each client asked
  answer,   \* what it was answered
  home,     \* the session it was handed to
  word      \* the session's last word to it: "none", "Detached" or "Exit"

loopVars == <<pc, cur, reply, to>>
mapVars  == <<listed, name, nextId, files>>
taskVars == <<phase, joined, rx, owner, word>>
connVars == <<stage, left, req, answer, home>>
vars == <<loopVars, mapVars, taskVars, connVars, backlog, signal, abort>>

Live(i) == phase[i] \in {"waiting", "serving", "idle"}
Up == pc \in {"accept", "read", "answer"}

Init ==
  /\ pc = "accept" /\ backlog = <<>> /\ cur = NoClient /\ reply = "none" /\ to = NoId
  /\ listed = {} /\ name = [i \in Ids |-> NoName] /\ nextId = 0
  /\ files = TRUE /\ signal = FALSE
  /\ phase = [i \in Ids |-> "none"] /\ joined = {} /\ abort = {}
  /\ rx = [i \in Ids |-> <<>>] /\ owner = [i \in Ids |-> NoClient]
  /\ stage = [c \in Client |-> "away"] /\ left = {}
  /\ req = [c \in Client |-> NoRequest] /\ answer = [c \in Client |-> "none"]
  /\ home = [c \in Client |-> NoId] /\ word = [c \in Client |-> "none"]

-----------------------------------------------------------------------------
(* The registry.  Operators named after a bug are never used by an action. *)
ReapedIdle == {i \in listed : phase[i] # "idle"}
Reaped == listed \ joined           \* reap_sessions

ResolveOrAny(target) ==
  LET named == {i \in Reaped : name[i] = target}
  IN  IF named # {} THEN named ELSE Reaped

(* Names come before ids; a name could be found in any order of the map.   *)
Resolve(target) ==
  LET named == {i \in Reaped : name[i] = target}
  IN  IF named # {} THEN named ELSE {i \in Reaped : IdText[i] = target}

NameUnchecked(n) == FALSE
NameTaken(n) == n # NoName /\ \E i \in listed : name[i] = n

(* client_tx.is_closed(): the task is over and its client_rx dropped. *)
Closed(i) == phase[i] \in {"exited", "failed", "aborted"}

(* Back to the top of the loop, which reaps before it waits. *)
Loop ==
  /\ pc' = "accept" /\ cur' = NoClient /\ reply' = "none" /\ to' = NoId
  /\ listed' = Reaped

(* shutdown: every session is aborted, socket and PID file are removed. *)
Shutdown ==
  /\ abort' = abort \cup listed
  /\ listed' = {}
  /\ files' = FALSE

Accept ==
  /\ pc = "accept" /\ backlog # <<>>
  /\ backlog' = Tail(backlog)
  /\ IF Head(backlog) \in Stranger
     THEN /\ stage' = [stage EXCEPT ![Head(backlog)] = "closed"]
          /\ Loop
     ELSE /\ pc' = "read" /\ cur' = Head(backlog)
          /\ UNCHANGED <<reply, to, listed, stage>>
  /\ UNCHANGED <<name, nextId, files, taskVars, left, req, answer, home, signal, abort>>

AcceptError ==
  /\ pc = "accept"
  /\ pc' = "crashed"
  /\ UNCHANGED <<cur, reply, to, mapVars, taskVars, connVars, backlog, signal, abort>>

OnSignal ==
  /\ pc = "accept" /\ signal
  /\ Shutdown
  /\ pc' = "down"
  /\ UNCHANGED <<cur, reply, to, name, nextId, taskVars, connVars, backlog, signal>>

(* The client left without a complete request.  There is no timeout: one   *)
(* that neither asks nor leaves keeps the loop here.                       *)
NoFrame ==
  /\ pc = "read"
  /\ req[cur] = NoRequest /\ cur \in left
  /\ stage' = [stage EXCEPT ![cur] = "closed"]
  /\ Loop
  /\ UNCHANGED <<name, nextId, files, taskVars, left, req, answer, home, backlog, signal, abort>>

-----------------------------------------------------------------------------
(* The handlers: what each does before it sends its answer. *)
Handle(op) ==
  /\ pc = "read" /\ req[cur].op = op
  /\ pc' = "answer"
  /\ UNCHANGED <<cur, joined, rx, owner, word, connVars, backlog, signal>>

Say(r, i) == reply' = r /\ to' = i

(* next_id += 1 *)
NextIdStays == nextId
NextId == nextId + 1

NewSession ==
  /\ Handle("New")
  /\ \/ /\ NameTaken(req[cur].arg)
        /\ Say("Error", NoId)
        /\ UNCHANGED <<mapVars, phase>>
     \/ /\ ~NameTaken(req[cur].arg) /\ nextId < MaxSessions
        /\ nextId' = NextId
        /\ phase' = [phase EXCEPT ![nextId] = "waiting"]
        /\ listed' = listed \cup {nextId}
        /\ name' = [name EXCEPT ![nextId] = req[cur].arg]
        /\ Say("Created", nextId)
        /\ UNCHANGED files
  /\ UNCHANGED abort

NoSuchSession ==
  /\ Resolve(req[cur].arg) = {}
  /\ listed' = Reaped
  /\ Say("Error", NoId)
  /\ UNCHANGED abort

Attach ==
  /\ Handle("Attach")
  /\ \/ NoSuchSession
     \/ \E i \in Resolve(req[cur].arg) :
          /\ IF Closed(i) THEN listed' = Reaped \ {i} /\ Say("Error", NoId)
                          ELSE listed' = Reaped /\ Say("Ok", i)
          /\ UNCHANGED abort
  /\ UNCHANGED <<name, nextId, files, phase>>

ListSessions ==
  /\ Handle("List")
  /\ listed' = Reaped
  /\ Say("Info", NoId)
  /\ UNCHANGED <<name, nextId, files, phase, abort>>

ForgottenKeeps(i) == listed' = Reaped
Forgotten(i) == listed' = Reaped \ {i}

KillSession ==
  /\ Handle("Kill")
  /\ \/ NoSuchSession
     \/ \E i \in Resolve(req[cur].arg) :
          /\ Forgotten(i)
          /\ abort' = abort \cup {i}
          /\ Say("Ok", NoId)
  /\ UNCHANGED <<name, nextId, files, phase>>

KillServer ==
  /\ Handle("KillServer")
  /\ Shutdown
  /\ Say("Ok", NoId)
  /\ UNCHANGED <<name, nextId, phase>>

OtherAwaited == FALSE
OtherFrame ==
  /\ Handle("Other")
  /\ Say("Error", NoId)
  /\ UNCHANGED <<mapVars, phase, abort>>

(* KillServer was handled. *)
QuitsNever == FALSE
Quits == ~files

(* The answer is sent; then the connection goes to its session or is       *)
(* dropped (client_tx.send fails once the task's end of it is gone), and   *)
(* the loop goes on, or ends after KillServer.                             *)
Answer ==
  /\ pc = "answer"
  /\ answer' = [answer EXCEPT ![cur] = IF cur \in left THEN @ ELSE reply]
  /\ IF to # NoId /\ ~Closed(to)
     THEN /\ rx' = [rx EXCEPT ![to] = Append(@, cur)]
          /\ home' = [home EXCEPT ![cur] = to]
          /\ UNCHANGED stage
     ELSE /\ stage' = [stage EXCEPT ![cur] = "closed"]
          /\ UNCHANGED <<rx, home>>
  /\ \/ ~Quits /\ Loop
     \/ Quits /\ pc' = "down" /\ UNCHANGED <<cur, reply, to, listed>>
  /\ UNCHANGED <<name, nextId, files, phase, joined, owner, word, left, req, backlog, signal, abort>>

Step ==
  \/ Accept \/ AcceptError \/ OnSignal \/ NoFrame
  \/ NewSession \/ Attach \/ ListSessions \/ KillSession \/ KillServer \/ OtherFrame
  \/ Answer

-----------------------------------------------------------------------------
(* The session tasks, one for each id. *)
Task(i) ==
  UNCHANGED <<loopVars, mapVars, connVars, backlog, signal, abort>>

(* The first client, or the next one of a session that has none. *)
Serve(i) ==
  /\ phase[i] \in {"waiting", "idle"} /\ rx[i] # <<>>
  /\ phase' = [phase EXCEPT ![i] = "serving"]
  /\ owner' = [owner EXCEPT ![i] = Head(rx[i])]
  /\ rx' = [rx EXCEPT ![i] = Tail(@)]
  /\ UNCHANGED <<joined, word>> /\ Task(i)

TellExit(i, w) == word' = [word EXCEPT ![owner[i]] = "Exit"]
Tell(i, w) == word' = [word EXCEPT ![owner[i]] = IF owner[i] \in left THEN @ ELSE w]

Takeover(i) ==
  /\ phase[i] = "serving" /\ rx[i] # <<>>
  /\ Tell(i, "Detached")
  /\ owner' = [owner EXCEPT ![i] = Head(rx[i])]
  /\ rx' = [rx EXCEPT ![i] = Tail(@)]
  /\ UNCHANGED <<phase, joined>> /\ Task(i)

ClientGone(i) ==
  /\ phase[i] = "serving" /\ owner[i] \in left
  /\ phase' = [phase EXCEPT ![i] = "idle"]
  /\ UNCHANGED <<joined, rx, owner, word>> /\ Task(i)

(* The shell exits: the client is told, the task returns. *)
ShellExit(i) ==
  /\ phase[i] \in {"serving", "idle"}
  /\ phase' = [phase EXCEPT ![i] = "exited"]
  /\ IF phase[i] = "serving" THEN Tell(i, "Exit") ELSE UNCHANGED word
  /\ UNCHANGED <<joined, rx, owner>> /\ Task(i)

(* run returns an error: no shell, a broken connection, or a broken PTY. *)
Fail(i) ==
  /\ Live(i)
  /\ phase' = [phase EXCEPT ![i] = "failed"]
  /\ UNCHANGED <<joined, rx, owner, word>> /\ Task(i)

(* The runtime drops an aborted task some time after abort(), and every    *)
(* task when the daemon itself has ended.                                  *)
Cancelled(i) ==
  /\ Live(i) /\ (i \in abort \/ ~Up)
  /\ phase' = [phase EXCEPT ![i] = "aborted"]
  /\ UNCHANGED <<joined, rx, owner, word>> /\ Task(i)

(* ... and is_finished() turns true some time after client_rx is gone.     *)
Join(i) ==
  /\ Closed(i) /\ i \notin joined
  /\ joined' = joined \cup {i}
  /\ UNCHANGED <<phase, rx, owner, word>> /\ Task(i)

TaskStep(i) ==
  \/ Serve(i) \/ Takeover(i) \/ ClientGone(i) \/ Cancelled(i) \/ Join(i)

-----------------------------------------------------------------------------
(* Clients connect while the socket is there, ask once, and may leave.     *)
Connect(c) ==
  /\ stage[c] = "away" /\ Up /\ files
  /\ stage' = [stage EXCEPT ![c] = "open"]
  /\ backlog' = Append(backlog, c)
  /\ UNCHANGED <<loopVars, mapVars, taskVars, left, req, answer, home, signal, abort>>

Ask(c, r) ==
  /\ stage[c] = "open" /\ c \notin left /\ req[c] = NoRequest
  /\ req' = [req EXCEPT ![c] = r]
  /\ UNCHANGED <<loopVars, mapVars, taskVars, stage, left, answer, home, backlog, signal, abort>>

Leave(c) ==
  /\ stage[c] = "open" /\ c \notin left
  /\ left' = left \cup {c}
  /\ UNCHANGED <<loopVars, mapVars, taskVars, stage, req, answer, home, backlog, signal, abort>>

Signal ==
  /\ ~signal /\ Up
  /\ signal' = TRUE
  /\ UNCHANGED <<loopVars, mapVars, taskVars, connVars, backlog, abort>>

Next ==
  \/ Step \/ Signal
  \/ \E i \in Ids : TaskStep(i) \/ ShellExit(i) \/ Fail(i)
  \/ \E c \in Client : Connect(c) \/ Leave(c) \/ \E r \in Request : Ask(c, r)

Spec == Init /\ [][Next]_vars

(* The runtime runs the loop and the tasks.  accept does not fail.         *)
LoopFairness == WF_vars(Step /\ pc' # "crashed") /\ \A i \in Ids : WF_vars(TaskStep(i))

(* Nothing is assumed of the clients.                                      *)
FairDaemon == Spec /\ LoopFairness

-----------------------------------------------------------------------------
(* Every variable has its type. *)
TypeOK ==
  /\ pc \in {"accept", "read", "answer", "down", "crashed"}
  /\ backlog \in Seq(Client) /\ cur \in Client \cup {NoClient}
  /\ reply \in {"none", "Created", "Ok", "Error", "Info"} /\ to \in Ids \cup {NoId}
  /\ listed \subseteq 0 .. (nextId - 1) /\ name \in [Ids -> Text \cup {NoName}] /\ nextId \in 0 .. MaxSessions
  /\ files \in BOOLEAN /\ signal \in BOOLEAN
  /\ phase \in [Ids -> {"none", "waiting", "serving", "idle", "exited", "failed", "aborted"}]
  /\ joined \subseteq Ids /\ abort \subseteq Ids
  /\ rx \in [Ids -> Seq(Client)] /\ owner \in [Ids -> Client \cup {NoClient}]
  /\ stage \in [Client -> {"away", "open", "closed"}] /\ left \subseteq Client
  /\ req \in [Client -> Request \cup {NoRequest}]
  /\ answer \in [Client -> {"none", "Created", "Ok", "Error", "Info"}]
  /\ home \in [Client -> Ids \cup {NoId}]
  /\ word \in [Client -> {"none", "Detached", "Exit"}]

(* A session that is alive and was not killed can be listed, attached to   *)
(* and killed: no interleaving of reaping (daemon.rs:43), of the removal   *)
(* of a closed session in Attach (229) and of session ends loses it.       *)
LiveSessionsListed ==
  Up => \A i \in Ids : Live(i) /\ i \notin abort => i \in listed

(* Names lead to one session at most, although resolve_session takes the   *)
(* first match of a HashMap, whose order is random (daemon.rs:57).         *)
UniqueNames ==
  \A i, j \in listed : name[i] = name[j] /\ name[i] # NoName => i = j

(* A client ends up in the session it asked for by name or id, the creator *)
(* of a session is its first client, and no client is in two sessions      *)
(* (daemon.rs:196-223 and 227-238).                                        *)
Has(i, c) == owner[i] = c \/ \E k \in DOMAIN rx[i] : rx[i][k] = c
HandedWhereAsked ==
  \A c \in Client : \A i \in Ids :
    /\ Has(i, c) => home[c] = i
    /\ home[c] = i /\ req[c].op = "Attach" => req[c].arg \in {name[i], IdText[i]}
    /\ home[c] = i /\ req[c].op = "New" =>
         /\ name[i] = req[c].arg
         /\ \A d \in Client : home[d] = i /\ req[d].op = "New" => d = c

(* No client is handed to a session after it was killed, although its task *)
(* goes on for a while (daemon.rs:256-257).                                *)
KilledTakesNobody ==
  [][\A i \in abort : Len(rx'[i]) <= Len(rx[i])]_vars

(* Each session task keeps the promises of SessionTask, whatever the       *)
(* daemon does to it.                                                      *)
Promise(i) == INSTANCE SessionTask WITH
  Conn <- Client, NoConn <- NoClient,
  phase <- CASE phase[i] = "none" -> "waiting" [] Closed(i) -> "over" [] OTHER -> phase[i],
  seen  <- {c \in Client : home[c] = i},
  queue <- rx[i],
  owner <- owner[i],
  word  <- [c \in Client |-> IF home[c] = i THEN word[c] ELSE "none"]

TasksKeepPromise ==
  /\ \A i \in Ids : Promise(i)!Init
  /\ [][\A i \in Ids : Promise(i)!Next \/ UNCHANGED Promise(i)!vars]_vars

(* The request of a connection is read without a timeout (daemon.rs:176),  *)
(* and nothing else is accepted meanwhile: a client that neither asks nor  *)
(* leaves keeps the loop.                                                  *)
Starved == pc = "read" /\ req[cur] = NoRequest

(* Every request is answered, or its client or the daemon goes away, with  *)
(* one exception: some client that says nothing keeps the loop for ever.   *)
RequestAnswered ==
  \A c \in Client : req[c] # NoRequest ~>
    answer[c] # "none" \/ c \in left \/ stage[c] = "closed" \/ ~Up \/ []Starved

(* Once shut down, the daemon ends, and every session with it.             *)
ShutdownCompletes == ~files ~> (pc = "down" /\ \A i \in Ids : ~Live(i))
=============================================================================
