# A verification project for gritty

gritty keeps login shells alive in a daemon and lets terminal clients attach to
them, lose them and find them again. This directory holds TLA+ models of its
parts, TLC configurations that check them on small instances, and proofs of
what matters most for every instance. Line numbers in comments and in
`PROJECT.json` refer to `src/src/*.rs`.

## The system

| Part | State | Operations | Talks to |
|---|---|---|---|
| **session task**, `server::run` (server.rs) | PTY master, shell, the one attached connection, `client_rx`, metadata (`attached`, `last_heartbeat`) | wait for a first client, wait 100 ms for its Env, spawn the shell, relay, be taken over, wait for another client, end | clients by framed socket; shell by PTY; daemon by channel and `JoinHandle` |
| **daemon**, `daemon::run` (daemon.rs) | map of sessions (handle, `client_tx`, name, metadata), `next_id`, socket and PID file | accept, check uid, New, Attach, List, Kill, KillServer, reap, shutdown on signal | clients by one control request each; tasks by hand-off and abort |
| **client**, `client::run`, `relay` (client.rs) | connection, `last_pong`, what is left of the Env, escape state | first frames, stdin, frames, SIGWINCH, heartbeat tick, reconnect loop | terminal; daemon and session through one socket, perhaps an SSH tunnel |
| **escape processor** (client.rs) | `EscapeState`, `data_buf` | `process` one read of stdin | relay |
| **tunnel**, `connect::run`, `tunnel_monitor` (connect.rs) | ssh child, exit times, cancellation token | spawn, wait for the socket, respawn, give up, clean up | ssh |
| **command line**, `main` (main.rs) | a forked child and a pipe to it | daemonize, new-session, attach, list, kill, kill-server, connect | daemon by fork and by one request each |
| **socket set-up**, `bind_unix_listener` (security.rs) | the file at `ctl_path` | bind, probe, remove, bind again, chmod | other daemons, by that file |
| **codec**, `FrameCodec` (protocol.rs) | the read buffer of a stream | encode, decode | both ends of every connection |
| lib.rs | none | read three variables of the environment | client |

One Unix socket carries everything. The daemon reads one request from a
connection; for New and Attach it answers and passes the connection itself to
the session task through an unbounded channel, and is out of the loop. A newer
connection pushes the older one aside (`Detached`). When a connection dies the
client asks the daemon for its session again, once a second.

### What is hard

* *Await points.* Each of the three loops is one task; everything else may
  happen at each await, and some awaits sit inside a `select!` arm, where the
  other arms do not run (server.rs:197, 234, 257, 274; daemon.rs:176; client.rs:280, 428).
* *Endings.* A shell ends by itself; the PTY, `wait()` and `try_wait()` notice
  it in any order. A task ends by itself, by an error, or dropped by an abort
  at any await point. `is_closed` and `is_finished` notice *that* at different times.
* *Hand-off races.* A session may end, be killed or be taken over between the
  check, the answer and the hand-off; several clients may queue up.
* *Failing connections.* A client leaves by EOF, by reset, in the middle of a
  frame, or stops reading; a tunnel stalls, breaks, comes back.
* *Daemons that come and go.* Start-up is a row of system calls on shared files,
  and a daemon may die between any two; ids start again with each.
* *Framing.* Reads hold any part of any number of frames; lists are texts whose
  items may hold the separators.
* *Time.* 100 ms for Env, 5 s for a send, 5 and 15 s for the heartbeat, 1 s
  between attempts.

`PROJECT.json` lists every hazard at its line with the properties that would
catch it.

### What makes each part correct

* Session: every client is told at most one last word, and nothing after it;
  shell output reaches clients once and in order; the exit code is true and is
  announced; the shell outlives clients and not the task; the `attached` flag
  is right; newcomers are served and an ended shell ends the session, unless the
  task is blocked for ever on somebody who stopped reading.
* Daemon: live sessions stay reachable; names are unique; a client gets the
  session it asked for; nobody joins a killed session; requests are answered
  unless a silent client keeps the loop; a shutdown ends everything.
* Client: it ends for a reason and never for a network failure; it greets each
  connection the right way; the heartbeat raises no false alarm and misses no
  dead link; the reconnect loop ends when the path is back.
* Escape: what is typed comes out, once, in order, whatever the reads.
* Start and end of daemons: who is started is found at the path and keeps it; the
  parent tells the truth; a crash does not keep the next daemon from starting;
  a client that comes back gets its own session, but for two ways
  in which it gets another (a restart, and a session named like its id).
* Codec: frames come out as they went in; an error or a clean end means what it says.
* Tunnel: it comes back, or connect ends; it is given up only for a reason; a
  monitor that is told to stop leaves no ssh.

## The modules

```
SessionTask      what a session task promises            (abstract)
Session          server::run, implements SessionTask     MCSession
SessionProofs    theorems about Session: types, last words, output, how it
                 ends, what it shows, that it implements SessionTask
Daemon           daemon::run over one SessionTask per id MCDaemon
DaemonProofs     theorems about Daemon: registry, hand-offs, its tasks
Client           client::run and relay                   MCClient
ClientProofs     theorems about Client: why it ends, its heartbeat, its first frames
Escape           EscapeProcessor                         MCEscape
EscapeProofs     theorems about Escape: what its state says, what comes out
Tunnel           connect::run and tunnel_monitor
TunnelProofs     theorems about Tunnel
Lifecycle        daemons on one path, their parents, and users who come back
LifecycleProofs  theorems about Lifecycle
Codec            FrameCodec at the two ends of a stream   MCCodec
CodecProofs      theorems about Codec: what is encoded is decoded, how the stream ends
Lists            lemmas about sequences, for the proofs about Escape, Tunnel, Codec
```

Conventions. Each loop is one `pc`; a value of `pc` is an await point, and one
action runs from an await point to the next. The arms of a `select!` are
actions with the same `pc`. A connection, a frame and a chunk of output are
values; sockets are sequences with a capacity. An operator named after a bug
(`EndWithoutHangup`, `ReapedIdle`, `EofQuits`, ...) stands just before the
operator that it would replace; no action uses it, and putting it in that
place breaks the property listed under "mutants" in `PROJECT.json`.

### Session and SessionTask

`Session` has the task (`pc`, `rx`, `framed`, `newer` = the `new_framed` of
server.rs:272, `reply` = the frame being sent), the metadata, the PTY (`inp`,
`written`, `taken`, and `wready`, tokio's cached readiness), the shell, and for
each client the frames it sent and was sent. Output chunks are numbered, so
that losing, doubling and reordering show. `peer` says what follows the unread
frames of a client: nothing yet, an Exit frame, EOF, or an error.

* A send waits while the socket is full (`SockCap`), may succeed while the peer
  is there, and fails once it is gone. Only the send of Data is followed by
  `?` (server.rs:257), hence `Fatal`.
* `WritePty` is the single write after `writable()`: with a stale readiness bit
  it writes nothing, and the frame is gone.
* `EnvFrame` consumes whatever frame comes first, as the `match` at
  server.rs:102-113 does.
* `PtyHangup` says whether the PTY reports EOF or EIO when the shell is gone. On
  Linux it does not while `cmd` (server.rs:118) still holds the slave's
  descriptors, or a background job does; the run `session` allows it, the
  liveness runs do not rely on it.
* The task ends in five ways, told apart by `pc`: "done" (`break` or `Ok`), "noShell"
  (`SetUpFails`, or the spawn), "ioError" (`WriteFails`: a PTY whose slave is gone
  refuses the write with EIO; `IoFails`: every other error of the PTY or of
  `wait()`), "lost" (a read error or a failed send of Data), and "aborted".
  `SetUpFails` and `IoFails` may happen at any time and never have to, so they
  are no part of `Task`, whose progress is assumed.
* Background jobs that outlive the shell are not modelled.

`SessionTask` has only phases, the queue of hand-offs and each client's last
word. The mapping is in `Session!Promise`: a connection in `newer` still
counts as queued, the last word is read off what was sent.

### Daemon

The loop (`pc`, `cur`, `reply`, `to`), the map (`listed`, `name`, `nextId`),
and one abstract task per id: `phase`, `rx`, `owner`, and `word` per client.
Two moments of a task's end are kept apart because the code looks at both:
`Closed` (its channel is dropped, `is_closed`, daemon.rs:229) and `joined`
(`is_finished`, daemon.rs:45). `abort` only asks. A reply is short and its
socket fresh, so sending it does not block, but `Answer` is an action of its
own since tasks run meanwhile. `IdText` is `to_string` of an id, and ids and
names are of one type of texts, which is what `resolve_session` is about.
`NewSession` looks for the name without reaping, as the code does.

### Client

Time is counted in heartbeat intervals (`quiet`). At a tick three intervals
after the last Pong the comparison with 15 s is a matter of milliseconds, so
both outcomes are possible; at the fourth it is certain. On a clear path all
that is due arrives long before the next tick (`Settled`); a stalled path
delivers nothing and gives no error, a broken one kills the connection. A
session task that is blocked looks like a stalled path to its client. While
suspended the client does nothing; after a long suspension the overdue tick and
a buffered Pong race. `todo` holds what one read of stdin was turned into; a
failed send empties it, as the early return does. The old connection stays
open until a reconnect has worked (client.rs:431).

The other end is external to `Client`: it answers an Attach, sends output,
Pongs and one last word. `again`, `unwell` and `quit` only remember; no action
reads them.

### Escape

Bytes are abstracted to the classes the `match` tells apart. `Data(bytes)`
actions are written out as their bytes, so the order of data and commands is
visible and the (irrelevant) cutting of data into actions is not. `EndChunk` at
any time is every way to cut the input into reads. The reference in
`MCEscape!MatchesReference` says of each position of the input what it yields,
from the two bytes before it only.

### Tunnel

`main` is `connect::run`, `mon` the monitor, `ssh` the one ssh process there can
be: a new one is only spawned once the last has been waited for. The two tasks
run on different threads, so the monitor's look at the token (`MonWake`) and its
spawn (`MonSpawn`) are two steps. `Exit` is `process::exit` in main.rs: it needs
no turn of the monitor, and ends it. Time is counted in seconds with the
numbers of the code; what takes far less than a second is `Due` and happens
before the next `Tick`. `path` = "down" is every reason for which ssh exits with
255. `life` and `shortest` only remember.

### Lifecycle

The view from the control path. A process goes through the system calls of
`daemonize`, `bind_unix_listener` and the first lines of `daemon::run` one at a
time (`pc`), and may be killed between any two (`Crash`, which also stands for
the errors of fork, directory, PID file and accept). `sock` and `pidfile` say
whose the two files are; they outlive their process, and are removed by name,
whoever made them. Between bind and listen a socket refuses connections like a
stale one. `parent` is what the forking process knows; a daemon started with
`--foreground` is one whose parent is not looked at.

A user is a `gritty new`, which gives up when nobody listens, or a `gritty
attach`, which waits; both reconnect as `client::run` does, `new` by the id it
was given and `attach` by the target it was given. Requests are served in one
step, since what happens inside one is in `Daemon`, and in any order, which
allows more than the accept queue. `own` is the first session a user was in and
`serial` tells sessions of one host and id apart; both only remember.
A name may read like an id (`Name` may hold numbers), and then comes first.
`Solo` are the behaviours in which start-ups do not overlap.

### Codec

A sender, a stream of bytes, and the decoder with its buffer. `Encode`, `Parse`
and the operators below them follow the code byte by byte, except that numbers
in the texts have one digit and text is ASCII. `VarOf` and `EntryOf` make of a
line None or Some, as a sequence of no or one element, and `FilterMap` puts
those together. `Receive` cuts the stream anywhere; `Close` ends it or loses
what is on the way. `SendJunk` are bytes no frame encodes to. After an error
nobody in gritty reads on. What may be sent are values of `Frame` (`IsValue`)
whose payload is within MAX_FRAME_SIZE (`FramesFit`): `encode` does not look at
the length, so that a longer list would be refused at the other end.

`FramesIntact` asks of a list that comes out that it falls into stretches, one for
each item that went in, in order; the stretch of an item without separators in
its texts is that item. So an item with a newline in its name may come out as
two, or not at all, and nothing else changes.

## The runs

| Run | What it shows |
|---|---|
| `session` | 2 clients with 1 frame each, 2 chunks of output, every capacity 1, a shell that ends by a signal, errors of the PTY, of the spawn and of connections, kills at any time. `LastWord`, `OutputOnce`, `ExitCodeTruthful`, `EndAnnounced`, `ShellFate`, `AttachedFlag`, and `ImplementsTask`: the detailed task is a SessionTask. 1.8 million states. |
| `session_live` | Nobody kills the session; clients and shell may stop reading for good, and there is room for less than they are sent: `TakeoverServed`, `ShellExitEndsSession`, each up to a relay that stays `Blocked` for ever. 230 thousand states. |
| `session_survive` | *violated*: an abrupt disconnect hangs up on the shell. |
| `daemon` | 3 control connections, 2 sessions, every order of New and Kill of a name, Attach to an id and List, sessions and clients ending at any time: `LiveSessionsListed`, `UniqueNames`, `HandedWhereAsked`, `KilledTakesNobody`, and `TasksKeepPromise`: what the daemon does to tasks is allowed by SessionTask. 1.3 million states. |
| `daemon_live` | 2 users, a stranger, requests that are wrong or end the daemon, clients that stay silent: `RequestAnswered` (up to a silent client that keeps the loop for ever), `ShutdownCompletes`. |
| `client` | All stalls and breaks of the path, takeovers, ends, suspensions, `~.` and `~?` before and after data: `EndsForAReason`, `HelloFirst`, `NoFalseAlarm`, `DeadLinkNoticed`, `Reconnects`, `CtrlCAborts`. |
| `escape` | All inputs of up to 6 bytes in all cuts: `MatchesReference`, `StateMatches`. |
| `tunnel` | The real limits (5 exits, 10 s, 1 s, 15 s), ssh dying at any time for any reason, the network coming and going, signals at any point: `GivesUpOnlyIfFast`, `StopLeavesNothing`, `SomebodyWatches`, `TunnelBack`, `ConnectEnds`. |
| `lifecycle` | Two processes, the second started at any point of the life of the first that is not its start-up; two users; one name, one id, and one name that reads like it; crashes, stops, broken connections at any point: `PathKept`, `PidNeverMisleads`, `ParentTruthful`, `OnlyANamesakeHides`, `Recovers`. 225 thousand states. |
| `start_race` | *violated*: of daemons that start together one takes the path from the other. |
| `reconnect` | *violated*: after a restart a client is attached to a stranger's session. |
| `codec` | Two of 33 frames (every kind of payload, lists with separators at every place, the greatest length, data that looks like a header) or of 5 byte strings that are no frame, in every way to cut them into reads or break them off: `FramesIntact`, `EndsTruthfully`, `NothingHeldBack`. 257 thousand states. |

### Bounds

`MaxFrames` and `MaxChunks` bound what clients and shell write. One frame per
client reaches every arm with every state of the other arms; two chunks are the
least that can be reordered or split over two clients. Capacities of 1 make
everything that can be full, full. Two connections suffice for a takeover
racing every ending; what more clients could add is the order of hand-offs,
which `LastWordIsLast` (proved for any number) and `daemon` (three) look at. In
`session_live` two frames of each client meet a PTY with room for one (`InCap`),
so that the write at server.rs:197 does block; `Kinds` keeps to Data there, the
kind that fills the PTY. The other runs of `Session` use every kind.
`MaxSessions` = 2 lets a name be taken again after its session ended. In
`Daemon` a client asks once, as each gritty command does. `MaxKeys` and
`MaxInbox` bound queues of `Client`, whose runs are otherwise unbounded: any
number of reconnects. `Status` in `session` is the one that is converted;
`ExitCodesAreTrue` is proved for every set. `MaxTyped` = 6 holds two complete
escapes with a newline between them. In `Tunnel` lives of more than two seconds
(`Long`) are alike: five exits with such lives between them take over ten
seconds. In `Lifecycle` two processes give a crash or a stop and a successor, and
two users give a session that is taken over or taken by its id; the theorems
hold for any number. `MaxFrameSize` = 28 is the length of the longest of the
frames, and two frames suffice for one to follow another in every cut.
No run checks for deadlock: everything modelled here may end.

### Fairness

* The runtime polls a task that can run: `WF_vars(Task)`, `WF_vars(Step)`. A
  `select!` starts at a random arm, so an arm that is ready again and again is
  taken: `SF_vars(Takeover)`, `SF_vars(ShellDone)`, `SF_vars(Tick)`.
* `Session` assumes nothing of the clients and the shell, which may stop reading
  for good. The two liveness properties therefore end in `[]Blocked`: the task
  stays for ever in a send to a client that is there and does not read
  (`ReaderStalled`, server.rs:234, 257, 274, 301), or in the wait for room in the
  PTY's input (`InputFull`, server.rs:197), even after the shell has ended.
  With only one of the two exceptions the properties fail, so both happen in the
  run.
* `LoopFairness`: accept does not fail. Nothing is assumed of the daemon's clients:
  the request is read without a timeout, and `RequestAnswered` has the one
  exception that a silent client keeps the loop for ever (`[]Starved`).
* `Client`: what a clear path has to carry arrives. The user need not type, and
  the shell need not end.
* `Lifecycle`: a process that is starting or stopping runs on, for `Recovers`.
* `Tunnel`: both tasks are scheduled, time passes, and an ssh whose path is up
  binds its socket unless it is killed before, each time (`SF_vars(SshBinds)`).

## What the violated properties mean

1. `SurvivesDisconnect` (server.rs:242, 257): a reset connection, or output that
   cannot be sent, ends the task with an error, and `ManagedChild` hangs up on
   the shell. README.md:9 promises survival.
2. `OneDaemon` (security.rs:33-52): the shortest run needs two daemons. One has
   bound and not yet listened, the other is refused, takes its socket for a stale
   one, removes it and binds. Or both have seen the same stale socket. Both tell
   their parents that they have started; only one is found. `PathKept` shows that
   nothing of the kind happens when start-ups do not overlap.
3. `ReconnectOwn` (daemon.rs:143, client.rs:419): ids start at 0 with every daemon,
   and a client of `gritty new` comes back by id. README.md:202 promises an error.

Some passing properties name an exception, which happens in their runs and which
a document says does not:

* `TakeoverServed` (server.rs:234, 257, 274): the attached client is suspended or
  its path stalls, its socket fills, and the task waits in the send. A newcomer
  was answered Ok and waits for as long. README.md:178 says that the old client
  is detached.
* `OnlyANamesakeHides` (daemon.rs:57-66, 183-186): within one daemon a session named
  "0" is found before the one with id 0, by whose id its client comes back. There
  is no other way into another session of the same daemon.
* `CtrlCAborts` (client.rs:428): the reconnect loop looks for the key between two
  attempts only, and the wait for the answer has no timeout. README.md:200 promises
  that Ctrl-C aborts the reconnect.

Two more have no property, since there is nothing between them and what the models do:

* The channel of a session is closed only when its task has noticed the end of the
  shell (daemon.rs:229-238). A client that is handed over before that is told Ok
  and then dropped, which tests/daemon_test.rs:733 calls a regression; the test
  waits a second first.
* The guard of connect gave its child to the monitor (connect.rs:368), so its drop
  (395) only cancels the token, and the process exits (main.rs:236) without waiting
  for the monitor: an ssh goes on running, against connect.rs:394 and README.md:92.
  `StopLeavesNothing` is about a monitor that gets its turn.

Also in the models, and not stated as properties because no document says
otherwise or the case is narrow: `EnvFrame` discards the first Resize of a
client without variables; a `~.` after data in one read is lost when the data cannot be sent
(`SendLost`); after `WritePty` found no room its input is lost; output still in
the PTY when `wait()` wins is never read; an Env that comes after the 100 ms of
server.rs:103 is ignored (`TakeEnv`); a session whose shell cannot be spawned,
or whose PTY fails, ends without an Exit (`EndAnnounced` says so); a client that has
been suspended for long may give up a connection that is well (`Resume`); a client whose send
fails does not read the Detached that had arrived, and takes its session back
(client.rs:280, 344); five exits of ssh in ten seconds, as in a short outage in
which it fails at once, end the tunnel (connect.rs:232); a daemon that is stopping
may remove the PID file of its successor (daemon.rs:108); a signal before the
handlers are set ends connect without its guard (`Signal`).

## Proofs

The proofs are checked by the TLA+ proof system. `SessionProofs` holds for every
set of clients, every bound and capacity, from `SessionConstants` only;
`DaemonProofs` for any clients, names and number of sessions, from
`DaemonConstants`; `LifecycleProofs` from `LifecycleConstants`; `TunnelProofs` for
any limit, window, pause and deadline, from `TunnelConstants`; `EscapeProofs`
needs no assumption. `CodecProofs` holds for any frames and any bytes that are
none, from `CodecConstants`, `FramesFit` and `JunkIsJunk`: it is about texts and
payloads of any length. `ClientProofs` uses `ClientConstants`, and two of its
theorems state what else they need: that the shell's exit code differs from the
client's own 0 and 1, or the two could not be told apart; and that the limit is
above one interval (15 and 5 seconds in the code) and the inbox can hold a Pong.

Every invariant of every passing run is a theorem. `StateMatches` and
`MatchesReference`, `TypeOK` and `GivesUpOnlyIfFast` of `Tunnel`, and all of `Codec`
are about data of any length, and most of them need induction. `Lists` has it as
facts about sets: a set that has 0 and the successors of its members has every number
(`Induction`, by the least number that is missing), and one that has `<<>>` and
what its members grow to has every sequence (`SeqInduction`). Where a definition
recurs over a sequence (`FlattenSeq`, `Split`), a lemma gives its partial results as
a function (`StepsExist`, `PiecesExist`) and shows that the definition returns the
last one (`FlattenBy`, `SplitBy`).

* `TypeCorrect`: `Spec => []TypeOK`. `TypeOK` is inductive together with
  `Control`: a task past its first client has one in `framed`, the frame it
  sends is a reply, and `newer` is set exactly while Detached is being sent.
  The proof follows the parts of `TypeOK` (`TaskTyped`, `ShellTyped`,
  `FlagsTyped`, `NetTyped`), each with one step per action. The Boolean variables
  have a part of their own because they are best left to first-order reasoning.
* `LastWordIsLast`: `Spec => []LastWord`. `LastWord` alone is not inductive: that
  no one hears anything after Detached needs that a connection is in one place
  only. `Custody` adds that: the connections in `rx` are distinct, none of
  them is `framed` or `newer`, those two differ, none of them all is still idle,
  and whoever has not been served yet has heard nothing. `CustodyKept` shows
  that every step keeps it (`TailShifts` and `ReceiveSplits` say what receiving
  from the queue does), `QuietStep` treats the steps that send nothing,
  `SendKeepsLastWord` the sends. `Solid` puts the four together.
* `ShellFateHolds`, `AttachedIsRight`: `Stage` ties the shell and the metadata
  slot to the await point: no shell and no slot before the Env wait ends, both
  ever after; "attached" exactly while a client is served, "detached" only when
  that client's end is gone. `StageKept` needs `Custody`: the connection that
  is opened by a hand-off is not the one whose loss was noticed.
* `ExitCodesAreTrue`: `Telling` adds the Exit that is about to be sent, since
  the code is chosen at one await point and sent at the next (`TellingKept`).
* `EndIsAnnounced`: over every ending but an abort. From `Stage`, since a task that
  ends while no client is served has noticed that the last one is gone
  (`EndAnnouncedKept`); an error of a connection is that client's own (`ErrorEnds`),
  and a task that is over stays so (`OverIsFinal`).
* `OutputIsRelayedOnce`: `OutputOnce` says nothing of the chunk that is in hand.
  `Counted` does: it is the next after all that were sent. `Pieces` adds that
  who is served has the latest chunk if it has any, so that what one client
  has stays contiguous: a client that was left never gets another chunk.
* `TaskIsImplemented`: each step of `Session` is a step of `SessionTask` or leaves
  what it shows alone, under the mapping of `ImplementsTask` (`PhaseBar`, `SeenBar`,
  `QueueBar`, `WordBar`). The invariants of `SessionProofs` are what makes it go
  through: that a connection that is taken from the queue has heard nothing
  is `Custody`, that Detached is the last word of the old one is `LastWord`.
* `NamesAreUnique`, `LiveAreListed`, `KilledStaysAlone`: `RegistryInv` is inductive
  with the types. Only tasks that are over are joined (`JoinedOver`), ids that
  were not given out have no task (`FreshIds`), what was killed is out of the map
  and is not where the answer under way leads (`KilledGone`).
* `HandedRight`: `HandInv`: a connection is in the queue of accept once
  (`QueuedOnce`) or is the one being handled (`HandledOnce`), nobody has a home
  without having asked (`HomeAsked`), and the answer that is being written
  leads to what was asked for (`AnswerAsked`), since the hand-off comes after it.
* `EveryTaskKeepsPromise`: for each id, every step of `Daemon` is a step of
  `SessionTask` or a stutter: from all of the above, and nobody who was not
  handed over has heard a last word (`Untold`).
* `EndsRightly`: `Truthful`: a session whose Exit can be read is gone, and a
  Detached that can be read is for a client that was replaced.
* `NoAlarmIsFalse`: `Alright`: while nothing went wrong with a connection, at most
  one interval has passed in silence, and then a Ping or its Pong is on the way.
* `GreetsFirst`: `HelloInv`: while the first frames are sent, what was said and what
  is left in `todo` are together the greeting (`Greets`), and the Env is gone before
  a second connection is tried.
* `StateIsRight`: `StateMatches` is not inductive, since after `~.` the state still is
  AfterTilde: `StateInv` adds that nothing is read after that (`Done`).
* `OutputIsReference`: one more byte leaves what earlier bytes yield alone
  (`OnePartMore`), so that the reference grows by one part (`ReferenceStep`), and each
  case of the `match` puts out just that part (`Output`).
* `StopIsClean`, `AlwaysWatched`: `TunnelProofs!Custody` is inductive: the
  monitor has a child exactly while it watches, the token is cancelled only
  when the guard is dropped, and a monitor that returned for the stop had no
  child any more. One step per action of each of the two tasks and the world.
* `TypesHold`, `GivesUpForSpeedOnly`: `Timed` says that the exits that are remembered
  are in order, that at least the pause and the shortest life lie between one and
  the next, and that all of them are as old as the pause and the life since then.
  `retain` (connect.rs:231) forgets a first part of such a list
  (`RememberedIsLastPart`), so the limit is reached at an exit and never passed,
  and the first of `MaxExits` exits is so many gaps old (`SpacedSum`).
* `FilesAreKept`, `PidIsRight`: for start-ups that do not overlap. `FilesInv` is
  inductive: from bind to unlink a daemon owns the socket at the path
  (`HoldersOwn`); a socket at the path was bound by somebody (`SockBound`), so that
  what refuses the probe of the only process that starts belongs to one that is
  over; and what is about to be removed stays stale (`StaleSafe`). `FilesStep`
  says what a step of one process does to the files.
* `TypeCorrect` of Lifecycle: with `AsksRight` (only an Attach asks for an id), one
  lemma each for processes, service, endings and users.
* `ParentIsTold`: inductive with the types, overlapping start-ups included.
* `SameSession`: `IdsInv`: of the sessions that run or that anybody is or was in
  (`Known`), no two of one host have the same id, all ids are below `next_id`, and
  who asked by an id is in a session with that id or that name. Every step but a new session
  and an attach `Settles`: it takes nobody into a session.

* `EndIsTruthful`, `AllHandedOut`: `StreamInv` is inductive: the buffer and the wire
  hold together the bytes of the items that are not out yet, one string for each
  (`Chunks`), where only a cut loses the last ones; and what came out is `Decoded`
  of what was sent. `FirstFound` says what a buffer finds that begins such a
  stream: nothing while its first item is not complete, then that frame, or an
  error if it is junk. It rests on `FrameFirst`, for which the length comes back
  from its four bytes (`U32Kept`) and the payload of every type is one that
  decode takes (`PayloadIsFrame`), and on `JunkFirst`.
* `FramesComeOut`: what decode makes of a frame's payload, type by type. Numbers come
  back from their bytes (`PairAgain`, `I32Kept`). For lists: the pieces of a text
  that join made are those of its items, one after the other (`SplitBoth`); so
  are what `lines` and `filter_map` make of them, but that a piece that is not
  the last one loses its return and an empty one at the end is no line
  (`LinesCollected`, `ListCollected`); and the text of a clean item is one piece,
  ends in no return, and comes back (`VarClean`, `EntryClean`). `ListIntact` reads
  the stretches off that.

Only model-checked: liveness, which the prover does not treat (`TakeoverServed`,
`ShellExitEndsSession`, `RequestAnswered`, `ShutdownCompletes`, `DeadLinkNoticed`,
`Reconnects`, `TunnelBack`, `ConnectEnds`, `Recovers`).

## Plan

Done: every part that keeps state, both refinements, and a theorem for every
invariant and every safety property of the runs. Left: liveness stays with TLC.

## Not modelled

Argument parsing and the tables that main.rs prints, the columns of `gritty ls`
that no other part reads, terminal modes, directory and socket permissions,
`clamp_winsize`, the ssh command lines, `collect_env_vars`: no state that
anything above depends on. Session tasks inside `Lifecycle`, and more than one
daemon inside `Daemon`: the two models meet at the request, which `Daemon` takes
apart and `Lifecycle` takes as one step.
