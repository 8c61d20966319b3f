----------------------------- MODULE Lifecycle -----------------------------
(***************************************************************************)
(* Daemons that come and go on one control path, and the commands and      *)
(* clients that find them there: the fork and the readiness pipe of main,  *)
(* bind_unix_listener of security.rs, the first and the last lines of      *)
(* daemon::run, new_session and attach of main, and the reconnect loop of  *)
(* client::run.                                                            *)
(*                                                                         *)
(* A process is one `gritty daemon`; between two of its system calls       *)
(* anything else may run.  What a daemon does for its sessions is in       *)
(* Daemon and Session: here a request is served in one step.               *)
(***************************************************************************)
EXTENDS Integers, FiniteSets

CONSTANTS
  Proc,     \* daemon processes, each started at most once
  NoProc,   \* "nobody": no socket file, no PID file
  User,     \* `gritty new` and `gritty attach` processes
  Name,     \* names of sessions; some may read like ids
  NoName,   \* a session without a name
  Target    \* what `gritty attach -t` is given: names and ids

ASSUME LifecycleConstants ==
  /\ NoProc \notin Proc
  /\ NoName \notin Name \cup Nat
  /\ Target \subseteq Name \cup Nat

VARIABLES
  pc,       \* where each process is, see below
  parent,   \* the process that forked it: "none" before that, then "waiting",
            \* "byte" (one is in the pipe), "started" or "failed"
  sock,     \* whose socket the file at ctl_path is
  pidfile,  \* who is named in daemon.pid
  nextId,   \* next_id of each daemon
  live,     \* sessions that run
  made,     \* how many sessions there ever were
  user      \* of each user: where it is ("away", "trying", "asked", "in",
            \* "lost" or "gone"), the daemon it asked, the request, the session
            \* it is in, and the first one it was in (only remembered)

fileVars == <<sock, pidfile>>
procVars == <<pc, parent>>
sessVars == <<nextId, live, made>>
vars == <<procVars, fileVars, sessVars, user>>

(* serial tells apart sessions that have the same host and id.             *)
Session == [host : Proc, id : Nat, name : Name \cup {NoName}, serial : Nat]
NoSession == [host |-> NoProc, id |-> 0, name |-> NoName, serial |-> 0]

Away == [at |-> "away", lis |-> NoProc, op |-> "New", key |-> NoName,
         cur |-> NoSession, own |-> NoSession]
Gone == [Away EXCEPT !.at = "gone"]

(* "off", then "bind", or "probe", "remove", "rebind" when the path is     *)
(* taken, "listen" (bound and not yet listening), "chmod", "ready", "pid", *)
(* "serve", at last "unlink", "unpid", "ended".  "failed": run returned    *)
(* an error; "dead": killed, or stopped by an error of the system.         *)
Starting == {"bind", "probe", "remove", "rebind", "listen", "chmod", "ready", "pid"}
Over == {"ended", "failed", "dead"}
Running(p) == pc[p] \notin Over \cup {"off"}
Listening(p) == pc[p] \in {"chmod", "ready", "pid", "serve", "unlink", "unpid"}

(* connect(ctl_path) finds the listener whose socket file is there. *)
Reachable(p) == sock = p /\ Listening(p)

Init ==
  /\ pc = [p \in Proc |-> "off"] /\ parent = [p \in Proc |-> "none"]
  /\ sock = NoProc /\ pidfile = NoProc
  /\ nextId = [p \in Proc |-> 0] /\ live = {} /\ made = 0
  /\ user = [u \in User |-> Away]

-----------------------------------------------------------------------------
(* Whoever has a connection to a daemon or session that ends sees it       *)
(* closed: a client goes on to reconnect, a command gives up.              *)
CutOff(U) ==
  user' = [u \in User |->
            IF u \notin U THEN user[u]
            ELSE IF user[u].own = NoSession THEN Gone
            ELSE [user[u] EXCEPT !.at = "lost", !.lis = NoProc, !.cur = NoSession]]

Hosted(p) == {s \in live : s.host = p}
Guests(S) == {u \in User : user[u].cur \in S}
(* The order of the accept queue is left open. *)
Callers(p) == {u \in User : user[u].lis = p}

-----------------------------------------------------------------------------
(* Starting.  Operators named after a bug are never used by an action.     *)
Go(p, from, to) == pc[p] = from /\ pc' = [pc EXCEPT ![p] = to]

Start(p) ==
  /\ Go(p, "off", "bind")
  /\ parent' = [parent EXCEPT ![p] = "waiting"]
  /\ UNCHANGED <<fileVars, sessVars, user>>

TryBind(p, from, taken) ==
  IF sock = NoProc THEN Go(p, from, "listen") /\ sock' = p
                   ELSE Go(p, from, taken) /\ UNCHANGED sock

BindPidFirst(p) ==
  /\ TryBind(p, "bind", "probe")
  /\ pidfile' = p
  /\ UNCHANGED <<parent, sessVars, user>>

Bind(p) ==
  /\ TryBind(p, "bind", "probe")
  /\ UNCHANGED <<pidfile, parent, sessVars, user>>

(* The connect to a socket that is in the way: does somebody answer?       *)
InUseNever == FALSE
InUse == sock # NoProc /\ Listening(sock)

Probe(p) ==
  /\ Go(p, "probe", IF InUse THEN "failed" ELSE "remove")
  /\ UNCHANGED <<fileVars, parent, sessVars, user>>

StaleStays == UNCHANGED sock
StaleRemoved == sock' = NoProc

(* remove_file fails when the file has gone meanwhile. *)
Remove(p) ==
  /\ Go(p, "remove", IF sock = NoProc THEN "failed" ELSE "rebind")
  /\ StaleRemoved
  /\ UNCHANGED <<pidfile, parent, sessVars, user>>

Rebind(p) ==
  /\ TryBind(p, "rebind", "failed")
  /\ UNCHANGED <<pidfile, parent, sessVars, user>>

Listen(p) ==
  /\ Go(p, "listen", "chmod")
  /\ UNCHANGED <<fileVars, parent, sessVars, user>>

(* set_socket_permissions works on whatever is at the path. *)
Chmod(p) ==
  /\ Go(p, "chmod", IF sock = NoProc THEN "failed" ELSE "ready")
  /\ IF sock = NoProc THEN CutOff(Callers(p)) ELSE UNCHANGED user
  /\ UNCHANGED <<fileVars, parent, sessVars>>

(* The byte in the pipe; then the write end is closed. *)
Ready(p) ==
  /\ Go(p, "ready", "pid")
  /\ parent' = [parent EXCEPT ![p] = "byte"]
  /\ UNCHANGED <<fileVars, sessVars, user>>

(* The PID file and the signal handlers; a crash between the two looks     *)
(* like one just after them.                                               *)
WritePid(p) ==
  /\ Go(p, "pid", "serve")
  /\ pidfile' = p
  /\ UNCHANGED <<sock, parent, sessVars, user>>

-----------------------------------------------------------------------------
(* Ending.  The sessions are aborted (kill-server, SIGTERM or SIGINT), ... *)
Stop(p) ==
  /\ Go(p, "serve", "unlink")
  /\ live' = live \ Hosted(p)
  /\ CutOff(Guests(Hosted(p)))
  /\ UNCHANGED <<fileVars, parent, nextId, made>>

(* ... the two files are removed, whoever has made them, ... *)
Unlink(p) ==
  /\ Go(p, "unlink", "unpid")
  /\ sock' = NoProc
  /\ UNCHANGED <<pidfile, parent, sessVars, user>>

(* ... and the process ends, with what is left in its backlog. *)
Unpid(p) ==
  /\ Go(p, "unpid", "ended")
  /\ pidfile' = NoProc
  /\ CutOff(Callers(p))
  /\ UNCHANGED <<sock, parent, sessVars>>

(* SIGKILL at any time, a signal before the handlers exist, an error from  *)
(* fork, the directory, the PID file or accept: both files stay.           *)
Crash(p) ==
  /\ Running(p)
  /\ pc' = [pc EXCEPT ![p] = "dead"]
  /\ live' = live \ Hosted(p)
  /\ CutOff(Guests(Hosted(p)) \cup Callers(p))
  /\ UNCHANGED <<fileVars, parent, nextId, made>>

(* A read of the pipe gives its byte, or EOF once the child has ended: the *)
(* parent dropped its own write end.                                       *)
EofSoon(p) == TRUE
Eof(p) == pc[p] \in Over

ParentReads(p) ==
  /\ \/ parent[p] = "byte" /\ parent' = [parent EXCEPT ![p] = "started"]
     \/ parent[p] = "waiting" /\ Eof(p) /\ parent' = [parent EXCEPT ![p] = "failed"]
  /\ UNCHANGED <<pc, fileVars, sessVars, user>>

ProcStep(p) ==
  \/ Bind(p) \/ Probe(p) \/ Remove(p) \/ Rebind(p) \/ Listen(p) \/ Chmod(p)
  \/ Ready(p) \/ WritePid(p) \/ Unlink(p) \/ Unpid(p)

-----------------------------------------------------------------------------
(* Users.  new_session gives up when nobody listens, attach waits.         *)
NewSession(u, n) ==
  /\ user[u].at = "away"
  /\ user' = [user EXCEPT ![u] =
       IF InUse THEN [Away EXCEPT !.at = "asked", !.lis = sock, !.key = n] ELSE Gone]
  /\ UNCHANGED <<procVars, fileVars, sessVars>>

Attach(u, t) ==
  /\ user[u].at = "away"
  /\ user' = [user EXCEPT ![u] = [Away EXCEPT !.at = "trying", !.op = "Attach", !.key = t]]
  /\ UNCHANGED <<procVars, fileVars, sessVars>>

(* One pass of a loop that tries every second, in attach and in run. *)
Connect(u) ==
  /\ user[u].at \in {"trying", "lost"} /\ InUse
  /\ user' = [user EXCEPT ![u].at = "asked", ![u].lis = sock]
  /\ UNCHANGED <<procVars, fileVars, sessVars>>

(* resolve_session: names come first. *)
Resolve(p, t) ==
  LET named == {s \in Hosted(p) : s.name = t}
  IN  IF named # {} THEN named ELSE {s \in Hosted(p) : s.id = t}

SmallestFreeId(p) == CHOOSE i \in 0 .. nextId[p] : \A s \in Hosted(p) : s.id # i
FreshId(p) == nextId[p]

Refuse(u) == user' = [user EXCEPT ![u] = Gone] /\ UNCHANGED sessVars

(* SessionCreated: from now on the client asks for its session by id. *)
Create(p, u) ==
  LET new == [host |-> p, id |-> FreshId(p), name |-> user[u].key, serial |-> made + 1]
  IN /\ made' = made + 1
     /\ nextId' = [nextId EXCEPT ![p] = @ + 1]
     /\ live' = live \cup {new}
     /\ user' = [user EXCEPT ![u] = [at |-> "in", lis |-> NoProc, op |-> "Attach",
                                      key |-> new.id, cur |-> new, own |-> new]]

NameTaken(p, n) == n # NoName /\ \E s \in Hosted(p) : s.name = n

ServeNew(p, u) ==
  /\ pc[p] = "serve" /\ u \in Callers(p) /\ user[u].op = "New"
  /\ IF NameTaken(p, user[u].key) THEN Refuse(u) ELSE Create(p, u)
  /\ UNCHANGED <<procVars, fileVars>>

(* Ok and the hand-off; who was in the session is told Detached and ends.  *)
Enter(u, s) ==
  user' = [v \in User |->
            IF v = u THEN [user[u] EXCEPT !.at = "in", !.lis = NoProc, !.cur = s,
                                          !.own = IF @ = NoSession THEN s ELSE @]
            ELSE IF v \in Guests({s}) THEN Gone ELSE user[v]]

ServeAttach(p, u) ==
  /\ pc[p] = "serve" /\ u \in Callers(p) /\ user[u].op = "Attach"
  /\ \/ Resolve(p, user[u].key) = {} /\ Refuse(u)
     \/ \E s \in Resolve(p, user[u].key) : Enter(u, s) /\ UNCHANGED sessVars
  /\ UNCHANGED <<procVars, fileVars>>

(* The shell exits and the client is told; or kill-session, and it is not. *)
SessionEnds(s) ==
  /\ live' = live \ {s}
  /\ \/ user' = [u \in User |-> IF u \in Guests({s}) THEN Gone ELSE user[u]]
     \/ Reachable(s.host) /\ pc[s.host] = "serve" /\ CutOff(Guests({s}))
  /\ UNCHANGED <<procVars, fileVars, nextId, made>>

(* The network takes the connection away. *)
Break(u) ==
  /\ user[u].at \in {"asked", "in"}
  /\ CutOff({u})
  /\ UNCHANGED <<procVars, fileVars, sessVars>>

(* ~. or Ctrl-C *)
Quit(u) ==
  /\ user[u].at \in {"trying", "in", "lost"}
  /\ user' = [user EXCEPT ![u] = Gone]
  /\ UNCHANGED <<procVars, fileVars, sessVars>>

Serve(p) == \E u \in User : ServeNew(p, u) \/ ServeAttach(p, u)

Next ==
  \/ \E p \in Proc : Start(p) \/ ProcStep(p) \/ ParentReads(p) \/ Stop(p) \/ Crash(p) \/ Serve(p)
  \/ \E s \in live : SessionEnds(s)
  \/ \E u \in User :
       \/ \E n \in Name \cup {NoName} : NewSession(u, n)
       \/ \E t \in Target : Attach(u, t)
       \/ Connect(u) \/ Break(u) \/ Quit(u)

Spec == Init /\ [][Next]_vars

(* Nobody starts a daemon while another one is starting. *)
OneStarts == \A p, q \in Proc : pc[p] \in Starting /\ pc[q] \in Starting => p = q
Solo == Init /\ [][Next /\ OneStarts']_vars

(* A process that is starting or stopping runs on. *)
FairSolo == Solo /\ \A p \in Proc : WF_vars(ProcStep(p))

-----------------------------------------------------------------------------
(* Every variable has its type. *)
TypeOK ==
  /\ pc \in [Proc -> Starting \cup Over \cup {"off", "serve", "unlink", "unpid"}]
  /\ parent \in [Proc -> {"none", "waiting", "byte", "started", "failed"}]
  /\ sock \in Proc \cup {NoProc} /\ pidfile \in Proc \cup {NoProc}
  /\ nextId \in [Proc -> Nat] /\ made \in Nat
  /\ live \subseteq Session
  /\ user \in [User -> [at : {"away", "trying", "asked", "in", "lost", "gone"},
                        lis : Proc \cup {NoProc}, op : {"New", "Attach"},
                        key : Name \cup {NoName} \cup Nat,
                        cur : Session \cup {NoSession}, own : Session \cup {NoSession}]]

(* A daemon that has bound its socket (and told its parent so) is the one  *)
(* that clients find at the path, until it stops: whatever crashes left    *)
(* behind, and whoever else starts, fails to start or stops.  For          *)
(* start-ups that do not overlap (security.rs:33-55, daemon.rs:107).       *)
PathKept == \A p \in Proc : pc[p] \in {"ready", "pid", "serve"} => Reachable(p)

(* daemon.pid never names another process than the daemon that serves: it  *)
(* names it, or is missing when an older daemon, still stopping, removed   *)
(* it (daemon.rs:108, 140).                                                *)
PidNeverMisleads == \A p \in Proc : pc[p] = "serve" => pidfile \in {p, NoProc}

(* "daemon started" is only said of a daemon that was bound, "daemon       *)
(* failed to start" never of one that runs (main.rs:113-126).              *)
ParentTruthful ==
  \A p \in Proc :
    /\ parent[p] \in {"byte", "started"} => pc[p] \notin {"off", "failed"} \cup (Starting \ {"pid"})
    /\ parent[p] = "failed" => ~Running(p)

(* A client that lost its connection and asks the same daemon for its      *)
(* session by id gets that session or an error; the one other session it   *)
(* can get bears the id as its name (daemon.rs:57-66).  However many came  *)
(* and went, no id is used twice (196-197).                                *)
OnlyANamesakeHides ==
  \A u \in User : LET me == user[u] IN
    me.cur # NoSession /\ me.key = me.own.id /\ me.cur.host = me.own.host
      => me.cur = me.own \/ me.cur.name = me.key

(* With no other daemon running a start succeeds, whatever socket a crash  *)
(* left behind, unless the process is killed (security.rs:45-49).          *)
Recovers ==
  \A p \in Proc :
    pc[p] = "bind" /\ (\A q \in Proc \ {p} : ~Running(q)) ~> pc[p] \in {"serve", "dead"}

(* security.rs:29: "TOCTOU-safe stale socket handling": two daemons never  *)
(* both come up on one path.                                               *)
OneDaemon == \A p, q \in Proc : pc[p] \in {"pid", "serve"} /\ pc[q] \in {"pid", "serve"} => p = q

(* README.md:202: when its session is gone, a reconnect reports an error.  *)
ReconnectOwn == \A u \in User : user[u].cur \in {NoSession, user[u].own}
=============================================================================
