-------------------------- MODULE LifecycleProofs --------------------------
(***************************************************************************)
(* Proofs about Lifecycle, for any number of daemons, users and names.     *)
(*                                                                         *)
(* The files: with start-ups that do not overlap, a daemon that has bound  *)
(* the path keeps it until it removes the socket itself.                   *)
(***************************************************************************)
EXTENDS Lifecycle, TLAPS

PC == Starting \cup Over \cup {"off", "serve", "unlink", "unpid"}

FilesTypes ==
  /\ pc \in [Proc -> PC]
  /\ sock \in Proc \cup {NoProc} /\ pidfile \in Proc \cup {NoProc}

(* From bind to unlink the socket at the path is the daemon's own. *)
Holding == {"listen", "chmod", "ready", "pid", "serve", "unlink"}
HoldersOwn == \A p \in Proc : pc[p] \in Holding => sock = p

(* A socket at the path was bound by somebody. *)
SockBound == sock \in Proc => pc[sock] \in Holding \cup {"unpid"} \cup Over

(* What is about to be removed is stale, and stays so. *)
StaleSafe ==
  \A p \in Proc :
    /\ pc[p] = "remove" => sock = NoProc \/ pc[sock] \in Over
    /\ pc[p] = "rebind" => sock = NoProc

FilesInv ==
  /\ FilesTypes /\ OneStarts /\ HoldersOwn /\ SockBound /\ StaleSafe /\ PidNeverMisleads

LEMMA FilesInit == Init => FilesInv
<1> SUFFICES ASSUME Init PROVE FilesInv
  OBVIOUS
<1> USE LifecycleConstants DEF Init, PC, Starting, Over, Holding
<1>1. FilesTypes /\ OneStarts /\ HoldersOwn
  BY DEF FilesTypes, OneStarts, HoldersOwn
<1>2. SockBound /\ StaleSafe /\ PidNeverMisleads
  BY DEF SockBound, StaleSafe, PidNeverMisleads
<1> QED
  BY <1>1, <1>2 DEF FilesInv

(* What a step of one process does to the three variables. *)
FilesStep(p) ==
  \/ pc[p] = "off" /\ pc' = [pc EXCEPT ![p] = "bind"] /\ UNCHANGED fileVars
  \/ \E t \in {"probe", "failed"} :
       /\ pc[p] = IF t = "probe" THEN "bind" ELSE "rebind"
       /\ UNCHANGED pidfile
       /\ \/ sock = NoProc /\ sock' = p /\ pc' = [pc EXCEPT ![p] = "listen"]
          \/ sock # NoProc /\ sock' = sock /\ pc' = [pc EXCEPT ![p] = t]
  \/ Probe(p) \/ Remove(p) \/ Listen(p) \/ Chmod(p) \/ Ready(p) \/ WritePid(p)
  \/ Stop(p) \/ Unlink(p) \/ Unpid(p) \/ Crash(p)

LEMMA NextFiles ==
  ASSUME FilesInv, Next
  PROVE  UNCHANGED <<pc, fileVars>> \/ \E p \in Proc : FilesStep(p)
<1>1. CASE \E p \in Proc : Start(p) \/ Bind(p) \/ Rebind(p)
  BY <1>1 DEF FilesStep, Start, Bind, Rebind, TryBind, Go
<1>2. CASE \E p \in Proc : ParentReads(p) \/ Serve(p)
  BY <1>2 DEF ParentReads, Serve, ServeNew, ServeAttach, procVars
<1>3. CASE \E s \in live : SessionEnds(s)
  BY <1>3 DEF SessionEnds, procVars
<1>4. CASE \E u \in User : \/ \E n \in Name \cup {NoName} : NewSession(u, n)
                           \/ \E t \in Target : Attach(u, t)
                           \/ Connect(u) \/ Break(u) \/ Quit(u)
  BY <1>4 DEF NewSession, Attach, Connect, Break, Quit, procVars
<1>5. CASE \E p \in Proc : \/ Probe(p) \/ Remove(p) \/ Listen(p) \/ Chmod(p) \/ Ready(p)
                           \/ WritePid(p) \/ Stop(p) \/ Unlink(p) \/ Unpid(p) \/ Crash(p)
  BY <1>5 DEF FilesStep
<1> QED
  BY <1>1, <1>2, <1>3, <1>4, <1>5 DEF Next, ProcStep

LEMMA FilesNext == FilesInv /\ [Next /\ OneStarts']_vars => FilesInv'
<1> SUFFICES ASSUME FilesInv, [Next /\ OneStarts']_vars PROVE FilesInv'
  OBVIOUS
<1>1. CASE UNCHANGED <<pc, fileVars>>
  BY <1>1 DEF FilesInv, FilesTypes, OneStarts, HoldersOwn, SockBound, StaleSafe,
              PidNeverMisleads, fileVars
<1>2. CASE Next /\ OneStarts' /\ \E p \in Proc : FilesStep(p)
  <2> PICK p \in Proc : FilesStep(p)
    BY <1>2
  <2> OneStarts'
    BY <1>2
  <2> USE LifecycleConstants DEF FilesInv, fileVars, PC, Starting, Over, Holding
  <2>1. FilesTypes'
    BY DEF FilesStep, FilesTypes, Probe, Remove, Listen, Chmod, Ready, WritePid, Stop, Unlink,
           Unpid, Crash, Go, StaleRemoved
  <2>2. HoldersOwn'
    BY DEF FilesStep, FilesTypes, OneStarts, HoldersOwn, SockBound, StaleSafe,
           Probe, Remove, Listen, Chmod, Ready, WritePid, Stop, Unlink,
           Unpid, Crash, Go, StaleRemoved
  <2>3. SockBound'
    BY DEF FilesStep, FilesTypes, OneStarts, HoldersOwn, SockBound, 
           Probe, Remove, Listen, Chmod, Ready, WritePid, Stop, Unlink,
           Unpid, Crash, Go, StaleRemoved
  <2>4. StaleSafe'
    BY DEF FilesStep, FilesTypes, OneStarts, HoldersOwn, SockBound, StaleSafe,
           Probe, Remove, Listen, Chmod, Ready, WritePid, Stop, Unlink,
           Unpid, Crash, Go, StaleRemoved, InUse, Listening
  <2>5. PidNeverMisleads'
    BY DEF FilesStep, FilesTypes, HoldersOwn, PidNeverMisleads,
           Probe, Remove, Listen, Chmod, Ready, WritePid, Stop, Unlink,
           Unpid, Crash, Go
  <2> QED
    BY <2>1, <2>2, <2>3, <2>4, <2>5
<1> QED
  BY <1>1, <1>2, NextFiles DEF vars, procVars, fileVars

LEMMA FilesSafe == Solo => []FilesInv
  BY FilesInit, FilesNext, PTL DEF Solo

(* For any number of daemons whose start-ups do not overlap: one that has  *)
(* bound the path is found there, and no two of them serve                 *)
(* (security.rs:33-55, daemon.rs:107).                                     *)
THEOREM FilesAreKept == Solo => [](PathKept /\ OneDaemon)
<1>1. FilesInv => PathKept /\ OneDaemon
  BY DEF FilesInv, HoldersOwn, Holding, PathKept, Reachable, Listening, OneDaemon
<1> QED
  BY <1>1, FilesSafe, PTL

(* For any number of daemons whose start-ups do not overlap, daemon.pid    *)
(* names the daemon that serves or nobody (daemon.rs:108, 140).            *)
THEOREM PidIsRight == Solo => []PidNeverMisleads
<1>1. FilesInv => PidNeverMisleads
  BY DEF FilesInv
<1> QED
  BY <1>1, FilesSafe, PTL

-----------------------------------------------------------------------------
(* Types.  The steps are those of Spec, overlapping start-ups included.    *)
UserType ==
  [at : {"away", "trying", "asked", "in", "lost", "gone"},
   lis : Proc \cup {NoProc}, op : {"New", "Attach"},
   key : Name \cup {NoName} \cup Nat,
   cur : Session \cup {NoSession}, own : Session \cup {NoSession}]

(* Only an Attach asks for an id. *)
AsksRight == \A u \in User : user[u].op = "New" => user[u].key \in Name \cup {NoName}
TypeInv == TypeOK /\ AsksRight

LEMMA CutOffTypes ==
  ASSUME NEW U, user \in [User -> UserType], AsksRight, CutOff(U)
  PROVE  user' \in [User -> UserType] /\ AsksRight'
<1>1. Gone \in UserType
  BY DEF Gone, Away, UserType, NoSession
<1>2. \A u \in User : [user[u] EXCEPT !.at = "lost", !.lis = NoProc, !.cur = NoSession] \in UserType
  BY DEF UserType
<1>3. user' \in [User -> UserType]
  BY <1>1, <1>2 DEF CutOff
<1>4. \A u \in User : user'[u] = Gone \/ (user'[u].op = user[u].op /\ user'[u].key = user[u].key)
  BY DEF CutOff, UserType
<1> QED
  BY <1>3, <1>4 DEF AsksRight, Gone, Away

LEMMA TypeInit == Init => TypeInv
  BY LifecycleConstants DEF Init, TypeInv, AsksRight, TypeOK, Starting, Over, Away, NoSession

LEMMA ProcTypes ==
  ASSUME TypeInv, NEW p \in Proc,
         Start(p) \/ ProcStep(p) \/ ParentReads(p) \/ Stop(p) \/ Crash(p)
  PROVE  TypeInv'
<1> TypeOK /\ AsksRight /\ user \in [User -> UserType]
  BY DEF TypeInv, TypeOK, UserType
<1>1. user' \in [User -> UserType] /\ AsksRight'
  <2>1. CASE \E U : CutOff(U)
    BY <2>1, CutOffTypes
  <2>2. UNCHANGED user \/ \E U : CutOff(U)
    BY DEF Start, ProcStep, ParentReads, Stop, Crash, Bind, Probe, Remove, Rebind, Listen,
           Chmod, Ready, WritePid, Unlink, Unpid
  <2> QED
    BY <2>1, <2>2 DEF AsksRight
<1>2. /\ nextId' = nextId /\ made' = made /\ live' \subseteq live
  BY DEF Start, ProcStep, ParentReads, Stop, Crash, Bind, Probe, Remove, Rebind, Listen,
         Chmod, Ready, WritePid, Unlink, Unpid, sessVars
<1>3. /\ pc' \in [Proc -> Starting \cup Over \cup {"off", "serve", "unlink", "unpid"}]
      /\ parent' \in [Proc -> {"none", "waiting", "byte", "started", "failed"}]
      /\ sock' \in Proc \cup {NoProc} /\ pidfile' \in Proc \cup {NoProc}
  BY DEF Start, ProcStep, ParentReads, Stop, Crash, Bind, Probe, Remove, Rebind, Listen,
         Chmod, Ready, WritePid, Unlink, Unpid, Go, TryBind, StaleRemoved, fileVars,
         TypeOK, Starting, Over
<1> QED
  BY <1>1, <1>2, <1>3 DEF TypeInv, TypeOK, UserType

LEMMA UserTypes ==
  ASSUME TypeInv, NEW u \in User,
         \/ \E n \in Name \cup {NoName} : NewSession(u, n)
         \/ \E t \in Target : Attach(u, t)
         \/ Connect(u) \/ Break(u) \/ Quit(u)
  PROVE  TypeInv'
<1> TypeOK /\ AsksRight /\ user \in [User -> UserType]
  BY DEF TypeInv, TypeOK, UserType
<1>1. user' \in [User -> UserType] /\ AsksRight'
  <2>1. CASE Break(u)
    BY <2>1, CutOffTypes DEF Break
  <2>2. CASE \E n \in Name \cup {NoName} : NewSession(u, n)
    <3> PICK n \in Name \cup {NoName} : NewSession(u, n)
      BY <2>2
    <3> DEFINE r == IF InUse THEN [Away EXCEPT !.at = "asked", !.lis = sock, !.key = n] ELSE Gone
    <3>1. r \in UserType /\ r.key \in Name \cup {NoName}
      BY DEF Away, Gone, NoSession, UserType, TypeOK
    <3>2. user' = [user EXCEPT ![u] = r]
      BY DEF NewSession
    <3> HIDE DEF r
    <3> QED
      BY <3>1, <3>2 DEF AsksRight
  <2>3. CASE \E t \in Target : Attach(u, t)
    <3> PICK t \in Target : Attach(u, t)
      BY <2>3
    <3> DEFINE r == [Away EXCEPT !.at = "trying", !.op = "Attach", !.key = t]
    <3>1. r \in UserType /\ r.op = "Attach"
      BY LifecycleConstants DEF Away, NoSession, UserType
    <3>2. user' = [user EXCEPT ![u] = r]
      BY DEF Attach
    <3> HIDE DEF r
    <3> QED
      BY <3>1, <3>2 DEF AsksRight
  <2>4. CASE Connect(u)
    <3> DEFINE r == [user[u] EXCEPT !.at = "asked", !.lis = sock]
    <3>1. r \in UserType /\ r.op = user[u].op /\ r.key = user[u].key
      BY DEF UserType, TypeOK
    <3>2. user' = [user EXCEPT ![u] = r]
      BY <2>4 DEF Connect
    <3> HIDE DEF r
    <3> QED
      BY <3>1, <3>2 DEF AsksRight
  <2>5. CASE Quit(u)
    <3>1. Gone \in UserType /\ Gone.key \in Name \cup {NoName}
      BY DEF Gone, Away, NoSession, UserType
    <3>2. user' = [user EXCEPT ![u] = Gone]
      BY <2>5 DEF Quit
    <3> QED
      BY <3>1, <3>2 DEF AsksRight
  <2> QED
    BY <2>1, <2>2, <2>3, <2>4, <2>5
<1>2. UNCHANGED <<pc, parent, sock, pidfile, nextId, live, made>>
  BY DEF NewSession, Attach, Connect, Break, Quit, procVars, fileVars, sessVars
<1> QED
  BY <1>1, <1>2 DEF TypeInv, TypeOK, UserType

LEMMA ServeTypes ==
  ASSUME TypeInv, NEW p \in Proc, Serve(p)
  PROVE  TypeInv'
<1> TypeOK /\ AsksRight /\ user \in [User -> UserType]
  BY DEF TypeInv, TypeOK, UserType
<1> PICK u \in User : ServeNew(p, u) \/ ServeAttach(p, u)
  BY DEF Serve
<1>0. UNCHANGED <<pc, parent, sock, pidfile>>
  BY DEF ServeNew, ServeAttach, procVars, fileVars
<1>1. CASE Refuse(u)
  <2>1. Gone \in UserType /\ Gone.key \in Name \cup {NoName}
    BY DEF Gone, Away, NoSession, UserType
  <2>2. user' \in [User -> UserType] /\ AsksRight'
    BY <1>1, <2>1 DEF Refuse, AsksRight
  <2> QED
    BY <2>2, <1>0, <1>1 DEF Refuse, sessVars, TypeInv, TypeOK, UserType
<1>2. CASE ServeNew(p, u) /\ Create(p, u)
  <2> DEFINE new == [host |-> p, id |-> FreshId(p), name |-> user[u].key, serial |-> made + 1]
             r == [at |-> "in", lis |-> NoProc, op |-> "Attach",
                   key |-> new.id, cur |-> new, own |-> new]
  <2>1. nextId[p] \in Nat /\ made \in Nat
    BY DEF TypeOK
  <2>2. new \in Session /\ new.id \in Nat
    BY <1>2, <2>1 DEF ServeNew, AsksRight, Session, FreshId
  <2>3. /\ made' = made + 1 /\ nextId' = [nextId EXCEPT ![p] = @ + 1]
        /\ live' = live \cup {new} /\ user' = [user EXCEPT ![u] = r]
    BY <1>2 DEF Create
  <2> HIDE DEF new
  <2>4. r \in UserType /\ r.op = "Attach"
    BY <2>2 DEF UserType
  <2> HIDE DEF r
  <2>5. user' \in [User -> UserType] /\ AsksRight'
    BY <2>3, <2>4 DEF AsksRight
  <2>6. nextId' \in [Proc -> Nat] /\ made' \in Nat /\ live' \subseteq Session
    BY <2>1, <2>2, <2>3 DEF TypeOK
  <2> QED
    BY <2>5, <2>6, <1>0 DEF TypeInv, TypeOK, UserType
<1>3. CASE \E s \in Resolve(p, user[u].key) : Enter(u, s) /\ UNCHANGED sessVars
  <2> PICK s \in Hosted(p) : Enter(u, s) /\ UNCHANGED sessVars
    BY <1>3 DEF Resolve
  <2>1. s \in Session
    BY DEF Hosted, TypeOK
  <2> DEFINE r == [user[u] EXCEPT !.at = "in", !.lis = NoProc, !.cur = s,
                                  !.own = IF @ = NoSession THEN s ELSE @]
  <2>2. r \in UserType /\ r.op = user[u].op /\ r.key = user[u].key
    BY <2>1 DEF UserType
  <2>3. user' = [v \in User |-> IF v = u THEN r ELSE IF v \in Guests({s}) THEN Gone ELSE user[v]]
    BY DEF Enter
  <2> HIDE DEF r
  <2>4. Gone \in UserType /\ Gone.key \in Name \cup {NoName}
    BY DEF Gone, Away, NoSession, UserType
  <2>5. user' \in [User -> UserType] /\ AsksRight'
    BY <2>2, <2>3, <2>4 DEF AsksRight
  <2> QED
    BY <2>5, <1>0 DEF sessVars, TypeInv, TypeOK, UserType
<1> QED
  BY <1>1, <1>2, <1>3 DEF ServeNew, ServeAttach

LEMMA EndTypes ==
  ASSUME TypeInv, NEW s \in live, SessionEnds(s)
  PROVE  TypeInv'
<1> TypeOK /\ AsksRight /\ user \in [User -> UserType]
  BY DEF TypeInv, TypeOK, UserType
<1>1. Gone \in UserType /\ Gone.key \in Name \cup {NoName}
  BY DEF Gone, Away, NoSession, UserType
<1>2. user' \in [User -> UserType] /\ AsksRight'
  BY <1>1, CutOffTypes DEF SessionEnds, AsksRight
<1> QED
  BY <1>2 DEF SessionEnds, procVars, fileVars, TypeInv, TypeOK, UserType

LEMMA TypeNext == TypeInv /\ [Next]_vars => TypeInv'
<1> SUFFICES ASSUME TypeInv, [Next]_vars PROVE TypeInv'
  OBVIOUS
<1>1. CASE UNCHANGED vars
  BY <1>1 DEF vars, procVars, fileVars, sessVars, TypeInv, TypeOK, AsksRight
<1> QED
  BY <1>1, ProcTypes, ServeTypes, EndTypes, UserTypes DEF Next

(* The types of all variables of Lifecycle. *)
THEOREM TypeCorrect == Spec => []TypeOK
<1>1. Spec => []TypeInv
  BY TypeInit, TypeNext, PTL DEF Spec
<1>2. TypeInv => TypeOK
  BY DEF TypeInv
<1> QED
  BY <1>1, <1>2, PTL

-----------------------------------------------------------------------------
(* What the parent says: inductive with the types. *)
LEMMA ParentNext == TypeOK /\ ParentTruthful /\ [Next]_vars => ParentTruthful'
<1> SUFFICES ASSUME TypeOK, ParentTruthful, [Next]_vars PROVE ParentTruthful'
  OBVIOUS
<1>1. CASE UNCHANGED procVars
  BY <1>1 DEF procVars, ParentTruthful, Running
<1>2. CASE \E p \in Proc : ParentReads(p)
  BY <1>2 DEF ParentReads, Eof, TypeOK, ParentTruthful, Running, Starting, Over
<1>3. CASE \E p \in Proc : Start(p) \/ ProcStep(p) \/ Stop(p) \/ Crash(p)
  BY <1>3 DEF Start, ProcStep, Stop, Crash, Bind, Probe, Remove, Rebind, Listen,
              Chmod, Ready, WritePid, Unlink, Unpid, Go, TryBind,
              TypeOK, ParentTruthful, Running, Starting, Over
<1>4. UNCHANGED procVars \/ \E p \in Proc : Start(p) \/ ProcStep(p) \/ ParentReads(p) \/ Stop(p) \/ Crash(p)
  BY DEF Next, Serve, ServeNew, ServeAttach, SessionEnds, NewSession, Attach, Connect, Break,
         Quit, vars
<1> QED
  BY <1>1, <1>2, <1>3, <1>4

(* "daemon started" and "daemon failed to start" are true, for any number  *)
(* of daemons, overlapping start-ups included (main.rs:113-126).           *)
THEOREM ParentIsTold == Spec => []ParentTruthful
<1>1. Init => ParentTruthful
  BY DEF Init, ParentTruthful
<1> QED
  BY <1>1, TypeCorrect, ParentNext, PTL DEF Spec

-----------------------------------------------------------------------------
(* Ids.  Of the sessions that run, or that some user is or was in, no two  *)
(* of one daemon have the same id, and the next id is above all of theirs. *)
Known == (live \cup {user[u].cur : u \in User} \cup {user[u].own : u \in User}) \ {NoSession}

IdsInv ==
  /\ \A s \in Known : s.id < nextId[s.host]
  /\ \A s, t \in Known : s.host = t.host /\ s.id = t.id => s = t
  /\ \A u \in User : user[u].cur # NoSession => user[u].key \in {user[u].cur.id, user[u].cur.name}

(* A step that takes nobody into a session. *)
Settles ==
  /\ live' \subseteq live /\ nextId' = nextId
  /\ \A u \in User :
       /\ user'[u].cur \in {user[u].cur, NoSession} /\ user'[u].own \in {user[u].own, NoSession}
       /\ user'[u].cur = NoSession \/ user'[u].key = user[u].key

LEMMA CutOffSettles ==
  ASSUME TypeOK, NEW U, CutOff(U), live' \subseteq live, nextId' = nextId
  PROVE  Settles
  BY DEF CutOff, Settles, TypeOK, Gone, Away

LEMMA SettlesKeeps ==
  ASSUME TypeOK, IdsInv, Settles
  PROVE  IdsInv'
<1>1. Known' \subseteq Known
  BY DEF Known, Settles
<1> QED
  BY <1>1 DEF IdsInv, Settles

LEMMA CreateKeeps ==
  ASSUME TypeInv, IdsInv, NEW p \in Proc, NEW u \in User, ServeNew(p, u), Create(p, u)
  PROVE  IdsInv'
<1> TypeOK
  BY DEF TypeInv
<1> DEFINE new == [host |-> p, id |-> FreshId(p), name |-> user[u].key, serial |-> made + 1]
           r == [at |-> "in", lis |-> NoProc, op |-> "Attach",
                 key |-> new.id, cur |-> new, own |-> new]
<1>1. /\ nextId' = [nextId EXCEPT ![p] = @ + 1]
      /\ live' = live \cup {new} /\ user' = [user EXCEPT ![u] = r]
  BY DEF Create
<1>2. nextId[p] \in Nat /\ nextId'[p] = nextId[p] + 1 /\ new.id = nextId[p] /\ new.host = p
  BY <1>1 DEF TypeOK, FreshId
<1>3. r.cur = new /\ r.own = new /\ r.key = new.id
  OBVIOUS
<1> HIDE DEF new, r
<1>4. Known' \subseteq Known \cup {new}
  BY <1>1, <1>3 DEF Known, TypeOK
<1>5. \A s \in Known : s \in Session
  BY DEF Known, TypeOK
<1>6. \A s \in Known : s.host \in Proc /\ s.id \in Nat /\ s.id < nextId[s.host]
  BY <1>5 DEF IdsInv, Session
<1>7. \A s \in Known' : s.id < nextId'[s.host]
  BY <1>1, <1>2, <1>4, <1>6 DEF TypeOK
<1>8. \A s, t \in Known' : s.host = t.host /\ s.id = t.id => s = t
  BY <1>2, <1>4, <1>6 DEF IdsInv
<1>9. \A v \in User :
        user'[v].cur # NoSession => user'[v].key \in {user'[v].cur.id, user'[v].cur.name}
  BY <1>1, <1>3 DEF IdsInv, TypeOK
<1> QED
  BY <1>7, <1>8, <1>9 DEF IdsInv

LEMMA EnterKeeps ==
  ASSUME TypeOK, IdsInv, NEW p \in Proc, NEW u \in User,
         NEW s \in Resolve(p, user[u].key), Enter(u, s), UNCHANGED sessVars
  PROVE  IdsInv'
<1> DEFINE r == [user[u] EXCEPT !.at = "in", !.lis = NoProc, !.cur = s,
                                !.own = IF @ = NoSession THEN s ELSE @]
<1>1. user' = [v \in User |-> IF v = u THEN r ELSE IF v \in Guests({s}) THEN Gone ELSE user[v]]
  BY DEF Enter
<1>2. r.cur = s /\ r.own \in {s, user[u].own} /\ r.key = user[u].key
  BY DEF TypeOK
<1> HIDE DEF r
<1>3. s \in live /\ s \in Session
  BY DEF Resolve, Hosted, TypeOK
<1>4. Gone.cur = NoSession /\ Gone.own = NoSession
  BY DEF Gone, Away
<1>5. Known' \subseteq Known
  BY <1>1, <1>2, <1>3, <1>4 DEF Known, sessVars
<1>6. r.key \in {s.id, s.name}
  BY <1>2 DEF Resolve, Hosted
<1> QED
  BY <1>1, <1>2, <1>4, <1>5, <1>6 DEF IdsInv, sessVars

LEMMA IdsNext == TypeInv /\ IdsInv /\ [Next]_vars => IdsInv'
<1> SUFFICES ASSUME TypeInv, IdsInv, [Next]_vars PROVE IdsInv'
  OBVIOUS
<1> TypeOK
  BY DEF TypeInv
<1>1. CASE UNCHANGED vars
  BY <1>1, SettlesKeeps DEF vars, sessVars, Settles
<1>2. ASSUME NEW p \in Proc, Start(p) \/ ProcStep(p) \/ ParentReads(p) \/ Stop(p) \/ Crash(p)
      PROVE  IdsInv'
  <2>1. live' \subseteq live /\ nextId' = nextId /\ (UNCHANGED user \/ \E U : CutOff(U))
    BY <1>2 DEF Start, ProcStep, ParentReads, Stop, Crash, Bind, Probe, Remove, Rebind, Listen,
                Chmod, Ready, WritePid, Unlink, Unpid, sessVars
  <2> QED
    BY <2>1, CutOffSettles, SettlesKeeps DEF Settles
<1>3. ASSUME NEW p \in Proc, Serve(p) PROVE IdsInv'
  <2> PICK u \in User : ServeNew(p, u) \/ ServeAttach(p, u)
    BY <1>3 DEF Serve
  <2>1. CASE Refuse(u)
    BY <2>1, SettlesKeeps DEF Refuse, sessVars, Settles, Gone, Away, TypeOK
  <2>2. CASE ServeNew(p, u) /\ Create(p, u)
    BY <2>2, CreateKeeps
  <2>3. CASE \E s \in Resolve(p, user[u].key) : Enter(u, s) /\ UNCHANGED sessVars
    BY <2>3, EnterKeeps
  <2> QED
    BY <2>1, <2>2, <2>3 DEF ServeNew, ServeAttach
<1>4. ASSUME NEW s \in live, SessionEnds(s) PROVE IdsInv'
  <2>1. CASE user' = [u \in User |-> IF u \in Guests({s}) THEN Gone ELSE user[u]]
    BY <1>4, <2>1, SettlesKeeps DEF SessionEnds, Settles, Gone, Away
  <2>2. CASE CutOff(Guests({s}))
    BY <1>4, <2>2, CutOffSettles, SettlesKeeps DEF SessionEnds
  <2> QED
    BY <1>4, <2>1, <2>2 DEF SessionEnds
<1>5. ASSUME NEW u \in User, \/ \E n \in Name \cup {NoName} : NewSession(u, n)
                             \/ \E t \in Target : Attach(u, t)
                             \/ Connect(u) \/ Quit(u)
      PROVE  IdsInv'
  <2>1. /\ \A v \in User \ {u} : user'[v] = user[v]
        /\ UNCHANGED sessVars
    BY <1>5 DEF NewSession, Attach, Connect, Quit, TypeOK
  <2>2. \/ user'[u].cur = NoSession /\ user'[u].own = NoSession
        \/ user'[u].cur = user[u].cur /\ user'[u].own = user[u].own /\ user'[u].key = user[u].key
    <3>1. CASE Connect(u)
      BY <3>1 DEF Connect, TypeOK
    <3>2. CASE Quit(u)
      BY <3>2 DEF Quit, Gone, Away, TypeOK
    <3>3. CASE \E t \in Target : Attach(u, t)
      BY <3>3 DEF Attach, Gone, Away, TypeOK
    <3>4. CASE \E n \in Name \cup {NoName} : NewSession(u, n)
      BY <3>4 DEF NewSession, Gone, Away, TypeOK
    <3> QED
      BY <1>5, <3>1, <3>2, <3>3, <3>4
  <2>3. Settles
    BY <2>1, <2>2 DEF sessVars, Settles
  <2> QED
    BY <2>3, SettlesKeeps
<1>6. ASSUME NEW u \in User, Break(u) PROVE IdsInv'
  BY <1>6, CutOffSettles, SettlesKeeps DEF Break, sessVars
<1> QED
  BY <1>1, <1>2, <1>3, <1>4, <1>5, <1>6 DEF Next

(* A client that comes back to its daemon finds its own session, or none,  *)
(* or one that bears the id as its name, however many sessions, users and  *)
(* daemons there are and whatever the sessions are called (daemon.rs:57-66, *)
(* 196-197).                                                               *)
THEOREM SameSession == Spec => []OnlyANamesakeHides
<1>1. Init => IdsInv
  BY DEF Init, IdsInv, Known, Away
<1>2. Spec => [](TypeInv /\ IdsInv)
  BY <1>1, TypeInit, TypeNext, IdsNext, PTL DEF Spec
<1>3. TypeInv /\ IdsInv => OnlyANamesakeHides
  <2> SUFFICES ASSUME TypeInv, IdsInv, NEW u \in User,
                      user[u].cur # NoSession, user[u].key = user[u].own.id,
                      user[u].cur.host = user[u].own.host, user[u].cur.name # user[u].key
               PROVE  user[u].cur = user[u].own
    BY DEF OnlyANamesakeHides
  <2>1. user[u].cur \in Session /\ user[u].own \in Session \cup {NoSession}
    BY DEF TypeInv, TypeOK
  <2>2. user[u].own \in Session
    BY <2>1, LifecycleConstants DEF Session, NoSession
  <2>3. user[u].cur \in Known /\ user[u].own \in Known
    BY <2>1, <2>2, LifecycleConstants DEF Known, Session, NoSession
  <2>4. user[u].cur.id = user[u].own.id
    BY DEF IdsInv
  <2> QED
    BY <2>3, <2>4 DEF IdsInv
<1> QED
  BY <1>2, <1>3, PTL
=============================================================================
