---------------------------- MODULE DaemonProofs ----------------------------
(***************************************************************************)
(* Proofs about Daemon, for any number of clients and sessions, any names  *)
(* and any requests.                                                       *)
(***************************************************************************)
EXTENDS Daemon, TLAPS

(* Types, in three parts, and who is being handled. *)
Phases == {"none", "waiting", "serving", "idle", "exited", "failed", "aborted"}
Answers == {"none", "Created", "Ok", "Error", "Info"}

LoopTyped ==
  /\ pc \in {"accept", "read", "answer", "down", "crashed"}
  /\ backlog \in Seq(Client) /\ cur \in Client \cup {NoClient}
  /\ reply \in Answers /\ to \in Ids \cup {NoId}
  /\ pc \in {"read", "answer"} => cur \in Client

MapTyped ==
  /\ listed \subseteq 0 .. (nextId - 1)
  /\ name \in [Ids -> Text \cup {NoName}] /\ nextId \in 0 .. MaxSessions
  /\ phase \in [Ids -> Phases]
  /\ joined \subseteq Ids /\ abort \subseteq Ids

ConnTyped ==
  /\ rx \in [Ids -> Seq(Client)] /\ owner \in [Ids -> Client \cup {NoClient}]
  /\ stage \in [Client -> {"away", "open", "closed"}] /\ left \subseteq Client
  /\ req \in [Client -> Request \cup {NoRequest}]
  /\ answer \in [Client -> Answers]
  /\ home \in [Client -> Ids \cup {NoId}]

FlagsTyped == files \in BOOLEAN /\ signal \in BOOLEAN

(* Who serves has an owner; owners are told one of two words. *)
WordTyped ==
  /\ \A i \in Ids : phase[i] \in {"serving", "idle"} => owner[i] \in Client
  /\ word \in [Client -> {"none", "Detached", "Exit"}]

TypeInv == LoopTyped /\ MapTyped /\ ConnTyped /\ FlagsTyped /\ WordTyped

LEMMA TypeInit == Init => TypeInv
<1> SUFFICES ASSUME Init PROVE TypeInv
  OBVIOUS
<1> USE DaemonConstants DEF Init
<1>1. LoopTyped
  BY DEF LoopTyped, Answers
<1>2. MapTyped
  BY DEF MapTyped, Ids, Phases
<1>3. ConnTyped
  BY DEF ConnTyped, Answers
<1>4. FlagsTyped
  BY Zenon DEF FlagsTyped
<1>5. WordTyped
  BY DEF WordTyped
<1> QED
  BY <1>1, <1>2, <1>3, <1>4, <1>5 DEF TypeInv

LEMMA Requests == ASSUME ConnTyped, NEW c \in Client PROVE req[c].arg \in Text \cup {NoName}
  BY DaemonConstants DEF ConnTyped, NoRequest

(* The requests, and what they have in common. *)
Handler == NewSession \/ Attach \/ ListSessions \/ KillSession \/ KillServer \/ OtherFrame

LEMMA HandlerFrame ==
  ASSUME Handler
  PROVE  /\ pc = "read" /\ pc' = "answer"
         /\ UNCHANGED <<cur, joined, rx, owner, word, connVars, backlog, signal>>
  BY DEF Handler, NewSession, Attach, ListSessions, KillSession, KillServer, OtherFrame, Handle

LEMMA ListedIds == ASSUME MapTyped PROVE \A i \in listed : i \in Ids /\ i < nextId
  BY DaemonConstants DEF MapTyped, Ids

LEMMA ResolvedListed == \A t : Resolve(t) \subseteq listed \ joined
  BY DEF Resolve, Reaped

LEMMA HandlerLoopTyped == ASSUME TypeInv, Handler PROVE LoopTyped'
<1>1. reply' \in Answers
  BY DEF Handler, NewSession, Attach, ListSessions, KillSession, KillServer, OtherFrame, Say,
         NoSuchSession, Answers
<1>2. to' \in Ids \cup {NoId}
  <2>1. \A t : \A i \in Resolve(t) : i \in Ids
    BY ResolvedListed, ListedIds DEF TypeInv
  <2>2. CASE NewSession
    <3>1. to' = NoId \/ (to' = nextId /\ nextId < MaxSessions)
      BY <2>2 DEF NewSession, Say
    <3>2. nextId \in 0 .. MaxSessions
      BY DEF TypeInv, MapTyped
    <3> QED
      BY <3>1, <3>2, DaemonConstants DEF Ids
  <2>3. CASE Attach
    BY <2>1, <2>3 DEF Attach, Say, NoSuchSession
  <2>4. CASE ListSessions \/ KillSession \/ KillServer \/ OtherFrame
    BY <2>4 DEF ListSessions, KillSession, KillServer, OtherFrame, Say, NoSuchSession
  <2> QED
    BY <2>2, <2>3, <2>4 DEF Handler
<1> QED
  BY <1>1, <1>2, HandlerFrame DEF TypeInv, LoopTyped

(* What a step does to the map and the phases of the tasks. *)
LEMMA HandlerMapTyped == ASSUME TypeInv, Handler PROVE MapTyped'
<1> joined' = joined
  BY HandlerFrame
<1>1. CASE NewSession
  <2>1. req[cur].arg \in Text \cup {NoName}
    BY <1>1, Requests DEF NewSession, Handle, TypeInv, LoopTyped
  <2>2. CASE UNCHANGED <<mapVars, phase>>
    BY <1>1, <2>2 DEF NewSession, TypeInv, MapTyped, mapVars
  <2>3. CASE /\ nextId < MaxSessions /\ nextId' = nextId + 1
             /\ phase' = [phase EXCEPT ![nextId] = "waiting"]
             /\ listed' = listed \cup {nextId}
             /\ name' = [name EXCEPT ![nextId] = req[cur].arg]
    <3>1. nextId \in Ids /\ nextId' \in 0 .. MaxSessions
      BY <2>3, DaemonConstants DEF TypeInv, MapTyped, Ids
    <3>2. listed' \subseteq 0 .. (nextId' - 1)
      <4>1. \A i \in listed : i \in 0 .. (nextId - 1)
        BY DEF TypeInv, MapTyped
      <4>2. nextId \in Nat
        BY DaemonConstants DEF TypeInv, MapTyped
      <4>3. \A i \in listed : i \in 0 .. nextId
        BY <4>1, <4>2
      <4> QED
        BY <2>3, <4>2, <4>3
    <3>3. phase' \in [Ids -> Phases] /\ name' \in [Ids -> Text \cup {NoName}]
      BY <2>1, <2>3 DEF TypeInv, MapTyped, Phases
    <3>4. joined' \subseteq Ids /\ abort' \subseteq Ids
      BY <1>1 DEF NewSession, TypeInv, MapTyped
    <3> QED
      BY <3>1, <3>2, <3>3, <3>4 DEF MapTyped
  <2> QED
    BY <1>1, <2>2, <2>3 DEF NewSession, NextId
<1>2. CASE Attach
  BY <1>2 DEF Attach, NoSuchSession, Reaped, TypeInv, MapTyped
<1>3. CASE ListSessions \/ OtherFrame
  BY <1>3 DEF ListSessions, OtherFrame, Reaped, TypeInv, MapTyped, mapVars
<1>4. CASE KillSession
  <2>1. \A i \in Resolve(req[cur].arg) : i \in Ids
    BY ResolvedListed, ListedIds DEF TypeInv
  <2> QED
    BY <1>4, <2>1 DEF KillSession, NoSuchSession, Forgotten, Reaped, TypeInv, MapTyped
<1>5. CASE KillServer
  <2>1. nextId \in 0 .. MaxSessions /\ \A i \in listed : i \in Ids
    BY DaemonConstants DEF TypeInv, MapTyped, Ids
  <2> QED
    BY <1>5, <2>1 DEF KillServer, Shutdown, TypeInv, MapTyped
<1> QED
  BY <1>1, <1>2, <1>3, <1>4, <1>5 DEF Handler

LEMMA HandlerTypes == ASSUME TypeInv, Handler PROVE TypeInv'
<1>1. ConnTyped'
  BY HandlerFrame DEF TypeInv, ConnTyped, connVars
<1>2. FlagsTyped'
  <2>1. files' = files \/ files' = FALSE
    BY DEF Handler, NewSession, Attach, ListSessions, KillSession, KillServer, OtherFrame,
           Shutdown, mapVars
  <2> QED
    BY <2>1, HandlerFrame, Zenon DEF TypeInv, FlagsTyped
<1>3. WordTyped'
  <2>1. \A i \in Ids : phase'[i] \in {phase[i], "waiting"}
    BY DEF Handler, NewSession, Attach, ListSessions, KillSession, KillServer, OtherFrame,
           TypeInv, MapTyped
  <2> QED
    BY <2>1, HandlerFrame DEF TypeInv, WordTyped
<1> QED
  BY <1>1, <1>2, <1>3, HandlerLoopTyped, HandlerMapTyped DEF TypeInv

LEMMA OtherLoopTypes ==
  ASSUME TypeInv, Accept \/ AcceptError \/ OnSignal \/ NoFrame \/ Answer
  PROVE  TypeInv'
<1>1. LoopTyped'
  <2>1. CASE Accept
    BY <2>1 DEF Accept, Loop, TypeInv, LoopTyped, Answers
  <2>2. CASE AcceptError \/ OnSignal
    BY <2>2 DEF AcceptError, OnSignal, TypeInv, LoopTyped
  <2>3. CASE NoFrame \/ Answer
    BY <2>3 DEF NoFrame, Answer, Loop, TypeInv, LoopTyped, Answers
  <2> QED
    BY <2>1, <2>2, <2>3
<1>2. MapTyped'
  <2>1. \A i \in listed : i \in Ids
    BY DaemonConstants DEF TypeInv, MapTyped, Ids
  <2>2. UNCHANGED <<name, nextId, phase, joined>>
    BY DEF Accept, AcceptError, OnSignal, NoFrame, Answer, mapVars, taskVars
  <2>3. listed' \subseteq listed /\ (abort' = abort \/ abort' = abort \cup listed)
    BY DEF Accept, AcceptError, OnSignal, NoFrame, Answer, Loop, Reaped, Shutdown, mapVars
  <2> QED
    BY <2>1, <2>2, <2>3 DEF TypeInv, MapTyped
<1>3. ConnTyped'
  <2>1. CASE Accept
    BY <2>1 DEF Accept, taskVars, TypeInv, ConnTyped
  <2>2. CASE AcceptError \/ OnSignal
    BY <2>2 DEF AcceptError, OnSignal, taskVars, connVars, TypeInv, ConnTyped
  <2>3. CASE NoFrame
    BY <2>3 DEF NoFrame, taskVars, TypeInv, ConnTyped
  <2>4. CASE Answer
    <3>1. /\ UNCHANGED <<owner, left, req>> /\ cur \in Client /\ reply \in Answers
          /\ to # NoId => to \in Ids
      BY <2>4 DEF Answer, TypeInv, LoopTyped
    <3>2. answer' \in [Client -> Answers]
      BY <2>4, <3>1 DEF Answer, TypeInv, ConnTyped
    <3>3. rx' \in [Ids -> Seq(Client)] /\ home' \in [Client -> Ids \cup {NoId}]
      <4>1. CASE to # NoId /\ ~Closed(to)
        <5>1. rx' = [rx EXCEPT ![to] = Append(@, cur)] /\ home' = [home EXCEPT ![cur] = to]
          BY <2>4, <4>1 DEF Answer
        <5>2. to \in Ids /\ Append(rx[to], cur) \in Seq(Client)
          BY <3>1, <4>1 DEF TypeInv, ConnTyped
        <5> QED
          BY <3>1, <5>1, <5>2 DEF TypeInv, ConnTyped
      <4>2. CASE ~(to # NoId /\ ~Closed(to))
        BY <2>4, <4>2 DEF Answer, TypeInv, ConnTyped
      <4> QED
        BY <4>1, <4>2
    <3>4. stage' \in [Client -> {"away", "open", "closed"}]
      BY <2>4 DEF Answer, TypeInv, ConnTyped
    <3> QED
      BY <3>1, <3>2, <3>3, <3>4 DEF TypeInv, ConnTyped
  <2> QED
    BY <2>1, <2>2, <2>3, <2>4
<1>4. FlagsTyped'
  <2>1. (files' = files \/ files' = FALSE) /\ signal' = signal
    BY DEF Accept, AcceptError, OnSignal, NoFrame, Answer, Shutdown, mapVars
  <2> QED
    BY <2>1, Zenon DEF TypeInv, FlagsTyped
<1>5. WordTyped'
  BY DEF Accept, AcceptError, OnSignal, NoFrame, Answer, taskVars, TypeInv, WordTyped
<1> QED
  BY <1>1, <1>2, <1>3, <1>4, <1>5 DEF TypeInv

LEMMA TaskTypes ==
  ASSUME TypeInv, NEW i \in Ids, TaskStep(i) \/ ShellExit(i) \/ Fail(i)
  PROVE  TypeInv'
<1>0. Task(i)
  BY DEF TaskStep, Serve, Takeover, ClientGone, ShellExit, Fail, Cancelled, Join
<1>1. LoopTyped' /\ FlagsTyped'
  <2>1. UNCHANGED <<pc, backlog, cur, reply, to, files, signal>>
    BY <1>0 DEF Task, loopVars, mapVars
  <2>2. LoopTyped'
    BY <2>1 DEF TypeInv, LoopTyped
  <2>3. FlagsTyped'
    BY <2>1, Zenon DEF TypeInv, FlagsTyped
  <2> QED
    BY <2>2, <2>3
<1>2. MapTyped'
  <2>1. UNCHANGED <<listed, name, nextId, abort>>
    BY <1>0 DEF Task, mapVars
  <2>2. phase' \in [Ids -> Phases]
    BY DEF TaskStep, Serve, Takeover, ClientGone, ShellExit, Fail, Cancelled, Join, TypeInv, MapTyped,
           Phases
  <2>3. joined' \subseteq Ids
    BY DEF TaskStep, Serve, Takeover, ClientGone, ShellExit, Fail, Cancelled, Join, TypeInv, MapTyped
  <2> QED
    BY <2>1, <2>2, <2>3 DEF TypeInv, MapTyped
<1>3. ConnTyped'
  <2>1. UNCHANGED connVars
    BY <1>0 DEF Task
  <2>2. rx' \in [Ids -> Seq(Client)] /\ owner' \in [Ids -> Client \cup {NoClient}]
    <3>1. CASE Serve(i) \/ Takeover(i)
      <4>1. /\ rx[i] # <<>> /\ owner' = [owner EXCEPT ![i] = Head(rx[i])]
            /\ rx' = [rx EXCEPT ![i] = Tail(@)]
        BY <3>1 DEF Serve, Takeover
      <4>2. rx[i] \in Seq(Client)
        BY DEF TypeInv, ConnTyped
      <4>3. Head(rx[i]) \in Client /\ Tail(rx[i]) \in Seq(Client)
        BY <4>1, <4>2
      <4> QED
        BY <4>1, <4>3 DEF TypeInv, ConnTyped
    <3>2. CASE UNCHANGED <<rx, owner>>
      BY <3>2 DEF TypeInv, ConnTyped
    <3> QED
      BY <3>1, <3>2 DEF TaskStep, ClientGone, ShellExit, Fail, Cancelled, Join
  <2> QED
    BY <2>1, <2>2 DEF connVars, TypeInv, ConnTyped
<1>4. WordTyped'
  <2>1. \A j \in Ids : phase'[j] \in {"serving", "idle"} => owner'[j] \in Client
    <3>1. CASE Serve(i) \/ Takeover(i)
      <4>1. /\ rx[i] # <<>> /\ owner' = [owner EXCEPT ![i] = Head(rx[i])]
            /\ \A j \in Ids \ {i} : phase'[j] = phase[j]
        BY <3>1 DEF Serve, Takeover, TypeInv, MapTyped
      <4>2. Head(rx[i]) \in Client
        BY <4>1 DEF TypeInv, ConnTyped
      <4> QED
        BY <4>1, <4>2 DEF TypeInv, ConnTyped, WordTyped
    <3>2. CASE ClientGone(i)
      BY <3>2 DEF ClientGone, TypeInv, MapTyped, WordTyped
    <3>3. CASE ShellExit(i) \/ Fail(i) \/ Cancelled(i) \/ Join(i)
      BY <3>3 DEF ShellExit, Fail, Cancelled, Join, TypeInv, MapTyped, WordTyped
    <3> QED
      BY <3>1, <3>2, <3>3 DEF TaskStep
  <2>2. word' \in [Client -> {"none", "Detached", "Exit"}]
    <3>1. \A w \in {"Detached", "Exit"} : Tell(i, w) => word' \in [Client -> {"none", "Detached", "Exit"}]
      BY DEF Tell, TypeInv, WordTyped
    <3>2. word' = word \/ Tell(i, "Detached") \/ Tell(i, "Exit")
      BY DEF TaskStep, Serve, Takeover, ClientGone, ShellExit, Fail, Cancelled, Join
    <3> QED
      BY <3>1, <3>2 DEF TypeInv, WordTyped
  <2> QED
    BY <2>1, <2>2 DEF WordTyped
<1> QED
  BY <1>1, <1>2, <1>3, <1>4 DEF TypeInv

LEMMA ClientTypes ==
  ASSUME TypeInv,
         Signal \/ \E c \in Client : Connect(c) \/ Leave(c) \/ \E r \in Request : Ask(c, r)
  PROVE  TypeInv'
<1>1. LoopTyped'
  BY DEF Signal, Connect, Leave, Ask, loopVars, TypeInv, LoopTyped
<1>2. MapTyped' /\ WordTyped'
  BY DEF Signal, Connect, Leave, Ask, mapVars, taskVars, TypeInv, MapTyped, WordTyped
<1>3. ConnTyped'
  BY DEF Signal, Connect, Leave, Ask, taskVars, connVars, TypeInv, ConnTyped
<1>4. FlagsTyped'
  <2>1. files' = files /\ (signal' = signal \/ signal' = TRUE)
    BY DEF Signal, Connect, Leave, Ask, mapVars
  <2> QED
    BY <2>1, Zenon DEF TypeInv, FlagsTyped
<1> QED
  BY <1>1, <1>2, <1>3, <1>4 DEF TypeInv

LEMMA TypeNext == TypeInv /\ [Next]_vars => TypeInv'
<1> SUFFICES ASSUME TypeInv, [Next]_vars PROVE TypeInv'
  OBVIOUS
<1>1. CASE UNCHANGED vars
  <2>1. LoopTyped' /\ MapTyped' /\ ConnTyped' /\ WordTyped'
    BY <1>1 DEF vars, loopVars, mapVars, taskVars, connVars, TypeInv, LoopTyped, MapTyped, ConnTyped,
                WordTyped
  <2>2. FlagsTyped'
    BY <1>1, Zenon DEF vars, mapVars, TypeInv, FlagsTyped
  <2> QED
    BY <2>1, <2>2 DEF TypeInv
<1> QED
  BY <1>1, HandlerTypes, OtherLoopTypes, TaskTypes, ClientTypes DEF Next, Step, Handler

(* The types of all variables of Daemon. *)
THEOREM TypeCorrect == Spec => []TypeOK
<1>1. Spec => []TypeInv
  BY TypeInit, TypeNext, PTL DEF Spec
<1>2. TypeInv => TypeOK
  BY DEF TypeInv, LoopTyped, MapTyped, ConnTyped, FlagsTyped, WordTyped, TypeOK, Phases, Answers
<1> QED
  BY <1>1, <1>2, PTL

-----------------------------------------------------------------------------
(* The registry.  Its invariant: only tasks that are over are joined, ids  *)
(* not given out have no task, and what was killed is out of the map and   *)
(* gets no client from the answer under way.                               *)
JoinedOver == \A i \in joined : Closed(i)
FreshIds == \A i \in Ids : i >= nextId => phase[i] = "none"
KilledGone ==
  /\ \A i \in abort : i < nextId /\ i \notin listed
  /\ pc = "answer" /\ to # NoId => to \notin abort

RegistryInv == JoinedOver /\ FreshIds /\ KilledGone /\ UniqueNames /\ LiveSessionsListed

LEMMA RegistryInit == Init => RegistryInv
  BY DEF Init, RegistryInv, JoinedOver, FreshIds, KilledGone, UniqueNames, LiveSessionsListed, Live

(* A new session: its id is fresh, its name is not in the map. *)
LEMMA RegistryNew == ASSUME TypeInv, RegistryInv, NewSession PROVE RegistryInv'
<1>0. UNCHANGED <<joined, abort>> /\ pc' = "answer" /\ pc = "read"
  BY DEF NewSession, Handle
<1>1. CASE UNCHANGED <<mapVars, phase>> /\ to' = NoId
  BY <1>0, <1>1 DEF mapVars, RegistryInv, JoinedOver, FreshIds, KilledGone, UniqueNames,
                    LiveSessionsListed, Live, Closed, Up
<1>2. CASE /\ ~NameTaken(req[cur].arg) /\ nextId < MaxSessions /\ nextId' = nextId + 1
           /\ phase' = [phase EXCEPT ![nextId] = "waiting"]
           /\ listed' = listed \cup {nextId}
           /\ name' = [name EXCEPT ![nextId] = req[cur].arg]
           /\ to' = nextId
  <2>1. nextId \in Ids /\ nextId \notin listed /\ phase[nextId] = "none"
    BY <1>2, ListedIds, DaemonConstants DEF TypeInv, MapTyped, Ids, RegistryInv, FreshIds
  <2>2. \A i \in Ids \ {nextId} : phase'[i] = phase[i] /\ name'[i] = name[i]
    BY <1>2, <2>1 DEF TypeInv, MapTyped
  <2>3. phase'[nextId] = "waiting" /\ name'[nextId] = req[cur].arg
    BY <1>2, <2>1 DEF TypeInv, MapTyped
  <2>4. JoinedOver'
    BY <1>0, <2>1, <2>2 DEF TypeInv, MapTyped, RegistryInv, JoinedOver, Closed
  <2>5. FreshIds'
    BY <1>2, <2>1, <2>2, DaemonConstants DEF Ids, RegistryInv, FreshIds
  <2>6. KilledGone'
    BY <1>0, <1>2, <2>1, DaemonConstants DEF Ids, TypeInv, MapTyped, RegistryInv, KilledGone
  <2>7. UniqueNames'
    BY <1>2, <2>1, <2>2, <2>3, ListedIds DEF TypeInv, NameTaken, RegistryInv, UniqueNames
  <2>8. LiveSessionsListed'
    BY <1>0, <1>2, <2>2 DEF RegistryInv, LiveSessionsListed, Live, Up
  <2> QED
    BY <2>4, <2>5, <2>6, <2>7, <2>8 DEF RegistryInv
<1> QED
  BY <1>1, <1>2 DEF NewSession, Say, NextId

(* A step of the loop that forgets sessions: those that are over, or that  *)
(* it kills.                                                               *)
LEMMA RegistryForgets ==
  ASSUME TypeInv, RegistryInv, UNCHANGED <<name, nextId, phase, joined>>,
         listed' \subseteq listed, abort \subseteq abort',
         \A i \in listed \ listed' : Closed(i) \/ i \in abort',
         abort' \ abort \subseteq listed \ listed',
         pc' = "answer" /\ to' # NoId => to' \notin abort',
         Up' => Up
  PROVE  RegistryInv'
<1>1. JoinedOver' /\ FreshIds'
  BY DEF RegistryInv, JoinedOver, FreshIds, Closed
<1>2. KilledGone'
  BY ListedIds DEF TypeInv, RegistryInv, KilledGone
<1>3. UniqueNames'
  BY DEF RegistryInv, UniqueNames
<1>4. LiveSessionsListed'
  BY DEF RegistryInv, LiveSessionsListed, Live, Closed
<1> QED
  BY <1>1, <1>2, <1>3, <1>4 DEF RegistryInv

LEMMA RegistryHandler == ASSUME TypeInv, RegistryInv, Handler PROVE RegistryInv'
<1>0. joined' = joined /\ Up /\ pc' = "answer"
  BY HandlerFrame DEF Up
<1>1. Reaped \subseteq listed /\ \A i \in listed \ Reaped : Closed(i)
  BY DEF Reaped, RegistryInv, JoinedOver
<1>2. \A t : Resolve(t) \subseteq listed
  BY ResolvedListed
<1>3. \A i \in abort : i \notin listed
  BY DEF RegistryInv, KilledGone
<1>4. CASE Attach
  <2>1. UNCHANGED <<name, nextId, phase, abort>> /\ listed' \subseteq listed
    BY <1>1, <1>4 DEF Attach, NoSuchSession
  <2>2. \A i \in listed \ listed' : Closed(i)
    BY <1>1, <1>4 DEF Attach, NoSuchSession, Say
  <2>3. to' # NoId => to' \in listed
    BY <1>2, <1>4 DEF Attach, NoSuchSession, Say
  <2> QED
    BY <1>0, <1>3, <2>1, <2>2, <2>3, RegistryForgets
<1>5. CASE ListSessions \/ OtherFrame
  <2>1. /\ UNCHANGED <<name, nextId, phase, abort>> /\ listed' \in {listed, Reaped}
        /\ to' = NoId
    BY <1>5 DEF ListSessions, OtherFrame, mapVars, Say
  <2> QED
    BY <1>0, <1>1, <2>1, RegistryForgets
<1>6. CASE KillSession
  <2>1. UNCHANGED <<name, nextId, phase>> /\ to' = NoId
    BY <1>6 DEF KillSession, NoSuchSession, Say
  <2>2. CASE NoSuchSession
    BY <1>0, <1>1, <2>1, <2>2, RegistryForgets DEF NoSuchSession
  <2>3. CASE \E i \in Resolve(req[cur].arg) : Forgotten(i) /\ abort' = abort \cup {i}
    <3>1. PICK i \in Resolve(req[cur].arg) : listed' = Reaped \ {i} /\ abort' = abort \cup {i}
      BY <2>3 DEF Forgotten
    <3> QED
      BY <1>0, <1>1, <1>2, <2>1, <3>1, RegistryForgets
  <2> QED
    BY <1>6, <2>2, <2>3 DEF KillSession
<1>7. CASE KillServer
  <2>1. /\ UNCHANGED <<name, nextId, phase>> /\ listed' = {} /\ abort' = abort \cup listed
        /\ to' = NoId
    BY <1>7 DEF KillServer, Shutdown, Say
  <2> QED
    BY <1>0, <2>1, RegistryForgets
<1> QED
  BY <1>4, <1>5, <1>6, <1>7, RegistryNew DEF Handler

LEMMA RegistryLoop ==
  ASSUME TypeInv, RegistryInv, Accept \/ AcceptError \/ OnSignal \/ NoFrame \/ Answer
  PROVE  RegistryInv'
<1>1. UNCHANGED <<name, nextId, phase, joined>> /\ Up /\ pc' # "answer"
  BY DEF Accept, AcceptError, OnSignal, NoFrame, Answer, Loop, mapVars, taskVars, Up
<1>2. \A i \in listed \ Reaped : Closed(i)
  BY DEF Reaped, RegistryInv, JoinedOver
<1>3. \/ listed' \in {listed, Reaped} /\ abort' = abort
      \/ listed' = {} /\ abort' = abort \cup listed
  BY DEF Accept, AcceptError, OnSignal, NoFrame, Answer, Loop, Shutdown, mapVars
<1> QED
  BY <1>1, <1>2, <1>3, RegistryForgets DEF Reaped

(* A task is joined when it is over, and what is over stays over. *)
LEMMA RegistryTask ==
  ASSUME TypeInv, RegistryInv, NEW i \in Ids, TaskStep(i) \/ ShellExit(i) \/ Fail(i)
  PROVE  RegistryInv'
<1>1. UNCHANGED <<pc, to, listed, name, nextId, abort>>
  BY DEF TaskStep, Serve, Takeover, ClientGone, ShellExit, Fail, Cancelled, Join, Task, loopVars,
         mapVars
<1>2. /\ \A j \in Ids : phase'[j] = phase[j] \/ (Live(j) /\ phase'[j] # "none")
      /\ joined' = joined \/ (UNCHANGED phase /\ Closed(i) /\ joined' = joined \cup {i})
  BY DEF TaskStep, Serve, Takeover, ClientGone, ShellExit, Fail, Cancelled, Join, Live, TypeInv,
         MapTyped
<1>3. JoinedOver'
  BY <1>2 DEF TypeInv, MapTyped, RegistryInv, JoinedOver, Closed, Live
<1>4. FreshIds'
  BY <1>1, <1>2 DEF RegistryInv, FreshIds, Live
<1>5. KilledGone' /\ UniqueNames'
  BY <1>1 DEF RegistryInv, KilledGone, UniqueNames
<1>6. LiveSessionsListed'
  BY <1>1, <1>2 DEF RegistryInv, LiveSessionsListed, Live, Up
<1> QED
  BY <1>3, <1>4, <1>5, <1>6 DEF RegistryInv

LEMMA RegistryClients ==
  ASSUME RegistryInv, UNCHANGED <<pc, to, mapVars, phase, joined, abort>>
  PROVE  RegistryInv'
  BY DEF mapVars, RegistryInv, JoinedOver, FreshIds, KilledGone, UniqueNames, LiveSessionsListed,
         Live, Closed, Up

LEMMA RegistryNext == TypeInv /\ RegistryInv /\ [Next]_vars => RegistryInv'
<1> SUFFICES ASSUME TypeInv, RegistryInv, [Next]_vars PROVE RegistryInv'
  OBVIOUS
<1>1. CASE UNCHANGED vars
  BY <1>1, RegistryClients DEF vars, loopVars, taskVars
<1>2. CASE Signal \/ \E c \in Client : Connect(c) \/ Leave(c) \/ \E r \in Request : Ask(c, r)
  BY <1>2, RegistryClients DEF Signal, Connect, Leave, Ask, loopVars, taskVars
<1> QED
  BY <1>1, <1>2, RegistryHandler, RegistryLoop, RegistryTask DEF Next, Step, Handler

LEMMA RegistryHolds == Spec => [](TypeInv /\ RegistryInv)
<1>1. Init => TypeInv /\ RegistryInv
  BY TypeInit, RegistryInit
<1>2. TypeInv /\ RegistryInv /\ [Next]_vars => (TypeInv /\ RegistryInv)'
  BY TypeNext, RegistryNext
<1> QED
  BY <1>1, <1>2, PTL DEF Spec

(* resolve_session (daemon.rs:50-60) has never a choice of names. *)
THEOREM NamesAreUnique == Spec => []UniqueNames
<1>1. RegistryInv => UniqueNames
  BY DEF RegistryInv
<1> QED
  BY <1>1, RegistryHolds, PTL

(* No session that lives is lost from the map unless killed (daemon.rs:43, *)
(* 229, 256).                                                              *)
THEOREM LiveAreListed == Spec => []LiveSessionsListed
<1>1. RegistryInv => LiveSessionsListed
  BY DEF RegistryInv
<1> QED
  BY <1>1, RegistryHolds, PTL

(* A killed session gets no client any more (daemon.rs:256-257). *)
THEOREM KilledStaysAlone == Spec => KilledTakesNobody
<1>1. ASSUME TypeInv, RegistryInv, [Next]_vars, NEW i \in abort PROVE Len(rx'[i]) <= Len(rx[i])
  <2>1. i \in Ids /\ rx[i] \in Seq(Client)
    BY <1>1 DEF TypeInv, MapTyped, ConnTyped
  <2>2. CASE rx'[i] = rx[i]
    BY <2>1, <2>2
  <2>3. CASE rx[i] # <<>> /\ rx'[i] = Tail(rx[i])
    BY <2>1, <2>3
  <2>4. CASE \E j \in Ids : TaskStep(j) \/ ShellExit(j) \/ Fail(j)
    <3>1. PICK j \in Ids : rx' = rx \/ (rx[j] # <<>> /\ rx' = [rx EXCEPT ![j] = Tail(@)])
      BY <2>4 DEF TaskStep, Serve, Takeover, ClientGone, ShellExit, Fail, Cancelled, Join
    <3>2. rx'[i] = rx[i] \/ (rx[i] # <<>> /\ rx'[i] = Tail(rx[i]))
      <4>1. rx \in [Ids -> Seq(Client)]
        BY <1>1 DEF TypeInv, ConnTyped
      <4> QED
        BY <2>1, <3>1, <4>1
    <3> QED
      BY <2>2, <2>3, <3>2
  <2>5. CASE Answer
    <3>1. to # NoId => to # i
      BY <1>1, <2>5 DEF Answer, RegistryInv, KilledGone
    <3> QED
      <4>1. rx' = rx \/ (to # NoId /\ rx' = [rx EXCEPT ![to] = Append(@, cur)])
        BY <2>5 DEF Answer
      <4>2. rx \in [Ids -> Seq(Client)]
        BY <1>1 DEF TypeInv, ConnTyped
      <4>3. rx'[i] = rx[i]
        BY <2>1, <3>1, <4>1, <4>2
      <4> QED
        BY <2>2, <4>3
  <2>6. CASE Handler
    BY <2>2, <2>6, HandlerFrame
  <2> QED
    BY <1>1, <2>2, <2>4, <2>5, <2>6
       DEF Next, Step, Handler, vars, taskVars, Accept, AcceptError, OnSignal, NoFrame, Signal,
           Connect, Leave, Ask
<1>2. TypeInv /\ RegistryInv /\ [Next]_vars => [\A i \in abort : Len(rx'[i]) <= Len(rx[i])]_vars
  BY <1>1
<1> QED
  BY <1>2, RegistryHolds, PTL DEF Spec, KilledTakesNobody

-----------------------------------------------------------------------------
(* Who goes where.  A connection is in the backlog once, and until it is   *)
(* handed over no session has it; the session the answer under way leads   *)
(* to is the one that was asked for, and new if it was to be new.          *)
QueuedOnce ==
  /\ \A k \in DOMAIN backlog : stage[backlog[k]] = "open" /\ home[backlog[k]] = NoId
  /\ \A k, l \in DOMAIN backlog : backlog[k] = backlog[l] => k = l
  /\ \A c \in Client : stage[c] = "away" => home[c] = NoId

HandledOnce ==
  pc \in {"read", "answer"} =>
    /\ stage[cur] = "open" /\ home[cur] = NoId
    /\ \A k \in DOMAIN backlog : backlog[k] # cur

HomeAsked == \A c \in Client : home[c] # NoId => home[c] < nextId /\ req[c] # NoRequest

AnswerAsked ==
  pc = "answer" /\ to # NoId =>
    /\ to < nextId /\ req[cur] # NoRequest
    /\ req[cur].op = "Attach" => req[cur].arg \in {name[to], IdText[to]}
    /\ req[cur].op = "New" =>
         name[to] = req[cur].arg /\ \A d \in Client : home[d] = to => req[d].op # "New"

HandInv == QueuedOnce /\ HandledOnce /\ HomeAsked /\ AnswerAsked /\ HandedWhereAsked

LEMMA SeqTail ==
  ASSUME NEW s \in Seq(Client), s # <<>>
  PROVE  /\ Head(s) = s[1] /\ 1 \in DOMAIN s /\ Tail(s) \in Seq(Client)
         /\ \A k \in DOMAIN Tail(s) : k + 1 \in DOMAIN s /\ k + 1 # 1 /\ Tail(s)[k] = s[k + 1]
         /\ \A k, l \in DOMAIN Tail(s) : k + 1 = l + 1 => k = l
  OBVIOUS

LEMMA SeqAppend ==
  ASSUME NEW s \in Seq(Client), NEW c \in Client
  PROVE  \A k \in DOMAIN Append(s, c) :
           \/ k \in DOMAIN s /\ Append(s, c)[k] = s[k]
           \/ k = Len(s) + 1 /\ k \notin DOMAIN s /\ Append(s, c)[k] = c
  OBVIOUS

LEMMA HandInit == Init => HandInv
<1> SUFFICES ASSUME Init PROVE HandInv
  OBVIOUS
<1>1. QueuedOnce /\ HandledOnce /\ HomeAsked /\ AnswerAsked
  BY DEF Init, QueuedOnce, HandledOnce, HomeAsked, AnswerAsked
<1>2. \A i \in Ids : NoId # i
  BY DaemonConstants DEF Ids, NoId
<1>3. HandedWhereAsked
  BY <1>2, DaemonConstants DEF Init, HandedWhereAsked, Has
<1> QED
  BY <1>1, <1>3 DEF HandInv

(* A handler names the session; the map of names only grows. *)
LEMMA HandHandler == ASSUME TypeInv, HandInv, Handler PROVE HandInv'
<1>0. /\ pc = "read" /\ pc' = "answer"
      /\ UNCHANGED <<cur, rx, owner, stage, req, home, backlog>>
  BY HandlerFrame DEF connVars
<1>1. nextId' >= nextId /\ \A i \in Ids : i < nextId => name'[i] = name[i]
  <2>1. CASE NewSession
    <3>1. \/ UNCHANGED <<name, nextId>>
          \/ nextId' = nextId + 1 /\ name' = [name EXCEPT ![nextId] = req[cur].arg]
      BY <2>1 DEF NewSession, NextId, mapVars
    <3> QED
      BY <3>1, DaemonConstants DEF TypeInv, MapTyped, Ids
  <2>2. UNCHANGED <<name, nextId>> \/ NewSession
    BY DEF Handler, Attach, ListSessions, KillSession, KillServer, OtherFrame, mapVars
  <2>3. CASE UNCHANGED <<name, nextId>>
    BY <2>3, DaemonConstants DEF TypeInv, MapTyped
  <2> QED
    BY <2>1, <2>2, <2>3
<1>2. QueuedOnce' /\ HandledOnce'
  BY <1>0 DEF HandInv, QueuedOnce, HandledOnce
<1>3. \A c \in Client : home[c] # NoId => home[c] \in Ids /\ home[c] < nextId
  BY DEF TypeInv, ConnTyped, HandInv, HomeAsked
<1>4. HomeAsked'
  <2>1. \A c \in Client : home[c] # NoId => home[c] < nextId'
    BY <1>1, <1>3, HandlerMapTyped, DaemonConstants DEF Ids, TypeInv, MapTyped
  <2> QED
    BY <1>0, <2>1 DEF HandInv, HomeAsked
<1>5. AnswerAsked'
  <2>1. CASE NewSession
    <3>1. CASE to' = NoId
      BY <3>1 DEF AnswerAsked
    <3>2. CASE /\ to' = nextId /\ nextId' = nextId + 1 /\ nextId < MaxSessions
               /\ name' = [name EXCEPT ![nextId] = req[cur].arg]
      <4>1. nextId \in Ids /\ nextId < nextId'
        BY <3>2, DaemonConstants DEF TypeInv, MapTyped, Ids
      <4>2. name'[to'] = req'[cur'].arg
        BY <1>0, <3>2, <4>1 DEF TypeInv, MapTyped
      <4>3. req[cur] # NoRequest /\ req[cur].op = "New"
        BY <2>1 DEF NewSession, Handle, NoRequest
      <4>4. \A d \in Client : home'[d] # to'
        BY <1>0, <1>3, <3>2, <4>1, DaemonConstants DEF Ids, NoId
      <4> QED
        BY <1>0, <3>2, <4>1, <4>2, <4>3, <4>4 DEF AnswerAsked
    <3> QED
      BY <2>1, <3>1, <3>2 DEF NewSession, Say, NextId
  <2>2. CASE Attach
    <3>1. CASE to' = NoId
      BY <3>1 DEF AnswerAsked
    <3>2. CASE to' \in Resolve(req[cur].arg)
      <4>1. to' < nextId /\ UNCHANGED <<name, nextId>>
        BY <2>2, <3>2, ResolvedListed, ListedIds DEF TypeInv, Attach
      <4>2. req[cur].op = "Attach" /\ req[cur] # NoRequest
        BY <2>2 DEF Attach, Handle, NoRequest
      <4>3. req[cur].arg \in {name[to'], IdText[to']}
        BY <3>2 DEF Resolve
      <4> QED
        BY <1>0, <4>1, <4>2, <4>3 DEF AnswerAsked
    <3> QED
      BY <2>2, <3>1, <3>2 DEF Attach, NoSuchSession, Say
  <2>3. CASE ListSessions \/ KillSession \/ KillServer \/ OtherFrame
    BY <2>3 DEF ListSessions, KillSession, KillServer, OtherFrame, NoSuchSession, Say, AnswerAsked
  <2> QED
    BY <2>1, <2>2, <2>3 DEF Handler
<1>6. HandedWhereAsked'
  <2>1. \A i \in Ids, c \in Client : home[c] = i => name'[i] = name[i]
    BY <1>1, <1>3, DaemonConstants DEF Ids, NoId
  <2> QED
    BY <1>0, <2>1 DEF HandInv, HandedWhereAsked, Has
<1> QED
  BY <1>2, <1>4, <1>5, <1>6 DEF HandInv

(* Only the answer hands a client over. *)
LEMMA HandAnswer == ASSUME TypeInv, HandInv, Answer PROVE HandInv'
<1>0. /\ pc = "answer" /\ pc' \notin {"read", "answer"} /\ cur \in Client
      /\ stage[cur] = "open" /\ home[cur] = NoId
      /\ UNCHANGED <<backlog, name, nextId, req, owner>>
  BY DEF Answer, Loop, TypeInv, LoopTyped, HandInv, HandledOnce
<1>1. \A k \in DOMAIN backlog : backlog[k] \in Client /\ backlog[k] # cur
  BY <1>0 DEF TypeInv, LoopTyped, HandInv, HandledOnce
<1>2. HandledOnce' /\ AnswerAsked'
  BY <1>0 DEF HandledOnce, AnswerAsked
<1>3. CASE to # NoId /\ ~Closed(to)
  <2>1. /\ UNCHANGED stage /\ to \in Ids /\ to < nextId
        /\ rx' = [rx EXCEPT ![to] = Append(@, cur)] /\ home' = [home EXCEPT ![cur] = to]
    BY <1>0, <1>3 DEF Answer, TypeInv, LoopTyped, HandInv, AnswerAsked
  <2>2. home'[cur] = to /\ \A c \in Client \ {cur} : home'[c] = home[c]
    BY <1>0, <2>1 DEF TypeInv, ConnTyped
  <2>3. QueuedOnce'
    BY <1>0, <1>1, <2>1, <2>2 DEF HandInv, QueuedOnce
  <2>4. HomeAsked'
    BY <1>0, <1>3, <2>1, <2>2 DEF HandInv, HomeAsked, AnswerAsked
  <2>5. \A i \in Ids, c \in Client : Has(i, c)' => Has(i, c) \/ (i = to /\ c = cur)
    <3>1. rx \in [Ids -> Seq(Client)] /\ rx[to] \in Seq(Client)
      BY <2>1 DEF TypeInv, ConnTyped
    <3>2. rx'[to] = Append(rx[to], cur) /\ \A i \in Ids \ {to} : rx'[i] = rx[i]
      BY <2>1, <3>1
    <3> QED
      BY <1>0, <3>1, <3>2, SeqAppend DEF Has
  <2>6. \A i \in Ids : i # NoId
    BY DaemonConstants DEF Ids, NoId
  <2>7. \A i \in Ids, c \in Client : Has(i, c)' => home'[c] = i
    BY <1>0, <2>2, <2>5, <2>6 DEF HandInv, HandedWhereAsked
  <2>8. \A i \in Ids, c \in Client :
          home'[c] = i /\ req[c].op = "Attach" => req[c].arg \in {name[i], IdText[i]}
    BY <1>0, <1>3, <2>2 DEF HandInv, HandedWhereAsked, AnswerAsked
  <2>9. \A i \in Ids, c \in Client :
          home'[c] = i /\ req[c].op = "New" =>
            name[i] = req[c].arg /\ \A d \in Client : home'[d] = i /\ req[d].op = "New" => d = c
    BY <1>0, <1>3, <2>2 DEF HandInv, HandedWhereAsked, AnswerAsked
  <2>10. HandedWhereAsked'
    BY <1>0, <2>7, <2>8, <2>9 DEF HandedWhereAsked
  <2> QED
    BY <1>2, <2>3, <2>4, <2>10 DEF HandInv
<1>4. CASE ~(to # NoId /\ ~Closed(to))
  <2>1. UNCHANGED <<rx, home>> /\ stage' = [stage EXCEPT ![cur] = "closed"]
    BY <1>4 DEF Answer
  <2>2. \A c \in Client : stage'[c] = IF c = cur THEN "closed" ELSE stage[c]
    BY <1>0, <2>1 DEF TypeInv, ConnTyped
  <2>3. QueuedOnce'
    BY <1>0, <1>1, <2>1, <2>2 DEF HandInv, QueuedOnce
  <2>4. HomeAsked' /\ HandedWhereAsked'
    BY <1>0, <2>1 DEF HandInv, HomeAsked, HandedWhereAsked, Has
  <2> QED
    BY <1>2, <2>3, <2>4 DEF HandInv
<1> QED
  BY <1>3, <1>4

LEMMA HandLoop ==
  ASSUME TypeInv, HandInv, Accept \/ AcceptError \/ OnSignal \/ NoFrame
  PROVE  HandInv'
<1>0. UNCHANGED <<name, nextId, rx, owner, req, home>> /\ pc' # "answer"
  BY DEF Accept, AcceptError, OnSignal, NoFrame, Loop, mapVars, taskVars, connVars
<1>1. HomeAsked' /\ AnswerAsked' /\ HandedWhereAsked'
  BY <1>0 DEF HandInv, HomeAsked, AnswerAsked, HandedWhereAsked, Has
<1>2. CASE Accept
  <2> DEFINE c == Head(backlog)
  <2>1. backlog \in Seq(Client) /\ backlog # <<>> /\ backlog' = Tail(backlog)
    BY <1>2 DEF Accept, TypeInv, LoopTyped
  <2>2. /\ c = backlog[1] /\ 1 \in DOMAIN backlog
        /\ \A k \in DOMAIN backlog' :
             k + 1 \in DOMAIN backlog /\ k + 1 # 1 /\ backlog'[k] = backlog[k + 1]
        /\ \A k, l \in DOMAIN backlog' : k + 1 = l + 1 => k = l
    BY <2>1, SeqTail
  <2>3. \A k \in DOMAIN backlog' :
          backlog'[k] # c /\ stage[backlog'[k]] = "open" /\ home[backlog'[k]] = NoId
    BY <2>2 DEF HandInv, QueuedOnce
  <2>4. \A k, l \in DOMAIN backlog' : backlog'[k] = backlog'[l] => k = l
    BY <2>2 DEF HandInv, QueuedOnce
  <2>5. c \in Client /\ stage[c] = "open" /\ home[c] = NoId
    BY <2>1, <2>2 DEF HandInv, QueuedOnce
  <2>6. CASE c \in Stranger
    <3>1. stage' = [stage EXCEPT ![c] = "closed"] /\ pc' = "accept"
      BY <1>2, <2>6 DEF Accept, Loop
    <3>2. \A d \in Client : stage'[d] = IF d = c THEN "closed" ELSE stage[d]
      BY <2>5, <3>1 DEF TypeInv, ConnTyped
    <3>3. \A k \in DOMAIN backlog' : backlog'[k] \in Client
      BY <2>1, <2>2
    <3>4. QueuedOnce'
      BY <1>0, <2>3, <2>4, <3>2, <3>3 DEF HandInv, QueuedOnce
    <3>5. HandledOnce'
      BY <3>1 DEF HandledOnce
    <3> QED
      BY <1>1, <3>4, <3>5 DEF HandInv
  <2>7. CASE c \notin Stranger
    <3>1. stage' = stage /\ cur' = c
      BY <1>2, <2>7 DEF Accept
    <3>2. QueuedOnce' /\ HandledOnce'
      BY <1>0, <2>3, <2>4, <2>5, <3>1 DEF HandInv, QueuedOnce, HandledOnce
    <3> QED
      BY <1>1, <3>2 DEF HandInv
  <2> QED
    BY <2>6, <2>7
<1>3. CASE AcceptError \/ OnSignal
  BY <1>1, <1>3 DEF AcceptError, OnSignal, connVars, HandInv, QueuedOnce, HandledOnce
<1>4. CASE NoFrame
  <2>1. /\ UNCHANGED <<backlog, home>> /\ stage' = [stage EXCEPT ![cur] = "closed"]
        /\ pc = "read" /\ pc' = "accept" /\ cur \in Client
    BY <1>4 DEF NoFrame, Loop, TypeInv, LoopTyped
  <2>2. \A d \in Client : stage'[d] = IF d = cur THEN "closed" ELSE stage[d]
    BY <2>1 DEF TypeInv, ConnTyped
  <2>3. \A k \in DOMAIN backlog : backlog[k] \in Client /\ backlog[k] # cur
    BY <2>1 DEF TypeInv, LoopTyped, HandInv, HandledOnce
  <2>4. QueuedOnce' /\ HandledOnce'
    BY <2>1, <2>2, <2>3 DEF HandInv, QueuedOnce, HandledOnce
  <2> QED
    BY <1>1, <2>4 DEF HandInv
<1> QED
  BY <1>2, <1>3, <1>4

(* A task takes a client it was handed. *)
LEMMA TaskHas ==
  ASSUME TypeInv, NEW i \in Ids, TaskStep(i) \/ ShellExit(i) \/ Fail(i)
  PROVE  \A j \in Ids, c \in Client : Has(j, c)' => Has(j, c)
<1>1. CASE UNCHANGED <<rx, owner>>
  BY <1>1 DEF Has
<1>2. CASE Serve(i) \/ Takeover(i)
  <2>1. /\ rx[i] # <<>> /\ rx' = [rx EXCEPT ![i] = Tail(@)]
        /\ owner' = [owner EXCEPT ![i] = Head(rx[i])]
    BY <1>2 DEF Serve, Takeover
  <2>2. rx \in [Ids -> Seq(Client)] /\ rx[i] \in Seq(Client) /\ owner \in [Ids -> Client \cup {NoClient}]
    BY DEF TypeInv, ConnTyped
  <2>3. /\ rx'[i] = Tail(rx[i]) /\ owner'[i] = Head(rx[i])
        /\ \A j \in Ids \ {i} : rx'[j] = rx[j] /\ owner'[j] = owner[j]
    BY <2>1, <2>2
  <2> QED
    BY <2>1, <2>2, <2>3, SeqTail DEF Has
<1> QED
  BY <1>1, <1>2 DEF TaskStep, ClientGone, ShellExit, Fail, Cancelled, Join

LEMMA HandTask ==
  ASSUME TypeInv, HandInv, NEW i \in Ids, TaskStep(i) \/ ShellExit(i) \/ Fail(i)
  PROVE  HandInv'
<1>0. UNCHANGED <<pc, cur, to, name, nextId, stage, req, home, backlog>>
  BY DEF TaskStep, Serve, Takeover, ClientGone, ShellExit, Fail, Cancelled, Join, Task, loopVars,
         mapVars, connVars
<1>1. QueuedOnce' /\ HandledOnce' /\ HomeAsked' /\ AnswerAsked'
  BY <1>0 DEF HandInv, QueuedOnce, HandledOnce, HomeAsked, AnswerAsked
<1>2. HandedWhereAsked'
  BY <1>0, TaskHas DEF HandInv, HandedWhereAsked
<1> QED
  BY <1>1, <1>2 DEF HandInv

LEMMA HandClients ==
  ASSUME TypeInv, HandInv, NEW c \in Client, Connect(c) \/ Leave(c) \/ \E r \in Request : Ask(c, r)
  PROVE  HandInv'
<1>0. UNCHANGED <<pc, cur, to, name, nextId, rx, owner, home>>
  BY DEF Connect, Leave, Ask, loopVars, mapVars, taskVars
<1>1. CASE Connect(c)
  <2>1. /\ stage[c] = "away" /\ stage' = [stage EXCEPT ![c] = "open"] /\ req' = req
        /\ backlog' = Append(backlog, c) /\ backlog \in Seq(Client)
    BY <1>1 DEF Connect, TypeInv, LoopTyped
  <2>2. \A d \in Client : stage'[d] = IF d = c THEN "open" ELSE stage[d]
    BY <2>1 DEF TypeInv, ConnTyped
  <2>3. \A k \in DOMAIN backlog' :
          \/ k \in DOMAIN backlog /\ backlog'[k] = backlog[k]
          \/ k = Len(backlog) + 1 /\ k \notin DOMAIN backlog /\ backlog'[k] = c
    BY <2>1, SeqAppend
  <2>4. \A k \in DOMAIN backlog : backlog[k] \in Client /\ backlog[k] # c
    BY <2>1 DEF HandInv, QueuedOnce
  <2>5. home[c] = NoId
    BY <2>1 DEF HandInv, QueuedOnce
  <2>6. QueuedOnce'
    <3>1. \A k \in DOMAIN backlog' : stage'[backlog'[k]] = "open" /\ home[backlog'[k]] = NoId
      BY <2>2, <2>3, <2>4, <2>5 DEF HandInv, QueuedOnce
    <3>2. \A k, l \in DOMAIN backlog' : backlog'[k] = backlog'[l] => k = l
      BY <2>3, <2>4 DEF HandInv, QueuedOnce
    <3> QED
      BY <1>0, <2>2, <3>1, <3>2 DEF HandInv, QueuedOnce
  <2>7. HandledOnce'
    BY <1>0, <2>1, <2>2, <2>3, <2>4 DEF TypeInv, LoopTyped, HandInv, HandledOnce
  <2>8. HomeAsked' /\ AnswerAsked' /\ HandedWhereAsked'
    BY <1>0, <2>1 DEF HandInv, HomeAsked, AnswerAsked, HandedWhereAsked, Has
  <2> QED
    BY <2>6, <2>7, <2>8 DEF HandInv
<1>2. CASE Leave(c)
  <2>1. UNCHANGED <<stage, req, backlog>>
    BY <1>2 DEF Leave
  <2> QED
    BY <1>0, <2>1
       DEF HandInv, QueuedOnce, HandledOnce, HomeAsked, AnswerAsked, HandedWhereAsked, Has
<1>3. CASE \E r \in Request : Ask(c, r)
  <2>1. /\ UNCHANGED <<stage, backlog>> /\ req[c] = NoRequest
        /\ \A d \in Client : req[d] # NoRequest => req'[d] = req[d]
        /\ \E r \in Request : req' = [req EXCEPT ![c] = r]
    BY <1>3 DEF Ask, TypeInv, ConnTyped
  <2>2. \A d \in Client : home[d] # NoId => req'[d] = req[d]
    BY <2>1 DEF HandInv, HomeAsked
  <2>3. pc = "answer" /\ to # NoId => req'[cur] = req[cur]
    BY <2>1 DEF HandInv, AnswerAsked, TypeInv, LoopTyped
  <2>4. \A i \in Ids : i # NoId
    BY DaemonConstants DEF Ids, NoId
  <2>5. QueuedOnce' /\ HandledOnce' /\ HomeAsked'
    BY <1>0, <2>1, <2>2 DEF HandInv, QueuedOnce, HandledOnce, HomeAsked
  <2>6. AnswerAsked'
    BY <1>0, <2>2, <2>3 DEF HandInv, AnswerAsked
  <2>7. HandedWhereAsked'
    BY <1>0, <2>2, <2>4 DEF HandInv, HandedWhereAsked, Has
  <2> QED
    BY <2>5, <2>6, <2>7 DEF HandInv
<1> QED
  BY <1>1, <1>2, <1>3

LEMMA HandNext == TypeInv /\ HandInv /\ [Next]_vars => HandInv'
<1> SUFFICES ASSUME TypeInv, HandInv, [Next]_vars PROVE HandInv'
  OBVIOUS
<1>1. CASE UNCHANGED vars \/ Signal
  BY <1>1 DEF Signal, vars, loopVars, mapVars, taskVars, connVars, HandInv, QueuedOnce, HandledOnce,
              HomeAsked, AnswerAsked, HandedWhereAsked, Has
<1> QED
  BY <1>1, HandHandler, HandAnswer, HandLoop, HandTask, HandClients DEF Next, Step, Handler

(* Clients get the session they asked for (daemon.rs:196-238). *)
THEOREM HandedRight == Spec => []HandedWhereAsked
<1>1. Init => TypeInv /\ HandInv
  BY TypeInit, HandInit
<1>2. TypeInv /\ HandInv /\ [Next]_vars => (TypeInv /\ HandInv)'
  BY TypeNext, HandNext
<1>3. HandInv => HandedWhereAsked
  BY DEF HandInv
<1> QED
  BY <1>1, <1>2, <1>3, PTL DEF Spec

-----------------------------------------------------------------------------
(* Daemon implements SessionTask for each of its sessions.  The mapping    *)
(* hides the clients of other sessions, so a client must have been told    *)
(* nothing before it is handed over.                                       *)
Untold == \A c \in Client : home[c] = NoId => word[c] = "none"

PromiseInv == TypeInv /\ RegistryInv /\ HandInv /\ Untold

PhaseOf(i) == CASE phase[i] = "none" -> "waiting" [] Closed(i) -> "over" [] OTHER -> phase[i]
SeenBy(i) == {c \in Client : home[c] = i}
WordsOf(i) == [c \in Client |-> IF home[c] = i THEN word[c] ELSE "none"]

LEMMA OwnerHome ==
  ASSUME PromiseInv, NEW i \in Ids, phase[i] \in {"serving", "idle"}
  PROVE  owner[i] \in Client /\ home[owner[i]] = i
<1>1. owner[i] \in Client
  BY DEF PromiseInv, TypeInv, WordTyped
<1>2. Has(i, owner[i])
  BY DEF Has
<1> QED
  BY <1>1, <1>2 DEF PromiseInv, HandInv, HandedWhereAsked

(* What a task says, and to whom. *)
LEMMA Told ==
  ASSUME PromiseInv, NEW i \in Ids, phase[i] = "serving", NEW w, Tell(i, w), home' = home
  PROVE  /\ \A c \in Client \ {owner[i]} : word'[c] = word[c]
         /\ word'[owner[i]] \in {word[owner[i]], w}
         /\ \A j \in Ids \ {i} : WordsOf(j)' = WordsOf(j)
         /\ WordsOf(i)' \in {WordsOf(i), [WordsOf(i) EXCEPT ![owner[i]] = w]}
<1>1. owner[i] \in Client /\ home[owner[i]] = i
  BY OwnerHome
<1>2. word \in [Client -> {"none", "Detached", "Exit"}]
  BY DEF PromiseInv, TypeInv, WordTyped
<1>3. /\ \A c \in Client \ {owner[i]} : word'[c] = word[c]
      /\ word'[owner[i]] \in {word[owner[i]], w}
  BY <1>1, <1>2 DEF Tell
<1>4. \A j \in Ids \ {i} : WordsOf(j)' = WordsOf(j)
  BY <1>1, <1>3 DEF WordsOf
<1>5. CASE word'[owner[i]] = word[owner[i]]
  <2>1. WordsOf(i)' = WordsOf(i)
    BY <1>3, <1>5 DEF WordsOf
  <2> QED
    BY <1>3, <1>4, <2>1
<1>6. CASE word'[owner[i]] = w
  <2>1. WordsOf(i)' = [WordsOf(i) EXCEPT ![owner[i]] = w]
    BY <1>1, <1>3, <1>6 DEF WordsOf
  <2> QED
    BY <1>3, <1>4, <2>1
<1> QED
  BY <1>3, <1>5, <1>6

LEMMA UntoldNext == PromiseInv /\ [Next]_vars => PromiseInv'
<1> SUFFICES ASSUME PromiseInv, [Next]_vars PROVE Untold'
  BY TypeNext, RegistryNext, HandNext DEF PromiseInv
<1>1. CASE \E i \in Ids : TaskStep(i) \/ ShellExit(i) \/ Fail(i)
  <2>1. PICK i \in Ids : TaskStep(i) \/ ShellExit(i) \/ Fail(i)
    BY <1>1
  <2>2. home' = home
    BY <2>1 DEF TaskStep, Serve, Takeover, ClientGone, ShellExit, Fail, Cancelled, Join, Task, connVars
  <2>3. word' = word \/ (phase[i] = "serving" /\ \E w \in {"Detached", "Exit"} : Tell(i, w))
    BY <2>1 DEF TaskStep, Serve, Takeover, ClientGone, ShellExit, Fail, Cancelled, Join
  <2>4. i # NoId
    BY DaemonConstants DEF Ids, NoId
  <2> QED
    BY <2>2, <2>3, <2>4, Told, OwnerHome DEF PromiseInv, Untold
<1>2. CASE Answer
  <2>1. word' = word /\ \A c \in Client : home'[c] = NoId => home[c] = NoId
    <3>1. word' = word /\ (home' = home \/ (to # NoId /\ home' = [home EXCEPT ![cur] = to]))
      BY <1>2 DEF Answer
    <3> QED
      BY <3>1 DEF PromiseInv, TypeInv, ConnTyped
  <2> QED
    BY <2>1 DEF PromiseInv, Untold
<1>3. CASE Handler
  BY <1>3, HandlerFrame DEF connVars, PromiseInv, Untold
<1> QED
  BY <1>1, <1>2, <1>3
     DEF PromiseInv, Untold, Next, Step, Handler, vars, taskVars, connVars, Accept, AcceptError,
         OnSignal, NoFrame, Signal, Connect, Leave, Ask

LEMMA PromiseInit == Init => PromiseInv /\ \A i \in Ids : Promise(i)!Init
<1> SUFFICES ASSUME Init PROVE PromiseInv /\ \A i \in Ids : Promise(i)!Init
  OBVIOUS
<1>1. PromiseInv
  BY TypeInit, RegistryInit, HandInit DEF PromiseInv, Untold, Init
<1>2. ASSUME NEW i \in Ids PROVE Promise(i)!Init
  <2>1. i # NoId /\ \A c \in Client : home[c] # i
    BY DaemonConstants DEF Init, Ids, NoId
  <2> QED
    <3>1. phase[i] = "none" /\ rx[i] = <<>> /\ owner[i] = NoClient
      BY DEF Init
    <3>2. {c \in Client : home[c] = i} = {}
      BY <2>1
    <3>3. [c \in Client |-> IF home[c] = i THEN word[c] ELSE "none"] = [c \in Client |-> "none"]
      BY <2>1
    <3>4. (CASE phase[i] = "none" -> "waiting" [] Closed(i) -> "over" [] OTHER -> phase[i]) = "waiting"
      BY <3>1 DEF Closed
    <3> QED
      BY <3>1, <3>2, <3>3, <3>4 DEF Promise!Init
<1> QED
  BY <1>1, <1>2

(* Nothing of session i changes. *)
LEMMA PromiseStutter ==
  ASSUME NEW i \in Ids, PhaseOf(i)' = PhaseOf(i), SeenBy(i)' = SeenBy(i), rx'[i] = rx[i],
         owner'[i] = owner[i], WordsOf(i)' = WordsOf(i)
  PROVE  UNCHANGED Promise(i)!vars
  BY DEF PhaseOf, SeenBy, WordsOf, Closed, Promise!vars

(* A step of a task is one of SessionTask for it, ... *)
LEMMA PromiseTask ==
  ASSUME PromiseInv, NEW i \in Ids, TaskStep(i) \/ ShellExit(i) \/ Fail(i)
  PROVE  Promise(i)!Next \/ UNCHANGED Promise(i)!vars
<1>0. home' = home /\ SeenBy(i)' = SeenBy(i)
  BY DEF TaskStep, Serve, Takeover, ClientGone, ShellExit, Fail, Cancelled, Join, Task, connVars, SeenBy
<1>1. phase \in [Ids -> Phases] /\ rx \in [Ids -> Seq(Client)] /\ owner \in [Ids -> Client \cup {NoClient}]
  BY DEF PromiseInv, TypeInv, MapTyped, ConnTyped
<1>2. CASE Serve(i)
  <2>1. WordsOf(i)' = WordsOf(i)
    BY <1>0, <1>2 DEF Serve, WordsOf
  <2>2. /\ rx[i] # <<>> /\ rx'[i] = Tail(rx[i]) /\ owner'[i] = Head(rx[i])
        /\ phase[i] \in {"waiting", "idle"} /\ phase'[i] = "serving"
    BY <1>1, <1>2 DEF Serve
  <2>3. Promise(i)!Serve
    BY <1>0, <2>1, <2>2 DEF Promise!Serve, SeenBy, WordsOf, Closed
  <2> QED
    BY <2>3 DEF Promise!Next
<1>3. CASE Takeover(i)
  <2>1. /\ rx[i] # <<>> /\ rx'[i] = Tail(rx[i]) /\ owner'[i] = Head(rx[i])
        /\ phase[i] = "serving" /\ phase' = phase /\ Tell(i, "Detached")
    BY <1>1, <1>3 DEF Takeover
  <2>2. WordsOf(i)' \in {WordsOf(i), [WordsOf(i) EXCEPT ![owner[i]] = "Detached"]}
    BY <1>0, <2>1, Told
  <2>3. Promise(i)!Takeover
    BY <1>0, <2>1, <2>2 DEF Promise!Takeover, SeenBy, WordsOf, Closed
  <2> QED
    BY <2>3 DEF Promise!Next
<1>4. CASE ClientGone(i)
  <2>1. phase[i] = "serving" /\ phase'[i] = "idle" /\ UNCHANGED <<rx, owner, word>>
    BY <1>1, <1>4 DEF ClientGone
  <2>2. Promise(i)!Leave
    BY <1>0, <2>1 DEF Promise!Leave, Closed
  <2> QED
    BY <2>2 DEF Promise!Next
<1>5. CASE ShellExit(i) \/ Fail(i) \/ Cancelled(i)
  <2>1. /\ UNCHANGED <<rx, owner>> /\ phase[i] \in {"waiting", "serving", "idle"}
        /\ phase'[i] \in {"exited", "failed", "aborted"}
        /\ word' = word \/ (phase[i] = "serving" /\ Tell(i, "Exit"))
    BY <1>1, <1>5 DEF ShellExit, Fail, Cancelled, Live
  <2>2. \/ WordsOf(i)' = WordsOf(i)
        \/ phase[i] = "serving" /\ WordsOf(i)' = [WordsOf(i) EXCEPT ![owner[i]] = "Exit"]
    BY <1>0, <2>1, Told DEF WordsOf
  <2>3. Promise(i)!Finish
    BY <1>0, <2>1, <2>2 DEF Promise!Finish, SeenBy, WordsOf, Closed
  <2> QED
    BY <2>3 DEF Promise!Next
<1>6. CASE Join(i)
  BY <1>0, <1>6, PromiseStutter DEF Join, PhaseOf, WordsOf, Closed
<1> QED
  BY <1>2, <1>3, <1>4, <1>5, <1>6 DEF TaskStep

(* ... and none for the others. *)
LEMMA PromiseOthers ==
  ASSUME PromiseInv, NEW j \in Ids, TaskStep(j) \/ ShellExit(j) \/ Fail(j), NEW i \in Ids \ {j}
  PROVE  UNCHANGED Promise(i)!vars
<1>1. home' = home
  BY DEF TaskStep, Serve, Takeover, ClientGone, ShellExit, Fail, Cancelled, Join, Task, connVars
<1>2. phase'[i] = phase[i] /\ rx'[i] = rx[i] /\ owner'[i] = owner[i]
  BY DEF TaskStep, Serve, Takeover, ClientGone, ShellExit, Fail, Cancelled, Join, PromiseInv, TypeInv,
         MapTyped, ConnTyped
<1>3. WordsOf(i)' = WordsOf(i)
  <2>1. word' = word \/ (phase[j] = "serving" /\ \E w \in {"Detached", "Exit"} : Tell(j, w))
    BY DEF TaskStep, Serve, Takeover, ClientGone, ShellExit, Fail, Cancelled, Join
  <2>2. CASE word' = word
    BY <1>1, <2>2 DEF WordsOf
  <2> QED
    BY <1>1, <2>1, <2>2, Told
<1> QED
  BY <1>1, <1>2, <1>3, PromiseStutter DEF PhaseOf, SeenBy, Closed

(* The answer hands a client over that the session has not seen. *)
LEMMA PromiseAnswer ==
  ASSUME PromiseInv, Answer, NEW i \in Ids
  PROVE  Promise(i)!Next \/ UNCHANGED Promise(i)!vars
<1>0. /\ UNCHANGED <<phase, owner, word>> /\ cur \in Client /\ home[cur] = NoId
      /\ word[cur] = "none" /\ i # NoId
  <2>1. i # NoId
    BY DaemonConstants DEF Ids, NoId
  <2> QED
    BY <2>1 DEF Answer, PromiseInv, TypeInv, LoopTyped, HandInv, HandledOnce, Untold
<1>1. PhaseOf(i)' = PhaseOf(i)
  BY <1>0 DEF PhaseOf, Closed
<1>2. CASE UNCHANGED <<rx, home>>
  BY <1>0, <1>1, <1>2, PromiseStutter DEF SeenBy, WordsOf
<1>3. CASE to # NoId /\ ~Closed(to)
  <2>1. /\ rx' = [rx EXCEPT ![to] = Append(@, cur)] /\ home' = [home EXCEPT ![cur] = to]
        /\ to \in Ids
    BY <1>3 DEF Answer, PromiseInv, TypeInv, LoopTyped
  <2>2. home'[cur] = to /\ \A c \in Client \ {cur} : home'[c] = home[c]
    BY <1>0, <2>1 DEF PromiseInv, TypeInv, ConnTyped
  <2>3. WordsOf(i)' = WordsOf(i)
    BY <1>0, <2>2 DEF WordsOf
  <2>4. CASE i = to
    <3>1. rx'[i] = Append(rx[i], cur)
      BY <2>1, <2>4 DEF PromiseInv, TypeInv, ConnTyped
    <3>2. SeenBy(i)' = SeenBy(i) \cup {cur} /\ cur \notin SeenBy(i)
      BY <1>0, <2>2, <2>4 DEF SeenBy
    <3>3. PICK c \in Client : c = cur
      BY <1>0
    <3>4. Promise(i)!HandOff(c)
      <4>1. phase[i] \notin {"exited", "failed", "aborted"} /\ phase[i] # "over"
        BY <1>3, <2>4 DEF Closed, PromiseInv, TypeInv, MapTyped, Phases
      <4>2. (CASE phase[i] = "none" -> "waiting" [] Closed(i) -> "over" [] OTHER -> phase[i]) # "over"
        BY <4>1 DEF Closed
      <4>3. c \notin SeenBy(i) /\ SeenBy(i)' = SeenBy(i) \cup {c} /\ rx'[i] = Append(rx[i], c)
        BY <3>1, <3>2, <3>3
      <4> QED
        BY <1>0, <1>1, <2>3, <4>2, <4>3 DEF Promise!HandOff, SeenBy, WordsOf, PhaseOf
    <3> QED
      BY <3>4 DEF Promise!Next
  <2>5. CASE i # to
    <3>1. rx'[i] = rx[i]
      BY <2>1, <2>5 DEF PromiseInv, TypeInv, ConnTyped
    <3>2. SeenBy(i)' = SeenBy(i)
      BY <1>0, <2>2, <2>5 DEF SeenBy
    <3> QED
      BY <1>0, <1>1, <2>3, <3>1, <3>2, PromiseStutter
  <2> QED
    BY <2>4, <2>5
<1> QED
  BY <1>2, <1>3 DEF Answer

LEMMA PromiseNext ==
  PromiseInv /\ [Next]_vars => \A i \in Ids : Promise(i)!Next \/ UNCHANGED Promise(i)!vars
<1> SUFFICES ASSUME PromiseInv, [Next]_vars, NEW i \in Ids
             PROVE  Promise(i)!Next \/ UNCHANGED Promise(i)!vars
  OBVIOUS
<1>1. CASE \E j \in Ids : TaskStep(j) \/ ShellExit(j) \/ Fail(j)
  BY <1>1, PromiseTask, PromiseOthers
<1>2. CASE Answer
  BY <1>2, PromiseAnswer
<1>3. CASE Handler
  <2>1. /\ UNCHANGED <<rx, owner, word, home>>
        /\ phase' = phase \/ (nextId < MaxSessions /\ phase' = [phase EXCEPT ![nextId] = "waiting"])
    BY <1>3, HandlerFrame
       DEF connVars, Handler, NewSession, Attach, ListSessions, KillSession, KillServer, OtherFrame
  <2>2. nextId < MaxSessions => phase[nextId] = "none"
    BY DaemonConstants DEF PromiseInv, TypeInv, MapTyped, RegistryInv, FreshIds, Ids
  <2>3. phase'[i] = phase[i] \/ (phase[i] = "none" /\ phase'[i] = "waiting")
    BY <2>1, <2>2 DEF PromiseInv, TypeInv, MapTyped
  <2> QED
    BY <2>1, <2>3, PromiseStutter DEF PhaseOf, SeenBy, WordsOf, Closed
<1>4. CASE UNCHANGED <<phase, rx, owner, word, home>>
  BY <1>4, PromiseStutter DEF PhaseOf, SeenBy, WordsOf, Closed
<1> QED
  BY <1>1, <1>2, <1>3, <1>4
     DEF Next, Step, Handler, vars, taskVars, connVars, Accept, AcceptError, OnSignal, NoFrame, Signal,
         Connect, Leave, Ask

(* Each session task of the daemon implements SessionTask, whatever the    *)
(* loop and the clients do.                                                *)
THEOREM EveryTaskKeepsPromise == Spec => TasksKeepPromise
<1>1. Init => PromiseInv /\ \A i \in Ids : Promise(i)!Init
  BY PromiseInit
<1>2. PromiseInv /\ [Next]_vars => PromiseInv'
  BY UntoldNext
<1>3. PromiseInv /\ [Next]_vars => [\A i \in Ids : Promise(i)!Next \/ UNCHANGED Promise(i)!vars]_vars
  BY PromiseNext
<1> QED
  BY <1>1, <1>2, <1>3, PTL DEF Spec, TasksKeepPromise
=============================================================================
