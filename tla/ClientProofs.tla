---------------------------- MODULE ClientProofs ----------------------------
(***************************************************************************)
(* Theorems about the attached client: why it ends, and when it gives a    *)
(* connection up, for any user, any limit and any bounds.                  *)
(***************************************************************************)
EXTENDS Client, TLAPS

USE DEF clientVars, linkVars, Behind, Quit, EnvCleared, Lost

(* What the properties need of the types. *)
Frames == {"Data", "Pong", "Exit", "Detached", "Ok", "Error"}

Typed ==
  /\ quiet \in Nat /\ owed \in Nat
  /\ inbox \in Seq(Frames)
  /\ unwell \in BOOLEAN
  /\ link \in {"live", "dead"}

Arrived(f) == \E k \in DOMAIN inbox : inbox[k] = f

LEMMA Received ==
  ASSUME Typed, NEW f, NextFrame(f)
  PROVE  /\ inbox' \in Seq(Frames) /\ Arrived(f)
         /\ \A g : Arrived(g)' => Arrived(g)
         /\ \A g : Arrived(g) => Arrived(g)' \/ g = f
<1>1. inbox # <<>> /\ f = inbox[1] /\ inbox' = Tail(inbox) /\ inbox \in Seq(Frames)
  BY DEF NextFrame, Typed
<1>2. /\ 1 \in DOMAIN inbox /\ Tail(inbox) \in Seq(Frames)
      /\ \A k \in DOMAIN Tail(inbox) : k + 1 \in DOMAIN inbox /\ Tail(inbox)[k] = inbox[k + 1]
      /\ \A k \in DOMAIN inbox : k # 1 => k - 1 \in DOMAIN Tail(inbox) /\ Tail(inbox)[k - 1] = inbox[k]
  BY <1>1
<1> QED
  BY <1>1, <1>2 DEF Arrived

LEMMA Sends ==
  ASSUME Typed, NEW f \in Frames, Reaches(f)
  PROVE  /\ inbox' \in Seq(Frames) /\ Arrived(f)'
         /\ \A g : Arrived(g)' => Arrived(g) \/ g = f
         /\ \A g : Arrived(g) => Arrived(g)'
<1>1. inbox' = Append(inbox, f) /\ inbox \in Seq(Frames)
  BY DEF Reaches, Typed
<1>2. /\ inbox' \in Seq(Frames) /\ Len(inbox) + 1 \in DOMAIN inbox' /\ inbox'[Len(inbox) + 1] = f
      /\ \A k \in DOMAIN inbox : k \in DOMAIN inbox' /\ inbox'[k] = inbox[k]
      /\ \A k \in DOMAIN inbox' : k \in DOMAIN inbox \/ k = Len(inbox) + 1
  BY <1>1
<1> QED
  BY <1>2 DEF Arrived

(* What the other end says is true when it says it, and stays true as long *)
(* as anybody can read it.                                                 *)
Truthful ==
  /\ Arrived("Exit") \/ Arrived("Error") => session = "gone"
  /\ Arrived("Detached") => served = "old"

(* As long as nothing went wrong with a connection, it is live, and a Pong *)
(* is on its way for the one Ping that may be unanswered.  On one that was *)
(* not accepted yet the client only waits for the answer.                  *)
Fine == ~unwell /\ served = "yes" /\ session = "alive"
Alright ==
  /\ Fine => path = "clear" /\ link = "live"
  /\ Fine /\ pc \in {"relay", "act", "suspended"} =>
       quiet <= 1 /\ (quiet > 0 => owed > 0 \/ Arrived("Pong"))
  /\ served = "no" => pc \in {"sleep", "reply", "over"} /\ ~Arrived("Ok")

(* The client's own steps, by what they do to the connection: ...          *)
Keeps ==
  \/ ActDetach \/ ActHelp \/ ActSuspend \/ OnEof \/ CtrlC \/ DialFails \/ NoReply
  \/ ReadStdin \/ TerminalGone
Reads == OnData \/ OnPong \/ OnExit \/ OnDetached \/ Accepted \/ Refused
Writes == SayHello \/ ActSend \/ Sigwinch \/ Tick
(* ... and those of the other end and the network. *)
Speaks == Answer \/ Output \/ Pong \/ LastWord
Outside == TakenOver \/ SessionEnds \/ LinkDies \/ PathChanges \/ Type

LEMMA Steps == Next => Keeps \/ Reads \/ Writes \/ Dial \/ Resume \/ Speaks \/ Outside
  BY DEF Next, Step, Keeps, Reads, Writes, Speaks, Outside

LEMMA TypedNext == ASSUME ClientConstants, Typed, [Next]_vars PROVE Typed'
<1>1. CASE Keeps
  BY <1>1, Zenon DEF Keeps, ActDetach, ActHelp, ActSuspend, OnEof, EofRetries, CtrlC, DialFails, NoReply,
                     ReadStdin, TerminalGone, Continue, Typed
<1>2. CASE Reads
  <2>1. inbox' \in Seq(Frames)
    BY <1>2, Received DEF Reads, OnData, OnPong, OnExit, OnDetached, Accepted, Refused
  <2>2. quiet' \in Nat /\ owed' = owed /\ link' = link
    BY <1>2 DEF Reads, OnData, OnPong, PongCounts, OnExit, OnDetached, Accepted, Refused, NextFrame, Typed
  <2>3. unwell' \in BOOLEAN
    BY <1>2, Zenon DEF Reads, OnData, OnPong, OnExit, OnDetached, Accepted, Refused, Typed
  <2> QED
    BY <2>1, <2>2, <2>3 DEF Typed
<1>3. CASE Writes
  <2>1. quiet' \in Nat /\ owed' \in Nat
    BY <1>3 DEF Writes, SayHello, ActSend, Sigwinch, Tick, Sent, SendLost, Typed
  <2>2. inbox' = inbox /\ unwell' = unwell /\ link' = link
    BY <1>3 DEF Writes, SayHello, ActSend, Sigwinch, Tick, Sent, SendLost
  <2> QED
    BY <2>1, <2>2, Zenon DEF Typed
<1>4. CASE Dial
  <2>1. quiet' = quiet /\ owed' = 0 /\ inbox' = <<>> /\ link' = "live"
    BY <1>4 DEF Dial
  <2>2. unwell' \in BOOLEAN
    BY <1>4, Zenon DEF Dial
  <2> QED
    BY <2>1, <2>2 DEF Typed
<1>5. CASE Resume
  <2>1. quiet' \in Nat /\ UNCHANGED <<owed, inbox, link>>
    BY <1>5 DEF Resume, Typed, ClientConstants
  <2>2. unwell' \in BOOLEAN
    BY <1>5, Zenon DEF Resume, Typed
  <2> QED
    BY <2>1, <2>2 DEF Typed
<1>6. CASE Speaks
  <2>1. inbox' \in Seq(Frames) /\ link' \in {link, "dead"}
    BY <1>6, Sends DEF Speaks, Answer, Output, Pong, LastWord, Frames
  <2>2. quiet' = quiet /\ owed' \in Nat /\ unwell' = unwell
    BY <1>6 DEF Speaks, Answer, Output, Pong, LastWord, Reaches, Typed
  <2> QED
    BY <2>1, <2>2, Zenon DEF Typed
<1>7. CASE Outside
  BY <1>7, Zenon DEF Outside, TakenOver, SessionEnds, LinkDies, PathChanges, Type, Typed
<1>8. CASE UNCHANGED vars
  BY <1>8, Zenon DEF vars, Typed
<1> QED
  BY <1>1, <1>2, <1>3, <1>4, <1>5, <1>6, <1>7, <1>8, Steps

-----------------------------------------------------------------------------
(* Why the client ends. *)
ReasonInv == Truthful /\ EndsForAReason

LEMMA TruthfulNext == ASSUME Typed, Truthful, [Next]_vars PROVE Truthful'
<1>1. CASE Keeps \/ Writes \/ Resume \/ UNCHANGED vars
  <2>1. UNCHANGED <<inbox, session, served>>
    BY <1>1 DEF Keeps, ActDetach, ActHelp, ActSuspend, OnEof, CtrlC, DialFails, NoReply, ReadStdin,
                TerminalGone, Writes, SayHello, ActSend, Sigwinch, Tick, Sent, SendLost, Resume, vars
  <2> QED
    BY <2>1 DEF Truthful, Arrived
<1>2. CASE Reads
  <2>1. UNCHANGED <<session, served>> /\ \A g : Arrived(g)' => Arrived(g)
    BY <1>2, Received DEF Reads, OnData, OnPong, OnExit, OnDetached, Accepted, Refused, NextFrame
  <2> QED
    BY <2>1 DEF Truthful
<1>3. CASE Dial
  BY <1>3 DEF Dial, Truthful, Arrived
<1>4. CASE Speaks
  <2>1. /\ session' = session /\ (served = "old" => served' = "old")
        /\ \E f \in Frames :
             /\ Reaches(f)
             /\ f \in {"Exit", "Error"} => session = "gone"
             /\ f = "Detached" => served = "old"
    BY <1>4 DEF Speaks, Answer, Output, Pong, LastWord, Reaches, Frames
  <2> QED
    BY <2>1, Sends DEF Truthful
<1>5. CASE Outside
  <2>1. /\ inbox' = inbox /\ (session = "gone" => session' = "gone")
        /\ (served = "old" => served' = "old")
    BY <1>5 DEF Outside, TakenOver, SessionEnds, LinkDies, PathChanges, Type
  <2> QED
    BY <2>1 DEF Truthful, Arrived
<1> QED
  BY <1>1, <1>2, <1>3, <1>4, <1>5, Steps

LEMMA ReasonNext ==
  ASSUME ShellCode \notin {0, 1}, Typed, ReasonInv, [Next]_vars PROVE ReasonInv'
<1>1. Truthful'
  BY TruthfulNext DEF ReasonInv
<1>2. EndsForAReason'
  <2>1. CASE pc' # "over"
    BY <2>1 DEF EndsForAReason
  <2>2. CASE ActDetach \/ TerminalGone \/ CtrlC
    BY <2>2 DEF ActDetach, TerminalGone, CtrlC, EndsForAReason
  <2>3. CASE OnExit \/ Refused
    <3>1. session' = "gone"
      BY <2>3, Received DEF OnExit, Refused, ReasonInv, Truthful
    <3> QED
      BY <3>1 DEF EndsForAReason
  <2>4. CASE OnDetached
    <3>1. served' = "old" /\ code' = 0
      BY <2>4, Received DEF OnDetached, NextFrame, ReasonInv, Truthful
    <3> QED
      BY <3>1 DEF EndsForAReason
  <2>5. CASE Speaks \/ Outside \/ UNCHANGED vars
    <3>1. /\ UNCHANGED <<pc, code, quit>> /\ (session = "gone" => session' = "gone")
          /\ (served = "old" => served' = "old")
      BY <2>5 DEF Speaks, Answer, Output, Pong, LastWord, Reaches, Outside, TakenOver, SessionEnds,
                  LinkDies, PathChanges, Type, vars
    <3> QED
      BY <3>1 DEF ReasonInv, EndsForAReason
  <2>6. CASE \/ SayHello \/ ActSend \/ ActHelp \/ ActSuspend \/ OnData \/ OnPong \/ OnEof \/ DialFails
             \/ Dial \/ Accepted \/ NoReply \/ Tick \/ ReadStdin \/ Resume \/ Sigwinch
    <3>1. pc' # "over"
      BY <2>6 DEF SayHello, ActSend, ActHelp, ActSuspend, OnData, OnPong, OnEof, EofRetries, DialFails,
                  Peek, Dial, Accepted, OnOk, NoReply, Tick, ReadStdin, Resume, Sigwinch, Sent, SendLost,
                  Continue
    <3> QED
      BY <3>1 DEF EndsForAReason
  <2> QED
    BY <2>1, <2>2, <2>3, <2>4, <2>5, <2>6 DEF Next, Step, Speaks, Outside
<1> QED
  BY <1>1, <1>2 DEF ReasonInv

LEMMA Starts == Init => Typed /\ ReasonInv /\ Alright
<1> SUFFICES ASSUME Init PROVE Typed /\ ReasonInv /\ Alright
  OBVIOUS
<1>1. Typed
  <2>1. quiet \in Nat /\ owed \in Nat /\ inbox \in Seq(Frames) /\ link \in {"live", "dead"}
    BY DEF Init
  <2>2. unwell \in BOOLEAN
    BY Zenon DEF Init
  <2> QED
    BY <2>1, <2>2 DEF Typed
<1>2. ReasonInv /\ Alright
  BY DEF Init, ReasonInv, Truthful, EndsForAReason, Alright, Fine, Arrived
<1> QED
  BY <1>1, <1>2

(* The client ends for a reason, and never for the network (client.rs:388- *)
(* 445), if the shell's code can be told from the client's own 0 and 1.    *)
THEOREM EndsRightly ==
  ASSUME ShellCode \notin {0, 1} PROVE Spec => []EndsForAReason
<1>1. Init => Typed /\ ReasonInv
  BY Starts
<1>2. Typed /\ ReasonInv /\ [Next]_vars => (Typed /\ ReasonInv)'
  BY ClientConstants, TypedNext, ReasonNext
<1>3. ReasonInv => EndsForAReason
  BY DEF ReasonInv
<1> QED
  BY <1>1, <1>2, <1>3, PTL DEF Spec

-----------------------------------------------------------------------------
(* When a connection is given up.  A bound that lets no Pong through would *)
(* raise false alarms, and so would a limit of one interval.               *)
LEMMA ReadsAlright == ASSUME Typed, Alright, Reads PROVE Alright'
<1>0. /\ UNCHANGED <<owed, path, link, served, session>> /\ \A g : Arrived(g)' => Arrived(g)
      /\ served = "no" => pc' \in {"sleep", "reply", "over"}
  <2>1. served = "no" => ~Accepted /\ pc \in {"sleep", "reply", "over"}
    BY Received DEF Accepted, Alright
  <2> QED
    BY <2>1, Received DEF Reads, OnData, OnPong, OnExit, OnDetached, Accepted, Refused, NextFrame
<1>1. CASE OnPong
  <2>1. quiet' = 0 /\ (path # "clear" \/ link = "dead" => unwell')
    BY <1>1 DEF OnPong, PongCounts
  <2>2. Fine' => path = "clear" /\ link = "live"
    BY <1>0, <2>1 DEF Typed, Fine
  <2> QED
    BY <1>0, <2>1, <2>2 DEF Alright
<1>2. CASE OnData \/ OnExit \/ OnDetached \/ Accepted \/ Refused
  <2>1. \E f \in Frames \ {"Pong"} : NextFrame(f)
    BY <1>2 DEF OnData, OnExit, OnDetached, Accepted, Refused, Frames
  <2>2. Arrived("Pong") => Arrived("Pong")'
    BY <2>1, Received
  <2>3. /\ UNCHANGED <<quiet, unwell>>
        /\ pc' \in {"relay", "act", "suspended"} => pc = "relay"
    BY <1>2 DEF OnData, OnExit, OnDetached, Accepted, OnOk, Refused, NextFrame
  <2> QED
    BY <1>0, <2>2, <2>3 DEF Alright, Fine
<1> QED
  BY <1>1, <1>2 DEF Reads

(* A tick finds every Ping answered. *)
LEMMA TickSettled ==
  ASSUME ClientConstants, Limit > 1, Typed, Alright, Tick PROVE Fine => quiet = 0
<1>1. Fine => quiet <= Limit /\ path = "clear" /\ link = "live" /\ (quiet > 0 => owed > 0 \/ Arrived("Pong"))
  BY DEF Tick, Alright, Typed, ClientConstants
<1>2. Fine => Settled
  BY <1>1 DEF Tick, Typed, ClientConstants
<1>3. Settled => owed = 0 /\ ~Arrived("Pong")
  BY DEF Settled, Arrived
<1> QED
  BY <1>1, <1>2, <1>3 DEF Typed

LEMMA WritesAlright ==
  ASSUME ClientConstants, Limit > 1, MaxInbox > 0, Typed, Alright, Writes PROVE Alright'
<1>0. /\ UNCHANGED <<inbox, link, path, served, session, unwell>>
      /\ \A f : Arrived(f)' <=> Arrived(f)
      /\ pc \in {"hello", "act", "relay"}
  BY DEF Writes, SayHello, ActSend, Sigwinch, Tick, Sent, SendLost, Arrived
<1>1. CASE SayHello
  <2>1. quiet' = 0 \/ pc' = "sleep"
    BY <1>1 DEF SayHello, SendLost
  <2> QED
    BY <1>0, <2>1 DEF Alright, Fine
<1>2. CASE ActSend \/ Sigwinch
  <2>1. (quiet' = quiet /\ owed' = owed) \/ pc' = "sleep"
    BY <1>2 DEF ActSend, Sigwinch, Sent, SendLost
  <2>2. pc \in {"relay", "act"}
    BY <1>2 DEF ActSend, Sigwinch
  <2> QED
    BY <1>0, <2>1, <2>2 DEF Alright, Fine
<1>3. CASE Tick
  <2>1. CASE pc' = "sleep"
    BY <1>0, <2>1 DEF Alright, Fine
  <2>2. CASE pc' # "sleep"
    <3>1. /\ quiet' = quiet + 1 /\ owed' = (IF owed < MaxInbox THEN owed + 1 ELSE owed)
      BY <1>3, <2>2 DEF Tick, Sent, SendLost
    <3>2. owed' > 0
      BY <3>1 DEF Typed, ClientConstants
    <3> QED
      BY <1>0, <1>3, <3>1, <3>2, TickSettled DEF Alright, Fine
  <2> QED
    BY <2>1, <2>2
<1> QED
  BY <1>1, <1>2, <1>3 DEF Writes

LEMMA SpeaksAlright == ASSUME Typed, Alright, Speaks PROVE Alright'
<1>1. CASE Output \/ Pong
  <2>1. /\ UNCHANGED <<pc, quiet, path, link, served, session, unwell>> /\ served = "yes"
        /\ \E f \in {"Data", "Pong"} : Reaches(f) /\ (owed' = owed \/ f = "Pong")
    BY <1>1 DEF Output, Pong, Reaches
  <2>2. Arrived("Pong")' \/ (owed' = owed /\ (Arrived("Pong") => Arrived("Pong")'))
    BY <2>1, Sends DEF Frames
  <2> QED
    BY <2>1, <2>2 DEF Alright, Fine
<1>2. CASE LastWord
  BY <1>2 DEF LastWord, Reaches, Alright, Fine
<1>3. CASE Answer
  <2>1. /\ UNCHANGED <<pc, path, session, unwell>> /\ served = "no" /\ path = "clear" /\ link = "live"
        /\ \/ served' = "yes" /\ link' = link
           \/ served' = "no" /\ Reaches("Error")
    BY <1>3 DEF Answer, Reaches
  <2>2. pc \in {"sleep", "reply", "over"} /\ ~Arrived("Ok")
    BY <2>1 DEF Alright
  <2>3. served' = "no" => ~Arrived("Ok")'
    BY <2>1, <2>2, Sends DEF Frames
  <2> QED
    BY <2>1, <2>2, <2>3 DEF Alright, Fine
<1> QED
  BY <1>1, <1>2, <1>3 DEF Speaks

LEMMA AlrightNext ==
  ASSUME ClientConstants, Limit > 1, MaxInbox > 0, Typed, Alright, [Next]_vars PROVE Alright'
<1>1. CASE Keeps
  <2>1. /\ UNCHANGED <<quiet, owed, inbox, link, path, served, session, unwell>>
        /\ pc' \in {"relay", "act", "suspended"} => pc \in {"relay", "act", "suspended"}
        /\ pc \in {"sleep", "reply", "over"} => pc' \in {"sleep", "reply", "over"}
    BY <1>1 DEF Keeps, ActDetach, ActHelp, ActSuspend, OnEof, EofRetries, CtrlC, DialFails, NoReply,
                ReadStdin, TerminalGone, Continue
  <2> QED
    BY <2>1 DEF Alright, Fine, Arrived
<1>2. CASE Dial
  BY <1>2 DEF Dial, Alright, Fine, Arrived
<1>3. CASE Resume
  <2>1. /\ UNCHANGED <<owed, inbox, link, path, served, session>> /\ pc = "suspended" /\ pc' = "act"
        /\ UNCHANGED <<quiet, unwell>> \/ unwell'
    BY <1>3 DEF Resume
  <2> QED
    BY <2>1 DEF Alright, Fine, Arrived
<1>4. CASE Outside
  <2>1. UNCHANGED <<pc, quiet, owed, inbox>> /\ (served' = "no" => served = "no")
    BY <1>4 DEF Outside, TakenOver, SessionEnds, LinkDies, PathChanges, Type
  <2>2. UNCHANGED <<link, path, served, session, unwell>> \/ ~Fine'
    BY <1>4 DEF Outside, TakenOver, SessionEnds, LinkDies, PathChanges, Type, Fine
  <2> QED
    BY <2>1, <2>2 DEF Alright, Fine, Arrived
<1>5. CASE UNCHANGED vars
  BY <1>5 DEF vars, Alright, Fine, Arrived
<1> QED
  BY <1>1, <1>2, <1>3, <1>4, <1>5, ReadsAlright, WritesAlright, SpeaksAlright, Steps

(* The heartbeat raises no false alarm (client.rs:349-357), whatever the   *)
(* limit, if it is more than one interval and one Pong can be on its way.  *)
THEOREM NoAlarmIsFalse ==
  ASSUME Limit > 1, MaxInbox > 0 PROVE Spec => NoFalseAlarm
<1>1. Init => Typed /\ Alright
  BY Starts
<1>2. Typed /\ Alright /\ [Next]_vars => (Typed /\ Alright)'
  BY ClientConstants, TypedNext, AlrightNext
<1>3. ASSUME Typed, Alright, [Next]_vars, pc \in {"hello", "relay", "act"}, pc' = "sleep",
             served = "yes", session = "alive"
      PROVE  unwell
  <2>1. SUFFICES ASSUME Fine PROVE FALSE
    BY <1>3 DEF Fine
  <2>2. path = "clear" /\ link = "live"
    BY <1>3, <2>1 DEF Alright
  <2>3. ~SendLost /\ ~OnEof
    BY <2>2 DEF SendLost, OnEof
  <2>4. CASE Tick
    <3>1. quiet = 0
      BY <1>3, <2>1, <2>4, ClientConstants, TickSettled
    <3>2. ~Expired
      BY <3>1, ClientConstants DEF Expired, ClientConstants
    <3> QED
      BY <1>3, <2>3, <2>4, <3>2 DEF Tick
  <2>5. CASE SayHello \/ ActSend \/ Sigwinch
    BY <1>3, <2>3, <2>5 DEF SayHello, ActSend, Sigwinch, Continue
  <2>6. CASE \/ ActDetach \/ ActHelp \/ ActSuspend \/ OnData \/ OnPong \/ OnExit \/ OnDetached
             \/ ReadStdin \/ TerminalGone \/ Resume
    BY <1>3, <2>6 DEF ActDetach, ActHelp, ActSuspend, OnData, OnPong, OnExit, OnDetached, ReadStdin,
                      TerminalGone, Resume, Continue
  <2>7. CASE CtrlC \/ DialFails \/ Dial \/ Accepted \/ Refused \/ NoReply
    BY <1>3, <2>7 DEF CtrlC, DialFails, Peek, Dial, Accepted, Refused, NoReply
  <2>8. CASE Speaks \/ Outside \/ UNCHANGED vars
    BY <1>3, <2>8 DEF Speaks, Answer, Output, Pong, LastWord, Reaches, Outside, TakenOver, SessionEnds,
                      LinkDies, PathChanges, Type, vars
  <2> QED
    BY <1>3, <2>3, <2>4, <2>5, <2>6, <2>7, <2>8 DEF Next, Step, Speaks, Outside
<1>4. Typed /\ Alright /\ [Next]_vars =>
        [/\ pc \in {"hello", "relay", "act"} /\ pc' = "sleep" /\ served = "yes" /\ session = "alive"
         => unwell]_vars
  BY <1>3
<1> QED
  BY <1>1, <1>2, <1>4, PTL DEF Spec, NoFalseAlarm
-----------------------------------------------------------------------------
(* The first frames of a connection. *)
Said == {"Env", "Resize", "Redraw", "Data", "Ping"}
Greeting == Hello(HasEnv /\ ~again, Redraw \/ again)

(* What was said and what is still to be said are the greeting; the Env is *)
(* used up before a second connection.                                     *)
Begun ==
  /\ \A k \in 1 .. Len(said) : k <= Len(Greeting) => said[k] = Greeting[k]
  /\ \A k \in 1 .. Len(said) : said[k] = "Env" => k <= Len(Greeting)

Greets ==
  pc = "hello" =>
    /\ todo \in Seq(Said) /\ todo # <<>>
    /\ Len(said) + Len(todo) = Len(Greeting)
    /\ \A k \in 1 .. Len(todo) : todo[k] = Greeting[Len(said) + k]

HelloInv ==
  /\ said \in Seq(Said) /\ Len(said) <= 3
  /\ pc \in {"sleep", "reply"} => env = FALSE
  /\ pc = "reply" => said = <<>> /\ again = TRUE
  /\ again \in BOOLEAN
  /\ pc \in {"relay", "act", "suspended"} => Len(said) >= Len(Greeting)
  /\ Begun /\ Greets

LEMMA GreetingForm ==
  ASSUME NEW e \in BOOLEAN, NEW r \in BOOLEAN
  PROVE  Hello(e, r) \in Seq(Said) /\ Hello(e, r) # <<>> /\ Len(Hello(e, r)) \in 1 .. 3
<1>1. PICK A \in Seq(Said), B \in Seq(Said) :
        Hello(e, r) = A \o <<"Resize">> \o B /\ Len(A) <= 1 /\ Len(B) <= 1
  <2>1. /\ <<>> \in Seq(Said) /\ <<"Env">> \in Seq(Said) /\ <<"Redraw">> \in Seq(Said)
        /\ Len(<<>>) <= 1 /\ Len(<<"Env">>) <= 1 /\ Len(<<"Redraw">>) <= 1
    BY DEF Said
  <2> QED
    BY <2>1, Zenon DEF Hello
<1>2. <<"Resize">> \in Seq(Said) /\ Len(<<"Resize">>) = 1
  BY DEF Said
<1>3. A \o <<"Resize">> \in Seq(Said) /\ Len(A \o <<"Resize">>) = Len(A) + 1
  BY <1>2
<1>4. Hello(e, r) \in Seq(Said) /\ Len(Hello(e, r)) = Len(A) + 1 + Len(B)
  BY <1>1, <1>3
<1>5. Len(A) \in Nat /\ Len(B) \in Nat /\ Len(<<>>) = 0
  OBVIOUS
<1>6. Len(Hello(e, r)) \in 1 .. 3
  BY <1>1, <1>4, <1>5
<1>7. Hello(e, r) # <<>>
  <2>1. Len(A) + 1 + Len(B) # 0
    BY <1>5
  <2>2. Len(Hello(e, r)) # 0
    BY <1>4, <2>1, Zenon
  <2> QED
    BY <1>5, <2>2, Zenon
<1> QED
  BY <1>4, <1>6, <1>7

LEMMA GreetingTyped ==
  ASSUME ClientConstants, again \in BOOLEAN
  PROVE  Greeting \in Seq(Said) /\ Greeting # <<>> /\ Len(Greeting) \in 1 .. 3
<1>1. (HasEnv /\ ~again) \in BOOLEAN /\ (Redraw \/ again) \in BOOLEAN
  OBVIOUS
<1> QED
  BY <1>1, GreetingForm DEF Greeting

LEMMA HelloStart == ASSUME ClientConstants, Init PROVE HelloInv
<1>1. again = FALSE /\ said = <<>> /\ pc = "hello" /\ todo = Hello(HasEnv, Redraw)
  BY DEF Init
<1>2. todo = Greeting
  <2>1. (HasEnv /\ ~again) = HasEnv /\ (Redraw \/ again) = Redraw
    BY <1>1 DEF ClientConstants
  <2> QED
    BY <1>1, <2>1 DEF Greeting
<1>3. Len(said) = 0 /\ said \in Seq(Said)
  BY <1>1
<1>6. again \in BOOLEAN
  BY <1>1, Zenon
<1>7. Greeting \in Seq(Said) /\ Greeting # <<>> /\ Len(Greeting) \in 1 .. 3
  BY <1>6, GreetingTyped
<1>4. Begun
  BY <1>3 DEF Begun
<1>5. Greets
  <2> DEFINE G == Greeting
  <2>1. todo = G /\ G \in Seq(Said) /\ G # <<>> /\ Len(G) \in Nat
    BY <1>2, <1>7
  <2>2. \A k \in 1 .. Len(todo) : todo[k] = G[Len(said) + k]
    BY <1>3, <2>1
  <2> QED
    BY <1>3, <2>1, <2>2 DEF Greets
<1> QED
  BY <1>1, <1>3, <1>4, <1>5, <1>6 DEF HelloInv

(* A frame that is sent is remembered or comes after all that matter. *)
LEMMA SaidMore ==
  ASSUME ClientConstants, HelloInv, NEW f \in Said, Sent(f), again' = again,
         Len(said) < Len(Greeting) => f = Greeting[Len(said) + 1],
         f = "Env" => Len(said) < Len(Greeting)
  PROVE  /\ said' \in Seq(Said) /\ Len(said') <= 3 /\ Begun' /\ again' \in BOOLEAN
         /\ Greeting' = Greeting
         /\ Len(said') >= Len(said)
         /\ Len(said) < Len(Greeting) => Len(said') = Len(said) + 1
<1>1. Greeting' = Greeting /\ Greeting \in Seq(Said) /\ Len(Greeting) \in 1 .. 3
  BY GreetingTyped DEF Greeting, HelloInv
<1>2. said \in Seq(Said) /\ Len(said) \in Nat
  BY DEF HelloInv
<1>3. CASE Len(said) < 3
  <2>1. said' = Append(said, f)
    BY <1>3 DEF Sent
  <2>2. /\ said' \in Seq(Said) /\ Len(said') = Len(said) + 1 /\ said'[Len(said) + 1] = f
        /\ \A k \in 1 .. Len(said) : said'[k] = said[k]
    BY <1>2, <2>1
  <2> QED
    BY <1>1, <1>2, <1>3, <2>2 DEF Begun, HelloInv
<1>4. CASE ~(Len(said) < 3)
  <2>1. said' = said
    BY <1>4 DEF Sent
  <2> QED
    BY <1>1, <1>2, <1>4, <2>1 DEF Begun, HelloInv
<1> QED
  BY <1>3, <1>4

LEMMA HelloQuiet ==
  ASSUME ClientConstants, HelloInv, UNCHANGED <<said, again>>,
         pc' = "hello" => pc = "hello" /\ todo' = todo,
         pc' \in {"sleep", "reply"} => env' = FALSE,
         pc' = "reply" => pc = "reply",
         pc' \in {"relay", "act", "suspended"} => pc \in {"relay", "act", "suspended"}
  PROVE  HelloInv'
<1>1. Greeting' = Greeting
  BY DEF Greeting
<1>2. Begun' /\ Greets'
  BY <1>1 DEF HelloInv, Begun, Greets
<1> QED
  BY <1>1, <1>2 DEF HelloInv

LEMMA HelloKept == ASSUME ClientConstants, HelloInv, [Next]_vars PROVE HelloInv'
<1>1. CASE SendLost /\ Behind
  BY <1>1, HelloQuiet DEF SendLost
<1>2. CASE Keeps \/ (Reads /\ ~Accepted) \/ Resume \/ Speaks \/ Outside \/ UNCHANGED vars
  <2>1. UNCHANGED <<said, again>>
    BY <1>2 DEF Keeps, ActDetach, ActHelp, ActSuspend, OnEof, EofRetries, CtrlC, DialFails, NoReply, ReadStdin,
         TerminalGone, Reads, OnData, OnPong, OnExit, OnDetached, Refused, NextFrame, Resume,
         Speaks, Answer, Output, Pong, LastWord, Reaches, Outside, TakenOver, SessionEnds, LinkDies,
         PathChanges, Type, vars
  <2>2. /\ pc' = "hello" => pc = "hello" /\ todo' = todo
        /\ pc' \in {"sleep", "reply"} => env' = FALSE
        /\ pc' = "reply" => pc = "reply"
        /\ pc' \in {"relay", "act", "suspended"} => pc \in {"relay", "act", "suspended"}
    BY <1>2 DEF HelloInv, Keeps, ActDetach, ActHelp, ActSuspend, OnEof, EofRetries, CtrlC, DialFails,
         NoReply, ReadStdin, TerminalGone, Continue, Reads, OnData, OnPong, OnExit, OnDetached, Refused,
         Resume, Speaks, Answer, Output, Pong, LastWord, Reaches, Outside, TakenOver, SessionEnds,
         LinkDies, PathChanges, Type, vars
  <2> QED
    BY <2>1, <2>2, HelloQuiet
<1>3. CASE Dial
  <2>1. said' = <<>> /\ again' = TRUE /\ pc' = "reply" /\ env' = FALSE
    BY <1>3 DEF Dial, Peek, HelloInv
  <2> QED
    BY <2>1 DEF HelloInv, Begun, Greets
<1>4. CASE Accepted
  <2>1. /\ pc' = "hello" /\ todo' = Hello(FALSE, TRUE) /\ said' = <<>> /\ again' = TRUE
    BY <1>4 DEF Accepted, OnOk, NextFrame, HelloInv
  <2>2. Greeting' = Hello(FALSE, TRUE)
    BY <2>1 DEF Greeting
  <2>3. Hello(FALSE, TRUE) \in Seq(Said) /\ Hello(FALSE, TRUE) # <<>>
    BY GreetingForm
  <2>4. Len(said') = 0 /\ said' \in Seq(Said)
    BY <2>1
  <2>5. Begun'
    BY <2>4 DEF Begun
  <2>6. Greets'
    <3>1. todo' = Greeting' /\ todo' \in Seq(Said) /\ todo' # <<>>
      BY <2>1, <2>2, <2>3, Zenon
    <3>2. \A k \in 1 .. Len(todo') : todo'[k] = Greeting'[Len(said') + k]
      BY <2>4, <3>1
    <3>3. Len(todo') \in Nat
      BY <3>1
    <3> QED
      BY <2>4, <3>1, <3>2, <3>3 DEF Greets
  <2> QED
    BY <2>1, <2>4, <2>5, <2>6 DEF HelloInv
<1>5. CASE SayHello
  <2>1. CASE SendLost
    BY <1>1, <1>5, <2>1 DEF SayHello
  <2>2. CASE Sent(Head(todo)) /\ Continue
    <3>1. again' = again /\ pc = "hello"
      BY <1>5 DEF SayHello
    <3>2. /\ todo \in Seq(Said) /\ todo # <<>> /\ Len(todo) \in Nat \ {0}
          /\ Len(said) + Len(todo) = Len(Greeting) /\ Len(said) \in Nat
      BY <3>1 DEF HelloInv, Greets
    <3>3. Head(todo) = todo[1] /\ todo[1] \in Said /\ 1 \in 1 .. Len(todo)
      BY <3>2
    <3>4. Head(todo) = Greeting[Len(said) + 1] /\ Len(said) < Len(Greeting)
      BY <3>1, <3>2, <3>3 DEF HelloInv, Greets
    <3>5. /\ said' \in Seq(Said) /\ Len(said') <= 3 /\ Begun' /\ again' \in BOOLEAN
          /\ Greeting' = Greeting /\ Len(said') = Len(said) + 1
      BY <2>2, <3>1, <3>3, <3>4, SaidMore
    <3>6. /\ todo' = Tail(todo) /\ pc' = IF Len(todo) = 1 THEN "relay" ELSE "hello"
      BY <2>2, <3>1 DEF Continue
    <3>7. /\ Len(todo') = Len(todo) - 1 /\ todo' \in Seq(Said)
          /\ \A k \in 1 .. Len(todo') : k + 1 \in 1 .. Len(todo) /\ todo'[k] = todo[k + 1]
      BY <3>2, <3>6
    <3>8. Greets'
      <4>1. ASSUME NEW k \in 1 .. Len(todo') PROVE todo'[k] = Greeting'[Len(said') + k]
        <5>1. todo'[k] = Greeting[Len(said) + (k + 1)]
          BY <3>1, <3>7 DEF HelloInv, Greets
        <5>2. Len(said) + (k + 1) = Len(said') + k
          BY <3>2, <3>5
        <5> QED
          BY <3>5, <5>1, <5>2
      <4>2. pc' = "hello" => todo' # <<>>
        <5>1. Len(todo') = 0 => Len(todo) = 1
          BY <3>2, <3>7
        <5> QED
          BY <3>6, <5>1
      <4> QED
        BY <3>2, <3>5, <3>7, <4>1, <4>2 DEF Greets
    <3> QED
      BY <3>2, <3>5, <3>6, <3>8 DEF HelloInv
  <2> QED
    BY <1>5, <2>1, <2>2 DEF SayHello
<1>6. CASE ActSend \/ Sigwinch \/ Tick
  <2>1. Behind /\ pc \in {"relay", "act"}
    BY <1>6 DEF ActSend, Sigwinch, Tick
  <2>2. CASE SendLost
    BY <1>1, <2>1, <2>2
  <2>3. CASE \E f \in {"Data", "Resize", "Ping"} : Sent(f) /\ pc' \in {"relay", "act"}
    <3>1. PICK f \in {"Data", "Resize", "Ping"} : Sent(f) /\ pc' \in {"relay", "act"}
      BY <2>3
    <3>2. f \in Said /\ f # "Env"
      BY DEF Said
    <3>3. Len(said) >= Len(Greeting) /\ Len(said) \in Nat /\ Len(Greeting) \in Nat
      BY <2>1, GreetingTyped DEF HelloInv
    <3>4. /\ said' \in Seq(Said) /\ Len(said') <= 3 /\ Begun' /\ again' \in BOOLEAN
          /\ Greeting' = Greeting /\ Len(said') >= Len(said)
      BY <2>1, <3>1, <3>2, <3>3, SaidMore
    <3> QED
      BY <3>1, <3>3, <3>4 DEF HelloInv, Greets
  <2>4. CASE Tick /\ Lost /\ UNCHANGED linkVars
    BY <2>1, <2>4, HelloQuiet
  <2> QED
    BY <1>6, <2>1, <2>2, <2>3, <2>4 DEF ActSend, Sigwinch, Tick, Continue
<1> QED
  BY <1>2, <1>3, <1>4, <1>5, <1>6, Steps DEF Reads, Writes

(* The Env is only said on the first connection, the size on every one,    *)
(* and Ctrl-L after a reconnect, before anything else (client.rs:245-259,  *)
(* 393, 432).                                                              *)
THEOREM GreetsFirst == Spec => []HelloFirst
<1>1. ClientConstants /\ Init => HelloInv
  BY HelloStart
<1>2. ClientConstants /\ HelloInv /\ [Next]_vars => HelloInv'
  BY HelloKept
<1>3. ClientConstants /\ HelloInv => HelloFirst
  <2>1. HelloInv => DOMAIN said = 1 .. Len(said)
    BY DEF HelloInv
  <2> QED
    BY <2>1 DEF HelloInv, Begun, HelloFirst, Greeting
<1> QED
  BY <1>1, <1>2, <1>3, ClientConstants, PTL DEF Spec
=============================================================================
