------------------------------- MODULE Client -------------------------------
(***************************************************************************)
(* The attached client: client::run with its relay loop, heartbeat and     *)
(* reconnect loop, of src/client.rs.                                       *)
(*                                                                         *)
(* Values of pc are await points: "hello" (the first frames of a           *)
(* connection), "relay" (the select!), "act" (the escape actions of one    *)
(* read of stdin), "suspended" (stopped by SIGTSTP), "sleep" (between two  *)
(* attempts to reconnect), "reply" (waiting for the answer to Attach) and  *)
(* "over".  Time is counted in heartbeat intervals of 5 s.                 *)
(***************************************************************************)
EXTENDS Integers, Sequences

CONSTANTS
  Chunks,     \* what one read of stdin can hold, as EscapeActions
  Limit,      \* HEARTBEAT_TIMEOUT in heartbeat intervals
  HasEnv,     \* does the client forward environment variables?
  Redraw,     \* redraw at the first connection?
  ShellCode,  \* exit code of the shell
  MaxKeys,    \* bound: keys waiting to be read during a reconnect
  MaxInbox    \* bound: frames on their way to the client

EscapeActions == {"Data", "Detach", "Suspend", "Help"}

ASSUME ClientConstants ==
  /\ Chunks \subseteq Seq(EscapeActions) \ {<<>>}
  /\ Limit \in Nat \ {0} /\ MaxKeys \in Nat /\ MaxInbox \in Nat
  /\ HasEnv \in BOOLEAN /\ Redraw \in BOOLEAN /\ ShellCode \in Int

VARIABLES
  pc,
  todo,      \* frames or escape actions of "hello" and "act" still to do
  env,       \* is current_env not empty?
  quiet,     \* heartbeat intervals since last_pong
  code,      \* what run returned
  typed,     \* keys in stdin during a reconnect
  \* the connection, the path to the daemon and what is behind it
  inbox,     \* frames that reached the client
  owed,      \* Pings the session has not answered
  said,      \* the first frames sent on this connection
  link,      \* "live", or "dead": reads give EOF or an error, sends fail
  served,    \* "no" until Attach is answered, "yes", or "old" (taken over)
  path,      \* "clear", "stalled" (nothing moves) or "broken" (no tunnel)
  session,   \* "alive" or "gone"
  \* what the properties look back on
  again,     \* was the connection made by a reconnect?
  unwell,    \* was anything wrong with it since its last Pong?
  quit       \* did the user or the terminal ask to end?

clientVars == <<pc, todo, env, quiet, code>>
linkVars   == <<inbox, owed, said, link, served>>
vars == <<clientVars, typed, linkVars, path, session, again, unwell, quit>>

Hello(withEnv, redraw) ==
  (IF withEnv THEN <<"Env">> ELSE <<>>) \o <<"Resize">> \o (IF redraw THEN <<"Redraw">> ELSE <<>>)

Init ==
  /\ pc = "hello" /\ todo = Hello(HasEnv, Redraw) /\ env = HasEnv
  /\ quiet = 0 /\ code = 0 /\ typed = <<>>
  /\ inbox = <<>> /\ owed = 0 /\ said = <<>> /\ link = "live" /\ served = "yes"
  /\ path = "clear" /\ session = "alive"
  /\ again = FALSE /\ unwell = FALSE /\ quit = FALSE

-----------------------------------------------------------------------------
(* Each operator named after a bug is what its successor would be with     *)
(* that bug; no action uses it.                                            *)
Quit(k) == pc' = "over" /\ code' = k /\ todo' = <<>> /\ UNCHANGED <<env, quiet>>

(* relay returns None: whatever it still had to do is dropped, the Env is  *)
(* never sent again, and the reconnect loop starts.                        *)
EnvKept == UNCHANGED env
EnvCleared == env' = FALSE
Lost == pc' = "sleep" /\ todo' = <<>> /\ EnvCleared /\ UNCHANGED <<quiet, code>>

(* timed_send: the socket takes the frame, or the send fails, or it times  *)
(* out after 5 s on a path where nothing moves.                            *)
Sent(f) ==
  /\ link = "live"
  /\ said' = IF Len(said) < 3 THEN Append(said, f) ELSE said
  /\ owed' = IF f = "Ping" /\ owed < MaxInbox THEN owed + 1 ELSE owed
  /\ UNCHANGED <<inbox, link, served>>
SendLost ==
  /\ link = "dead" \/ path = "stalled"
  /\ Lost
  /\ UNCHANGED linkVars

Behind == UNCHANGED <<path, session, again>>

(* The next of the frames or actions in todo, or the select! after them.   *)
Continue == todo' = Tail(todo) /\ pc' = IF Len(todo) = 1 THEN "relay" ELSE pc

SayHello ==
  /\ pc = "hello"
  /\ \/ Sent(Head(todo)) /\ Continue /\ quiet' = 0 /\ UNCHANGED <<env, code>>
     \/ SendLost
  /\ Behind /\ UNCHANGED <<typed, unwell, quit>>

-----------------------------------------------------------------------------
(* The stdin arm: one read, turned into actions by Escape's process.  In   *)
(* raw mode Ctrl-C is data.                                                *)
ReadStdin ==
  /\ pc = "relay"
  /\ \/ typed = <<>> /\ todo' \in Chunks
     \/ typed # <<>> /\ todo' = <<"Data">>
  /\ typed' = <<>>
  /\ pc' = "act"
  /\ UNCHANGED <<env, quiet, code, linkVars, unwell, quit>> /\ Behind

(* EOF gives 0; an error of stdin or stdout ends the client with 1.        *)
TerminalGone ==
  /\ pc = "relay"
  /\ \E k \in {0, 1} : Quit(k)
  /\ quit' = TRUE
  /\ UNCHANGED <<typed, linkVars, unwell>> /\ Behind

(* The actions of one read, in order; a failed send forgets the rest.      *)
ActSend ==
  /\ pc = "act" /\ Head(todo) \in {"Data", "Resize"}
  /\ \/ Sent(Head(todo)) /\ Continue /\ UNCHANGED <<env, quiet, code>>
     \/ SendLost
  /\ UNCHANGED <<typed, unwell, quit>> /\ Behind

ActDetach ==
  /\ pc = "act" /\ Head(todo) = "Detach"
  /\ Quit(0)
  /\ quit' = TRUE
  /\ UNCHANGED <<typed, linkVars, unwell>> /\ Behind

ActHelp ==
  /\ pc = "act" /\ Head(todo) = "Help"
  /\ Continue
  /\ UNCHANGED <<env, quiet, code, typed, linkVars, unwell, quit>> /\ Behind

ActSuspend ==
  /\ pc = "act" /\ Head(todo) = "Suspend"
  /\ pc' = "suspended"
  /\ UNCHANGED <<todo, env, quiet, code, typed, linkVars, unwell, quit>> /\ Behind

(* fg: the size is sent again.  After 15 s no Pong can have been read, and *)
(* the overdue tick is ready at once.                                      *)
Resume ==
  /\ pc = "suspended"
  /\ pc' = "act" /\ todo' = <<"Resize">> \o Tail(todo)
  /\ \/ UNCHANGED <<quiet, unwell>>
     \/ quiet' = Limit + 1 /\ unwell' = TRUE
  /\ UNCHANGED <<env, code, typed, linkVars, quit>> /\ Behind

Sigwinch ==
  /\ pc = "relay"
  /\ \/ Sent("Resize") /\ UNCHANGED clientVars
     \/ SendLost
  /\ UNCHANGED <<typed, unwell, quit>> /\ Behind

-----------------------------------------------------------------------------
(* The framed.next() arm.                                                  *)
NextFrame(f) ==
  /\ inbox # <<>> /\ Head(inbox) = f
  /\ inbox' = Tail(inbox)
  /\ UNCHANGED <<owed, said, link, served, typed, quit>>

OnData ==
  /\ pc = "relay" /\ NextFrame("Data")
  /\ UNCHANGED <<clientVars, unwell>> /\ Behind

PongIgnored == UNCHANGED quiet
PongCounts == quiet' = 0

OnPong ==
  /\ pc = "relay" /\ NextFrame("Pong")
  /\ PongCounts
  /\ unwell' = (path # "clear" \/ link = "dead")
  /\ UNCHANGED <<pc, todo, env, code>> /\ Behind

OnExit ==
  /\ pc = "relay" /\ NextFrame("Exit")
  /\ Quit(ShellCode)
  /\ UNCHANGED unwell /\ Behind

OnDetached ==
  /\ pc = "relay" /\ NextFrame("Detached")
  /\ Quit(0)
  /\ UNCHANGED unwell /\ Behind

(* EOF or a read error. *)
EofQuits == Quit(1)
EofRetries == Lost

OnEof ==
  /\ pc = "relay" /\ inbox = <<>> /\ link = "dead"
  /\ EofRetries
  /\ UNCHANGED <<typed, linkVars, unwell, quit>> /\ Behind

(* On a clear path everything due is done long before the next tick.       *)
Settled == inbox = <<>> /\ owed = 0 /\ served = "yes" /\ session = "alive"

(* last_pong.elapsed() > HEARTBEAT_TIMEOUT: at the tick that is Limit      *)
(* intervals after last_pong it is a matter of milliseconds.               *)
ExpiredNever == FALSE
Expired == quiet + 1 >= Limit
Heard == quiet + 1 <= Limit

Tick ==
  /\ pc = "relay"
  /\ path = "clear" /\ link = "live" => Settled \/ quiet > Limit
  /\ \/ Expired /\ Lost /\ UNCHANGED linkVars
     \/ /\ Heard
        /\ \/ Sent("Ping") /\ quiet' = quiet + 1 /\ UNCHANGED <<pc, todo, env, code>>
           \/ SendLost
  /\ UNCHANGED <<typed, unwell, quit>> /\ Behind

-----------------------------------------------------------------------------
(* The reconnect loop.  After a second of sleep, one byte of stdin is      *)
(* looked at and gone; Ctrl-C ends the client.  Then it connects and asks  *)
(* for its session.  The old connection is only dropped once that worked.  *)
CtrlC ==
  /\ pc = "sleep" /\ typed # <<>> /\ Head(typed) = "^C"
  /\ Quit(1)
  /\ quit' = TRUE /\ typed' = Tail(typed)
  /\ UNCHANGED <<linkVars, unwell>> /\ Behind

PeekSwallows == pc = "sleep" /\ typed' = IF typed = <<>> THEN typed ELSE Tail(typed)

Peek ==
  /\ pc = "sleep"
  /\ \/ typed = <<>> /\ UNCHANGED typed
     \/ typed # <<>> /\ Head(typed) # "^C" /\ typed' = Tail(typed)

DialFails ==
  /\ Peek
  /\ path = "broken"
  /\ UNCHANGED <<clientVars, linkVars, unwell, quit>> /\ Behind

Dial ==
  /\ Peek
  /\ path # "broken"
  /\ pc' = "reply"
  /\ inbox' = <<>> /\ owed' = 0 /\ said' = <<>> /\ link' = "live" /\ served' = "no"
  /\ unwell' = (path # "clear") /\ again' = TRUE
  /\ UNCHANGED <<todo, env, quiet, code, path, session, quit>>

OnOkRetries == pc' = "sleep" /\ UNCHANGED todo
OnOk == pc' = "hello" /\ todo' = Hello(env, TRUE)

Accepted ==
  /\ pc = "reply" /\ NextFrame("Ok")
  /\ OnOk
  /\ UNCHANGED <<env, quiet, code, unwell>> /\ Behind

Refused ==
  /\ pc = "reply" /\ NextFrame("Error")
  /\ Quit(1)
  /\ UNCHANGED unwell /\ Behind

(* There is no timeout: a path on which nothing moves keeps it waiting.    *)
NoReply ==
  /\ pc = "reply" /\ inbox = <<>> /\ link = "dead"
  /\ pc' = "sleep"
  /\ UNCHANGED <<todo, env, quiet, code, typed, linkVars, unwell, quit>> /\ Behind

Step ==
  \/ SayHello \/ ActSend \/ ActDetach \/ ActHelp \/ ActSuspend
  \/ OnData \/ OnPong \/ OnExit \/ OnDetached \/ OnEof
  \/ CtrlC \/ DialFails \/ Dial \/ Accepted \/ Refused \/ NoReply

-----------------------------------------------------------------------------
(* The other end: the daemon answers an Attach, the session sends output,  *)
(* Pongs, and a last word before it closes the connection.                 *)
Reaches(f) ==
  /\ path = "clear" /\ link = "live" /\ Len(inbox) < MaxInbox
  /\ inbox' = Append(inbox, f)
  /\ UNCHANGED <<said, clientVars, typed, unwell, quit>> /\ Behind

Answer ==
  /\ served = "no"
  /\ \/ session = "alive" /\ Reaches("Ok") /\ served' = "yes" /\ UNCHANGED link
     \/ session = "gone" /\ Reaches("Error") /\ link' = "dead" /\ UNCHANGED served
  /\ UNCHANGED owed

Output ==
  /\ served = "yes" /\ session = "alive"
  /\ Reaches("Data") /\ UNCHANGED <<owed, link, served>>

Pong ==
  /\ served = "yes" /\ session = "alive" /\ owed > 0
  /\ Reaches("Pong") /\ owed' = owed - 1 /\ UNCHANGED <<link, served>>

LastWord ==
  /\ \/ served = "yes" /\ session = "gone" /\ Reaches("Exit")
     \/ served = "old" /\ Reaches("Detached")
  /\ link' = "dead" /\ UNCHANGED <<owed, served>>

(* What happens to the session, the path and at the keyboard.              *)
TakenOver ==
  /\ served = "yes" /\ session = "alive" /\ link = "live"
  /\ served' = "old"
  /\ UNCHANGED <<clientVars, typed, inbox, owed, said, link, unwell, quit>> /\ Behind

SessionEnds ==
  /\ session = "alive"
  /\ session' = "gone"
  /\ UNCHANGED <<clientVars, typed, linkVars, path, again, unwell, quit>>

(* Connections die with the tunnel, or when a session ends without a word. *)
LinkDies ==
  /\ link = "live" /\ (path # "clear" \/ (session = "gone" /\ served # "no"))
  /\ link' = "dead" /\ unwell' = TRUE
  /\ UNCHANGED <<clientVars, typed, inbox, owed, said, served, quit>> /\ Behind

PathChanges ==
  /\ path' \in {"clear", "stalled", "broken"} \ {path}
  /\ link' = IF path' = "broken" THEN "dead" ELSE link
  /\ unwell' = TRUE
  /\ UNCHANGED <<clientVars, typed, inbox, owed, said, served, session, again, quit>>

Type ==
  /\ pc \in {"sleep", "reply"} /\ Len(typed) < MaxKeys
  /\ \E k \in {"^C", "key"} : typed' = Append(typed, k)
  /\ UNCHANGED <<clientVars, linkVars, path, session, again, unwell, quit>>

Next ==
  \/ Step \/ Tick
  \/ ReadStdin \/ TerminalGone \/ Resume \/ Sigwinch
  \/ Answer \/ Output \/ Pong \/ LastWord
  \/ TakenOver \/ SessionEnds \/ LinkDies \/ PathChanges \/ Type

Spec == Init /\ [][Next]_vars

(* The client runs unless it is stopped; a due tick stays due until the    *)
(* select!, which starts at a random arm, takes it; and what a clear path  *)
(* has to carry arrives.                                                   *)
FairClient ==
  /\ Spec
  /\ WF_vars(Step) /\ SF_vars(Tick)
  /\ WF_vars(Answer) /\ WF_vars(LastWord)

-----------------------------------------------------------------------------
(* The client ends because the user or terminal asked for it, because the  *)
(* session is gone, or because another client took it over, and for no     *)
(* failure of the network at whatever point (client.rs:388-445).  The      *)
(* shell's code is only returned once the shell has ended.                 *)
EndsForAReason ==
  pc = "over" =>
    /\ quit \/ session = "gone" \/ served = "old"
    /\ code = ShellCode => session = "gone"

(* The first frames of a connection are those the session needs first: Env *)
(* (only ever on the first connection), the size, and Ctrl-L after a       *)
(* reconnect (client.rs:245-259, 393, 432).                                *)
HelloFirst ==
  LET hello == Hello(HasEnv /\ ~again, Redraw \/ again) IN
  /\ \A k \in DOMAIN said : k <= Len(hello) => said[k] = hello[k]
  /\ \A k \in DOMAIN said : said[k] = "Env" => k <= Len(hello)
  /\ pc \in {"relay", "act"} => Len(said) >= Len(hello)

(* A connection is given up only after something went wrong with it (or    *)
(* the client was stopped for long): the heartbeat raises no false alarm   *)
(* (client.rs:349-357).                                                    *)
NoFalseAlarm ==
  [][/\ pc \in {"hello", "relay", "act"} /\ pc' = "sleep"
     /\ served = "yes" /\ session = "alive"
     => unwell]_vars

(* A connection on which nothing moves, or that is dead, does not keep the *)
(* client (client.rs:349-357 and timed_send).                              *)
DeadLinkNoticed ==
  pc \in {"hello", "relay", "act"} /\ (path = "stalled" \/ link = "dead")
    ~> pc \in {"sleep", "suspended", "over"} \/ (path # "stalled" /\ link = "live")

(* Once the path stays clear, the reconnect loop comes to an end           *)
(* (client.rs:397-442).                                                    *)
Reconnects ==
  <>[](path = "clear") => []<>(pc \notin {"sleep", "reply"})

(* README.md:200: "Press Ctrl-C to abort the reconnect and exit instead." *)
(* So once it was typed the reconnect loop comes to an end, with one       *)
(* exception: the key is only looked for between two attempts, and the     *)
(* wait for the answer to Attach has no timeout (client.rs:400, 428); on a *)
(* path that does not stay clear the loop may stay in one such wait.       *)
CtrlCAborts ==
  pc \in {"sleep", "reply"} /\ (\E k \in DOMAIN typed : typed[k] = "^C")
    ~> pc \notin {"sleep", "reply"} \/ ([](pc = "reply") /\ []<>(path # "clear"))
=============================================================================
