------------------------------- MODULE Tunnel -------------------------------
(***************************************************************************)
(* gritty connect (src/connect.rs): run, the guard that cleans up, and the *)
(* background task tunnel_monitor that respawns ssh.  The two are tokio    *)
(* tasks on different threads; process::exit ends both at once.  Time is   *)
(* counted in seconds: only Tick lets it pass, and not while something     *)
(* that takes no time is due.                                              *)
(***************************************************************************)
EXTENDS Integers, Sequences, SequencesExt

CONSTANTS
  MaxExits,   \* exits within Window at which the monitor gives up   (5)
  Window,     \* the seconds for which an exit is remembered         (10)
  Pause,      \* seconds between an exit and the next ssh            (1)
  Deadline    \* seconds that wait_for_socket waits                  (15)

ASSUME TunnelConstants ==
  /\ MaxExits \in Nat \ {0, 1} /\ Window \in Nat \ {0}
  /\ Pause \in Nat \ {0} /\ Deadline \in Nat

VARIABLES
  main,      \* what run is at: "remote", "waiting" (wait_for_socket), "serve",
             \* "leaving" (guard dropped), "exited", "killed" (by a signal)
  waited,    \* seconds since wait_for_socket began
  stop,      \* the CancellationToken
  sig,       \* has tokio got a SIGINT or SIGTERM for run?
  mon,       \* tunnel_monitor: "none", "watch", "sleep", "spawn", "done"
  nap,       \* seconds left of its sleep
  exits,     \* exit_times, as ages
  why,       \* why it returned: "stop", "fatal", "rate", "error", or "none" yet
  ssh,       \* "none", "starting", "up", or how it exited, until waited for:
             \* "net" (code 255), "signal" (no code), "other"
  life,      \* seconds it has lived (those of the first one do not count)
  shortest,  \* the shortest life of an ssh since
  file,      \* does the local socket's path exist?
  path       \* "up" when ssh would connect, "down" when it would exit with 255

timers == <<waited, nap, exits, life>>
mainVars == <<main, waited, stop, sig>>
monVars == <<mon, nap, exits, why>>
sshVars == <<ssh, life, shortest>>
vars == <<mainVars, monVars, sshVars, file, path>>

Codes == {"net", "signal", "other"}
Alive == ssh \in {"starting", "up"}
Ended == main \in {"exited", "killed"}
Connectable == ssh = "up" /\ file

(* Bounds: longer lives are all alike, and so are exits older than Window. *)
Least(a, b) == IF a < b THEN a ELSE b
Long == Window \div (MaxExits - 1)

Init ==
  /\ main = "remote" /\ waited = 0 /\ stop = FALSE /\ sig = FALSE
  /\ mon = "none" /\ nap = 0 /\ exits = <<>> /\ why = "none"
  /\ ssh = "none" /\ life = Long /\ shortest = Long
  /\ file \in BOOLEAN       \* a stale file of an earlier process
  /\ path = "up"

-----------------------------------------------------------------------------
(* run.  Operators named after a bug are never used by an action. *)

(* ensure_remote_ready fails, or the tunnel cannot be spawned: no guard yet. *)
RemoteFails ==
  /\ main = "remote"
  /\ main' = "exited"
  /\ file' \in {file, FALSE}      \* the spawn fails after the removal
  /\ UNCHANGED <<waited, stop, sig, monVars, sshVars, path>>

RemoteReady ==
  /\ main = "remote" /\ path = "up"
  /\ main' = "waiting"
  /\ file' = FALSE
  /\ ssh' = "starting"
  /\ UNCHANGED <<waited, stop, sig, monVars, life, shortest, path>>

(* The guard loses the child to the monitor. *)
SocketReady ==
  /\ main = "waiting" /\ Connectable
  /\ main' = "serve" /\ mon' = "watch" /\ waited' = 0
  /\ UNCHANGED <<stop, sig, nap, exits, why, sshVars, file, path>>

(* Dropping the guard: cancel, SIGTERM for a child it still has, unlink.   *)
DropGuard == main' = "leaving" /\ file' = FALSE /\ stop' = TRUE

SocketTimeout ==
  /\ main = "waiting" /\ ~Connectable /\ waited >= Deadline
  /\ DropGuard
  /\ ssh' = IF Alive THEN "signal" ELSE ssh
  /\ UNCHANGED <<waited, sig, monVars, life, shortest, path>>

OnSignalOnly == sig
WakesMain == sig \/ mon = "done"

Leave ==
  /\ main = "serve" /\ WakesMain
  /\ DropGuard
  /\ UNCHANGED <<waited, sig, monVars, sshVars, path>>

Exit ==
  /\ main = "leaving"
  /\ main' = "exited"
  /\ UNCHANGED <<waited, stop, sig, monVars, sshVars, file, path>>

-----------------------------------------------------------------------------
(* tunnel_monitor. *)
Return(reason) == mon' = "done" /\ why' = reason
Waits == mon = "watch" /\ ~Ended

StopUnkilled == UNCHANGED ssh
StopKills == ssh' = "none"

MonStop ==
  /\ Waits /\ stop
  /\ StopKills
  /\ Return("stop")
  /\ UNCHANGED <<mainVars, nap, exits, life, shortest, file, path>>

CancelledInverted == ~stop
Cancelled == stop

ForgetNone(ages) == ages
Remembered(ages) ==
  FlattenSeq([k \in DOMAIN ages |-> IF ages[k] < Window THEN <<ages[k]>> ELSE <<>>])

TooManyLate(ages) == Len(ages) > MaxExits
TooMany(ages) == Len(ages) >= MaxExits

MonExit ==
  /\ Waits /\ ssh \in Codes
  /\ ssh' = "none"
  /\ \/ Cancelled /\ Return("stop") /\ UNCHANGED <<nap, exits>>
     \/ ~Cancelled /\ ssh = "other" /\ Return("fatal") /\ UNCHANGED <<nap, exits>>
     \/ /\ ~Cancelled /\ ssh # "other"
        /\ exits' = Remembered(Append(exits, 0))
        /\ IF TooMany(exits')
           THEN Return("rate") /\ UNCHANGED nap
           ELSE mon' = "sleep" /\ nap' = Pause /\ UNCHANGED why
  /\ UNCHANGED <<mainVars, life, shortest, file, path>>

(* wait() itself fails: the child is dropped, which leaves it running. *)
MonWaitFails ==
  /\ Waits
  /\ Return("error")
  /\ UNCHANGED <<mainVars, nap, exits, sshVars, file, path>>

(* is_cancelled, then the spawn: run may cancel in between. *)
MonWake ==
  /\ mon = "sleep" /\ nap = 0 /\ ~Ended
  /\ IF Cancelled THEN Return("stop") ELSE mon' = "spawn" /\ UNCHANGED why
  /\ UNCHANGED <<mainVars, nap, exits, sshVars, file, path>>

OldChild == UNCHANGED <<ssh, life>>
NewChild == ssh' = "starting" /\ life' = 0

MonSpawn ==
  /\ mon = "spawn" /\ ~Ended
  /\ mon' = "watch"
  /\ NewChild
  /\ UNCHANGED <<mainVars, nap, exits, why, shortest, file, path>>

MonSpawnFails ==
  /\ mon = "spawn" /\ ~Ended
  /\ Return("error")
  /\ UNCHANGED <<mainVars, nap, exits, sshVars, file, path>>

Monitor == MonStop \/ MonExit \/ MonWaitFails \/ MonWake \/ MonSpawn \/ MonSpawnFails
Main == RemoteFails \/ RemoteReady \/ SocketReady \/ SocketTimeout \/ Leave \/ Exit

-----------------------------------------------------------------------------
(* ssh, the network, the user, and time. *)
Dies(c) ==
  /\ ssh' = c
  /\ shortest' = Least(shortest, life)

(* StreamLocalBindUnlink: a file that is in the way is replaced. *)
SshBinds ==
  /\ ssh = "starting" /\ path = "up"
  /\ ssh' = "up" /\ file' = TRUE
  /\ UNCHANGED <<mainVars, monVars, life, shortest, path>>

(* At once, after ConnectTimeout, or after ServerAliveCountMax; a wrong    *)
(* option or a command that fails gives any code.                          *)
SshDies ==
  /\ Alive
  /\ \E c \in Codes : (c = "net" => path = "down") /\ Dies(c)
  /\ UNCHANGED <<mainVars, monVars, life, file, path>>

(* Before serve the signal has its default action.  Ctrl-C at the terminal *)
(* reaches ssh as well, which may let it be.                               *)
Signal ==
  /\ ~Ended /\ ~sig
  /\ IF main \in {"remote", "waiting"} THEN main' = "killed" /\ UNCHANGED sig
     ELSE sig' = TRUE /\ UNCHANGED main
  /\ UNCHANGED <<waited, stop, monVars, sshVars, file, path>>

PathChanges ==
  /\ path' \in {"up", "down"} \ {path}
  /\ UNCHANGED <<mainVars, monVars, sshVars, file>>

(* What takes no time worth counting. *)
Due ==
  \/ main = "leaving" \/ (main = "serve" /\ WakesMain)
  \/ main = "waiting" /\ (Connectable \/ waited >= Deadline)
  \/ mon = "watch" /\ (stop \/ ssh \in Codes)
  \/ (mon = "sleep" /\ nap = 0) \/ mon = "spawn"

Tick ==
  /\ ~Ended /\ ~Due /\ main # "remote"
  /\ waited' = IF main = "waiting" THEN waited + 1 ELSE waited
  /\ nap' = IF nap > 0 THEN nap - 1 ELSE 0
  /\ exits' = [k \in DOMAIN exits |-> Least(exits[k] + 1, Window)]
  /\ life' = IF Alive THEN Least(life + 1, Long) ELSE life
  /\ UNCHANGED <<main, stop, sig, mon, why, ssh, shortest, file, path>>

World == SshBinds \/ SshDies \/ Signal \/ PathChanges \/ Tick

Next == Main \/ Monitor \/ World

Spec == Init /\ [][Next]_vars

(* Both tasks are scheduled, time passes, and an ssh whose path is up gets *)
(* to bind, if it is not killed each time before.                          *)
Fairness ==
  /\ WF_vars(SocketReady) /\ WF_vars(SocketTimeout) /\ WF_vars(Leave) /\ WF_vars(Exit)
  /\ WF_vars(MonStop) /\ WF_vars(MonExit) /\ WF_vars(MonWake)
  /\ WF_vars(MonSpawn \/ MonSpawnFails)
  /\ WF_vars(Tick) /\ SF_vars(SshBinds)

FairTunnel == Spec /\ Fairness

-----------------------------------------------------------------------------
(* Every variable has its type; the monitor remembers fewer exits than     *)
(* make it give up, and as many only once it has.                          *)
TypeOK ==
  /\ main \in {"remote", "waiting", "serve", "leaving", "exited", "killed"}
  /\ mon \in {"none", "watch", "sleep", "spawn", "done"}
  /\ why \in {"none", "stop", "fatal", "rate", "error"}
  /\ why = "none" <=> mon # "done"
  /\ ssh \in {"none", "starting", "up"} \cup Codes
  /\ waited \in 0..Deadline /\ nap \in 0..Pause /\ life \in 0..Long /\ shortest \in 0..Long
  /\ exits \in Seq(0..Window) /\ Len(exits) <= MaxExits
  /\ Len(exits) = MaxExits <=> why = "rate"
  /\ stop \in BOOLEAN /\ sig \in BOOLEAN
  /\ file \in BOOLEAN /\ path \in {"up", "down"}

(* The rate limit of connect.rs:228-235 only hits an ssh that fails fast:  *)
(* MaxExits exits within Window are MaxExits - 1 pauses and lives, of      *)
(* which one must have been short.  A tunnel that comes back for a while   *)
(* each time, or fails only at ConnectTimeout, is never given up.          *)
GivesUpOnlyIfFast == why = "rate" => (shortest + Pause) * (MaxExits - 1) < Window

(* A monitor that learned of the stop leaves no ssh behind, wherever it    *)
(* was then: in wait, in its sleep, or spawning (connect.rs:198-241).      *)
StopLeavesNothing == why = "stop" => ssh = "none"

(* While connect serves, an ssh is running, or one that ended has yet to   *)
(* be collected, or the next is on its way; nothing else makes clients     *)
(* wait, until the monitor gives up (connect.rs:196-255).                  *)
SomebodyWatches ==
  main = "serve" =>
    \/ mon = "watch" /\ ssh # "none"
    \/ mon \in {"sleep", "spawn"} /\ ssh = "none"
    \/ mon = "done" /\ why \in {"fatal", "rate", "error"}

(* When the network stays, the tunnel comes back or connect ends           *)
(* (README.md:92).                                                         *)
TunnelBack ==
  <>[](path = "up") => ((main = "serve" /\ ~Connectable) ~> (Connectable \/ Ended))

(* A signal, or a tunnel that is lost, ends connect (connect.rs:384-397).  *)
ConnectEnds == (sig \/ mon = "done") ~> Ended
=============================================================================
