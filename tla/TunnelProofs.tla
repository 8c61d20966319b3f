---------------------------- MODULE TunnelProofs ----------------------------
(* Theorems about Tunnel: who looks after ssh, what a stop leaves, and for *)
(* what the monitor gives up.                                              *)
EXTENDS Tunnel, Lists

USE DEF mainVars, monVars, sshVars, Codes, Ended, Alive, Connectable, Cancelled, Return, Waits

(* The monitor starts after run has a socket and has a child exactly while *)
(* it watches; the guard is dropped once, and only then is the token       *)
(* cancelled.                                                              *)
Custody ==
  /\ main = "remote" => ssh = "none"
  /\ main \in {"remote", "waiting"} => mon = "none"
  /\ mon = "none" => main # "serve"
  /\ main \in {"remote", "waiting", "serve"} => ~stop
  /\ mon \in {"none", "watch", "sleep", "spawn", "done"}
  /\ mon = "watch" => ssh # "none"
  /\ mon \in {"sleep", "spawn"} => ssh = "none"
  /\ mon # "done" => why = "none"
  /\ mon = "done" => why \in {"fatal", "rate", "error"} \/ (why = "stop" /\ stop /\ ssh = "none")

(* Every step of run keeps it. *)
LEMMA MainKeeps == Custody /\ Main => Custody'
<1> SUFFICES ASSUME Custody, Main PROVE Custody'
  OBVIOUS
<1> USE DEF Custody
<1>1. CASE RemoteFails
  BY <1>1 DEF RemoteFails
<1>2. CASE RemoteReady
  BY <1>2 DEF RemoteReady
<1>3. CASE SocketReady
  BY <1>3 DEF SocketReady
<1>4. CASE SocketTimeout
  BY <1>4 DEF SocketTimeout, DropGuard
<1>5. CASE Leave
  BY <1>5 DEF Leave, DropGuard
<1>6. CASE Exit
  BY <1>6 DEF Exit
<1> QED
  BY <1>1, <1>2, <1>3, <1>4, <1>5, <1>6 DEF Main

(* Every step of the monitor keeps it. *)
LEMMA MonitorKeeps == Custody /\ Monitor => Custody'
<1> SUFFICES ASSUME Custody, Monitor PROVE Custody'
  OBVIOUS
<1> USE DEF Custody
<1>1. CASE MonStop
  BY <1>1 DEF MonStop, StopKills
<1>2. CASE MonExit
  BY <1>2 DEF MonExit
<1>3. CASE MonWaitFails
  BY <1>3 DEF MonWaitFails
<1>4. CASE MonWake
  BY <1>4 DEF MonWake
<1>5. CASE MonSpawn
  BY <1>5 DEF MonSpawn, NewChild
<1>6. CASE MonSpawnFails
  BY <1>6 DEF MonSpawnFails
<1> QED
  BY <1>1, <1>2, <1>3, <1>4, <1>5, <1>6 DEF Monitor

(* Nothing around them disturbs it: ssh may die, but only the monitor can  *)
(* make it vanish.                                                         *)
LEMMA WorldKeeps == Custody /\ (World \/ UNCHANGED vars) => Custody'
<1> SUFFICES ASSUME Custody, World \/ UNCHANGED vars PROVE Custody'
  OBVIOUS
<1> USE DEF Custody
<1>1. CASE SshBinds
  BY <1>1 DEF SshBinds
<1>2. CASE SshDies
  BY <1>2 DEF SshDies, Dies
<1>3. CASE Signal
  BY <1>3 DEF Signal
<1>4. CASE PathChanges
  BY <1>4 DEF PathChanges
<1>5. CASE Tick
  BY <1>5 DEF Tick
<1>6. CASE UNCHANGED vars
  BY <1>6 DEF vars
<1> QED
  BY <1>1, <1>2, <1>3, <1>4, <1>5, <1>6 DEF World

(* Custody holds in every state. *)
LEMMA CustodyHolds == Spec => []Custody
<1>1. Init => Custody
  BY DEF Init, Custody
<1>2. Custody /\ [Next]_vars => Custody'
  BY MainKeeps, MonitorKeeps, WorldKeeps DEF Next
<1> QED
  BY <1>1, <1>2, PTL DEF Spec

(* A monitor that learned of the stop has left no ssh, at whatever point   *)
(* run cancelled it and whatever the limits are (connect.rs:198-241).      *)
THEOREM StopIsClean == Spec => []StopLeavesNothing
<1>1. Custody => StopLeavesNothing
  BY DEF Custody, StopLeavesNothing
<1> QED
  BY <1>1, CustodyHolds, PTL

(* While connect serves, ssh is running, just dead, or on its way, or the  *)
(* monitor has given up for one of its three reasons (connect.rs:196-255). *)
THEOREM AlwaysWatched == Spec => []SomebodyWatches
<1>1. Custody => SomebodyWatches
  BY DEF Custody, SomebodyWatches
<1> QED
  BY <1>1, CustodyHolds, PTL

-----------------------------------------------------------------------------
(* The exits the monitor remembers.  Their ages are in order, so that what *)
(* retain forgets is a first part of them.                                 *)
InOrder(ages) == \A i, j \in 1 .. Len(ages) : i <= j => ages[j] <= ages[i]
Ages == 0 .. Window

(* The exits from the m-th on are remembered. *)
IsRemembered(ages, m) ==
  /\ Remembered(ages) = SubSeq(ages, m, Len(ages))
  /\ \A i \in 1 .. Len(ages) : ages[i] < Window <=> i >= m

(* What Remembered flattens. *)
Part(ages) == [k \in DOMAIN ages |-> IF ages[k] < Window THEN <<ages[k]>> ELSE <<>>]

(* FlattenSeq is applied to a sequence of sequences. *)
LEMMA PartTyped == ASSUME NEW ages \in Seq(Ages) PROVE Part(ages) \in Seq(Seq(Ages))
<1>1. \A k \in 1 .. Len(ages) : Part(ages)[k] \in Seq(Ages)
  BY DEF Part
<1>2. DOMAIN Part(ages) = 1 .. Len(ages) /\ Len(ages) \in Nat
  BY DEF Part
<1>3. Part(ages) = [k \in 1 .. Len(ages) |-> Part(ages)[k]]
  BY <1>2 DEF Part
<1> QED
  BY <1>1, <1>2, <1>3

(* retain, one exit later. *)
LEMMA RememberOne ==
  ASSUME NEW ages \in Seq(Ages), NEW a \in Ages
  PROVE  Remembered(Append(ages, a)) =
           IF a < Window THEN Append(Remembered(ages), a) ELSE Remembered(ages)
<1> DEFINE x == IF a < Window THEN <<a>> ELSE <<>>
<1>1. Part(ages) \in Seq(Seq(Ages)) /\ Part(Append(ages, a)) \in Seq(Seq(Ages)) /\ x \in Seq(Ages)
  <2>1. Append(ages, a) \in Seq(Ages)
    OBVIOUS
  <2>2. <<a>> \in Seq(Ages) /\ <<>> \in Seq(Ages)
    OBVIOUS
  <2> QED
    BY <2>1, <2>2, PartTyped
<1>2. Part(Append(ages, a)) = Append(Part(ages), x)
  <2>1. Len(Part(Append(ages, a))) = Len(ages) + 1 /\ Len(Part(ages)) = Len(ages) /\ Len(ages) \in Nat
    BY <1>1 DEF Part
  <2>2. \A k \in 1 .. Len(ages) + 1 : Part(Append(ages, a))[k] = Append(Part(ages), x)[k]
    BY <1>1, <2>1 DEF Part
  <2>3. Append(Part(ages), x) \in Seq(Seq(Ages)) /\ Len(Append(Part(ages), x)) = Len(ages) + 1
    BY <1>1, <2>1
  <2> QED
    BY <1>1, <2>1, <2>2, <2>3, SeqEqual
<1>3. Remembered(Append(ages, a)) = Remembered(ages) \o x
  BY <1>1, <1>2, FlattenAppend DEF Remembered, Part
<1>4. Remembered(ages) \in Seq(Ages)
  BY <1>1, FlattenTyped DEF Remembered, Part
<1>5. CASE a < Window
  BY <1>3, <1>4, <1>5, AppendIsConcat
<1>6. CASE ~(a < Window)
  BY <1>3, <1>4, <1>6, ConcatEmptySeq
<1> QED
  BY <1>5, <1>6

(* By induction over the list: retain drops a first part of it. *)
LEMMA RememberedIsLastPart ==
  \A ages \in Seq(Ages) : InOrder(ages) => \E m \in 1 .. Len(ages) + 1 : IsRemembered(ages, m)
<1> DEFINE T == {ages \in Seq(Ages) :
                   InOrder(ages) => \E m \in 1 .. Len(ages) + 1 : IsRemembered(ages, m)}
<1>1. <<>> \in T
  <2>1. Remembered(<<>>) = <<>>
    <3>1. [k \in DOMAIN <<>> |-> IF <<>>[k] < Window THEN <<<<>>[k]>> ELSE <<>>] = <<>>
      OBVIOUS
    <3> QED
      BY <3>1, FlattenEmpty DEF Remembered
  <2>2. SubSeq(<<>>, 1, Len(<<>>)) = <<>> /\ Len(<<>>) = 0 /\ <<>> \in Seq(Ages)
    OBVIOUS
  <2>3. 1 \in 1 .. Len(<<>>) + 1 /\ 1 .. Len(<<>>) = {}
    BY <2>2
  <2>4. IsRemembered(<<>>, 1)
    BY <2>1, <2>2, <2>3 DEF IsRemembered
  <2> QED
    BY <2>2, <2>3, <2>4
<1>2. ASSUME NEW ages \in Seq(Ages), NEW a \in Ages, ages \in T PROVE Append(ages, a) \in T
  <2> DEFINE n == Len(ages)
             more == Append(ages, a)
  <2>1. more \in Seq(Ages) /\ Len(more) = n + 1 /\ n \in Nat /\ more[n + 1] = a
    OBVIOUS
  <2>2. \A i \in 1 .. n : more[i] = ages[i]
    OBVIOUS
  <2>3. ASSUME InOrder(more) PROVE \E m \in 1 .. Len(more) + 1 : IsRemembered(more, m)
    <3>1. InOrder(ages) /\ \A i \in 1 .. n : a <= ages[i]
      <4>1. \A i \in 1 .. n : i \in 1 .. Len(more) /\ n + 1 \in 1 .. Len(more) /\ i <= n + 1
        BY <2>1
      <4> QED
        BY <2>1, <2>2, <2>3, <4>1 DEF InOrder
    <3>2. PICK m \in 1 .. n + 1 : IsRemembered(ages, m)
      BY <1>2, <3>1
    <3>3. CASE a < Window
      <4>1. Remembered(more) = Append(SubSeq(ages, m, n), a)
        BY <3>2, <3>3, RememberOne DEF IsRemembered
      <4>2. SubSeq(more, m, n) = SubSeq(ages, m, n) /\ SubSeq(ages, m, n) \in Seq(Ages)
        <5>1. /\ \A i \in m .. n : ages[i] \in Ages /\ more[i] \in Ages /\ more[i] = ages[i]
              /\ m \in Int /\ n \in Int
          BY <2>1, <2>2
        <5>2. /\ SubSeq(more, m, n) \in Seq(Ages) /\ SubSeq(ages, m, n) \in Seq(Ages)
              /\ Len(SubSeq(more, m, n)) = Len(SubSeq(ages, m, n))
              /\ \A i \in 1 .. n - m + 1 : SubSeq(more, m, n)[i] = more[m + i - 1]
              /\ \A i \in 1 .. n - m + 1 : SubSeq(ages, m, n)[i] = ages[m + i - 1]
              /\ Len(SubSeq(more, m, n)) = IF m <= n THEN n - m + 1 ELSE 0
          BY <5>1, SubSeqProperties, SMTT(30)
        <5>3. \A i \in 1 .. Len(SubSeq(more, m, n)) : i \in 1 .. n - m + 1 /\ m + i - 1 \in m .. n
          BY <2>1, <5>2
        <5>4. \A i \in 1 .. Len(SubSeq(more, m, n)) : SubSeq(more, m, n)[i] = SubSeq(ages, m, n)[i]
          BY <5>1, <5>2, <5>3
        <5> QED
          BY <5>2, <5>4, SeqEqual
      <4>3. SubSeq(more, m, n + 1) = SubSeq(more, m, n) \o <<a>>
        <5>1. m \in 1 .. Len(more) /\ n + 1 \in m .. Len(more) /\ (n + 1) - 1 = n
          BY <2>1
        <5> QED
          BY <2>1, <5>1, SubSeqRecursiveSecond
      <4>4. Remembered(more) = SubSeq(more, m, Len(more))
        BY <2>1, <4>1, <4>2, <4>3, AppendIsConcat
      <4>5. \A i \in 1 .. Len(more) : more[i] < Window <=> i >= m
        BY <2>1, <2>2, <3>2, <3>3 DEF IsRemembered
      <4>6. m \in 1 .. Len(more) + 1
        BY <2>1
      <4> QED
        BY <4>4, <4>5, <4>6 DEF IsRemembered
    <3>4. CASE ~(a < Window)
      <4>1. \A i \in 1 .. n : ~(ages[i] < Window)
        BY <3>1, <3>4, TunnelConstants DEF Ages, TunnelConstants
      <4>2. m = n + 1
        BY <2>1, <3>2, <4>1 DEF IsRemembered
      <4>3. Remembered(more) = SubSeq(ages, n + 1, n)
        BY <3>2, <3>4, <4>2, RememberOne DEF IsRemembered
      <4>4. SubSeq(ages, n + 1, n) = <<>> /\ SubSeq(more, n + 2, n + 1) = <<>>
        BY <2>1, SubSeqEmpty
      <4>5. \A i \in 1 .. Len(more) : more[i] < Window <=> i >= n + 2
        BY <2>1, <2>2, <3>4, <4>1
      <4>6. n + 2 \in 1 .. Len(more) + 1
        BY <2>1
      <4> QED
        BY <2>1, <4>3, <4>4, <4>5, <4>6 DEF IsRemembered
    <3> QED
      BY <3>3, <3>4
  <2> QED
    BY <2>1, <2>3
<1>3. Seq(Ages) \subseteq T
  <2> HIDE DEF T
  <2> QED
    BY <1>1, <1>2, SeqInduction
<1> QED
  BY <1>3

(* One more exit: those that are remembered are the last ones, and recent. *)
LEMMA ExitRemembered ==
  ASSUME NEW ages \in Seq(Ages), InOrder(ages)
  PROVE  \E d \in 0 .. Len(ages) :
           LET more == Append(ages, 0)
               later == Remembered(more)
           IN  /\ later \in Seq(Ages) /\ Len(later) = Len(more) - d
               /\ \A i \in 1 .. Len(later) : later[i] = more[i + d] /\ later[i] < Window
<1> DEFINE n == Len(ages)
           more == Append(ages, 0)
           later == Remembered(more)
<1>1. 0 \in Ages /\ 0 < Window /\ Window \in Nat
  BY TunnelConstants DEF TunnelConstants, Ages
<1>2. more \in Seq(Ages) /\ Len(more) = n + 1 /\ n \in Nat /\ more[n + 1] = 0
  BY <1>1
<1>3. \A i \in 1 .. n : more[i] = ages[i] /\ ages[i] \in Ages
  OBVIOUS
<1>4. InOrder(more)
  BY <1>2, <1>3 DEF InOrder, Ages
<1>5. PICK m \in 1 .. n + 2 : IsRemembered(more, m)
  <2>1. Len(more) + 1 = n + 2
    BY <1>2
  <2> QED
    BY <1>2, <1>4, <2>1, RememberedIsLastPart
<1>6. m <= n + 1
  <2>1. n + 1 \in 1 .. Len(more) /\ more[n + 1] < Window
    BY <1>1, <1>2
  <2> QED
    BY <1>5, <2>1 DEF IsRemembered
<1>7. later = SubSeq(more, m, n + 1)
  BY <1>2, <1>5 DEF IsRemembered
<1>8. /\ later \in Seq(Ages) /\ Len(later) = (n + 1) - m + 1
      /\ \A i \in 1 .. (n + 1) - m + 1 : later[i] = more[m + i - 1]
  <2>1. (\A i \in m .. n + 1 : more[i] \in Ages) /\ m \in Int /\ n + 1 \in Int /\ m <= n + 1
    BY <1>2, <1>6
  <2> HIDE DEF n, more, later
  <2> QED
    BY <1>7, <2>1, SubSeqProperties
<1>9. ASSUME NEW i \in 1 .. Len(later) PROVE later[i] = more[i + (m - 1)] /\ later[i] < Window
  <2>1. i \in 1 .. (n + 1) - m + 1 /\ m + i - 1 = i + (m - 1) /\ m + i - 1 \in 1 .. Len(more) /\ m + i - 1 >= m
    BY <1>2, <1>6, <1>8
  <2>2. more[m + i - 1] < Window
    BY <1>5, <2>1 DEF IsRemembered
  <2> QED
    BY <1>8, <2>1, <2>2
<1>10. m - 1 \in 0 .. n /\ Len(later) = Len(more) - (m - 1)
  BY <1>2, <1>6, <1>8
<1> HIDE DEF n, later, more
<1>11. \A i \in 1 .. Len(later) : later[i] = more[i + (m - 1)] /\ later[i] < Window
  BY <1>9
<1> QED
  BY <1>8, <1>10, <1>11 DEF n, later, more

(* Exits that are remembered lie at least gap seconds apart. *)
Spaced(ages, gap) ==
  \A i \in 1 .. Len(ages) - 1 : ages[i] < Window => ages[i] >= ages[i + 1] + gap

(* So the first of k + 1 exits is k gaps older than the last. *)
LEMMA SpacedSum ==
  ASSUME NEW ages \in Seq(Ages), NEW gap \in Nat, Spaced(ages, gap),
         \A i \in 1 .. Len(ages) : ages[i] < Window
  PROVE  \A k \in Nat : k + 1 <= Len(ages) => ages[1] >= k * gap + ages[k + 1]
<1> DEFINE T == {k \in Nat : k + 1 <= Len(ages) => ages[1] >= k * gap + ages[k + 1]}
<1>0. Len(ages) \in Nat /\ \A i \in 1 .. Len(ages) : ages[i] \in Nat
  BY TunnelConstants DEF Ages, TunnelConstants
<1>1. 0 \in T
  <2>1. 0 + 1 = 1 /\ 0 * gap = 0
    OBVIOUS
  <2>2. 1 <= Len(ages) => ages[1] >= 0 + ages[1]
    BY <1>0
  <2> QED
    BY <2>1, <2>2
<1>2. ASSUME NEW k \in Nat, k \in T PROVE k + 1 \in T
  <2>1. ASSUME (k + 1) + 1 <= Len(ages) PROVE ages[1] >= (k + 1) * gap + ages[(k + 1) + 1]
    <3>1. k + 1 <= Len(ages) /\ k + 1 \in 1 .. Len(ages) - 1 /\ k + 1 \in 1 .. Len(ages)
          /\ (k + 1) + 1 \in 1 .. Len(ages) /\ 1 \in 1 .. Len(ages)
      BY <1>0, <2>1
    <3>2. ages[k + 1] >= ages[(k + 1) + 1] + gap
      BY <3>1 DEF Spaced
    <3>3. (k + 1) * gap = k * gap + gap /\ k * gap \in Nat
      OBVIOUS
    <3>4. ages[1] >= k * gap + ages[k + 1]
      BY <1>2, <3>1
    <3>5. ages[1] \in Nat /\ ages[k + 1] \in Nat /\ ages[(k + 1) + 1] \in Nat
      BY <1>0, <3>1
    <3> QED
      BY <3>2, <3>3, <3>4, <3>5
  <2> QED
    BY <2>1
<1>3. Nat \subseteq T
  <2> HIDE DEF T
  <2> QED
    BY <1>1, <1>2, Induction
<1> QED
  BY <1>3

-----------------------------------------------------------------------------
(* Every exit that is remembered was at least so long ago. *)
Since(seconds) == \A i \in 1 .. Len(exits) : exits[i] < Window => exits[i] >= seconds

(* Between two exits lie the pause and the life of the ssh in between. *)
Timed ==
  /\ mon = "none" => exits = <<>>
  /\ InOrder(exits)
  /\ Spaced(exits, Pause + shortest)
  /\ mon = "sleep" => Since(Pause - nap)
  /\ mon = "spawn" => Since(Pause)
  /\ mon = "watch" /\ Alive => Since(Pause + life)
  /\ mon = "watch" /\ ssh \in Codes => Since(Pause + shortest)

(* The types of the constants. *)
LEMMA LongTyped ==
  /\ Long \in Nat /\ Window \in Nat \ {0} /\ Pause \in Nat \ {0}
  /\ MaxExits \in Nat \ {0, 1} /\ Deadline \in Nat
<1>1. MaxExits - 1 \in Nat \ {0} /\ Window \in Nat
  BY TunnelConstants DEF TunnelConstants
<1>2. \A a \in Nat, b \in Nat \ {0} : a \div b \in Nat
  OBVIOUS
<1>3. Long \in Nat
  BY <1>1, <1>2 DEF Long
<1> QED
  BY <1>3, TunnelConstants DEF TunnelConstants

-----------------------------------------------------------------------------
(* What each action does to the types, to time and to the exits.           *)

(* MonExit remembers one more exit, and forgets a first part of the list. *)
LEMMA ExitTyped ==
  ASSUME TypeOK, Custody, Timed, MonExit PROVE TypeOK' /\ Timed'
<1> USE LongTyped
<1> DEFINE gap == Pause + shortest
<1>0. /\ exits \in Seq(Ages) /\ Len(exits) \in Nat /\ Len(exits) < MaxExits /\ why = "none"
      /\ \A i \in 1 .. Len(exits) : exits[i] \in Nat /\ exits[i] <= Window
  BY DEF TypeOK, MonExit, Ages
<1>1. CASE ~(mon' = "done" /\ why' \in {"stop", "fatal"} /\ UNCHANGED <<nap, exits>>)
  <2>0. /\ exits' = Remembered(Append(exits, 0)) /\ ssh \in Codes /\ mon = "watch" /\ ssh' = "none"
        /\ IF TooMany(exits') THEN mon' = "done" /\ why' = "rate" /\ UNCHANGED nap
           ELSE mon' = "sleep" /\ nap' = Pause /\ UNCHANGED why
        /\ UNCHANGED <<main, waited, stop, sig, life, shortest, file, path>>
    BY <1>1 DEF MonExit
  <2>1. PICK d \in 0 .. Len(exits) :
          /\ exits' \in Seq(Ages) /\ Len(exits') = Len(Append(exits, 0)) - d
          /\ \A i \in 1 .. Len(exits') : exits'[i] = Append(exits, 0)[i + d] /\ exits'[i] < Window
    BY <1>0, <2>0, ExitRemembered DEF Timed
  <2>2. Len(Append(exits, 0)) = Len(exits) + 1 /\ Append(exits, 0)[Len(exits) + 1] = 0
        /\ \A i \in 1 .. Len(exits) : Append(exits, 0)[i] = exits[i]
    BY <1>0
  <2>3. Len(exits') = Len(exits) + 1 - d /\ Len(exits') \in Nat
    BY <1>0, <2>1, <2>2
  <2>4. \A i \in 1 .. Len(exits') : i + d \in 1 .. Len(exits) + 1
    BY <1>0, <2>3
  <2>5. \A i \in 1 .. Len(exits') :
           exits'[i] < Window /\ exits'[i] = IF i + d = Len(exits) + 1 THEN 0 ELSE exits[i + d]
    <3> SUFFICES ASSUME NEW i \in 1 .. Len(exits')
                 PROVE  exits'[i] < Window /\ exits'[i] = IF i + d = Len(exits) + 1 THEN 0 ELSE exits[i + d]
      OBVIOUS
    <3>1. exits'[i] < Window /\ exits'[i] = Append(exits, 0)[i + d] /\ i + d \in 1 .. Len(exits) + 1
      BY <2>1, <2>4
    <3>2. i + d # Len(exits) + 1 => i + d \in 1 .. Len(exits)
      BY <1>0, <3>1
    <3> QED
      BY <2>2, <3>1, <3>2
  <2>6. TypeOK'
    <3>1. Len(exits') <= MaxExits /\ (Len(exits') = MaxExits <=> TooMany(exits'))
      BY <1>0, <2>3 DEF TooMany
    <3>2. exits' \in Seq(0 .. Window)
      BY <2>1 DEF Ages
    <3> QED
      BY <1>0, <2>0, <3>1, <3>2 DEF TypeOK
  <2>7. InOrder(exits')
    <3> SUFFICES ASSUME NEW i \in 1 .. Len(exits'), NEW j \in 1 .. Len(exits'), i <= j
                 PROVE  exits'[j] <= exits'[i]
      BY DEF InOrder
    <3>1. i + d \in 1 .. Len(exits) + 1 /\ j + d \in 1 .. Len(exits) + 1 /\ i + d <= j + d
      BY <2>4
    <3>2. exits'[i] \in Nat
      BY <2>1 DEF Ages
    <3>3. CASE j + d = Len(exits) + 1
      <4>1. exits'[j] = 0
        BY <2>5, <3>3
      <4> QED
        BY <3>2, <4>1
    <3>4. CASE j + d # Len(exits) + 1
      <4>1. i + d \in 1 .. Len(exits) /\ j + d \in 1 .. Len(exits)
        BY <1>0, <3>1, <3>4
      <4>2. exits[j + d] <= exits[i + d]
        BY <3>1, <4>1 DEF Timed, InOrder
      <4>3. i + d # Len(exits) + 1
        BY <1>0, <4>1
      <4>4. exits'[j] = exits[j + d] /\ exits'[i] = exits[i + d]
        BY <2>5, <3>4, <4>3
      <4> QED
        BY <4>2, <4>4
    <3> QED
      BY <3>3, <3>4
  <2>8. Spaced(exits', gap)
    <3> SUFFICES ASSUME NEW i \in 1 .. Len(exits') - 1 PROVE exits'[i] >= exits'[i + 1] + gap
      BY DEF Spaced
    <3>1. /\ i \in 1 .. Len(exits') /\ i + 1 \in 1 .. Len(exits') /\ i + d \in 1 .. Len(exits)
          /\ (i + 1) + d = (i + d) + 1 /\ (i + d = Len(exits) \/ i + d \in 1 .. Len(exits) - 1)
      BY <1>0, <2>3
    <3>2. exits'[i] = exits[i + d] /\ exits[i + d] < Window
      BY <1>0, <2>5, <3>1
    <3>3. CASE i + d = Len(exits)
      <4>1. exits'[i + 1] = 0
        BY <2>5, <3>1, <3>3
      <4>2. exits[i + d] >= gap
        BY <2>0, <3>1, <3>2 DEF Timed, Since
      <4>3. gap \in Nat
        BY DEF TypeOK
      <4> QED
        BY <3>2, <4>1, <4>2, <4>3
    <3>4. CASE i + d # Len(exits)
      <4>1. exits'[i + 1] = exits[(i + d) + 1]
        BY <2>5, <3>1, <3>4
      <4>2. exits[i + d] >= exits[(i + d) + 1] + gap
        BY <3>1, <3>2, <3>4 DEF Timed, Spaced
      <4> QED
        BY <3>2, <4>1, <4>2
    <3> QED
      BY <3>3, <3>4
  <2>9. mon' = "sleep" => Since(Pause - nap)'
    <3>1. \A i \in 1 .. Len(exits') : exits'[i] >= 0
      BY <2>1 DEF Ages
    <3> QED
      BY <2>0, <3>1 DEF Since
  <2>10. Timed'
    BY <2>0, <2>7, <2>8, <2>9 DEF Timed
  <2> QED
    BY <2>6, <2>10
<1>2. CASE mon' = "done" /\ why' \in {"stop", "fatal"} /\ UNCHANGED <<nap, exits>>
  <2>1. TypeOK'
    BY <1>0, <1>2 DEF TypeOK, MonExit
  <2>2. Timed'
    BY <1>2 DEF Timed, Since, MonExit
  <2> QED
    BY <2>1, <2>2
<1> QED
  BY <1>1, <1>2

(* Time makes what is remembered older, and nothing closer together. *)
LEMMA TickTyped ==
  ASSUME TypeOK, Timed, Tick PROVE TypeOK' /\ Timed'
<1> USE LongTyped
<1> DEFINE older == [k \in DOMAIN exits |-> Least(exits[k] + 1, Window)]
<1>0. /\ exits' = older /\ exits \in Seq(Ages) /\ Len(exits) \in Nat
      /\ DOMAIN exits = 1 .. Len(exits)
      /\ \A i \in 1 .. Len(exits) : exits[i] \in Nat /\ exits[i] <= Window
  BY DEF TypeOK, Tick, Ages
<1>1. /\ Len(exits') = Len(exits) /\ exits' \in Seq(Ages)
      /\ \A i \in 1 .. Len(exits) :
           exits'[i] = IF exits[i] < Window THEN exits[i] + 1 ELSE Window
  <2>1. \A i \in 1 .. Len(exits) : older[i] \in Ages
    BY <1>0 DEF Ages, Least
  <2>2. \A i \in 1 .. Len(exits) : older[i] = IF exits[i] < Window THEN exits[i] + 1 ELSE Window
    BY <1>0 DEF Least
  <2>3. older = [i \in 1 .. Len(exits) |-> older[i]]
    BY <1>0
  <2> HIDE DEF older
  <2>4. older \in Seq(Ages) /\ Len(older) = Len(exits)
    BY <1>0, <2>1, <2>3
  <2> QED
    BY <1>0, <2>2, <2>4
<1>2. mon \notin {"spawn"} /\ ~(mon = "watch" /\ ssh \in Codes) /\ (mon = "sleep" => nap > 0)
      /\ (main = "waiting" => waited < Deadline)
  BY DEF Tick, Due, TypeOK
<1>3. TypeOK'
  <2>1. exits' \in Seq(0 .. Window)
    BY <1>1 DEF Ages
  <2>2. waited' \in 0 .. Deadline /\ nap' \in 0 .. Pause /\ life' \in 0 .. Long
    BY <1>2 DEF Tick, TypeOK, Least
  <2>3. Len(exits') <= MaxExits /\ (Len(exits') = MaxExits <=> why' = "rate")
    BY <1>1 DEF TypeOK, Tick
  <2>4. UNCHANGED <<main, stop, sig, mon, why, ssh, shortest, file, path>>
    BY DEF Tick
  <2> QED
    BY <2>1, <2>2, <2>3, <2>4 DEF TypeOK
<1>4. UNCHANGED <<main, stop, sig, mon, why, ssh, shortest>> /\ nap' = (IF nap > 0 THEN nap - 1 ELSE 0)
      /\ life' = IF Alive THEN Least(life + 1, Long) ELSE life
  BY DEF Tick
<1>5. mon = "none" => exits' = <<>>
  <2>1. exits = <<>> => Len(exits') = 0
    BY <1>1
  <2>2. Len(exits') = 0 => exits' = <<>>
    BY <1>1
  <2> QED
    BY <2>1, <2>2 DEF Timed
<1>6. InOrder(exits')
  BY <1>0, <1>1 DEF Timed, InOrder
<1>7. Spaced(exits', Pause + shortest)
  <2> SUFFICES ASSUME NEW i \in 1 .. Len(exits) - 1, exits'[i] < Window
               PROVE  exits'[i] >= exits'[i + 1] + (Pause + shortest)
    BY <1>1 DEF Spaced
  <2>1. i \in 1 .. Len(exits) /\ i + 1 \in 1 .. Len(exits)
    BY <1>0
  <2>2. exits[i] < Window /\ exits'[i] = exits[i] + 1
    BY <1>1, <2>1
  <2>3. exits[i] >= exits[i + 1] + (Pause + shortest)
    BY <2>2 DEF Timed, Spaced
  <2>4. exits'[i + 1] <= exits[i + 1] + 1
    BY <1>0, <1>1, <2>1
  <2>5. exits[i] \in Nat /\ exits[i + 1] \in Nat
    BY <1>0, <2>1
  <2>a. shortest \in Nat
    BY DEF TypeOK
  <2>6. exits'[i + 1] \in Nat
    BY <1>0, <1>1, <2>1, <2>5
  <2> QED
    BY <2>2, <2>3, <2>4, <2>5, <2>6, <2>a
<1>8. ASSUME NEW i \in 1 .. Len(exits), exits'[i] < Window, NEW x \in Int,
             exits[i] < Window => exits[i] >= x
      PROVE  exits'[i] >= x + 1
  BY <1>0, <1>1, <1>8
<1>9. mon = "sleep" => Since(Pause - nap)'
  <2> SUFFICES ASSUME mon = "sleep", NEW i \in 1 .. Len(exits'), exits'[i] < Window
               PROVE  exits'[i] >= Pause - nap'
    BY DEF Since
  <2>1. nap \in Int /\ nap' = nap - 1 /\ i \in 1 .. Len(exits)
    BY <1>1, <1>2, <1>4 DEF TypeOK
  <2>2. exits[i] < Window => exits[i] >= Pause - nap
    BY <2>1 DEF Timed, Since
  <2>3. Pause - nap \in Int
    BY <2>1
  <2>4. exits'[i] >= (Pause - nap) + 1 /\ exits'[i] \in Int
    BY <1>0, <1>1, <1>8, <2>1, <2>2, <2>3
  <2> QED
    BY <2>1, <2>4
<1>10. mon = "watch" /\ Alive => Since(Pause + life)'
  <2> SUFFICES ASSUME mon = "watch", Alive, NEW i \in 1 .. Len(exits'), exits'[i] < Window
               PROVE  exits'[i] >= Pause + life'
    BY DEF Since
  <2>1. life \in Nat /\ life' \in Nat /\ life' <= life + 1 /\ i \in 1 .. Len(exits)
    BY <1>1, <1>4 DEF TypeOK, Least
  <2>2. exits[i] < Window => exits[i] >= Pause + life
    BY <2>1 DEF Timed, Since
  <2>3. exits'[i] >= (Pause + life) + 1 /\ exits'[i] \in Int
    BY <1>0, <1>1, <1>8, <2>1, <2>2
  <2> QED
    BY <2>1, <2>3
<1>11. Timed'
  BY <1>1, <1>2, <1>4, <1>5, <1>6, <1>7, <1>9, <1>10 DEF Timed
<1> QED
  BY <1>3, <1>11

-----------------------------------------------------------------------------
(* An ssh that dies lived at least as long as the shortest. *)
LEMMA DiesTyped == ASSUME TypeOK, Timed, SshDies PROVE TypeOK' /\ Timed'
<1> USE LongTyped
<1>1. /\ ssh' \in Codes /\ shortest' \in 0 .. Long /\ shortest' <= shortest /\ shortest' <= life
      /\ UNCHANGED <<mainVars, monVars, life, file, path>> /\ shortest \in Nat /\ life \in Nat
  BY DEF SshDies, Dies, Least, TypeOK
<1>2. TypeOK'
  BY <1>1 DEF TypeOK
<1>3. \A i \in 1 .. Len(exits) : exits[i] \in Nat
  BY DEF TypeOK
<1>4. Spaced(exits, Pause + shortest')
  <2> SUFFICES ASSUME NEW i \in 1 .. Len(exits) - 1, exits[i] < Window
               PROVE  exits[i] >= exits[i + 1] + (Pause + shortest')
    BY DEF Spaced
  <2>1. exits[i] >= exits[i + 1] + (Pause + shortest)
    BY DEF Timed, Spaced
  <2>2. i \in 1 .. Len(exits) /\ i + 1 \in 1 .. Len(exits)
    BY DEF TypeOK
  <2> QED
    BY <1>1, <1>3, <2>1, <2>2
<1>5. mon = "watch" => \A i \in 1 .. Len(exits) : exits[i] < Window => exits[i] >= Pause + shortest'
  <2>1. Alive
    BY DEF SshDies
  <2>2. mon = "watch" => \A i \in 1 .. Len(exits) : exits[i] < Window => exits[i] >= Pause + life
    BY <2>1 DEF Timed, Since
  <2> QED
    BY <1>1, <1>3, <2>2
<1>6. Timed'
  BY <1>1, <1>4, <1>5 DEF Timed, Since
<1> QED
  BY <1>2, <1>6

(* Every other step of run, the monitor and the world. *)
LEMMA OthersTyped ==
  ASSUME TypeOK, Custody, Timed, Next, ~MonExit, ~Tick, ~SshDies PROVE TypeOK' /\ Timed'
<1> USE LongTyped DEF TypeOK, Timed, Since, Custody
<1>1. CASE RemoteFails
  BY <1>1 DEF RemoteFails
<1>2. CASE RemoteReady
  BY <1>2 DEF RemoteReady
<1>3. CASE SocketReady
  BY <1>3 DEF SocketReady
<1>4. CASE SocketTimeout
  BY <1>4 DEF SocketTimeout, DropGuard
<1>5. CASE Leave
  <2>1. /\ main' = "leaving" /\ stop' = TRUE /\ file' = FALSE
        /\ UNCHANGED <<waited, sig, monVars, sshVars, path>>
    BY <1>5 DEF Leave, DropGuard
  <2>2. TypeOK'
    BY <2>1
  <2>3. Timed'
    BY <2>1
  <2> QED
    BY <2>2, <2>3
<1>6. CASE Exit
  BY <1>6 DEF Exit
<1>7. CASE MonStop
  BY <1>7 DEF MonStop, StopKills
<1>8. CASE MonWaitFails
  BY <1>8 DEF MonWaitFails
<1>9. CASE MonWake
  BY <1>9 DEF MonWake
<1>10. CASE MonSpawn
  <2>1. /\ mon = "spawn" /\ mon' = "watch" /\ ssh' = "starting" /\ life' = 0
        /\ UNCHANGED <<mainVars, nap, exits, why, shortest, file, path>>
    BY <1>10 DEF MonSpawn, NewChild
  <2>2. TypeOK'
    BY <2>1
  <2>3. Since(Pause) /\ Pause + life' = Pause
    BY <2>1
  <2> QED
    BY <2>1, <2>2, <2>3
<1>11. CASE MonSpawnFails
  BY <1>11 DEF MonSpawnFails
<1>12. CASE SshBinds
  BY <1>12 DEF SshBinds
<1>13. CASE Signal
  <2>1. /\ UNCHANGED <<waited, stop, monVars, sshVars, file, path>>
        /\ \/ main' = "killed" /\ UNCHANGED sig
           \/ sig' = TRUE /\ UNCHANGED main
    BY <1>13 DEF Signal
  <2>2. CASE main' = "killed" /\ UNCHANGED sig
    BY <2>1, <2>2
  <2>3. CASE sig' = TRUE /\ UNCHANGED main
    <3>1. TypeOK'
      BY <2>1, <2>3
    <3>2. Timed'
      BY <2>1, <2>3
    <3> QED
      BY <3>1, <3>2
  <2> QED
    BY <2>1, <2>2, <2>3
<1>14. CASE PathChanges
  BY <1>14 DEF PathChanges
<1> HIDE DEF TypeOK, Timed, Since, Custody
<1> QED
  BY <1>1, <1>2, <1>3, <1>4, <1>5, <1>6, <1>7, <1>8, <1>9, <1>10, <1>11, <1>12, <1>13, <1>14, Zenon
     DEF Next, Main, Monitor, World

(* Together with Custody, both are inductive. *)
LEMMA TimedHolds == Spec => [](TypeOK /\ Timed)
<1> DEFINE I == TypeOK /\ Custody /\ Timed
<1>1. Init => TypeOK /\ Timed
  <2> SUFFICES ASSUME Init PROVE TypeOK /\ Timed
    OBVIOUS
  <2>1. <<>> \in Seq(0 .. Window) /\ Len(<<>>) = 0 /\ 0 < MaxExits /\ 1 .. 0 = {} /\ 1 .. 0 - 1 = {}
    BY LongTyped
  <2>2. waited \in 0 .. Deadline /\ nap \in 0 .. Pause /\ life \in 0 .. Long /\ shortest \in 0 .. Long
    BY LongTyped DEF Init
  <2>3. TypeOK
    <3>1. exits \in Seq(0 .. Window) /\ Len(exits) <= MaxExits /\ (Len(exits) = MaxExits <=> why = "rate")
      BY <2>1, LongTyped DEF Init
    <3> QED
      BY <2>2, <3>1 DEF Init, TypeOK
  <2>4. Timed
    BY <2>1 DEF Init, Timed, InOrder, Spaced
  <2> QED
    BY <2>3, <2>4
<1>2. I /\ [Next]_vars => TypeOK' /\ Timed'
  <2>1. CASE UNCHANGED vars
    BY <2>1 DEF TypeOK, Timed, Since, vars
  <2>2. ASSUME I, Next PROVE TypeOK' /\ Timed'
    BY <2>2, ExitTyped, TickTyped, DiesTyped, OthersTyped
  <2> QED
    BY <2>1, <2>2
<1> QED
  BY <1>1, <1>2, CustodyHolds, PTL DEF Spec

(* Every variable keeps its type, and the length of exit_times says        *)
(* whether the monitor has given up (connect.rs:224-235): below the limit  *)
(* until it has, at the limit from then on, and never beyond.              *)
THEOREM TypesHold == Spec => []TypeOK
  BY TimedHolds, PTL

(* A shorter life spreads exits less far. *)
LEMMA Sooner ==
  ASSUME NEW a \in Nat, NEW b \in Nat, NEW p \in Nat, NEW m \in Nat, a <= b
  PROVE  (a + p) * m <= (b + p) * m /\ (a + p) * m \in Nat /\ (b + p) * m \in Nat
  OBVIOUS

(* No step gives up too early: one that gives up has MaxExits exits, each  *)
(* of them later than the one before by a pause and a life.                *)
LEMMA GivesUpStep ==
  ASSUME TypeOK, Custody, Timed, GivesUpOnlyIfFast, [Next]_vars PROVE GivesUpOnlyIfFast'
<1> USE LongTyped
<1>0. shortest \in Nat /\ MaxExits - 1 \in Nat
  BY DEF TypeOK
<1>1. CASE MonExit /\ why' = "rate"
  <2>1. TypeOK' /\ Timed' /\ shortest' = shortest /\ TooMany(exits') /\ exits' = Remembered(Append(exits, 0))
    BY <1>1, ExitTyped DEF MonExit, TypeOK
  <2>2. exits' \in Seq(Ages) /\ Len(exits') = MaxExits
    BY <1>1, <2>1 DEF TypeOK, Ages
  <2>3. exits \in Seq(Ages) /\ InOrder(exits)
    BY DEF TypeOK, Timed, Ages
  <2>4. \A i \in 1 .. Len(exits') : exits'[i] < Window
    BY <2>1, <2>3, ExitRemembered
  <2>5. Spaced(exits', Pause + shortest) /\ Pause + shortest \in Nat
    BY <1>0, <2>1 DEF Timed
  <2>6. exits'[1] >= (MaxExits - 1) * (Pause + shortest) + exits'[MaxExits]
    <3>1. (MaxExits - 1) + 1 = MaxExits
      OBVIOUS
    <3>2. (MaxExits - 1) + 1 <= Len(exits') =>
             exits'[1] >= (MaxExits - 1) * (Pause + shortest) + exits'[(MaxExits - 1) + 1]
      BY <1>0, <2>2, <2>4, <2>5, SpacedSum
    <3> QED
      BY <2>2, <3>1, <3>2
  <2>7. exits'[MaxExits] \in Nat /\ exits'[1] < Window /\ exits'[1] \in Nat
    <3>1. 1 \in 1 .. Len(exits') /\ MaxExits \in 1 .. Len(exits')
      BY <2>2
    <3> QED
      BY <2>2, <2>4, <3>1 DEF Ages
  <2>8. (MaxExits - 1) * (Pause + shortest) = (shortest + Pause) * (MaxExits - 1)
        /\ (shortest + Pause) * (MaxExits - 1) \in Nat
    BY <1>0
  <2> QED
    BY <2>1, <2>6, <2>7, <2>8 DEF GivesUpOnlyIfFast
<1>2. CASE ~(MonExit /\ why' = "rate")
  <2>1. why' = "rate" => why = "rate"
    BY <1>2 DEF Next, Main, Monitor, World, vars, RemoteFails, RemoteReady, SocketReady, SocketTimeout,
       Leave, Exit, MonStop, MonExit, MonWaitFails, MonWake, MonSpawn, MonSpawnFails, SshBinds, SshDies,
       Signal, PathChanges, Tick
  <2>2. shortest' <= shortest /\ shortest' \in Nat
    <3>1. SshDies => shortest' \in {shortest, life} /\ shortest' <= shortest
      BY <1>0 DEF SshDies, Dies, Least, TypeOK
    <3>2. ~SshDies => shortest' = shortest
      BY DEF Next, Main, Monitor, World, vars, RemoteFails, RemoteReady, SocketReady, SocketTimeout,
         Leave, Exit, MonStop, MonExit, MonWaitFails, MonWake, MonSpawn, MonSpawnFails, SshBinds,
         Signal, PathChanges, Tick
    <3>3. life \in Nat
      BY DEF TypeOK
    <3> QED
      BY <1>0, <3>1, <3>2, <3>3
  <2>3. Pause \in Nat
    OBVIOUS
  <2>4. /\ (shortest' + Pause) * (MaxExits - 1) <= (shortest + Pause) * (MaxExits - 1)
        /\ (shortest' + Pause) * (MaxExits - 1) \in Nat /\ (shortest + Pause) * (MaxExits - 1) \in Nat
    BY <1>0, <2>2, <2>3, Sooner
  <2> QED
    BY <2>1, <2>4 DEF GivesUpOnlyIfFast
<1> QED
  BY <1>1, <1>2

(* Giving up for too many exits: whatever the limit, the window, the pause *)
(* and the lives of ssh, the average of a pause and the shortest life was  *)
(* below what would have spread that many exits over the window            *)
(* (connect.rs:224-238).                                                   *)
THEOREM GivesUpForSpeedOnly == Spec => []GivesUpOnlyIfFast
<1>1. Init => GivesUpOnlyIfFast
  BY DEF Init, GivesUpOnlyIfFast
<1>2. TypeOK /\ Custody /\ Timed /\ GivesUpOnlyIfFast /\ [Next]_vars => GivesUpOnlyIfFast'
  BY GivesUpStep
<1> QED
  BY <1>1, <1>2, TimedHolds, CustodyHolds, PTL DEF Spec
=============================================================================
