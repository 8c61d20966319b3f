---------------------------- MODULE EscapeProofs ----------------------------
(***************************************************************************)
(* Theorems about the escape processor: its state says what was typed, and *)
(* its actions are those of the reference, for input of any length.        *)
(***************************************************************************)
EXTENDS MCEscape, Lists

(* Pending: the last byte is an escape.  After "~." the processor stays in *)
(* AfterTilde, with its last action sent and nothing more to come.         *)
AtLineStart(s) == s = <<>> \/ s[Len(s)] = "nl"
Pending(s) == s # <<>> /\ Escapes(s, Len(s))
JustDetached(s) == Len(s) > 1 /\ Escapes(s, Len(s) - 1) /\ s[Len(s)] = "."
Done == Detached /\ dataBuf = <<>>

StateInv ==
  /\ typed \in Seq(Bytes) /\ actions \in Seq(Bytes \cup {"Detach", "Suspend", "Help"})
  /\ dataBuf \in Seq(Bytes)
  /\ state \in {"Normal", "AfterNewline", "AfterTilde"}
  /\ state = "AfterNewline" <=> AtLineStart(typed)
  /\ state = "AfterTilde" <=> Pending(typed) \/ JustDetached(typed)
  /\ JustDetached(typed) => Done

(* Whether a byte is an escape depends on what came before it only. *)
LEMMA OneMore ==
  ASSUME NEW s \in Seq(Bytes), NEW b \in Bytes
  PROVE  /\ Append(s, b) \in Seq(Bytes)
         /\ AtLineStart(Append(s, b)) <=> b = "nl"
         /\ Pending(Append(s, b)) <=> b = "~" /\ AtLineStart(s)
         /\ JustDetached(Append(s, b)) <=> b = "." /\ Pending(s)
<1>1. /\ Len(Append(s, b)) = Len(s) + 1 /\ Append(s, b)[Len(s) + 1] = b /\ Append(s, b) # <<>>
      /\ \A k \in 1 .. Len(s) : Append(s, b)[k] = s[k]
      /\ Len(s) \in Nat /\ (s = <<>> <=> Len(s) = 0)
  OBVIOUS
<1>2. \A p \in 1 .. Len(s) : Escapes(Append(s, b), p) <=> Escapes(s, p)
  BY <1>1 DEF Escapes
<1>3. AtLineStart(Append(s, b)) <=> b = "nl"
  BY <1>1 DEF AtLineStart
<1>4. Pending(Append(s, b)) <=> b = "~" /\ AtLineStart(s)
  BY <1>1 DEF AtLineStart, Pending, Escapes
<1>5. JustDetached(Append(s, b)) <=> b = "." /\ Pending(s)
  <2>1. CASE s = <<>>
    BY <1>1, <2>1 DEF Pending, JustDetached
  <2>2. CASE s # <<>>
    <3>1. Len(s) \in 1 .. Len(s) /\ Len(Append(s, b)) > 1 /\ Len(Append(s, b)) - 1 = Len(s)
      BY <1>1, <2>2
    <3> QED
      BY <1>1, <1>2, <2>2, <3>1 DEF Pending, JustDetached
  <2> QED
    BY <2>1, <2>2
<1> QED
  BY <1>3, <1>4, <1>5

LEMMA Excluded ==
  ASSUME NEW s \in Seq(Bytes)
  PROVE  ~(AtLineStart(s) /\ (Pending(s) \/ JustDetached(s))) /\ ~(Pending(s) /\ JustDetached(s))
  BY DEF AtLineStart, Pending, JustDetached, Escapes

LEMMA StateStart == Init => StateInv
  BY DEF Init, StateInv, AtLineStart, Pending, JustDetached, Bytes

LEMMA StateKept == StateInv /\ [Next]_vars => StateInv'
<1> SUFFICES ASSUME StateInv, [Next]_vars PROVE StateInv'
  OBVIOUS
<1>1. ASSUME NEW b \in Bytes, InNormal(b) PROVE StateInv'
  <2>1. typed' = Append(typed, b) /\ state = "Normal" /\ actions' = actions
    BY <1>1 DEF InNormal, Read, Push
  <2>2. dataBuf' \in Seq(Bytes) /\ state' = PlainState(b)
    BY <1>1 DEF InNormal, Push, StateInv
  <2> QED
    BY <2>1, <2>2, OneMore DEF PlainState, StateInv
<1>2. ASSUME NEW b \in Bytes, InAfterNewline(b) PROVE StateInv'
  <2>1. typed' = Append(typed, b) /\ state = "AfterNewline"
    BY <1>2 DEF InAfterNewline, Read
  <2>2. /\ dataBuf' \in Seq(Bytes) /\ actions' \in Seq(Bytes \cup {"Detach", "Suspend", "Help"})
        /\ state' = IF b = "~" THEN "AfterTilde" ELSE PlainState(b)
    <3>1. CASE b = "~"
      <4>1. actions' = actions \o dataBuf \o <<>> /\ dataBuf' = <<>> /\ state' = "AfterTilde"
        BY <1>2, <3>1 DEF InAfterNewline, Flush
      <4> QED
        BY <3>1, <4>1 DEF StateInv
    <3>2. CASE b # "~"
      <4>1. actions' = actions /\ dataBuf' = dataBuf \o <<b>> /\ state' = PlainState(b)
        BY <1>2, <3>2 DEF InAfterNewline, Push
      <4> QED
        BY <3>2, <4>1 DEF StateInv
    <3> QED
      BY <3>1, <3>2
  <2>3. ~JustDetached(typed')
    BY <2>1, OneMore, Excluded DEF StateInv
  <2> QED
    BY <2>1, <2>2, <2>3, OneMore DEF PlainState, StateInv
<1>3. ASSUME NEW b \in Bytes, InAfterTilde(b) PROVE StateInv'
  <2>1. typed' = Append(typed, b) /\ state = "AfterTilde" /\ ~Detached
    BY <1>3 DEF InAfterTilde, Read
  <2>2. Pending(typed) /\ ~AtLineStart(typed)
    BY <2>1, Excluded DEF StateInv, Done
  <2>3. CASE b \in DOMAIN CommandOf
    <3>1. CommandOf[b] \in {"Detach", "Suspend", "Help"} /\ (b = "." => CommandOf[b] = "Detach")
      BY <2>3 DEF CommandOf
    <3>2. /\ dataBuf' = <<>> /\ actions' = actions \o dataBuf \o <<CommandOf[b]>>
          /\ state' = IF b = "." THEN state ELSE "Normal"
      BY <1>3, <2>3 DEF InAfterTilde, Flush
    <3>3. /\ actions' \in Seq(Bytes \cup {"Detach", "Suspend", "Help"})
          /\ actions' # <<>> /\ actions'[Len(actions')] = CommandOf[b]
      BY <3>1, <3>2 DEF StateInv
    <3>4. b # "~" /\ b # "nl"
      BY <2>3 DEF CommandOf
    <3> QED
      BY <2>1, <2>2, <3>1, <3>2, <3>3, <3>4, OneMore DEF StateInv, Done, Detached
  <2>4. CASE b \notin DOMAIN CommandOf
    <3>1. /\ dataBuf' = dataBuf \o Unknown(b) /\ actions' = actions /\ state' = PlainState(b)
      BY <1>3, <2>4 DEF InAfterTilde, Push
    <3>2. Unknown(b) \in Seq(Bytes)
      <4>1. "~" \in Bytes
        BY DEF Bytes
      <4> QED
        BY <4>1 DEF Unknown
    <3>3. b # "."
      BY <2>4 DEF CommandOf
    <3> QED
      BY <2>1, <2>2, <3>1, <3>2, <3>3, OneMore DEF PlainState, StateInv
  <2> QED
    BY <2>3, <2>4
<1>4. CASE EndChunk
  <2>1. /\ typed' = typed /\ state' = state /\ dataBuf' = <<>> /\ dataBuf # <<>>
        /\ actions' = actions \o dataBuf \o <<>>
    BY <1>4 DEF EndChunk, Flush
  <2>2. ~JustDetached(typed) /\ actions' \in Seq(Bytes \cup {"Detach", "Suspend", "Help"})
    BY <2>1 DEF StateInv, Done
  <2> QED
    BY <2>1, <2>2 DEF StateInv
<1>5. CASE UNCHANGED vars
  BY <1>5 DEF vars, StateInv, Done, Detached
<1> QED
  BY <1>1, <1>2, <1>3, <1>4, <1>5 DEF Next

(* The three states are what client.rs:33-37 says of them, however the     *)
(* input is cut into reads.                                                *)
THEOREM StateIsRight == Spec => []StateMatches
<1>1. StateInv => StateMatches
  BY DEF StateInv, StateMatches, AtLineStart, Pending, JustDetached
<1> QED
  BY <1>1, StateStart, StateKept, PTL DEF Spec

-----------------------------------------------------------------------------
(* The reference, byte by byte.  What may come out: bytes and commands. *)
Outcomes == Bytes \cup {"Detach", "Suspend", "Help"}
Parts(s) == [p \in 1 .. Len(s) |-> Yields(s, p)]

(* What one more byte b after s adds to it. *)
Adds(s, b) ==
  CASE Pending(s) /\ b \in DOMAIN CommandOf -> <<CommandOf[b]>>
    [] Pending(s) /\ b \notin DOMAIN CommandOf -> Unknown(b)
    [] ~Pending(s) /\ b = "~" /\ AtLineStart(s) -> <<>>
    [] ~Pending(s) /\ ~(b = "~" /\ AtLineStart(s)) -> <<b>>

LEMMA PartsTyped == ASSUME NEW s \in Seq(Bytes) PROVE Parts(s) \in Seq(Seq(Outcomes))
<1>1. ASSUME NEW p \in 1 .. Len(s) PROVE Yields(s, p) \in Seq(Outcomes)
  <2>1. s[p] \in Outcomes /\ "~" \in Outcomes
    BY DEF Outcomes, Bytes
  <2>2. s[p] \in {".", "^Z", "?"} => CommandOf[s[p]] \in Outcomes
    BY DEF CommandOf, Outcomes
  <2> QED
    BY <2>1, <2>2 DEF Yields
<1>2. Len(s) \in Nat
  OBVIOUS
<1> QED
  BY <1>1, <1>2 DEF Parts

(* Whatever is typed later, a byte yields what it yields. *)
LEMMA OnePartMore ==
  ASSUME NEW s \in Seq(Bytes), NEW b \in Bytes
  PROVE  Parts(Append(s, b)) = Append(Parts(s), Adds(s, b))
<1> DEFINE t == Append(s, b)
           n == Len(s)
<1>1. /\ t \in Seq(Bytes) /\ n \in Nat /\ Len(t) = n + 1 /\ t[n + 1] = b
      /\ \A p \in 1 .. n : t[p] = s[p]
  OBVIOUS
<1>2. \A p \in 1 .. n : Escapes(t, p) <=> Escapes(s, p)
  BY <1>1 DEF Escapes
<1>3. \A p \in 1 .. n : Yields(t, p) = Yields(s, p)
  <2> TAKE p \in 1 .. n
  <2>1. t[p] = s[p] /\ (Escapes(t, p) <=> Escapes(s, p))
    BY <1>1, <1>2
  <2>2. p # 1 => (Escapes(t, p - 1) <=> Escapes(s, p - 1))
    BY <1>1, <1>2
  <2> QED
    BY <2>1, <2>2 DEF Yields
<1>4. Yields(t, n + 1) = Adds(s, b)
  <2>1. Escapes(t, n + 1) <=> b = "~" /\ AtLineStart(s)
    BY <1>1, OneMore DEF Pending
  <2>2. n + 1 = 1 \/ ~Escapes(t, (n + 1) - 1) <=> ~Pending(s)
    <3>1. CASE n = 0
      BY <1>1, <3>1 DEF Pending
    <3>2. CASE n # 0
      BY <1>1, <1>2, <3>2 DEF Pending
    <3> QED
      BY <3>1, <3>2
  <2>3. DOMAIN CommandOf = {".", "^Z", "?"}
    BY DEF CommandOf
  <2>4. ~(AtLineStart(s) /\ Pending(s))
    BY Excluded
  <2> QED
    BY <1>1, <2>1, <2>2, <2>3, <2>4 DEF Yields, Adds, Unknown
<1>5. /\ Parts(t) \in Seq(Seq(Outcomes)) /\ Parts(s) \in Seq(Seq(Outcomes))
      /\ Len(Parts(t)) = n + 1 /\ Len(Parts(s)) = n
  <2>1. Parts(t) \in Seq(Seq(Outcomes)) /\ Parts(s) \in Seq(Seq(Outcomes))
    BY <1>1, PartsTyped
  <2>2. Len(Parts(t)) = Len(t) /\ Len(Parts(s)) = Len(s)
    BY <1>1 DEF Parts
  <2> QED
    BY <1>1, <2>1, <2>2
<1>6. Adds(s, b) \in Seq(Outcomes)
  <2>1. n + 1 \in 1 .. Len(Parts(t)) /\ Parts(t)[n + 1] = Adds(s, b)
    BY <1>1, <1>4, <1>5 DEF Parts
  <2> QED
    BY <1>5, <2>1
<1>7. \A p \in 1 .. n + 1 : Parts(t)[p] = Append(Parts(s), Adds(s, b))[p]
  <2> TAKE p \in 1 .. n + 1
  <2>1. CASE p = n + 1
    BY <1>1, <1>4, <1>5, <2>1 DEF Parts
  <2>2. CASE p # n + 1
    <3>1. p \in 1 .. n
      BY <1>1, <2>2
    <3> QED
      BY <1>1, <1>3, <1>5, <3>1 DEF Parts
  <2> QED
    BY <2>1, <2>2
<1> QED
  BY <1>5, <1>6, <1>7, SeqEqual

(* What comes out for one more byte. *)
LEMMA ReferenceStep ==
  ASSUME NEW s \in Seq(Bytes), NEW b \in Bytes
  PROVE  FlattenSeq(Parts(Append(s, b))) = FlattenSeq(Parts(s)) \o Adds(s, b)
<1>1. Parts(s) \in Seq(Seq(Outcomes)) /\ Parts(Append(s, b)) \in Seq(Seq(Outcomes))
  BY PartsTyped, OneMore
<1>2. Parts(Append(s, b)) = Append(Parts(s), Adds(s, b))
  BY OnePartMore
<1>3. Adds(s, b) \in Seq(Outcomes)
  <2>1. Parts(Append(s, b))[Len(s) + 1] = Adds(s, b) /\ Len(s) + 1 \in 1 .. Len(Parts(Append(s, b)))
    BY <1>1, <1>2 DEF Parts
  <2> QED
    BY <1>1, <2>1
<1> QED
  BY <1>1, <1>2, <1>3, FlattenAppend

(* One byte: its part goes to data_buf or, as a command, after it. *)
LEMMA Output ==
  ASSUME StateInv, NEW b \in Bytes, InNormal(b) \/ InAfterNewline(b) \/ InAfterTilde(b)
  PROVE  /\ typed' = Append(typed, b)
         /\ actions' \o dataBuf' = (actions \o dataBuf) \o Adds(typed, b)
<1>0. actions \in Seq(Outcomes) /\ dataBuf \in Seq(Outcomes) /\ typed \in Seq(Bytes) /\ b \in Outcomes
      /\ "~" \in Outcomes
  BY DEF StateInv, Outcomes, Bytes
<1>1. ASSUME NEW x \in Seq(Outcomes), Push(x)
      PROVE  actions' \o dataBuf' = (actions \o dataBuf) \o x
  <2>1. actions' = actions /\ dataBuf' = dataBuf \o x
    BY <1>1 DEF Push
  <2>2. Associated(actions, dataBuf, x)
    BY <1>0, ConcatAssociated
  <2> QED
    BY <2>1, <2>2, Zenon DEF Associated
<1>2. ASSUME NEW x \in Seq(Outcomes), Flush(x)
      PROVE  actions' \o dataBuf' = (actions \o dataBuf) \o x
  <2>1. actions \o dataBuf \o x \in Seq(Outcomes)
    BY <1>0
  <2> QED
    BY <1>2, <2>1, ConcatEmptySeq DEF Flush
<1>3. CASE InNormal(b)
  <2>1. Adds(typed, b) = <<b>> /\ Push(<<b>>) /\ <<b>> \in Seq(Outcomes)
    BY <1>0, <1>3 DEF InNormal, StateInv, Adds
  <2> QED
    BY <1>1, <1>3, <2>1 DEF InNormal, Read
<1>4. CASE InAfterNewline(b)
  <2>1. AtLineStart(typed) /\ ~Pending(typed)
    BY <1>0, <1>4, Excluded DEF InAfterNewline, StateInv
  <2>2. CASE b = "~"
    <3>1. Adds(typed, b) = <<>> /\ Flush(<<>>) /\ <<>> \in Seq(Outcomes)
      BY <1>4, <2>1, <2>2 DEF InAfterNewline, Adds
    <3> QED
      BY <1>2, <1>4, <3>1 DEF InAfterNewline, Read
  <2>3. CASE b # "~"
    <3>1. Adds(typed, b) = <<b>> /\ Push(<<b>>) /\ <<b>> \in Seq(Outcomes)
      BY <1>0, <1>4, <2>1, <2>3 DEF InAfterNewline, Adds
    <3> QED
      BY <1>1, <1>4, <3>1 DEF InAfterNewline, Read
  <2> QED
    BY <2>2, <2>3
<1>5. CASE InAfterTilde(b)
  <2>1. Pending(typed)
    BY <1>5 DEF InAfterTilde, Read, StateInv, Done
  <2>2. CASE b \in DOMAIN CommandOf
    <3>1. Adds(typed, b) = <<CommandOf[b]>> /\ Flush(<<CommandOf[b]>>)
      BY <1>5, <2>1, <2>2 DEF InAfterTilde, Adds
    <3>2. CommandOf[b] \in Outcomes
      BY <2>2 DEF CommandOf, Outcomes
    <3>3. <<CommandOf[b]>> \in Seq(Outcomes)
      BY <3>2
    <3> QED
      BY <1>2, <1>5, <3>1, <3>3 DEF InAfterTilde, Read
  <2>3. CASE b \notin DOMAIN CommandOf
    <3>1. Adds(typed, b) = Unknown(b) /\ Push(Unknown(b))
      BY <1>5, <2>1, <2>3 DEF InAfterTilde, Adds
    <3>2. Unknown(b) \in Seq(Outcomes)
      BY <1>0 DEF Unknown
    <3> QED
      BY <1>1, <1>5, <3>1, <3>2 DEF InAfterTilde, Read
  <2> QED
    BY <2>2, <2>3
<1> QED
  BY <1>3, <1>4, <1>5

(* For input of any length, however it is cut into reads, what the         *)
(* processor has put out is what the help text promises for each byte, in  *)
(* the order typed (client.rs:18-24, 53-128).                              *)
THEOREM OutputIsReference == Spec => []MatchesReference
<1>1. Init => MatchesReference
  <2>1. [p \in 1 .. 0 |-> Yields(<<>>, p)] = <<>>
    OBVIOUS
  <2>2. Len(<<>>) = 0 /\ <<>> \o <<>> = <<>>
    OBVIOUS
  <2> QED
    BY <2>1, <2>2, FlattenEmpty DEF Init, MatchesReference
<1>2. StateInv /\ MatchesReference /\ [Next]_vars => MatchesReference'
  <2> SUFFICES ASSUME StateInv, MatchesReference, [Next]_vars PROVE MatchesReference'
    OBVIOUS
  <2>1. ASSUME NEW b \in Bytes, InNormal(b) \/ InAfterNewline(b) \/ InAfterTilde(b)
        PROVE  MatchesReference'
    BY <2>1, Output, ReferenceStep DEF MatchesReference, Parts, StateInv
  <2>2. CASE EndChunk
    <3>1. /\ typed' = typed /\ dataBuf' = <<>> /\ actions' = actions \o dataBuf \o <<>>
          /\ actions \o dataBuf \in Seq(Outcomes)
      BY <2>2 DEF EndChunk, Flush, StateInv, Outcomes
    <3> QED
      BY <3>1, ConcatEmptySeq DEF MatchesReference
  <2>3. CASE UNCHANGED vars
    BY <2>3 DEF vars, MatchesReference
  <2> QED
    BY <2>1, <2>2, <2>3 DEF Next
<1> QED
  BY <1>1, <1>2, StateStart, StateKept, PTL DEF Spec
=============================================================================
