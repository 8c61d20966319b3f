---------------------------- MODULE CodecProofs ----------------------------
(***************************************************************************)
(* Theorems about the frame codec: what is encoded is decoded, in whatever *)
(* pieces the stream comes, for every set of frames and of junk.           *)
(***************************************************************************)
EXTENDS Codec, Lists

(* What Split has at each place of the text. *)
Pieces(f, S, t, sep) ==
  /\ f \in [0 .. Len(t) -> Seq(Seq(S)) \ {<<>>}]
  /\ f[0] = << <<>> >>
  /\ \A i \in 1 .. Len(t) : f[i] = Grow(f[i - 1], t[i], sep)

LEMMA GrowTyped ==
  ASSUME NEW S, NEW parts \in Seq(Seq(S)) \ {<<>>}, NEW b \in S, NEW sep
  PROVE  Grow(parts, b, sep) \in Seq(Seq(S)) \ {<<>>}
<1>1. CASE b = sep
  <2>1. Grow(parts, b, sep) = Append(parts, <<>>) /\ <<>> \in Seq(S)
    BY <1>1 DEF Grow
  <2>2. Append(parts, <<>>) \in Seq(Seq(S)) /\ Append(parts, <<>>) # <<>>
    BY <2>1
  <2> QED
    BY <2>1, <2>2
<1>2. CASE b # sep
  <2>1. Grow(parts, b, sep) = [parts EXCEPT ![Len(parts)] = Append(@, b)]
    BY <1>2 DEF Grow
  <2>2. Len(parts) \in 1 .. Len(parts) /\ parts[Len(parts)] \in Seq(S)
    OBVIOUS
  <2>3. Append(parts[Len(parts)], b) \in Seq(S)
    BY <2>2
  <2>4. [parts EXCEPT ![Len(parts)] = Append(@, b)] \in Seq(Seq(S))
        /\ Len([parts EXCEPT ![Len(parts)] = Append(@, b)]) = Len(parts)
    BY <2>2, <2>3
  <2> QED
    BY <2>1, <2>2, <2>4
<1> QED
  BY <1>1, <1>2

LEMMA SplitBy ==
  ASSUME NEW S, NEW t \in Seq(S), NEW sep, NEW f, Pieces(f, S, t, sep)
  PROVE  Split(t, sep) = f[Len(t)]
<1> DEFINE Def(g) == [i \in 0 .. Len(t) |-> IF i = 0 THEN << <<>> >> ELSE Grow(g[i - 1], t[i], sep)]
           g == CHOOSE h : h = Def(h)
<1>0. Len(t) \in Nat
  OBVIOUS
<1>1. Split(t, sep) = g[Len(t)]
  BY DEF Split
<1>2. f = Def(f)
  <2>1. \A i \in 0 .. Len(t) : f[i] = IF i = 0 THEN << <<>> >> ELSE Grow(f[i - 1], t[i], sep)
    <3>1. \A i \in 0 .. Len(t) : i = 0 \/ i \in 1 .. Len(t)
      BY <1>0
    <3>2. f[0] = << <<>> >> /\ \A i \in 1 .. Len(t) : i # 0 /\ f[i] = Grow(f[i - 1], t[i], sep)
      BY DEF Pieces
    <3> HIDE DEF Grow
    <3> QED
      BY <3>1, <3>2
  <2>2. f = [i \in 0 .. Len(t) |-> f[i]]
    BY DEF Pieces
  <2> QED
    BY <2>1, <2>2
<1>3. g = Def(g)
  <2> HIDE DEF Def
  <2> QED
    BY <1>2
<1>4. g[0] = << <<>> >> /\ \A i \in 1 .. Len(t) : g[i] = Grow(g[i - 1], t[i], sep)
  <2> HIDE DEF g
  <2>1. 0 \in 0 .. Len(t) /\ \A i \in 1 .. Len(t) : i \in 0 .. Len(t) /\ i # 0
    BY <1>0
  <2> QED
    BY <1>3, <2>1
<1> HIDE DEF g
<1> DEFINE N == {n \in Nat : n <= Len(t) => g[n] = f[n]}
<1>5. 0 \in N
  BY <1>4 DEF Pieces
<1>6. ASSUME NEW n \in Nat, n \in N PROVE n + 1 \in N
  <2>1. ASSUME n + 1 <= Len(t) PROVE g[n + 1] = f[n + 1]
    <3>1. n + 1 \in 1 .. Len(t) /\ (n + 1) - 1 = n /\ n <= Len(t)
      BY <1>0, <2>1
    <3>2. g[n + 1] = Grow(g[n], t[n + 1], sep) /\ f[n + 1] = Grow(f[n], t[n + 1], sep)
      BY <1>4, <3>1 DEF Pieces
    <3> QED
      BY <1>6, <3>1, <3>2
  <2> QED
    BY <2>1
<1>7. Nat \subseteq N
  <2> HIDE DEF N
  <2> QED
    BY <1>5, <1>6, Induction
<1>8. g[Len(t)] = f[Len(t)]
  BY <1>0, <1>7
<1> QED
  BY <1>1, <1>8

LEMMA PiecesGrow ==
  ASSUME NEW S, NEW t \in Seq(S), NEW b \in S, NEW sep, NEW f, Pieces(f, S, t, sep)
  PROVE  \E g : Pieces(g, S, Append(t, b), sep) /\ g[Len(t) + 1] = Grow(f[Len(t)], b, sep)
<1> DEFINE n == Len(t)
           g == [i \in 0 .. n + 1 |-> IF i <= n THEN f[i] ELSE Grow(f[n], b, sep)]
           u == Append(t, b)
<1>1. n \in Nat /\ Len(u) = n + 1 /\ u[n + 1] = b /\ \A i \in 1 .. n : u[i] = t[i]
  OBVIOUS
<1>2. \A i \in 0 .. n : f[i] \in Seq(Seq(S)) \ {<<>>}
  BY DEF Pieces
<1>3. Grow(f[n], b, sep) \in Seq(Seq(S)) \ {<<>>}
  BY <1>1, <1>2, GrowTyped
<1>4. g \in [0 .. n + 1 -> Seq(Seq(S)) \ {<<>>}]
  BY <1>2, <1>3
<1>5. g[0] = << <<>> >> /\ g[n + 1] = Grow(f[n], b, sep)
  BY <1>1 DEF Pieces
<1>6. ASSUME NEW i \in 1 .. n + 1 PROVE g[i] = Grow(g[i - 1], u[i], sep)
  <2>1. CASE i = n + 1
    <3>1. i - 1 = n /\ n \in 0 .. n + 1 /\ n <= n
      BY <1>1, <2>1
    <3>2. g[n] = f[n]
      BY <3>1
    <3>3. g[n + 1] = Grow(g[n], u[n + 1], sep)
      BY <1>1, <1>5, <3>2
    <3> HIDE DEF g, n, u
    <3> QED
      BY <2>1, <3>1, <3>3
  <2>2. CASE i # n + 1
    <3>1. i \in 1 .. n /\ i - 1 \in 0 .. n /\ i - 1 <= n /\ i <= n
      BY <1>1, <2>2
    <3>2. g[i] = f[i] /\ g[i - 1] = f[i - 1]
      BY <1>1, <3>1
    <3>3. f[i] = Grow(f[i - 1], t[i], sep)
      BY <3>1 DEF Pieces
    <3> QED
      BY <1>1, <3>1, <3>2, <3>3
  <2> QED
    BY <2>1, <2>2
<1> HIDE DEF g
<1>7. Pieces(g, S, u, sep)
  BY <1>1, <1>4, <1>5, <1>6 DEF Pieces
<1> QED
  BY <1>5, <1>7

LEMMA PiecesExist ==
  ASSUME NEW S, NEW sep
  PROVE  \A t \in Seq(S) : \E f : Pieces(f, S, t, sep)
<1> DEFINE T == {t \in Seq(S) : \E f : Pieces(f, S, t, sep)}
<1>1. <<>> \in T
  <2> DEFINE f == [i \in {0} |-> << <<>> >>]
  <2>1. Len(<<>>) = 0 /\ 0 .. 0 = {0} /\ 1 .. 0 = {} /\ <<>> \in Seq(S)
    OBVIOUS
  <2>2. << <<>> >> \in Seq(Seq(S)) \ {<<>>}
    OBVIOUS
  <2>3. Pieces(f, S, <<>>, sep)
    BY <2>1, <2>2 DEF Pieces
  <2> QED
    BY <2>1, <2>3
<1>2. ASSUME NEW t \in Seq(S), NEW b \in S, t \in T PROVE Append(t, b) \in T
  BY <1>2, PiecesGrow
<1>3. Seq(S) \subseteq T
  <2> HIDE DEF T
  <2> QED
    BY <1>1, <1>2, SeqInduction
<1> QED
  BY <1>3

(* split, byte by byte. *)
LEMMA SplitNone == ASSUME NEW sep PROVE Split(<<>>, sep) = << <<>> >>
<1>1. <<>> \in Seq({}) /\ Len(<<>>) = 0
  OBVIOUS
<1>2. PICK f : Pieces(f, {}, <<>>, sep)
  BY <1>1, PiecesExist
<1>3. Split(<<>>, sep) = f[0]
  BY <1>1, <1>2, SplitBy
<1> QED
  BY <1>2, <1>3 DEF Pieces

LEMMA SplitTyped ==
  ASSUME NEW S, NEW t \in Seq(S), NEW sep
  PROVE  Split(t, sep) \in Seq(Seq(S)) \ {<<>>}
<1>1. PICK f : Pieces(f, S, t, sep)
  BY PiecesExist
<1>2. Len(t) \in 0 .. Len(t)
  OBVIOUS
<1>3. f[Len(t)] \in Seq(Seq(S)) \ {<<>>}
  BY <1>1, <1>2 DEF Pieces
<1> QED
  BY <1>1, <1>3, SplitBy

LEMMA SplitGrows ==
  ASSUME NEW S, NEW t \in Seq(S), NEW b \in S, NEW sep
  PROVE  Split(Append(t, b), sep) = Grow(Split(t, sep), b, sep)
<1>1. PICK f : Pieces(f, S, t, sep)
  BY PiecesExist
<1>2. PICK g : Pieces(g, S, Append(t, b), sep) /\ g[Len(t) + 1] = Grow(f[Len(t)], b, sep)
  BY <1>1, PiecesGrow
<1>3. Append(t, b) \in Seq(S) /\ Len(Append(t, b)) = Len(t) + 1
  OBVIOUS
<1> QED
  BY <1>1, <1>2, <1>3, SplitBy

(* A text without separators is its only piece. *)
LEMMA SplitOne ==
  ASSUME NEW S, NEW sep
  PROVE  \A t \in Seq(S) : ~Contains(t, sep) => Split(t, sep) = <<t>>
<1> DEFINE T == {t \in Seq(S) : ~Contains(t, sep) => Split(t, sep) = <<t>>}
<1>1. <<>> \in T
  BY SplitNone
<1>2. ASSUME NEW t \in Seq(S), NEW b \in S, t \in T PROVE Append(t, b) \in T
  <2>1. /\ Append(t, b) \in Seq(S) /\ Len(Append(t, b)) = Len(t) + 1 /\ Len(t) \in Nat
        /\ Append(t, b)[Len(t) + 1] = b /\ \A i \in 1 .. Len(t) : Append(t, b)[i] = t[i]
    OBVIOUS
  <2>2. ASSUME ~Contains(Append(t, b), sep) PROVE Split(Append(t, b), sep) = <<Append(t, b)>>
    <3>1. b # sep /\ ~Contains(t, sep)
      BY <2>1, <2>2 DEF Contains
    <3>2. Split(t, sep) = <<t>>
      BY <1>2, <3>1
    <3>3. Grow(<<t>>, b, sep) = <<Append(t, b)>>
      BY <3>1 DEF Grow
    <3> QED
      BY <3>2, <3>3, SplitGrows
  <2> QED
    BY <2>1, <2>2
<1>3. Seq(S) \subseteq T
  <2> HIDE DEF T
  <2> QED
    BY <1>1, <1>2, SeqInduction
<1> QED
  BY <1>3

(* Only the last piece grows. *)
LEMMA GrowLater ==
  ASSUME NEW S, NEW p \in Seq(Seq(S)), NEW q \in Seq(Seq(S)) \ {<<>>}, NEW b \in S, NEW sep
  PROVE  Grow(p \o q, b, sep) = p \o Grow(q, b, sep)
<1>1. CASE b = sep
  <2>1. <<>> \in Seq(S) /\ q \in Seq(Seq(S))
    OBVIOUS
  <2>2. Grow(q, b, sep) = Append(q, <<>>) /\ Grow(p \o q, b, sep) = Append(p \o q, <<>>)
    BY <1>1 DEF Grow
  <2>3. p \o Append(q, <<>>) = Append(p \o q, <<>>)
    BY <2>1, AppendLater
  <2> QED
    BY <2>2, <2>3
<1>2. CASE b # sep
  <2> DEFINE m == Len(p)
             n == Len(q)
             x == Append(q[n], b)
             g == [q EXCEPT ![n] = x]
             h == [(p \o q) EXCEPT ![m + n] = x]
  <2>1. m \in Nat /\ n \in Nat \ {0} /\ q[n] \in Seq(S) /\ x \in Seq(S)
    OBVIOUS
  <2>2. p \o q \in Seq(Seq(S)) /\ Len(p \o q) = m + n /\ (p \o q)[m + n] = q[n]
    BY <2>1
  <2>3. Grow(q, b, sep) = g /\ Grow(p \o q, b, sep) = h
    BY <1>2, <2>2 DEF Grow
  <2>4. g \in Seq(Seq(S)) /\ Len(g) = n /\ h \in Seq(Seq(S)) /\ Len(h) = m + n
    BY <2>1, <2>2
  <2>a. \A i \in 1 .. m + n : h[i] = IF i = m + n THEN x ELSE (p \o q)[i]
    <3>1. DOMAIN (p \o q) = 1 .. m + n
      BY <2>2
    <3> QED
      BY <3>1
  <2>5. p \o g \in Seq(Seq(S)) /\ Len(p \o g) = m + n
    BY <2>1, <2>4
  <2>6. ASSUME NEW i \in 1 .. m + n PROVE h[i] = (p \o g)[i]
    <3>1. CASE i <= m
      <4>1. h[i] = (p \o q)[i] /\ (p \o q)[i] = p[i]
        <5>1. i # m + n /\ i \in 1 .. m
          BY <2>1, <3>1
        <5> QED
          BY <2>1, <2>a, <5>1
      <4>2. (p \o g)[i] = p[i]
        BY <2>1, <2>4, <3>1
      <4> QED
        BY <4>1, <4>2
    <3>2. CASE i > m
      <4>1. i - m \in 1 .. n
        BY <2>1, <3>2
      <4>2. (p \o g)[i] = g[i - m] /\ (p \o q)[i] = q[i - m]
        BY <2>1, <2>4, <3>2, <4>1
      <4>3. g[i - m] = IF i - m = n THEN x ELSE q[i - m]
        BY <2>1, <4>1
      <4>4. h[i] = IF i = m + n THEN x ELSE (p \o q)[i]
        BY <2>a
      <4> QED
        BY <2>1, <4>2, <4>3, <4>4
    <3> QED
      BY <2>1, <3>1, <3>2
  <2> HIDE DEF g, h, m, n
  <2>7. h = p \o g
    BY <2>4, <2>5, <2>6, SeqEqual
  <2> QED
    BY <2>3, <2>7
<1> QED
  BY <1>1, <1>2

(* The pieces of two texts with a separator between them. *)
LEMMA SplitBoth ==
  ASSUME NEW S, NEW sep \in S, NEW t \in Seq(S)
  PROVE  \A u \in Seq(S) : Split(t \o (<<sep>> \o u), sep) = Split(t, sep) \o Split(u, sep)
<1> DEFINE T == {u \in Seq(S) : Split(t \o (<<sep>> \o u), sep) = Split(t, sep) \o Split(u, sep)}
<1>0. Split(t, sep) \in Seq(Seq(S)) /\ <<sep>> \in Seq(S)
  BY SplitTyped
<1>1. <<>> \in T
  <2>1. t \o (<<sep>> \o <<>>) = Append(t, sep) /\ <<>> \in Seq(S)
    <3>1. <<sep>> \o <<>> = <<sep>>
      BY <1>0, ConcatEmptySeq
    <3> QED
      BY <3>1, AppendIsConcat
  <2>2. Split(Append(t, sep), sep) = Append(Split(t, sep), <<>>)
    BY SplitGrows DEF Grow
  <2>3. Append(Split(t, sep), <<>>) = Split(t, sep) \o << <<>> >>
    <3>1. <<>> \in Seq(S)
      OBVIOUS
    <3> QED
      BY <1>0, <3>1, AppendIsConcat
  <2> QED
    BY <2>1, <2>2, <2>3, SplitNone
<1>2. ASSUME NEW u \in Seq(S), NEW b \in S, u \in T PROVE Append(u, b) \in T
  <2>1. /\ Append(u, b) \in Seq(S) /\ <<sep>> \o u \in Seq(S) /\ t \o (<<sep>> \o u) \in Seq(S)
    OBVIOUS
  <2>2. t \o (<<sep>> \o Append(u, b)) = Append(t \o (<<sep>> \o u), b)
    BY <1>0, <2>1, AppendLater
  <2>3. Split(Append(t \o (<<sep>> \o u), b), sep) = Grow(Split(t \o (<<sep>> \o u), sep), b, sep)
    BY <2>1, SplitGrows
  <2>4. Split(u, sep) \in Seq(Seq(S)) \ {<<>>}
    BY SplitTyped
  <2>5. Grow(Split(t, sep) \o Split(u, sep), b, sep) = Split(t, sep) \o Grow(Split(u, sep), b, sep)
    BY <1>0, <2>4, GrowLater
  <2>6. Split(Append(u, b), sep) = Grow(Split(u, sep), b, sep)
    BY SplitGrows
  <2> QED
    BY <1>2, <2>1, <2>2, <2>3, <2>5, <2>6
<1>3. Seq(S) \subseteq T
  <2> HIDE DEF T
  <2> QED
    BY <1>1, <1>2, SeqInduction
<1> QED
  BY <1>3

-----------------------------------------------------------------------------
(* join, text by text. *)
JoinParts(ts, sep) == [i \in DOMAIN ts |-> IF i = 1 THEN ts[i] ELSE <<sep>> \o ts[i]]

LEMMA JoinPartsTyped ==
  ASSUME NEW S, NEW sep \in S, NEW ts \in Seq(Seq(S))
  PROVE  JoinParts(ts, sep) \in Seq(Seq(S)) /\ Len(JoinParts(ts, sep)) = Len(ts)
<1>1. \A i \in 1 .. Len(ts) : ts[i] \in Seq(S) /\ <<sep>> \o ts[i] \in Seq(S)
  OBVIOUS
<1>2. DOMAIN ts = 1 .. Len(ts) /\ Len(ts) \in Nat
  OBVIOUS
<1> QED
  BY <1>1, <1>2 DEF JoinParts

LEMMA JoinNone == ASSUME NEW sep PROVE Join(<<>>, sep) = <<>>
<1>1. JoinParts(<<>>, sep) = <<>>
  BY DEF JoinParts
<1> QED
  BY <1>1, FlattenEmpty DEF Join, JoinParts

LEMMA JoinTyped ==
  ASSUME NEW S, NEW sep \in S, NEW ts \in Seq(Seq(S))
  PROVE  Join(ts, sep) \in Seq(S)
<1>1. FlattenSeq(JoinParts(ts, sep)) \in Seq(S)
  BY JoinPartsTyped, FlattenTyped
<1> QED
  BY <1>1 DEF Join, JoinParts

LEMMA JoinGrows ==
  ASSUME NEW S, NEW sep \in S, NEW ts \in Seq(Seq(S)), NEW t \in Seq(S)
  PROVE  Join(Append(ts, t), sep) = IF ts = <<>> THEN t ELSE Join(ts, sep) \o (<<sep>> \o t)
<1> DEFINE n == Len(ts)
           us == Append(ts, t)
           x == IF ts = <<>> THEN t ELSE <<sep>> \o t
<1>1. /\ us \in Seq(Seq(S)) /\ n \in Nat /\ Len(us) = n + 1 /\ us[n + 1] = t
      /\ DOMAIN us = 1 .. n + 1 /\ DOMAIN ts = 1 .. n
      /\ \A i \in 1 .. n : us[i] = ts[i] /\ (ts = <<>> <=> n = 0)
  OBVIOUS
<1>2. x \in Seq(S)
  OBVIOUS
<1>3. /\ JoinParts(us, sep) \in Seq(Seq(S)) /\ Len(JoinParts(us, sep)) = n + 1
      /\ JoinParts(ts, sep) \in Seq(Seq(S)) /\ Len(JoinParts(ts, sep)) = n
  <2> HIDE DEF us
  <2> QED
    BY <1>1, JoinPartsTyped
<1>4. /\ Append(JoinParts(ts, sep), x) \in Seq(Seq(S)) /\ Len(Append(JoinParts(ts, sep), x)) = n + 1
      /\ Append(JoinParts(ts, sep), x)[n + 1] = x
      /\ \A i \in 1 .. n : Append(JoinParts(ts, sep), x)[i] = JoinParts(ts, sep)[i]
  <2> HIDE DEF x, n
  <2> QED
    BY <1>2, <1>3
<1>5. /\ \A i \in 1 .. n + 1 : JoinParts(us, sep)[i] = IF i = 1 THEN us[i] ELSE <<sep>> \o us[i]
      /\ \A i \in 1 .. n : JoinParts(ts, sep)[i] = IF i = 1 THEN ts[i] ELSE <<sep>> \o ts[i]
  <2> HIDE DEF us, n
  <2> QED
    BY <1>1 DEF JoinParts
<1>6. ASSUME NEW i \in 1 .. n + 1
      PROVE  JoinParts(us, sep)[i] = Append(JoinParts(ts, sep), x)[i]
  <2>1. CASE i = n + 1
    <3>1. JoinParts(us, sep)[i] = x
      <4>1. n = 0 <=> ts = <<>>
        OBVIOUS
      <4>2. n + 1 = 1 <=> n = 0
        BY <1>1
      <4> HIDE DEF us, n
      <4> QED
        BY <1>1, <1>5, <2>1, <4>1, <4>2
    <3> QED
      BY <1>4, <2>1, <3>1
  <2>2. CASE i # n + 1
    <3>1. i \in 1 .. n
      BY <1>1, <2>2
    <3> HIDE DEF us, n, x
    <3>2. JoinParts(us, sep)[i] = IF i = 1 THEN us[i] ELSE <<sep>> \o us[i]
      BY <1>5
    <3>3. JoinParts(ts, sep)[i] = IF i = 1 THEN ts[i] ELSE <<sep>> \o ts[i]
      BY <1>5, <3>1
    <3>4. us[i] = ts[i] /\ Append(JoinParts(ts, sep), x)[i] = JoinParts(ts, sep)[i]
      BY <1>1, <1>4, <3>1
    <3> QED
      BY <3>2, <3>3, <3>4
  <2> QED
    BY <2>1, <2>2
<1> HIDE DEF us, x, n
<1>7. JoinParts(us, sep) = Append(JoinParts(ts, sep), x)
  BY <1>3, <1>4, <1>6, SeqEqual
<1>8. FlattenSeq(JoinParts(us, sep)) = FlattenSeq(JoinParts(ts, sep)) \o x
  BY <1>2, <1>3, <1>7, FlattenAppend
<1>9. Join(us, sep) = Join(ts, sep) \o x
  BY <1>8 DEF Join, JoinParts
<1>10. CASE ts = <<>>
  <2>1. Join(ts, sep) = <<>> /\ x = t
    BY <1>10, JoinNone DEF x
  <2> QED
    BY <1>9, <1>10, <2>1, ConcatEmptySeq DEF us
<1>11. CASE ts # <<>>
  BY <1>9, <1>11 DEF us, x
<1> QED
  BY <1>10, <1>11

(* Texts without the separator are the pieces of what join makes of them. *)
LEMMA SplitJoined ==
  ASSUME NEW S, NEW sep \in S
  PROVE  \A ts \in Seq(Seq(S)) :
           (\A i \in 1 .. Len(ts) : ~Contains(ts[i], sep)) /\ ts # <<>> =>
              Split(Join(ts, sep), sep) = ts
<1> DEFINE Free(ts) == \A i \in 1 .. Len(ts) : ~Contains(ts[i], sep)
           T == {ts \in Seq(Seq(S)) : Free(ts) /\ ts # <<>> => Split(Join(ts, sep), sep) = ts}
<1>1. <<>> \in T
  OBVIOUS
<1>2. ASSUME NEW ts \in Seq(Seq(S)), NEW t \in Seq(S), ts \in T PROVE Append(ts, t) \in T
  <2>1. /\ Append(ts, t) \in Seq(Seq(S)) /\ Len(Append(ts, t)) = Len(ts) + 1 /\ Len(ts) \in Nat
        /\ Append(ts, t)[Len(ts) + 1] = t /\ \A i \in 1 .. Len(ts) : Append(ts, t)[i] = ts[i]
    OBVIOUS
  <2>2. ASSUME Free(Append(ts, t)) PROVE Split(Join(Append(ts, t), sep), sep) = Append(ts, t)
    <3>1. Free(ts) /\ ~Contains(t, sep)
      <4>1. \A i \in 1 .. Len(ts) : i \in 1 .. Len(Append(ts, t)) /\ Len(ts) + 1 \in 1 .. Len(Append(ts, t))
        BY <2>1
      <4>2. Len(ts) + 1 \in 1 .. Len(Append(ts, t))
        BY <2>1
      <4> QED
        BY <2>1, <2>2, <4>1, <4>2
    <3>2. Split(t, sep) = <<t>>
      BY <3>1, SplitOne
    <3>3. CASE ts = <<>>
      <4>1. Join(Append(ts, t), sep) = t
        BY <3>3, JoinGrows
      <4>2. Append(<<>>, t) = <<t>>
        OBVIOUS
      <4> QED
        BY <3>2, <3>3, <4>1, <4>2
    <3>4. CASE ts # <<>>
      <4>1. Join(ts, sep) \in Seq(S)
        BY JoinTyped
      <4>2. Join(Append(ts, t), sep) = Join(ts, sep) \o (<<sep>> \o t)
        BY <3>4, JoinGrows
      <4>3. Split(Join(Append(ts, t), sep), sep) = Split(Join(ts, sep), sep) \o Split(t, sep)
        BY <4>1, <4>2, SplitBoth
      <4>4. Split(Join(ts, sep), sep) = ts
        BY <1>2, <3>1, <3>4
      <4> QED
        BY <3>2, <4>3, <4>4, AppendIsConcat
    <3> QED
      BY <3>3, <3>4
  <2> QED
    BY <2>1, <2>2
<1>3. Seq(Seq(S)) \subseteq T
  <2> HIDE DEF T
  <2> QED
    BY <1>1, <1>2, SeqInduction
<1> QED
  BY <1>3

(* Nothing but the texts and the separators is in it. *)
LEMMA ContainsBoth ==
  ASSUME NEW S, NEW s \in Seq(S), NEW t \in Seq(S), NEW x, ~Contains(s, x), ~Contains(t, x)
  PROVE  ~Contains(s \o t, x)
  BY DEF Contains

LEMMA JoinLacks ==
  ASSUME NEW S, NEW sep \in S, NEW x, x # sep
  PROVE  \A ts \in Seq(Seq(S)) :
           (\A i \in 1 .. Len(ts) : ~Contains(ts[i], x)) => ~Contains(Join(ts, sep), x)
<1> DEFINE Free(ts) == \A i \in 1 .. Len(ts) : ~Contains(ts[i], x)
           T == {ts \in Seq(Seq(S)) : Free(ts) => ~Contains(Join(ts, sep), x)}
<1>1. <<>> \in T
  <2>1. ~Contains(<<>>, x)
    BY DEF Contains
  <2> QED
    BY <2>1, JoinNone
<1>2. ASSUME NEW ts \in Seq(Seq(S)), NEW t \in Seq(S), ts \in T PROVE Append(ts, t) \in T
  <2>1. /\ Append(ts, t) \in Seq(Seq(S)) /\ Len(Append(ts, t)) = Len(ts) + 1 /\ Len(ts) \in Nat
        /\ Append(ts, t)[Len(ts) + 1] = t /\ \A i \in 1 .. Len(ts) : Append(ts, t)[i] = ts[i]
    OBVIOUS
  <2>2. ASSUME Free(Append(ts, t)) PROVE ~Contains(Join(Append(ts, t), sep), x)
    <3>1. Free(ts) /\ ~Contains(t, x)
      <4>1. \A i \in 1 .. Len(ts) : i \in 1 .. Len(Append(ts, t)) /\ Len(ts) + 1 \in 1 .. Len(Append(ts, t))
        BY <2>1
      <4>2. Len(ts) + 1 \in 1 .. Len(Append(ts, t))
        BY <2>1
      <4> QED
        BY <2>1, <2>2, <4>1, <4>2
    <3>2. ~Contains(Join(ts, sep), x) /\ Join(ts, sep) \in Seq(S)
      BY <1>2, <3>1, JoinTyped
    <3>3. ~Contains(<<sep>>, x) /\ <<sep>> \in Seq(S) /\ <<sep>> \o t \in Seq(S)
      BY DEF Contains
    <3>4. ~Contains(<<sep>> \o t, x)
      BY <3>1, <3>3, ContainsBoth
    <3>5. ~Contains(Join(ts, sep) \o (<<sep>> \o t), x)
      BY <3>2, <3>3, <3>4, ContainsBoth
    <3>6. Join(Append(ts, t), sep) = IF ts = <<>> THEN t ELSE Join(ts, sep) \o (<<sep>> \o t)
      BY JoinGrows, Zenon
    <3> QED
      BY <3>1, <3>5, <3>6, Zenon
  <2> QED
    BY <2>1, <2>2
<1>3. Seq(Seq(S)) \subseteq T
  <2> HIDE DEF T
  <2> QED
    BY <1>1, <1>2, SeqInduction
<1> QED
  BY <1>3

(* It ends like its last text. *)
LEMMA JoinEnds ==
  ASSUME NEW S, NEW sep \in S, NEW ts \in Seq(Seq(S)), NEW t \in Seq(S), t # <<>>
  PROVE  LET j == Join(Append(ts, t), sep) IN j \in Seq(S) /\ j # <<>> /\ Last(j) = Last(t)
<1>0. Join(Append(ts, t), sep) = IF ts = <<>> THEN t ELSE Join(ts, sep) \o (<<sep>> \o t)
  BY JoinGrows, Zenon
<1>1. CASE ts = <<>>
  <2>1. Join(Append(ts, t), sep) = t
    BY <1>0, <1>1, Zenon
  <2> QED
    BY <2>1
<1>2. CASE ts # <<>>
  <2> DEFINE r == Join(ts, sep)
             j == r \o (<<sep>> \o t)
  <2>a. Join(Append(ts, t), sep) = Join(ts, sep) \o (<<sep>> \o t)
    BY <1>0, <1>2, Zenon
  <2>1. Join(Append(ts, t), sep) = j /\ r \in Seq(S) /\ <<sep>> \o t \in Seq(S)
    BY <2>a, JoinTyped
  <2>2. Len(<<sep>> \o t) = Len(t) + 1 /\ (<<sep>> \o t)[Len(t) + 1] = t[Len(t)] /\ Len(t) \in Nat \ {0}
    OBVIOUS
  <2> HIDE DEF r
  <2>3. Len(j) = Len(r) + (Len(t) + 1) /\ Len(r) \in Nat
        /\ j[Len(r) + (Len(t) + 1)] = (<<sep>> \o t)[Len(t) + 1] /\ j \in Seq(S)
    BY <2>1, <2>2
  <2>4. j # <<>> /\ j[Len(j)] = t[Len(t)]
    BY <2>2, <2>3
  <2> QED
    BY <2>1, <2>3, <2>4 DEF Last
<1> QED
  BY <1>1, <1>2

-----------------------------------------------------------------------------
(* lines and filter_map.  F is a function to None or Some, that is None    *)
(* for an empty line; what comes of a piece depends on whether it is the   *)
(* last one only by the return it may end with.                            *)
LEMMA StripTyped == ASSUME NEW S, NEW t \in Seq(S) PROVE StripReturn(t) \in Seq(S)
<1>1. CASE t # <<>>
  <2>1. Front(t) \in Seq(S)
    BY <1>1 DEF Front
  <2> QED
    BY <2>1 DEF StripReturn
<1>2. CASE t = <<>>
  BY <1>2 DEF StripReturn
<1> QED
  BY <1>1, <1>2

Stripped(F, S) == [l \in Seq(S) |-> F[StripReturn(l)]]
Inner(F, S, ps) == Collect(Stripped(F, S), ps)
Outer(F, S, ps) == Inner(F, S, SubSeq(ps, 1, Len(ps) - 1)) \o F[ps[Len(ps)]]

LEMMA StrippedTyped ==
  ASSUME NEW S, NEW I, NEW F \in [Seq(S) -> Seq(I)]
  PROVE  Stripped(F, S) \in [Seq(S) -> Seq(I)]
  BY StripTyped DEF Stripped

(* The front of a sequence and its last element. *)
LEMMA FrontLast ==
  ASSUME NEW S, NEW s \in Seq(S), s # <<>>
  PROVE  /\ SubSeq(s, 1, Len(s) - 1) \in Seq(S) /\ s[Len(s)] \in S
         /\ s = Append(SubSeq(s, 1, Len(s) - 1), s[Len(s)])
         /\ Len(SubSeq(s, 1, Len(s) - 1)) = Len(s) - 1
<1>1. PICK t \in Seq(S), e \in S : s = Append(t, e)
  BY SequenceEmptyOrAppend
<1>2. Len(s) = Len(t) + 1 /\ s[Len(t) + 1] = e /\ Len(t) \in Nat
  BY <1>1
<1>3. SubSeq(s, 1, Len(s) - 1) = t
  <2>1. Len(s) - 1 = Len(t)
    BY <1>2
  <2>2. SubSeq(Append(t, e), 1, Len(t)) = t
    OBVIOUS
  <2> QED
    BY <1>1, <2>1, <2>2
<1> QED
  BY <1>1, <1>2, <1>3

LEMMA FrontOfMore ==
  ASSUME NEW S, NEW s \in Seq(S), NEW x \in S
  PROVE  /\ SubSeq(Append(s, x), 1, Len(Append(s, x)) - 1) = s
         /\ Append(s, x)[Len(Append(s, x))] = x /\ Append(s, x) # <<>>
<1>1. Len(Append(s, x)) = Len(s) + 1 /\ Len(s) \in Nat /\ Append(s, x)[Len(s) + 1] = x
  OBVIOUS
<1>2. SubSeq(Append(s, x), 1, Len(s)) = s /\ Append(s, x) # <<>>
  OBVIOUS
<1>3. Len(Append(s, x)) - 1 = Len(s)
  BY <1>1
<1> QED
  BY <1>1, <1>2, <1>3

LEMMA OuterMore ==
  ASSUME NEW S, NEW I, NEW F \in [Seq(S) -> Seq(I)], NEW ps \in Seq(Seq(S)), NEW p \in Seq(S)
  PROVE  Outer(F, S, Append(ps, p)) = Inner(F, S, ps) \o F[p]
  BY FrontOfMore DEF Outer

(* What lines yields. *)
LEMMA LinesCollected ==
  ASSUME NEW S, NEW I, NEW F \in [Seq(S) -> Seq(I)], F[<<>>] = <<>>, NEW text \in Seq(S)
  PROVE  Lines(text) \in Seq(Seq(S)) /\ Collect(F, Lines(text)) = Outer(F, S, Split(text, Newline))
<1> DEFINE parts == Split(text, Newline)
           n == Len(parts)
           trimmed == [i \in 1 .. n - 1 |-> StripReturn(parts[i])]
           front == SubSeq(parts, 1, n - 1)
<1>0. parts \in Seq(Seq(S)) /\ parts # <<>>
  BY SplitTyped
<1> HIDE DEF parts
<1>1. n \in Nat \ {0} /\ \A i \in 1 .. n : parts[i] \in Seq(S)
  BY <1>0
<1>2. front \in Seq(Seq(S)) /\ Len(front) = n - 1 /\ \A i \in 1 .. n - 1 : front[i] = parts[i]
  <2>1. front \in Seq(Seq(S)) /\ Len(front) = n - 1
    BY <1>0, FrontLast
  <2>2. parts = Append(front, parts[n]) /\ parts[n] \in Seq(S)
    BY <1>0, FrontLast
  <2>3. \A i \in 1 .. Len(front) : Append(front, parts[n])[i] = front[i]
    BY <2>1, <2>2
  <2> HIDE DEF front, n
  <2> QED
    BY <2>1, <2>2, <2>3
<1>3. trimmed \in Seq(Seq(S)) /\ Len(trimmed) = n - 1
  <2>1. \A i \in 1 .. n - 1 : StripReturn(parts[i]) \in Seq(S)
    BY <1>1, StripTyped
  <2>2. n - 1 \in Nat
    BY <1>1
  <2> QED
    BY <2>1, <2>2
<1>4. Image(F, trimmed) = Image(Stripped(F, S), front)
  <2>1. DOMAIN front = 1 .. n - 1 /\ DOMAIN trimmed = 1 .. n - 1
    BY <1>1, <1>2
  <2>2. \A i \in 1 .. n - 1 : Stripped(F, S)[front[i]] = F[trimmed[i]]
    BY <1>1, <1>2 DEF Stripped
  <2> HIDE DEF front, trimmed
  <2> QED
    BY <2>1, <2>2 DEF Image
<1>5. Collect(F, trimmed) = Inner(F, S, front)
  BY <1>4 DEF Collect, Inner
<1>6. Inner(F, S, front) \in Seq(I)
  BY <1>2, StrippedTyped, CollectTyped DEF Inner
<1>7. Outer(F, S, parts) = Inner(F, S, front) \o F[parts[n]]
  BY DEF Outer
<1>8. Lines(text) = IF parts[n] = <<>> THEN trimmed ELSE Append(trimmed, parts[n])
  BY DEF Lines, parts, Last
<1> HIDE DEF trimmed, front, n
<1> DEFINE found == Lines(text)
<1>8a. found = IF parts[n] = <<>> THEN trimmed ELSE Append(trimmed, parts[n])
  BY <1>8
<1> HIDE DEF found
<1>9. parts[n] = <<>> => found \in Seq(Seq(S)) /\ Collect(F, found) = Outer(F, S, parts)
  <2> SUFFICES ASSUME parts[n] = <<>> PROVE found \in Seq(Seq(S)) /\ Collect(F, found) = Outer(F, S, parts)
    OBVIOUS
  <2>1. found = trimmed /\ F[parts[n]] = <<>>
    BY <1>8a
  <2>2. Outer(F, S, parts) = Inner(F, S, front)
    BY <1>6, <1>7, <2>1, ConcatEmptySeq
  <2> QED
    BY <1>3, <1>5, <2>1, <2>2
<1>10. parts[n] # <<>> => found \in Seq(Seq(S)) /\ Collect(F, found) = Outer(F, S, parts)
  <2> SUFFICES ASSUME parts[n] # <<>> PROVE found \in Seq(Seq(S)) /\ Collect(F, found) = Outer(F, S, parts)
    OBVIOUS
  <2>1. found = Append(trimmed, parts[n]) /\ parts[n] \in Seq(S)
    BY <1>1, <1>8a DEF n
  <2>2. Collect(F, Append(trimmed, parts[n])) = Collect(F, trimmed) \o F[parts[n]]
    BY <1>3, <2>1, CollectMore
  <2>3. Append(trimmed, parts[n]) \in Seq(Seq(S))
    BY <1>3, <2>1
  <2> QED
    BY <1>5, <1>7, <2>1, <2>2, <2>3
<1>11. found \in Seq(Seq(S)) /\ Collect(F, found) = Outer(F, S, parts)
  BY <1>9, <1>10
<1> QED
  BY <1>11 DEF parts, found

-----------------------------------------------------------------------------
(* Numbers in bytes, the highest first. *)
LEMMA Halves ==
  ASSUME NEW n \in Int, NEW h \in Int, NEW l \in Int, n = 256 * h + l, 0 <= l, l < 256
  PROVE  n \div 256 = h /\ n % 256 = l
  BY SMT

LEMMA Digits ==
  ASSUME NEW n \in Int
  PROVE  \E h \in Int, c \in Byte, d \in Byte, e \in Byte :
           /\ n = 16777216 * h + 65536 * c + 256 * d + e
           /\ n \div 16777216 = h /\ (n \div 65536) % 256 = c /\ (n \div 256) % 256 = d /\ n % 256 = e
<1> DEFINE p == n \div 256
           q == p \div 256
           h == q \div 256
           c == q % 256
           d == p % 256
           e == n % 256
<1>1. p \in Int /\ e \in Byte /\ n = 256 * p + e
  BY DEF Byte
<1>2. q \in Int /\ d \in Byte /\ p = 256 * q + d
  BY <1>1 DEF Byte
<1>3. h \in Int /\ c \in Byte /\ q = 256 * h + c
  BY <1>2 DEF Byte
<1> HIDE DEF p, q, h, c, d, e
<1>4. n = 16777216 * h + 65536 * c + 256 * d + e
  BY <1>1, <1>2, <1>3 DEF Byte
<1>5. n \div 65536 = q
  <2>1. n = 65536 * q + (256 * d + e) /\ 0 <= 256 * d + e /\ 256 * d + e < 65536
    BY <1>1, <1>2 DEF Byte
  <2> QED
    BY <2>1, <1>1, <1>2 DEF Byte
<1>6. n \div 16777216 = h
  <2>1. n = 16777216 * h + (65536 * c + 256 * d + e) /\ 0 <= 65536 * c + 256 * d + e
        /\ 65536 * c + 256 * d + e < 16777216
    BY <1>1, <1>2, <1>3, <1>4 DEF Byte
  <2> QED
    BY <2>1, <1>1, <1>2, <1>3 DEF Byte
<1>7. (n \div 65536) % 256 = c /\ (n \div 256) % 256 = d /\ n % 256 = e
  BY <1>5 DEF p, c, d, e
<1> QED
  BY <1>1, <1>2, <1>3, <1>4, <1>6, <1>7

LEMMA Powers == 2^24 = 16777216 /\ 2^16 = 65536
  BY SMT

(* b has n in the four bytes at place i. *)
Holds4(b, i, n) == \A k \in 1 .. 4 : b[i + k - 1] = U32(n)[k]

LEMMA U32Typed == ASSUME NEW n \in Int PROVE U32(n) \in Seq(Byte) /\ Len(U32(n)) = 4
<1>1. PICK h \in Int, c \in Byte, d \in Byte, e \in Byte :
        n \div 16777216 = h /\ (n \div 65536) % 256 = c /\ (n \div 256) % 256 = d /\ n % 256 = e
  BY Digits
<1>2. h % 256 \in Byte
  BY DEF Byte
<1>3. U32(n) = <<h % 256, c, d, e>>
  BY <1>1, Powers DEF U32
<1> QED
  BY <1>2, <1>3

LEMMA U32Kept ==
  ASSUME NEW n \in U31, NEW b, NEW i \in Nat, Holds4(b, i, n)
  PROVE  U32At(b, i) = n
<1>1. n \in Int
  BY SMT DEF U31
<1>2. PICK h \in Int, c \in Byte, d \in Byte, e \in Byte :
        /\ n = 16777216 * h + 65536 * c + 256 * d + e
        /\ n \div 16777216 = h /\ (n \div 65536) % 256 = c /\ (n \div 256) % 256 = d /\ n % 256 = e
  BY <1>1, Digits
<1>3. 0 <= h /\ h < 128
  BY <1>2, SMT DEF Byte, U31
<1>4. h % 256 = h
  BY <1>3
<1>5. U32(n) = <<h, c, d, e>>
  BY <1>2, <1>4, Powers DEF U32
<1>6. b[i] = h /\ b[i + 1] = c /\ b[i + 2] = d /\ b[i + 3] = e
  <2>1. i + 1 - 1 = i /\ i + 2 - 1 = i + 1 /\ i + 3 - 1 = i + 2 /\ i + 4 - 1 = i + 3
    OBVIOUS
  <2>2. b[i + 1 - 1] = h /\ b[i + 2 - 1] = c /\ b[i + 3 - 1] = d /\ b[i + 4 - 1] = e
    BY <1>5 DEF Holds4
  <2> QED
    BY <2>1, <2>2
<1>7. (i + 2) + 1 = i + 3
  OBVIOUS
<1>8. U32At(b, i) = 16777216 * h + 65536 * c + (256 * d + e)
  BY <1>6, <1>7, Powers DEF U32At, U16At
<1>9. n = 16777216 * h + 65536 * c + 256 * d + e /\ 16777216 * h \in Int /\ 65536 * c \in Int
      /\ 256 * d \in Int /\ e \in Int
  BY <1>2, SMT DEF Byte
<1> QED
  BY <1>8, <1>9, SMT

LEMMA I32Kept ==
  ASSUME NEW n \in I32, NEW b, NEW i \in Nat, Holds4(b, i, n)
  PROVE  I32At(b, i) = n
<1>1. n \in Int
  BY SMT DEF I32
<1>2. PICK h \in Int, c \in Byte, d \in Byte, e \in Byte :
        /\ n = 16777216 * h + 65536 * c + 256 * d + e
        /\ n \div 16777216 = h /\ (n \div 65536) % 256 = c /\ (n \div 256) % 256 = d /\ n % 256 = e
  BY <1>1, Digits
<1> DEFINE g == h % 256
<1>3. -128 <= h /\ h < 128
  BY <1>2, SMT DEF Byte, I32
<1>4. g \in Int /\ h = IF g < 128 THEN g ELSE g - 256
  BY <1>3
<1> HIDE DEF g
<1>5. U32(n) = <<g, c, d, e>>
  <2>0. n \div 16777216 = h
    BY <1>2
  <2>1. g = (n \div 16777216) % 256
    BY <2>0 DEF g
  <2>2. U32(n) = <<(n \div 16777216) % 256, (n \div 65536) % 256, (n \div 256) % 256, n % 256>>
    BY Powers DEF U32
  <2> QED
    BY <1>2, <2>1, <2>2
<1>6. b[i] = g /\ b[i + 1] = c /\ b[i + 2] = d /\ b[i + 3] = e
  <2>1. i + 1 - 1 = i /\ i + 2 - 1 = i + 1 /\ i + 3 - 1 = i + 2 /\ i + 4 - 1 = i + 3
    OBVIOUS
  <2>2. b[i + 1 - 1] = g /\ b[i + 2 - 1] = c /\ b[i + 3 - 1] = d /\ b[i + 4 - 1] = e
    BY <1>5 DEF Holds4
  <2> QED
    BY <2>1, <2>2
<1>7. (i + 2) + 1 = i + 3
  OBVIOUS
<1>8. I32At(b, i) = 16777216 * h + 65536 * c + (256 * d + e)
  BY <1>4, <1>6, <1>7, Powers DEF I32At, U16At
<1>9. n = 16777216 * h + 65536 * c + 256 * d + e /\ 16777216 * h \in Int /\ 65536 * c \in Int
      /\ 256 * d \in Int /\ e \in Int
  BY <1>2, SMT DEF Byte
<1> QED
  BY <1>8, <1>9, SMT

LEMMA U16Typed ==
  ASSUME NEW n \in U16s
  PROVE  /\ U16(n) \in Seq(Byte) /\ Len(U16(n)) = 2
         /\ 256 * U16(n)[1] + U16(n)[2] = n
<1>1. n \div 256 \in Byte /\ n % 256 \in Byte /\ 256 * (n \div 256) + (n % 256) = n
  BY DEF Byte, U16s
<1> QED
  BY <1>1 DEF U16

-----------------------------------------------------------------------------
VarText(v) == v[1] \o <<Equals>> \o v[2]

LEMMA MapTyped ==
  ASSUME NEW S, NEW T, NEW F \in [S -> T], NEW s \in Seq(S)
  PROVE  /\ [i \in DOMAIN s |-> F[s[i]]] \in Seq(T)
         /\ Len([i \in DOMAIN s |-> F[s[i]]]) = Len(s)
  OBVIOUS

LEMMA DigitTyped ==
  ASSUME NEW n \in 0 .. 9
  PROVE  /\ Digit(n) \in Text /\ ParseDigit(Digit(n)) = n /\ Len(Digit(n)) = 1 /\ Digit(n)[1] \in 48 .. 57
<1>1. Zero + n \in 0 .. 127 /\ Zero + n \in 48 .. 57 /\ (Zero + n) - Zero = n /\ Zero + n \in Zero .. Zero + 9
  BY DEF Zero
<1>2. Digit(n) = <<Zero + n>>
  BY DEF Digit
<1>3. Len(Digit(n)) = 1 /\ Digit(n)[1] = Zero + n
  BY <1>2
<1> HIDE DEF Zero
<1> QED
  BY <1>1, <1>2, <1>3 DEF ParseDigit, Text

Fields(e) ==
  <<e.id, e.name, e.pty_path, Digit(e.shell_pid), Digit(e.created_at),
    Digit(IF e.attached THEN 1 ELSE 0), Digit(e.last_heartbeat)>>

LEMMA FieldsTyped ==
  ASSUME NEW e \in Entries
  PROVE  Fields(e) \in Seq(Text)
<1>1. e.id \in Text /\ e.name \in Text /\ e.pty_path \in Text /\ e.shell_pid \in 0 .. 9
      /\ e.created_at \in 0 .. 9 /\ e.attached \in BOOLEAN /\ e.last_heartbeat \in 0 .. 9
  BY DEF Entries
<1>2. (IF e.attached THEN 1 ELSE 0) \in 0 .. 9
  BY <1>1
<1>3. /\ Digit(e.shell_pid) \in Text /\ Digit(e.created_at) \in Text
      /\ Digit(IF e.attached THEN 1 ELSE 0) \in Text /\ Digit(e.last_heartbeat) \in Text
  BY <1>1, <1>2, DigitTyped
<1> QED
  BY <1>1, <1>3 DEF Fields

LEMMA EntryTextTyped ==
  ASSUME NEW e \in Entries
  PROVE  EntryText(e) \in Text
<1>1. Tab \in 0 .. 127
  BY DEF Tab
<1>2. Join(Fields(e), Tab) \in Seq(0 .. 127)
  BY <1>1, FieldsTyped, JoinTyped DEF Text
<1> QED
  BY <1>2 DEF EntryText, Fields, Text

LEMMA VarTextTyped ==
  ASSUME NEW v \in Text \X Text
  PROVE  VarText(v) \in Text
<1>1. v[1] \in Seq(0 .. 127) /\ v[2] \in Seq(0 .. 127) /\ <<Equals>> \in Seq(0 .. 127)
  BY DEF Text, Equals
<1> QED
  BY <1>1 DEF VarText, Text

LEMMA KindOf ==
  ASSUME NEW f, IsValue(f)
  PROVE  /\ f.type \in Byte /\ f.type # 0
         /\ f = [type |-> f.type, body |-> f.body]
         /\ f.type \in EmptyTypes => f.body = <<>>
         /\ f.type = Data => f.body \in Seq(Byte)
         /\ f.type \in StringTypes => f.body \in Text
         /\ f.type = Resize => f.body \in U16s \X U16s
         /\ f.type = Exit => f.body \in I32
         /\ f.type = Env => f.body \in Seq(Text \X Text)
         /\ f.type = SessionInfo => f.body \in Seq(Entries)
         /\ f.type \in EmptyTypes \cup StringTypes \cup {Data, Resize, Exit, Env, SessionInfo}
<1> USE DEF EmptyTypes, StringTypes, Data, Resize, Exit, Env, SessionInfo
<1>1. CASE f \in [type : EmptyTypes, body : {<<>>}]
  BY <1>1 DEF Byte
<1>2. CASE f \in [type : {Data}, body : Seq(Byte)]
  BY <1>2 DEF Byte
<1>3. CASE f \in [type : StringTypes, body : Text]
  BY <1>3 DEF Byte
<1>4. CASE f \in [type : {Resize}, body : U16s \X U16s]
  BY <1>4 DEF Byte
<1>5. CASE f \in [type : {Exit}, body : I32]
  BY <1>5 DEF Byte
<1>6. CASE f \in [type : {Env}, body : Seq(Text \X Text)]
  BY <1>6 DEF Byte
<1>7. CASE f \in [type : {SessionInfo}, body : Seq(Entries)]
  BY <1>7 DEF Byte
<1> QED
  BY <1>1, <1>2, <1>3, <1>4, <1>5, <1>6, <1>7 DEF IsValue

VarTexts(vs) == [i \in DOMAIN vs |-> VarText(vs[i])]
EntryTexts(es) == [i \in DOMAIN es |-> EntryText(es[i])]

LEMMA PayloadIs ==
  ASSUME NEW f
  PROVE  /\ f.type \in EmptyTypes => Payload(f) = <<>>
         /\ f.type = Data => Payload(f) = f.body
         /\ f.type \in StringTypes => Payload(f) = f.body
         /\ f.type = Resize => Payload(f) = U16(f.body[1]) \o U16(f.body[2])
         /\ f.type = Exit => Payload(f) = U32(f.body)
         /\ f.type = Env => Payload(f) = Join(VarTexts(f.body), Newline)
         /\ f.type = SessionInfo => Payload(f) = Join(EntryTexts(f.body), Newline)
<1> USE DEF EmptyTypes, StringTypes, Data, Resize, Exit, Env, SessionInfo
<1>1. f.type \in EmptyTypes => Payload(f) = <<>>
  BY DEF Payload, Map
<1>2. f.type = Data \/ f.type \in StringTypes => Payload(f) = f.body
  BY DEF Payload, Map
<1>3. f.type = Resize => Payload(f) = U16(f.body[1]) \o U16(f.body[2])
  BY DEF Payload, Map
<1>4. f.type = Exit => Payload(f) = U32(f.body)
  BY DEF Payload, Map
<1>5. f.type = Env => Payload(f) = Join(VarTexts(f.body), Newline)
  BY DEF Payload, Map, VarTexts, VarText
<1>6. f.type = SessionInfo => Payload(f) = Join(EntryTexts(f.body), Newline)
  BY DEF Payload, Map, EntryTexts
<1> QED
  BY <1>1, <1>2, <1>3, <1>4, <1>5, <1>6

LEMMA TextsTyped ==
  /\ \A vs \in Seq(Text \X Text) : VarTexts(vs) \in Seq(Text) /\ Len(VarTexts(vs)) = Len(vs)
  /\ \A es \in Seq(Entries) : EntryTexts(es) \in Seq(Text) /\ Len(EntryTexts(es)) = Len(es)
<1>1. ASSUME NEW vs \in Seq(Text \X Text)
      PROVE  VarTexts(vs) \in Seq(Text) /\ Len(VarTexts(vs)) = Len(vs)
  <2>1. ASSUME NEW i \in 1 .. Len(vs) PROVE VarText(vs[i]) \in Text
    <3>1. vs[i] \in Text \X Text
      OBVIOUS
    <3> QED
      BY <3>1, VarTextTyped, Zenon
  <2> QED
    BY <2>1 DEF VarTexts
<1>2. ASSUME NEW es \in Seq(Entries)
      PROVE  EntryTexts(es) \in Seq(Text) /\ Len(EntryTexts(es)) = Len(es)
  <2>1. \A i \in 1 .. Len(es) : EntryText(es[i]) \in Text
    BY EntryTextTyped
  <2> QED
    BY <2>1 DEF EntryTexts
<1> QED
  BY <1>1, <1>2

LEMMA PayloadTyped ==
  ASSUME NEW f, IsValue(f)
  PROVE  /\ Payload(f) \in Seq(Byte)
         /\ f.type \in StringTypes \cup {Env, SessionInfo} => Payload(f) \in Text
         /\ f.type \in {Resize, Exit} => Len(Payload(f)) = 4
<1>0. Newline \in 0 .. 127
  BY DEF Newline
<1>1. Text \subseteq Seq(Byte)
  <2>1. 0 .. 127 \subseteq Byte
    BY DEF Byte
  <2>2. \A t \in Seq(0 .. 127) : t \in Seq(Byte)
    BY <2>1, SeqMonotonic
  <2> QED
    BY <2>2 DEF Text
<1>2. f.type \in EmptyTypes => Payload(f) \in Seq(Byte)
  <2>1. f.type \in EmptyTypes => Payload(f) = <<>>
    BY PayloadIs
  <2> QED
    BY <2>1, EmptySeq
<1>3. f.type = Data => Payload(f) \in Seq(Byte)
  BY PayloadIs, KindOf
<1>4. f.type \in StringTypes => Payload(f) \in Text
  BY PayloadIs, KindOf
<1>5. ASSUME f.type = Resize PROVE Payload(f) \in Seq(Byte) /\ Len(Payload(f)) = 4
  <2>1. f.body[1] \in U16s /\ f.body[2] \in U16s
    BY <1>5, KindOf
  <2>2. U16(f.body[1]) \in Seq(Byte) /\ U16(f.body[2]) \in Seq(Byte)
        /\ Len(U16(f.body[1])) = 2 /\ Len(U16(f.body[2])) = 2
    BY <2>1, U16Typed
  <2> DEFINE u == U16(f.body[1])
             v == U16(f.body[2])
  <2>6. u \in Seq(Byte) /\ v \in Seq(Byte) /\ Len(u) = 2 /\ Len(v) = 2
    BY <2>2
  <2> HIDE DEF u, v
  <2>5. u \o v \in Seq(Byte) /\ Len(u \o v) = 4
    <3>1. u \o v \in Seq(Byte) /\ Len(u \o v) = Len(u) + Len(v)
      BY <2>6, ConcatProperties
    <3> QED
      BY <2>6, <3>1
  <2>3. Payload(f) = U16(f.body[1]) \o U16(f.body[2])
    BY <1>5, PayloadIs
  <2> QED
    BY <2>3, <2>5 DEF u, v
<1>6. ASSUME f.type = Exit PROVE Payload(f) \in Seq(Byte) /\ Len(Payload(f)) = 4
  <2>1. f.body \in Int
    BY <1>6, KindOf DEF I32
  <2>2. Payload(f) = U32(f.body)
    BY <1>6, PayloadIs
  <2> QED
    BY <2>1, <2>2, U32Typed
<1>7. ASSUME f.type = Env PROVE Payload(f) \in Text
  <2>1. VarTexts(f.body) \in Seq(Seq(0 .. 127))
    BY <1>7, KindOf, TextsTyped DEF Text
  <2>2. Join(VarTexts(f.body), Newline) \in Seq(0 .. 127)
    BY <1>0, <2>1, JoinTyped
  <2> QED
    BY <1>7, <2>2, PayloadIs DEF Text
<1>8. ASSUME f.type = SessionInfo PROVE Payload(f) \in Text
  <2>1. EntryTexts(f.body) \in Seq(Seq(0 .. 127))
    BY <1>8, KindOf, TextsTyped DEF Text
  <2>2. Join(EntryTexts(f.body), Newline) \in Seq(0 .. 127)
    BY <1>0, <2>1, JoinTyped
  <2> QED
    BY <1>8, <2>2, PayloadIs DEF Text
<1>9. f.type \in EmptyTypes \cup StringTypes \cup {Data, Resize, Exit, Env, SessionInfo}
  BY KindOf
<1> QED
  BY <1>1, <1>2, <1>3, <1>4, <1>5, <1>6, <1>7, <1>8, <1>9

(* What decode makes of a frame's type and payload is a frame. *)
LEMMA PayloadIsFrame ==
  ASSUME NEW f, IsValue(f)
  PROVE  IsFrame(f.type, Payload(f))
<1>1. f.type \in EmptyTypes \cup StringTypes \cup {Data, Resize, Exit, Env, SessionInfo}
  BY KindOf
<1>2. \A b \in Text : IsText(b)
  <2>1. ASSUME NEW b \in Text PROVE \A i \in DOMAIN b : b[i] < 128
    <3>1. \A i \in DOMAIN b : b[i] \in 0 .. 127
      BY ElementOfSeq, LenProperties DEF Text
    <3>2. \A x \in 0 .. 127 : x < 128
      OBVIOUS
    <3> QED
      BY <3>1, <3>2
  <2> QED
    BY <2>1 DEF IsText
<1> QED
  BY <1>1, <1>2, PayloadTyped DEF IsFrame

-----------------------------------------------------------------------------
(* The encoding of a frame: its type, the length of its payload, and that. *)
LEMMA Encoded ==
  ASSUME NEW f \in Frames
  PROVE  /\ Payload(f) \in Seq(Byte) /\ Len(Payload(f)) \in U31 /\ Len(Payload(f)) <= MaxFrameSize
         /\ Encode(f) \in Seq(Byte) /\ Len(Encode(f)) = HeaderLen + Len(Payload(f))
         /\ Encode(f)[1] = f.type
         /\ U32At(Encode(f), 2) = Len(Payload(f))
         /\ \A i \in 1 .. Len(Payload(f)) : Encode(f)[HeaderLen + i] = Payload(f)[i]
<1> DEFINE p == Payload(f)
           h == U32(Len(p))
           c == Encode(f)
<1>1. IsValue(f) /\ Len(p) <= MaxFrameSize
  BY FramesFit
<1>2. p \in Seq(Byte) /\ f.type \in Byte
  BY <1>1, PayloadTyped, KindOf
<1>3. Len(p) \in Nat
  BY <1>2
<1>4. Len(p) \in U31
  BY <1>1, <1>3, CodecConstants DEF U31
<1>5. h \in Seq(Byte) /\ Len(h) = 4
  BY <1>3, U32Typed
<1>6. c = (<<f.type>> \o h) \o p
  BY DEF Encode
<1> HIDE DEF h, p, c
<1> DEFINE t == f.type
           g == <<t>> \o h
<1>7. <<t>> \in Seq(Byte) /\ Len(<<t>>) = 1 /\ <<t>>[1] = t
  BY <1>2
<1> HIDE DEF t
<1>8. g \in Seq(Byte) /\ Len(g) = 5 /\ g[1] = t /\ \A k \in 1 .. 4 : g[1 + k] = h[k]
  <2>1. g \in Seq(Byte) /\ Len(g) = Len(<<t>>) + Len(h)
        /\ \A i \in 1 .. Len(<<t>>) + Len(h) : g[i] = IF i <= Len(<<t>>) THEN <<t>>[i] ELSE h[i - Len(<<t>>)]
    BY <1>5, <1>7, ConcatProperties
  <2>2. \A k \in 1 .. 4 : 1 + k \in 1 .. 5 /\ ~(1 + k <= 1) /\ (1 + k) - 1 = k
    OBVIOUS
  <2> HIDE DEF g
  <2> QED
    BY <1>5, <1>7, <2>1, <2>2
<1> HIDE DEF g
<1>9. c = g \o p
  BY <1>6 DEF g, t
<1>10. /\ c \in Seq(Byte) /\ Len(c) = 5 + Len(p) 
       /\ \A i \in 1 .. 5 : c[i] = g[i]
       /\ \A i \in 1 .. Len(p) : c[5 + i] = p[i]
  <2>1. /\ g \o p \in Seq(Byte) /\ Len(g \o p) = Len(g) + Len(p)
        /\ \A i \in 1 .. Len(g) + Len(p) : (g \o p)[i] = IF i <= Len(g) THEN g[i] ELSE p[i - Len(g)]
    BY <1>2, <1>8, ConcatProperties
  <2>2. \A i \in 1 .. 5 : i \in 1 .. 5 + Len(p) /\ i <= 5
    BY <1>3
  <2>3. \A i \in 1 .. Len(p) : 5 + i \in 1 .. 5 + Len(p) /\ ~(5 + i <= 5) /\ (5 + i) - 5 = i
    BY <1>3
  <2> QED
    BY <1>8, <1>9, <2>1, <2>2, <2>3
<1>11. Holds4(c, 2, Len(p))
  <2>1. \A k \in 1 .. 4 : 2 + k - 1 = 1 + k /\ 1 + k \in 1 .. 5
    OBVIOUS
  <2>2. \A k \in 1 .. 4 : c[2 + k - 1] = h[k]
    BY <1>8, <1>10, <2>1
  <2> QED
    BY <2>2 DEF Holds4, h
<1>12. U32At(c, 2) = Len(p)
  BY <1>4, <1>11, U32Kept
<1>13. c[1] = t
  BY <1>8, <1>10
<1> QED
  BY <1>1, <1>2, <1>4, <1>10, <1>12, <1>13 DEF HeaderLen, p, c, t

(* b begins as c does. *)
Agree(b, c) == \A i \in 1 .. Len(b) : i <= Len(c) => b[i] = c[i]

LEMMA LengthTyped ==
  ASSUME NEW b \in Seq(Byte), Len(b) >= HeaderLen
  PROVE  U32At(b, 2) \in Nat /\ b[1] \in Byte
<1>1. b[1] \in Byte /\ b[2] \in Byte /\ b[3] \in Byte /\ b[4] \in Byte /\ b[5] \in Byte
  BY DEF HeaderLen
<1> DEFINE v == 16777216 * b[2] + 65536 * b[3] + (256 * b[4] + b[5])
<1>2. U32At(b, 2) = v
  BY Powers DEF U32At, U16At
<1>3. \A x \in Byte : x \in Nat
  BY DEF Byte
<1>4. b[2] \in Nat /\ b[3] \in Nat /\ b[4] \in Nat /\ b[5] \in Nat
  BY <1>1, <1>3
<1>6. v \in Nat
  <2>1. PICK w \in Nat, x \in Nat, y \in Nat, z \in Nat : w = b[2] /\ x = b[3] /\ y = b[4] /\ z = b[5]
    BY <1>4
  <2>2. v = 16777216 * w + 65536 * x + (256 * y + z)
    BY <2>1
  <2>3. 16777216 * w + 65536 * x + (256 * y + z) \in Nat
    BY SMT
  <2> QED
    BY <2>2, <2>3
<1> HIDE DEF v
<1> QED
  BY <1>1, <1>2, <1>6

LEMMA LengthAgrees ==
  ASSUME NEW b \in Seq(Byte), NEW c \in Seq(Byte), Agree(b, c), Len(b) >= HeaderLen, Len(c) >= HeaderLen
  PROVE  U32At(b, 2) = U32At(c, 2) /\ b[1] = c[1]
<1>1. \A i \in 1 .. 5 : b[i] = c[i]
  BY DEF Agree, HeaderLen
<1>2. b[1] = c[1] /\ b[2] = c[2] /\ b[3] = c[3] /\ b[4] = c[4] /\ b[5] = c[5]
  BY <1>1
<1> QED
  BY <1>2 DEF U32At, U16At

LEMMA FindsBy ==
  ASSUME NEW b \in Seq(Byte)
  PROVE  /\ Len(b) < HeaderLen => Finds(b) = "none"
         /\ Len(b) >= HeaderLen /\ TooLong(b) => Finds(b) = "error"
         /\ Len(b) >= HeaderLen /\ ~TooLong(b) /\ ~Enough(b) => Finds(b) = "none"
         /\ ~(Len(b) < HeaderLen) /\ ~TooLong(b) /\ Enough(b) =>
              Finds(b) = IF IsFrame(b[1], PayloadIn(b)) THEN "frame" ELSE "error"
  BY DEF Finds, HeaderLen

(* The bytes of a buffer that begins with one, and what follows. *)
LEMMA Cut ==
  ASSUME NEW b \in Seq(Byte), NEW n \in Nat, n <= Len(b)
  PROVE  /\ SubSeq(b, 1, n) \in Seq(Byte) /\ Len(SubSeq(b, 1, n)) = n
         /\ SubSeq(b, n + 1, Len(b)) \in Seq(Byte)
         /\ b = SubSeq(b, 1, n) \o SubSeq(b, n + 1, Len(b))
<1>1. n + 1 \in Int /\ Len(b) \in Int /\ 1 \in 1 .. Len(b) + 1 /\ n \in 1 - 1 .. Len(b)
      /\ Len(b) \in n .. Len(b)
  OBVIOUS
<1>2. SubSeq(b, 1, n) \o SubSeq(b, n + 1, Len(b)) = SubSeq(b, 1, Len(b))
  BY <1>1, ConcatAdjacentSubSeq
<1>3. SubSeq(b, 1, Len(b)) = b
  BY SubSeqFull
<1>4. SubSeq(b, 1, n) \in Seq(Byte) /\ Len(SubSeq(b, 1, n)) = n
  <2>1. \A i \in 1 .. n : b[i] \in Byte
    OBVIOUS
  <2>2. Len(SubSeq(b, 1, n)) = IF 1 <= n THEN n - 1 + 1 ELSE 0
    BY <2>1, SubSeqProperties
  <2>3. SubSeq(b, 1, n) \in Seq(Byte)
    BY <2>1, SubSeqProperties
  <2> QED
    BY <2>2, <2>3
<1>5. SubSeq(b, n + 1, Len(b)) \in Seq(Byte)
  <2>1. \A i \in n + 1 .. Len(b) : b[i] \in Byte
    OBVIOUS
  <2> QED
    BY <1>1, <2>1, SubSeqProperties
<1> QED
  BY <1>2, <1>3, <1>4, <1>5

(* A stretch of a sequence. *)
LEMMA Middle ==
  ASSUME NEW S, NEW b \in Seq(S), NEW k \in Nat, NEW n \in Nat, k + n <= Len(b)
  PROVE  /\ SubSeq(b, k + 1, k + n) \in Seq(S) /\ Len(SubSeq(b, k + 1, k + n)) = n
         /\ \A i \in 1 .. n : SubSeq(b, k + 1, k + n)[i] = b[k + i]
<1>1. \A i \in k + 1 .. k + n : b[i] \in S
  OBVIOUS
<1>2. k + 1 \in Int /\ k + n \in Int
  OBVIOUS
<1> DEFINE t == SubSeq(b, k + 1, k + n)
<1>3. /\ t \in Seq(S)
      /\ Len(t) = IF k + 1 <= k + n THEN k + n - (k + 1) + 1 ELSE 0
      /\ \A i \in 1 .. k + n - (k + 1) + 1 : t[i] = b[k + 1 + i - 1]
  BY <1>1, <1>2, SubSeqProperties
<1> HIDE DEF t
<1>4. Len(t) = n /\ k + n - (k + 1) + 1 = n
  BY <1>3
<1>5. \A i \in 1 .. n : k + 1 + i - 1 = k + i
  OBVIOUS
<1>6. \A i \in 1 .. n : t[i] = b[k + i]
  BY <1>3, <1>4, <1>5
<1> QED
  BY <1>3, <1>4, <1>6 DEF t

LEMMA FrameFirst ==
  ASSUME NEW f \in Frames, NEW b \in Seq(Byte), Agree(b, Encode(f))
  PROVE  /\ Len(b) < Len(Encode(f)) => Finds(b) = "none"
         /\ Len(b) >= Len(Encode(f)) =>
              /\ Finds(b) = "frame" /\ b[1] = f.type /\ PayloadIn(b) = Payload(f)
              /\ Rest(b) \in Seq(Byte) /\ b = Encode(f) \o Rest(b)
<1> DEFINE c == Encode(f)
           p == Payload(f)
           n == Len(p)
<1>1. /\ p \in Seq(Byte) /\ n \in Nat /\ n <= MaxFrameSize
      /\ c \in Seq(Byte) /\ Len(c) = HeaderLen + n
      /\ c[1] = f.type /\ U32At(c, 2) = n /\ \A i \in 1 .. n : c[HeaderLen + i] = p[i]
  <2>1. n \in U31
    BY Encoded
  <2>2. n \in Nat
    BY <2>1 DEF U31
  <2> QED
    BY <2>2, Encoded, Zenon
<1>2. Agree(b, c)
  OBVIOUS
<1>3. Len(b) \in Nat /\ HeaderLen = 5 /\ MaxFrameSize \in Int
  BY CodecConstants DEF HeaderLen, U31
<1>4. IsFrame(f.type, p)
  BY FramesFit, PayloadIsFrame
<1> HIDE DEF c, p, n
<1>5. ASSUME Len(b) >= 5
      PROVE  U32At(b, 2) = n /\ b[1] = f.type /\ ~TooLong(b)
  <2>1. U32At(b, 2) = n /\ b[1] = f.type
    BY <1>1, <1>2, <1>3, <1>5, LengthAgrees
  <2> QED
    BY <2>1, <1>1, <1>3 DEF TooLong
<1>6. ASSUME Len(b) < Len(c) PROVE Finds(b) = "none"
  <2>1. CASE Len(b) < 5
    BY <1>3, <2>1, FindsBy
  <2>2. CASE Len(b) >= 5
    <3>1. U32At(b, 2) = n /\ ~TooLong(b)
      BY <1>5, <2>2
    <3>2. ~Enough(b)
      BY <1>1, <1>3, <1>6, <3>1 DEF Enough
    <3> QED
      BY <1>3, <2>2, <3>1, <3>2, FindsBy
  <2> QED
    BY <1>3, <2>1, <2>2
<1>7. ASSUME Len(b) >= Len(c)
      PROVE  /\ Finds(b) = "frame" /\ b[1] = f.type /\ PayloadIn(b) = p
             /\ Rest(b) \in Seq(Byte) /\ b = c \o Rest(b)
  <2>1. Len(b) >= 5 /\ Len(b) >= 5 + n /\ 5 + n \in Nat
    BY <1>1, <1>3, <1>7
  <2>2. U32At(b, 2) = n /\ b[1] = f.type /\ ~TooLong(b)
    BY <1>5, <2>1
  <2>3. Enough(b)
    BY <1>3, <2>1, <2>2 DEF Enough
  <2>4. \A i \in 1 .. 5 + n : b[i] = c[i]
    BY <1>1, <1>2, <1>3, <2>1 DEF Agree
  <2>5. PayloadIn(b) = p
    <3>1. PayloadIn(b) = SubSeq(b, 5 + 1, 5 + n)
      BY <1>3, <2>2 DEF PayloadIn
    <3>2. /\ SubSeq(b, 5 + 1, 5 + n) \in Seq(Byte) /\ Len(SubSeq(b, 5 + 1, 5 + n)) = n
          /\ \A i \in 1 .. n : SubSeq(b, 5 + 1, 5 + n)[i] = b[5 + i]
      BY <1>1, <2>1, Middle
    <3>3. \A i \in 1 .. n : 5 + i \in 1 .. 5 + n
      BY <1>1
    <3>4. \A i \in 1 .. n : SubSeq(b, 5 + 1, 5 + n)[i] = p[i]
      BY <1>1, <1>3, <2>4, <3>2, <3>3
    <3> QED
      BY <1>1, <3>1, <3>2, <3>4, SeqEqual DEF n
  <2>6. Finds(b) = "frame"
    BY <1>3, <1>4, <2>1, <2>2, <2>3, <2>5, FindsBy
  <2>7. Rest(b) = SubSeq(b, (5 + n) + 1, Len(b))
    BY <1>3, <2>2 DEF Rest
  <2>8. /\ SubSeq(b, 1, 5 + n) \in Seq(Byte) /\ Len(SubSeq(b, 1, 5 + n)) = 5 + n
        /\ Rest(b) \in Seq(Byte) /\ b = SubSeq(b, 1, 5 + n) \o Rest(b)
    BY <2>1, <2>7, Cut
  <2>9. SubSeq(b, 1, 5 + n) = c
    <3>1. \A i \in 1 .. 5 + n : SubSeq(b, 1, 5 + n)[i] = b[i]
      BY <2>1, <1>3
    <3> QED
      BY <1>1, <1>3, <2>4, <2>8, <3>1, SeqEqual
  <2> QED
    BY <2>2, <2>5, <2>6, <2>8, <2>9
<1> QED
  BY <1>6, <1>7 DEF c, p

LEMMA JunkFails == ASSUME NEW j \in Junk PROVE j \in Seq(Byte) /\ Finds(j) = "error"
<1>1. j \in Seq(Byte) /\ IsNoFrame(j)
  BY JunkIsJunk
<1>2. Len(j) \in Nat /\ HeaderLen = 5
  BY <1>1 DEF HeaderLen
<1> QED
  BY <1>1, <1>2, FindsBy DEF IsNoFrame, TooLong, Enough

LEMMA JunkFirst ==
  ASSUME NEW j \in Junk, NEW b \in Seq(Byte), Agree(b, j)
  PROVE  /\ Finds(b) # "frame" /\ j \in Seq(Byte) /\ Len(j) >= HeaderLen
         /\ Len(b) >= Len(j) => Finds(b) = "error"
<1>1. j \in Seq(Byte) /\ Finds(j) = "error"
  BY JunkFails
<1>2. Len(j) \in Nat /\ Len(b) \in Nat /\ HeaderLen = 5
  BY <1>1 DEF HeaderLen
<1>3. Len(j) >= 5
  BY <1>1, <1>2, FindsBy
<1>4. CASE Len(b) < 5
  BY <1>1, <1>2, <1>3, <1>4, FindsBy
<1>5. CASE Len(b) >= 5
  <2>1. U32At(b, 2) = U32At(j, 2) /\ b[1] = j[1] /\ U32At(j, 2) \in Nat
    BY <1>1, <1>2, <1>3, <1>5, LengthAgrees, LengthTyped
  <2> DEFINE n == U32At(j, 2)
  <2>2. n \in Nat /\ U32At(b, 2) = n
    BY <2>1
  <2>3. TooLong(b) = TooLong(j)
    BY <2>1 DEF TooLong
  <2>4. CASE TooLong(j)
    BY <1>1, <1>2, <1>3, <1>5, <2>3, <2>4, FindsBy
  <2>5. CASE ~TooLong(j)
    <3>1. Enough(j)
      BY <1>1, <1>2, <1>3, <2>5, FindsBy
    <3>2. Len(j) >= 5 + n
      BY <1>2, <3>1 DEF Enough
    <3>3. ~IsFrame(j[1], PayloadIn(j))
      BY <1>1, <1>2, <1>3, <2>5, <3>1, FindsBy
    <3> HIDE DEF n
    <3>4. CASE ~(Len(b) >= 5 + n)
      <4>1. ~Enough(b)
        BY <1>2, <2>2, <3>4 DEF Enough
      <4>2. ~(Len(b) >= Len(j))
        BY <1>2, <2>2, <3>2, <3>4
      <4> QED
        BY <1>1, <1>2, <1>3, <1>5, <2>3, <2>5, <4>1, <4>2, FindsBy
    <3>5. CASE Len(b) >= 5 + n
      <4>1. Enough(b)
        BY <1>2, <2>2, <3>5 DEF Enough
      <4> DEFINE x == SubSeq(b, 5 + 1, 5 + n)
                 y == SubSeq(j, 5 + 1, 5 + n)
      <4>2. PayloadIn(b) = x /\ PayloadIn(j) = y
        BY <1>2, <2>2 DEF PayloadIn, n
      <4>3. \A i \in 1 .. n : 5 + i \in 1 .. Len(b) /\ 5 + i <= Len(j)
        BY <1>2, <2>2, <3>2, <3>5
      <4>4. \A i \in 1 .. n : b[5 + i] = j[5 + i]
        BY <4>3 DEF Agree
      <4>5. 5 \in Nat /\ 5 + n <= Len(b) /\ 5 + n <= Len(j)
        BY <3>2, <3>5
      <4>6. x \in Seq(Byte) /\ Len(x) = n /\ \A i \in 1 .. n : x[i] = b[5 + i]
        BY <2>2, <4>5, Middle
      <4>7. y \in Seq(Byte) /\ Len(y) = n /\ \A i \in 1 .. n : y[i] = j[5 + i]
        BY <1>1, <2>2, <4>5, Middle
      <4> HIDE DEF x, y
      <4>10. \A i \in 1 .. n : x[i] = y[i]
        BY <4>4, <4>6, <4>7
      <4>11. x = y
        BY <4>6, <4>7, <4>10, SeqEqual
      <4>12. ~IsFrame(b[1], PayloadIn(b))
        BY <2>1, <3>3, <4>2, <4>11
      <4> QED
        BY <1>1, <1>2, <1>3, <1>5, <2>3, <2>5, <4>1, <4>12, FindsBy
    <3> QED
      BY <3>4, <3>5
  <2> QED
    BY <2>4, <2>5
<1> QED
  BY <1>2, <1>4, <1>5

-----------------------------------------------------------------------------
(* What puts an item into the stream, and what is handed out for a frame. *)
Carries(c, item) ==
  \/ item \in Frames /\ c = Encode(item)
  \/ item = Bad /\ c \in Junk
Decoded(f) == Parse(f.type, Payload(f))

(* The bytes of the items that are not out yet: cs of each, of which the   *)
(* last ones may be lost.                                                  *)
Chunks(cs, lost, items, n, stream) ==
  /\ cs \in Seq(Seq(Byte)) /\ lost \in Seq(Byte) /\ Len(cs) = Len(items) - n
  /\ \A k \in 1 .. Len(cs) : Carries(cs[k], items[n + k])
  /\ FlattenSeq(cs) = stream \o lost

LEMMA CarriesTyped ==
  ASSUME NEW c, NEW item, Carries(c, item)
  PROVE  c \in Seq(Byte) /\ Len(c) \in Nat /\ Len(c) >= 5
<1>1. CASE item \in Frames /\ c = Encode(item)
  <2>1. c \in Seq(Byte) /\ Len(c) = 5 + Len(Payload(item)) /\ Payload(item) \in Seq(Byte)
    BY <1>1, Encoded DEF HeaderLen
  <2> QED
    BY <2>1
<1>2. CASE item = Bad /\ c \in Junk
  <2>1. c \in Seq(Byte) /\ Finds(c) = "error"
    BY <1>2, JunkFails
  <2> QED
    BY <2>1, FindsBy DEF HeaderLen
<1> QED
  BY <1>1, <1>2 DEF Carries

LEMMA FlattenHead ==
  ASSUME NEW S, NEW cs \in Seq(Seq(S)), cs # <<>>
  PROVE  /\ cs[1] \in Seq(S) /\ Tail(cs) \in Seq(Seq(S)) /\ FlattenSeq(Tail(cs)) \in Seq(S)
         /\ FlattenSeq(cs) = cs[1] \o FlattenSeq(Tail(cs))
<1>1. cs[1] \in Seq(S) /\ Tail(cs) \in Seq(Seq(S)) /\ <<cs[1]>> \in Seq(Seq(S))
  OBVIOUS
<1>2. cs = <<cs[1]>> \o Tail(cs)
  <2> DEFINE u == <<cs[1]>>
             v == Tail(cs)
  <2>1. u \in Seq(Seq(S)) /\ v \in Seq(Seq(S)) /\ Len(u) = 1 /\ u[1] = cs[1] /\ Len(v) = Len(cs) - 1
        /\ \A i \in 1 .. Len(v) : v[i] = cs[i + 1]
    BY <1>1, HeadTailProperties
  <2> HIDE DEF u, v
  <2>2. u \in Seq(Seq(S)) /\ v \in Seq(Seq(S))
    BY <2>1
  <2>a. u \o v \in Seq(Seq(S)) /\ Len(u \o v) = Len(u) + Len(v)
        /\ \A i \in 1 .. Len(u) + Len(v) : (u \o v)[i] = IF i <= Len(u) THEN u[i] ELSE v[i - Len(u)]
    BY <2>2, ConcatProperties
  <2>b. Len(u) + Len(v) = Len(cs)
    <3>1. Len(cs) \in Nat /\ Len(u) = 1 /\ Len(v) = Len(cs) - 1
      BY <2>1
    <3> QED
      BY <3>1
  <2>c. u \o v \in Seq(Seq(S)) /\ Len(u \o v) = Len(cs)
        /\ \A i \in 1 .. Len(cs) : (u \o v)[i] = IF i <= 1 THEN u[i] ELSE v[i - 1]
    BY <2>1, <2>a, <2>b
  <2>3. \A i \in 1 .. Len(cs) : i = 1 \/ (i - 1 \in 1 .. Len(v) /\ (i - 1) + 1 = i /\ ~(i <= 1))
    BY <2>1
  <2>4. \A i \in 1 .. Len(cs) : (u \o v)[i] = cs[i]
    <3> DEFINE z == u \o v
    <3>1. \A i \in 1 .. Len(cs) : z[i] = IF i <= 1 THEN u[i] ELSE v[i - 1]
      BY <2>c
    <3> HIDE DEF z
    <3>2. u[1] = cs[1] /\ \A i \in 1 .. Len(v) : v[i] = cs[i + 1]
      BY <2>1
    <3>3. ASSUME NEW i \in 1 .. Len(cs) PROVE z[i] = cs[i]
      <4>1. CASE i = 1
        <5>1. z[1] = u[1]
          BY <3>1, <4>1
        <5> QED
          BY <3>2, <4>1, <5>1, Zenon
      <4>2. CASE i - 1 \in 1 .. Len(v) /\ (i - 1) + 1 = i /\ ~(i <= 1)
        <5>1. z[i] = v[i - 1]
          BY <3>1, <4>2, Zenon
        <5>2. v[i - 1] = cs[(i - 1) + 1]
          BY <3>2, <4>2, Zenon
        <5> QED
          BY <4>2, <5>1, <5>2, Zenon
      <4> QED
        BY <2>3, <4>1, <4>2
    <3> QED
      BY <3>3 DEF z
  <2>5. u \o v = cs
    BY <2>2, <2>c, <2>4, SeqEqual
  <2> QED
    BY <2>5 DEF u, v
<1>3. FlattenSeq(<<cs[1]>> \o Tail(cs)) = FlattenSeq(<<cs[1]>>) \o FlattenSeq(Tail(cs))
  BY <1>1, FlattenConcat
<1>4. FlattenSeq(<<cs[1]>>) = cs[1] /\ FlattenSeq(Tail(cs)) \in Seq(S)
  BY <1>1, FlattenOne, FlattenTyped, Zenon
<1> QED
  BY <1>1, <1>2, <1>3, <1>4, Zenon

LEMMA ConcatRight ==
  ASSUME NEW S, NEW r \in Seq(S), NEW s \in Seq(S), NEW t \in Seq(S)
  PROVE  r \o (s \o t) = (r \o s) \o t
<1>1. Associated(r, s, t)
  BY ConcatAssociated
<1> QED
  BY <1>1, Zenon DEF Associated

SameBytes(c, t, r, z) == c \o t = (c \o r) \o z

LEMMA CancelFirst ==
  ASSUME NEW S, NEW c \in Seq(S), NEW r \in Seq(S), NEW z \in Seq(S), NEW t \in Seq(S),
         SameBytes(c, t, r, z)
  PROVE  IsConcat(t, r, z)
<1>1. Associated(c, r, z)
  BY ConcatAssociated
<1>2. r \o z \in Seq(S)
  BY ConcatProperties, Zenon
<1>3. c \o t = c \o (r \o z)
  BY <1>1, Zenon DEF Associated, SameBytes
<1>4. t = r \o z
  BY <1>2, <1>3, ConcatSimplifications
<1> QED
  BY <1>4, Zenon DEF IsConcat

LEMMA PrefixAgrees ==
  ASSUME NEW b \in Seq(Byte), NEW x \in Seq(Byte), NEW c \in Seq(Byte), NEW y \in Seq(Byte),
         b \o x = c \o y
  PROVE  Agree(b, c)
<1>1. \A i \in 1 .. Len(b) : (b \o x)[i] = b[i]
  OBVIOUS
<1>2. \A i \in 1 .. Len(c) : (c \o y)[i] = c[i]
  OBVIOUS
<1>3. \A i \in 1 .. Len(b) : i <= Len(c) => i \in 1 .. Len(c)
  OBVIOUS
<1> QED
  BY <1>1, <1>2, <1>3 DEF Agree

FrameOut(cs, lost, items, n, b, w) ==
  Finds(b) = "frame" =>
    /\ items[n + 1] \in Frames /\ b[1] = items[n + 1].type
    /\ PayloadIn(b) = Payload(items[n + 1]) /\ Rest(b) \in Seq(Byte)
    /\ Chunks(Tail(cs), lost, items, n + 1, Rest(b) \o w)
ErrorFound(items, n, b) == Finds(b) = "error" => items[n + 1] = Bad
NoneFound(lost, b, w) == w = <<>> /\ lost = <<>> => Finds(b) # "none"

(* What a buffer finds in such a stream: nothing while its first item is   *)
(* not complete, unless it is junk; then the frame or an error.            *)
LEMMA FirstFound ==
  ASSUME NEW cs, NEW lost, NEW items, NEW n \in Nat, NEW b \in Seq(Byte), NEW w \in Seq(Byte),
         Chunks(cs, lost, items, n, b \o w)
  PROVE  /\ cs = <<>> => b = <<>> /\ w = <<>> /\ Finds(b) = "none"
         /\ cs # <<>> => FrameOut(cs, lost, items, n, b, w) /\ ErrorFound(items, n, b)
                        /\ NoneFound(lost, b, w)
<1>1. cs \in Seq(Seq(Byte)) /\ lost \in Seq(Byte) /\ Len(cs) = Len(items) - n
      /\ (\A k \in 1 .. Len(cs) : Carries(cs[k], items[n + k]))
      /\ FlattenSeq(cs) = (b \o w) \o lost
  BY DEF Chunks
<1>2. w \o lost \in Seq(Byte) /\ (b \o w) \o lost = b \o (w \o lost)
  <2>1. lost \in Seq(Byte)
    BY <1>1
  <2>2. Associated(b, w, lost)
    BY <2>1, ConcatAssociated
  <2>3. w \o lost \in Seq(Byte)
    BY <2>1, ConcatProperties, Zenon
  <2> QED
    BY <2>2, <2>3, Zenon DEF Associated
<1>3. ASSUME cs = <<>> PROVE b = <<>> /\ w = <<>> /\ Finds(b) = "none"
  <2>1. b \o (w \o lost) = <<>>
    BY <1>1, <1>2, <1>3, FlattenEmpty
  <2>2. b = <<>> /\ w \o lost = <<>>
    BY <1>2, <2>1, ConcatEqualIffEmpty
  <2>3. w = <<>>
    BY <1>1, <2>2, ConcatEqualIffEmpty
  <2>4. Len(b) < HeaderLen
    BY <2>2 DEF HeaderLen
  <2> QED
    BY <2>2, <2>3, <2>4, FindsBy
<1>4. ASSUME NEW r \in Seq(Byte) PROVE Associated(r, w, lost)
  <2>1. lost \in Seq(Byte)
    BY <1>1
  <2> QED
    BY <2>1, ConcatAssociated
<1>5. ASSUME cs # <<>>
      PROVE  FrameOut(cs, lost, items, n, b, w) /\ ErrorFound(items, n, b) /\ NoneFound(lost, b, w)
  <2> DEFINE c == cs[1]
             rest == FlattenSeq(Tail(cs))
             item == items[n + 1]
  <2>1. c \in Seq(Byte) /\ Tail(cs) \in Seq(Seq(Byte)) /\ rest \in Seq(Byte) /\ FlattenSeq(cs) = c \o rest
    BY <1>1, <1>5, FlattenHead
  <2>2. 1 \in 1 .. Len(cs)
    BY <1>1, <1>5
  <2>3. Carries(c, item) /\ Len(c) \in Nat /\ Len(c) >= 5
    BY <1>1, <2>2, CarriesTyped
  <2>4. Agree(b, c)
    BY <1>1, <1>2, <2>1, PrefixAgrees
  <2>5. w = <<>> /\ lost = <<>> => Len(b) >= Len(c)
    <3>1. w = <<>> /\ lost = <<>> => b = c \o rest
      BY <1>1, <2>1, ConcatEmptySeq
    <3>2. Len(c \o rest) >= Len(c)
      BY <2>1
    <3> QED
      BY <3>1, <3>2
  <2>6. Len(b) \in Nat
    OBVIOUS
  <2>7. Len(Tail(cs)) = Len(cs) - 1 /\ \A k \in 1 .. Len(Tail(cs)) : Tail(cs)[k] = cs[k + 1]
    BY <1>1, <1>5, HeadTailProperties
  <2> HIDE DEF c, rest, item
  <2>8. CASE item \in Frames /\ c = Encode(item)
    <3>1. /\ Len(b) < Len(c) => Finds(b) = "none"
          /\ Len(b) >= Len(c) =>
               /\ Finds(b) = "frame" /\ b[1] = item.type /\ PayloadIn(b) = Payload(item)
               /\ Rest(b) \in Seq(Byte) /\ b = c \o Rest(b)
      BY <2>4, <2>8, FrameFirst
    <3>2. Finds(b) = "frame" => Len(b) >= Len(c)
      BY <2>3, <2>6, <3>1
    <3>3. ASSUME Finds(b) = "frame"
          PROVE  Chunks(Tail(cs), lost, items, n + 1, Rest(b) \o w)
      <4>1. Rest(b) \in Seq(Byte) /\ b = c \o Rest(b)
        BY <3>1, <3>2, <3>3
      <4>2. c \o rest = (c \o Rest(b)) \o (w \o lost)
        BY <1>1, <1>2, <2>1, <4>1, Zenon
      <4>5. rest = Rest(b) \o (w \o lost)
        <5> DEFINE r == Rest(b)
                   z == w \o lost
        <5>1. r \in Seq(Byte) /\ z \in Seq(Byte) /\ c \in Seq(Byte) /\ rest \in Seq(Byte)
          BY <1>2, <2>1, <4>1
        <5>2. SameBytes(c, rest, r, z)
          BY <4>2, Zenon DEF SameBytes
        <5> HIDE DEF r, z
        <5>3. IsConcat(rest, r, z)
          BY <5>1, <5>2, CancelFirst
        <5> QED
          BY <5>3, Zenon DEF IsConcat, r, z
      <4>4. Rest(b) \o (w \o lost) = (Rest(b) \o w) \o lost
        <5>1. Associated(Rest(b), w, lost)
          BY <1>4, <4>1, Zenon
        <5> QED
          BY <5>1, Zenon DEF Associated
      <4>6. \A k \in 1 .. Len(Tail(cs)) : k + 1 \in 1 .. Len(cs) /\ n + (k + 1) = (n + 1) + k
        BY <1>1, <2>7
      <4>7. \A k \in 1 .. Len(Tail(cs)) : Carries(Tail(cs)[k], items[(n + 1) + k])
        BY <1>1, <2>7, <4>6
      <4>8. Len(Tail(cs)) = Len(items) - (n + 1)
        <5>1. Len(cs) \in Nat /\ Len(cs) = Len(items) - n
          BY <1>1
        <5> QED
          BY <2>7, <5>1
      <4>9. FlattenSeq(Tail(cs)) = (Rest(b) \o w) \o lost
        BY <4>4, <4>5 DEF rest
      <4>10. Tail(cs) \in Seq(Seq(Byte)) /\ lost \in Seq(Byte)
        BY <1>1, <2>1
      <4> QED
        BY <4>7, <4>8, <4>9, <4>10, Zenon DEF Chunks
    <3> QED
      BY <2>3, <2>5, <2>6, <2>8, <3>1, <3>2, <3>3 DEF item, FrameOut, ErrorFound, NoneFound
  <2>9. CASE item = Bad /\ c \in Junk
    <3>1. Finds(b) # "frame" /\ (Len(b) >= Len(c) => Finds(b) = "error")
      BY <2>4, <2>9, JunkFirst
    <3> QED
      BY <2>5, <2>9, <3>1 DEF item, FrameOut, ErrorFound, NoneFound
  <2> QED
    BY <2>3, <2>8, <2>9 DEF Carries
<1> QED
  BY <1>3, <1>5

(* The inductive invariant. *)
Outs == {Decoded(f) : f \in Frames}

StreamTyped ==
  /\ sent \in Seq(Frames \cup {Bad}) /\ got \in Seq(Outs)
  /\ buf \in Seq(Byte) /\ wire \in Seq(Byte)
  /\ ended \in {"no", "closed", "cut"} /\ status \in {"open", "eof", "error"}

StreamWhole ==
  \E cs, lost : Chunks(cs, lost, sent, Len(got), buf \o wire) /\ (lost # <<>> => ended = "cut")

OutsAreSent ==
  \A i \in 1 .. Len(got) : i \in 1 .. Len(sent) /\ sent[i] \in Frames /\ got[i] = Decoded(sent[i])

EndSeen ==
  /\ status = "error" => Len(got) < Len(sent) /\ (sent[Len(got) + 1] = Bad \/ ended = "cut")
  /\ status = "eof" => buf = <<>> /\ ended # "no" /\ (Len(got) = Len(sent) \/ ended = "cut")

StreamInv == StreamTyped /\ StreamWhole /\ OutsAreSent /\ EndSeen

LEMMA BadIsNoFrame == Bad \notin Frames
<1>1. Bad.type = 0
  BY DEF Bad
<1> QED
  BY <1>1, FramesFit, KindOf

LEMMA StreamInit == Init => StreamInv
<1> SUFFICES ASSUME Init PROVE StreamInv
  OBVIOUS
<1>1. sent = <<>> /\ got = <<>> /\ buf = <<>> /\ wire = <<>> /\ ended = "no" /\ status = "open"
  BY DEF Init
<1>2. StreamTyped
  BY <1>1 DEF StreamTyped
<1>3. Chunks(<<>>, <<>>, <<>>, 0, <<>> \o <<>>)
  <2>1. FlattenSeq(<<>>) = (<<>> \o <<>>) \o <<>>
    BY FlattenEmpty, ConcatEmptySeq, EmptySeq
  <2>2. <<>> \in Seq(Seq(Byte)) /\ <<>> \in Seq(Byte) /\ Len(<<>>) = 0 /\ 1 .. 0 = {} /\ 0 = 0 - 0
    OBVIOUS
  <2> QED
    BY <2>1, <2>2 DEF Chunks
<1>4. StreamWhole
  <2>1. Len(got) = 0
    BY <1>1
  <2> QED
    BY <1>1, <1>3, <2>1 DEF StreamWhole
<1>5. OutsAreSent /\ EndSeen
  BY <1>1 DEF OutsAreSent, EndSeen
<1> QED
  BY <1>2, <1>4, <1>5 DEF StreamInv

(* More is put into the stream. *)
LEMMA PutKeeps ==
  ASSUME StreamInv, NEW f \in Frames \cup {Bad}, NEW c, Carries(c, f), Put(f, c)
  PROVE  StreamInv'
<1>1. /\ ended = "no" /\ sent' = Append(sent, f) /\ wire' = wire \o c
      /\ ended' = ended /\ buf' = buf /\ got' = got /\ status' = status
  BY DEF Put
<1>2. StreamTyped /\ StreamWhole /\ OutsAreSent /\ EndSeen
  BY DEF StreamInv
<1>3. /\ sent \in Seq(Frames \cup {Bad}) /\ got \in Seq(Outs)
      /\ buf \in Seq(Byte) /\ wire \in Seq(Byte) /\ c \in Seq(Byte)
  BY <1>2, CarriesTyped DEF StreamTyped
<1>4. StreamTyped'
  BY <1>1, <1>2, <1>3 DEF StreamTyped
<1>5. Len(got) \in Nat /\ Len(sent) \in Nat /\ Len(sent') = Len(sent) + 1 /\ sent'[Len(sent) + 1] = f
      /\ \A i \in 1 .. Len(sent) : sent'[i] = sent[i]
  BY <1>1, <1>3
<1>6. StreamWhole'
  <2>1. PICK cs, lost : Chunks(cs, lost, sent, Len(got), buf \o wire) /\ (lost # <<>> => ended = "cut")
    BY <1>2 DEF StreamWhole
  <2>2. /\ cs \in Seq(Seq(Byte)) /\ Len(cs) = Len(sent) - Len(got)
        /\ \A k \in 1 .. Len(cs) : Carries(cs[k], sent[Len(got) + k])
        /\ FlattenSeq(cs) = (buf \o wire) \o lost
    BY <2>1 DEF Chunks
  <2>3. lost = <<>>
    BY <1>1, <2>1
  <2> DEFINE ds == Append(cs, c)
  <2>4. ds \in Seq(Seq(Byte)) /\ Len(ds) = Len(cs) + 1 /\ ds[Len(cs) + 1] = c
        /\ (\A k \in 1 .. Len(cs) : ds[k] = cs[k]) /\ Len(cs) \in Nat
    BY <1>3, <2>2
  <2>5. FlattenSeq(ds) = FlattenSeq(cs) \o c
    BY <1>3, <2>2, FlattenAppend
  <2> HIDE DEF ds
  <2>6. FlattenSeq(cs) = buf \o wire
    <3> DEFINE z == buf \o wire
    <3>1. z \in Seq(Byte) /\ FlattenSeq(cs) = z \o <<>>
      BY <1>3, <2>2, <2>3, ConcatProperties
    <3> HIDE DEF z
    <3>2. FlattenSeq(cs) = z
      BY <3>1, ConcatEmptySeq
    <3> QED
      BY <3>2 DEF z
  <2>7. FlattenSeq(ds) = (buf \o (wire \o c)) \o <<>>
    <3>1. (buf \o wire) \o c = buf \o (wire \o c)
      <4>1. Associated(buf, wire, c)
        BY <1>3, ConcatAssociated
      <4> QED
        BY <4>1, Zenon DEF Associated
    <3>2. buf \o (wire \o c) \in Seq(Byte)
      BY <1>3, ConcatProperties, Zenon
    <3>3. (buf \o (wire \o c)) \o <<>> = buf \o (wire \o c)
      BY <3>2, ConcatEmptySeq
    <3> QED
      BY <2>5, <2>6, <3>1, <3>3
  <2>8. Len(ds) = Len(sent') - Len(got)
    BY <1>5, <2>2, <2>4
  <2>9. ASSUME NEW k \in 1 .. Len(ds) PROVE Carries(ds[k], sent'[Len(got) + k])
    <3>1. CASE k \in 1 .. Len(cs)
      <4>1. Len(got) + k \in 1 .. Len(sent)
        BY <1>5, <2>2, <3>1
      <4> QED
        BY <1>5, <2>2, <2>4, <3>1, <4>1
    <3>2. CASE k = Len(cs) + 1
      <4>1. Len(got) + k = Len(sent) + 1
        BY <1>5, <2>2, <2>4, <3>2
      <4> QED
        BY <1>5, <2>4, <3>2, <4>1
    <3> QED
      BY <2>4, <3>1, <3>2
  <2>10. Chunks(ds, <<>>, sent', Len(got), buf \o (wire \o c))
    <3>1. <<>> \in Seq(Byte)
      OBVIOUS
    <3> QED
      BY <2>4, <2>7, <2>8, <2>9, <3>1 DEF Chunks
  <2>11. Chunks(ds, <<>>, sent', Len(got'), buf' \o wire')
    BY <1>1, <2>10
  <2> QED
    BY <2>11 DEF StreamWhole
<1>7. OutsAreSent'
  BY <1>1, <1>2, <1>5 DEF OutsAreSent
<1>8. EndSeen'
  <2>1. status # "eof"
    BY <1>1, <1>2 DEF EndSeen
  <2>2. ASSUME status = "error"
        PROVE  Len(got) < Len(sent') /\ (sent'[Len(got) + 1] = Bad \/ ended' = "cut")
    <3>1. Len(got) < Len(sent) /\ sent[Len(got) + 1] = Bad
      BY <1>1, <1>2, <2>2 DEF EndSeen
    <3>2. Len(got) + 1 \in 1 .. Len(sent)
      BY <1>5, <3>1
    <3> QED
      BY <1>5, <3>1, <3>2
  <2> QED
    BY <1>1, <2>1, <2>2 DEF EndSeen
<1> QED
  BY <1>4, <1>6, <1>7, <1>8 DEF StreamInv

-----------------------------------------------------------------------------
(* The stream is read: what moves from wire to buffer stays in place. *)
LEMMA ReceiveKeeps ==
  ASSUME StreamInv, Receive
  PROVE  StreamInv'
<1>1. PICK n \in 1 .. Len(wire) :
        buf' = buf \o SubSeq(wire, 1, n) /\ wire' = SubSeq(wire, n + 1, Len(wire))
  BY DEF Receive
<1>2. sent' = sent /\ ended' = ended /\ got' = got /\ status' = status /\ status = "open"
  BY DEF Receive
<1>3. StreamTyped /\ StreamWhole /\ OutsAreSent /\ EndSeen
  BY DEF StreamInv
<1>4. buf \in Seq(Byte) /\ wire \in Seq(Byte) /\ n \in Nat /\ n <= Len(wire)
  BY <1>3 DEF StreamTyped
<1>5. SubSeq(wire, 1, n) \in Seq(Byte) /\ wire' \in Seq(Byte) /\ wire = SubSeq(wire, 1, n) \o wire'
  BY <1>1, <1>4, Cut
<1>6. buf' \in Seq(Byte) /\ buf' \o wire' = buf \o wire
  <2> DEFINE x == SubSeq(wire, 1, n)
  <2>1. x \in Seq(Byte) /\ buf' = buf \o x /\ wire = x \o wire'
    BY <1>1, <1>5
  <2> HIDE DEF x
  <2>2. (buf \o x) \o wire' = buf \o (x \o wire')
    <3>1. Associated(buf, x, wire')
      BY <1>4, <1>5, <2>1, ConcatAssociated
    <3> QED
      BY <3>1, Zenon DEF Associated
  <2> QED
    BY <1>4, <2>1, <2>2, ConcatProperties
<1>7. StreamTyped'
  BY <1>2, <1>3, <1>5, <1>6 DEF StreamTyped
<1>8. StreamWhole'
  BY <1>2, <1>3, <1>6 DEF StreamWhole
<1>9. OutsAreSent' /\ EndSeen'
  BY <1>2, <1>3 DEF OutsAreSent, EndSeen
<1> QED
  BY <1>7, <1>8, <1>9 DEF StreamInv

LEMMA SomeLeft ==
  ASSUME NEW cs, NEW lost, NEW items, NEW n \in Nat, Len(items) \in Nat, NEW stream,
         Chunks(cs, lost, items, n, stream)
  PROVE  n <= Len(items) /\ (cs # <<>> => n < Len(items)) /\ (cs = <<>> => n = Len(items))
<1>1. cs \in Seq(Seq(Byte)) /\ Len(cs) = Len(items) - n
  BY DEF Chunks
<1>2. Len(cs) \in Nat /\ (cs = <<>> <=> Len(cs) = 0)
  BY <1>1
<1> QED
  BY <1>1, <1>2

(* A frame is handed out. *)
LEMMA YieldKeeps ==
  ASSUME StreamInv, Yield
  PROVE  StreamInv'
<1>1. /\ status = "open" /\ Finds(buf) = "frame"
      /\ got' = Append(got, Parse(buf[1], PayloadIn(buf))) /\ buf' = Rest(buf)
      /\ sent' = sent /\ wire' = wire /\ ended' = ended /\ status' = status
  BY DEF Yield
<1>2. StreamTyped /\ StreamWhole /\ OutsAreSent /\ EndSeen
  BY DEF StreamInv
<1>3. buf \in Seq(Byte) /\ wire \in Seq(Byte) /\ got \in Seq(Outs) /\ Len(got) \in Nat
      /\ sent \in Seq(Frames \cup {Bad}) /\ Len(sent) \in Nat
  BY <1>2 DEF StreamTyped
<1>4. PICK cs, lost : Chunks(cs, lost, sent, Len(got), buf \o wire) /\ (lost # <<>> => ended = "cut")
  BY <1>2 DEF StreamWhole
<1> DEFINE n == Len(got)
<1>5. cs # <<>>
  <2>1. cs = <<>> => Finds(buf) = "none"
    BY <1>3, <1>4, FirstFound
  <2> QED
    BY <1>1, <2>1
<1>6. /\ sent[n + 1] \in Frames /\ buf[1] = sent[n + 1].type
      /\ PayloadIn(buf) = Payload(sent[n + 1]) /\ Rest(buf) \in Seq(Byte)
      /\ Chunks(Tail(cs), lost, sent, n + 1, Rest(buf) \o wire)
  <2>1. n \in Nat /\ Chunks(cs, lost, sent, n, buf \o wire)
    BY <1>3, <1>4
  <2> HIDE DEF n
  <2>2. cs # <<>> => FrameOut(cs, lost, sent, n, buf, wire)
    BY <1>3, <2>1, FirstFound
  <2> QED
    BY <1>1, <1>5, <2>2, Zenon DEF FrameOut
<1>7. Parse(buf[1], PayloadIn(buf)) = Decoded(sent[n + 1]) /\ Decoded(sent[n + 1]) \in Outs
  BY <1>6 DEF Decoded, Outs
<1>8. /\ got' \in Seq(Outs) /\ Len(got') = n + 1 /\ got'[n + 1] = Decoded(sent[n + 1])
      /\ \A i \in 1 .. n : got'[i] = got[i]
  BY <1>1, <1>3, <1>7
<1>9. n + 1 <= Len(sent)
  BY <1>3, <1>4, <1>5, SomeLeft
<1>10. StreamTyped'
  BY <1>1, <1>2, <1>6, <1>8 DEF StreamTyped
<1>11. StreamWhole'
  <2>1. Chunks(Tail(cs), lost, sent', Len(got'), buf' \o wire') /\ (lost # <<>> => ended' = "cut")
    BY <1>1, <1>4, <1>6, <1>8
  <2> QED
    BY <2>1 DEF StreamWhole
<1>12. OutsAreSent'
  <2>1. ASSUME NEW i \in 1 .. n + 1
        PROVE  i \in 1 .. Len(sent) /\ sent[i] \in Frames /\ got'[i] = Decoded(sent[i])
    <3>1. CASE i \in 1 .. n
      BY <1>2, <1>8, <3>1 DEF OutsAreSent
    <3>2. CASE i = n + 1
      BY <1>3, <1>6, <1>8, <1>9, <3>2
    <3> QED
      BY <1>3, <3>1, <3>2
  <2> QED
    BY <1>1, <1>8, <2>1 DEF OutsAreSent
<1>13. EndSeen'
  BY <1>1 DEF EndSeen
<1> QED
  BY <1>10, <1>11, <1>12, <1>13 DEF StreamInv

(* An error is found. *)
LEMMA FailKeeps ==
  ASSUME StreamInv, Fail
  PROVE  StreamInv'
<1>1. /\ Finds(buf) = "error" /\ status' = "error"
      /\ sent' = sent /\ wire' = wire /\ ended' = ended /\ buf' = buf /\ got' = got
  BY DEF Fail
<1>2. StreamTyped /\ StreamWhole /\ OutsAreSent /\ EndSeen
  BY DEF StreamInv
<1>3. buf \in Seq(Byte) /\ wire \in Seq(Byte) /\ Len(got) \in Nat /\ Len(sent) \in Nat
  BY <1>2 DEF StreamTyped
<1>4. PICK cs, lost : Chunks(cs, lost, sent, Len(got), buf \o wire) /\ (lost # <<>> => ended = "cut")
  BY <1>2 DEF StreamWhole
<1>5. cs # <<>>
  <2>1. cs = <<>> => Finds(buf) = "none"
    BY <1>3, <1>4, FirstFound
  <2> QED
    BY <1>1, <2>1
<1>6. sent[Len(got) + 1] = Bad
  <2>1. cs # <<>> => ErrorFound(sent, Len(got), buf)
    BY <1>3, <1>4, FirstFound
  <2> QED
    BY <1>1, <1>5, <2>1, Zenon DEF ErrorFound
<1>7. Len(got) < Len(sent)
  BY <1>3, <1>4, <1>5, SomeLeft
<1>8. StreamTyped' /\ StreamWhole' /\ OutsAreSent'
  BY <1>1, <1>2 DEF StreamTyped, StreamWhole, OutsAreSent
<1>9. EndSeen'
  BY <1>1, <1>6, <1>7 DEF EndSeen
<1> QED
  BY <1>8, <1>9 DEF StreamInv

LEMMA NothingFound ==
  ASSUME NEW cs, NEW lost, NEW items, NEW n \in Nat, NEW b \in Seq(Byte), NEW w \in Seq(Byte),
         Chunks(cs, lost, items, n, b \o w), Finds(b) = "none", w = <<>>
  PROVE  cs # <<>> => lost # <<>>
<1>1. cs # <<>> => NoneFound(lost, b, w)
  BY FirstFound, Zenon
<1>2. NoneFound(lost, b, w) => lost # <<>>
  BY DEF NoneFound
<1> QED
  BY <1>1, <1>2

LEMMA EofKeeps ==
  ASSUME StreamInv, Eof
  PROVE  StreamInv'
<1>1. /\ Finds(buf) = "none" /\ wire = <<>> /\ ended # "no"
      /\ status' = IF buf = <<>> THEN "eof" ELSE "error"
      /\ sent' = sent /\ wire' = wire /\ ended' = ended /\ buf' = buf /\ got' = got
  BY DEF Eof
<1>2. StreamTyped /\ StreamWhole /\ OutsAreSent /\ EndSeen
  BY DEF StreamInv
<1>3. buf \in Seq(Byte) /\ wire \in Seq(Byte) /\ Len(got) \in Nat /\ Len(sent) \in Nat
  BY <1>2 DEF StreamTyped
<1>4. PICK cs, lost : Chunks(cs, lost, sent, Len(got), buf \o wire) /\ (lost # <<>> => ended = "cut")
  BY <1>2 DEF StreamWhole
<1>5. StreamTyped' /\ StreamWhole' /\ OutsAreSent'
  BY <1>1, <1>2 DEF StreamTyped, StreamWhole, OutsAreSent
<1>6. cs # <<>> => lost # <<>>
  BY <1>1, <1>3, <1>4, NothingFound
<1>7. cs = <<>> => buf = <<>> /\ Len(got) = Len(sent)
  <2>1. cs = <<>> => buf = <<>>
    BY <1>3, <1>4, FirstFound
  <2>2. cs = <<>> => Len(got) = Len(sent)
    BY <1>3, <1>4, SomeLeft
  <2> QED
    BY <2>1, <2>2
<1>8. cs # <<>> => Len(got) < Len(sent)
  BY <1>3, <1>4, SomeLeft
<1>9. EndSeen'
  BY <1>1, <1>4, <1>6, <1>7, <1>8 DEF EndSeen
<1> QED
  BY <1>5, <1>9 DEF StreamInv

(* The sender closes, or the rest of what it sent is lost. *)
LEMMA CloseKeeps ==
  ASSUME StreamInv, Close
  PROVE  StreamInv'
<1>1. ended = "no" /\ sent' = sent /\ buf' = buf /\ got' = got /\ status' = status
  BY DEF Close
<1>2. StreamTyped /\ StreamWhole /\ OutsAreSent /\ EndSeen
  BY DEF StreamInv
<1>3. buf \in Seq(Byte) /\ wire \in Seq(Byte) /\ <<>> \in Seq(Byte)
  BY <1>2 DEF StreamTyped
<1>4. PICK cs, lost : Chunks(cs, lost, sent, Len(got), buf \o wire) /\ (lost # <<>> => ended = "cut")
  BY <1>2 DEF StreamWhole
<1>5. OutsAreSent' /\ EndSeen'
  BY <1>1, <1>2 DEF OutsAreSent, EndSeen
<1>6. CASE ended' = "closed" /\ wire' = wire
  <2>1. StreamTyped'
    BY <1>1, <1>2, <1>6 DEF StreamTyped
  <2>2. Chunks(cs, lost, sent', Len(got'), buf' \o wire') /\ lost = <<>>
    BY <1>1, <1>4, <1>6
  <2>3. StreamWhole'
    BY <2>2 DEF StreamWhole
  <2> QED
    BY <1>5, <2>1, <2>3 DEF StreamInv
<1>7. CASE ended' = "cut" /\ wire' = <<>>
  <2>1. StreamTyped'
    BY <1>1, <1>2, <1>3, <1>7 DEF StreamTyped
  <2>2. Chunks(cs, wire \o lost, sent, Len(got), buf \o <<>>)
    <3>1. /\ cs \in Seq(Seq(Byte)) /\ lost \in Seq(Byte) /\ Len(cs) = Len(sent) - Len(got)
          /\ \A k \in 1 .. Len(cs) : Carries(cs[k], sent[Len(got) + k])
          /\ FlattenSeq(cs) = (buf \o wire) \o lost
      BY <1>4 DEF Chunks
    <3>2. wire \o lost \in Seq(Byte) /\ (buf \o wire) \o lost = buf \o (wire \o lost) /\ buf \o <<>> = buf
      <4>1. Associated(buf, wire, lost)
        BY <1>3, <3>1, ConcatAssociated
      <4>2. wire \o lost \in Seq(Byte)
        BY <1>3, <3>1, ConcatProperties
      <4>3. buf \o <<>> = buf
        BY <1>3, ConcatEmptySeq
      <4> QED
        BY <4>1, <4>2, <4>3, Zenon DEF Associated
    <3> QED
      BY <3>1, <3>2 DEF Chunks
  <2>3. Chunks(cs, wire \o lost, sent', Len(got'), buf' \o wire') /\ ended' = "cut"
    BY <1>1, <1>7, <2>2
  <2>4. StreamWhole'
    BY <2>3 DEF StreamWhole
  <2> QED
    BY <1>5, <2>1, <2>4 DEF StreamInv
<1> QED
  BY <1>6, <1>7 DEF Close

LEMMA StreamStep == StreamInv /\ [Next]_vars => StreamInv'
<1> SUFFICES ASSUME StreamInv, [Next]_vars PROVE StreamInv'
  OBVIOUS
<1>1. CASE Receive
  BY <1>1, ReceiveKeeps
<1>2. CASE Yield
  BY <1>2, YieldKeeps
<1>3. CASE Fail
  BY <1>3, FailKeeps
<1>4. CASE Eof
  BY <1>4, EofKeeps
<1>5. CASE Close
  BY <1>5, CloseKeeps
<1>6. ASSUME NEW f \in Frames, Send(f) PROVE StreamInv'
  <2>1. Carries(Encode(f), f) /\ Put(f, Encode(f))
    BY <1>6 DEF Carries, Send
  <2> QED
    BY <2>1, PutKeeps
<1>7. ASSUME NEW j \in Junk, SendJunk(j) PROVE StreamInv'
  <2>1. Carries(j, Bad) /\ Put(Bad, j)
    BY <1>7 DEF Carries, SendJunk
  <2> QED
    BY <2>1, PutKeeps
<1>8. CASE UNCHANGED vars
  BY <1>8 DEF vars, StreamInv, StreamTyped, StreamWhole, OutsAreSent, EndSeen
<1> QED
  BY <1>1, <1>2, <1>3, <1>4, <1>5, <1>6, <1>7, <1>8 DEF Next

(* The bytes between the two ends are, at every moment, the encodings of   *)
(* what was sent and has not come out, and what came out is what decode    *)
(* makes of the type and the payload of each frame (protocol.rs:113-147).  *)
THEOREM StreamHolds == Spec => []StreamInv
  BY StreamInit, StreamStep, PTL DEF Spec

(* The stream fails on bytes that are no frame and on a frame it breaks    *)
(* off in, never on a frame; a clean end loses nothing (protocol.rs:121).  *)
THEOREM EndIsTruthful == Spec => []EndsTruthfully
<1>1. StreamInv => EndsTruthfully
  <2> SUFFICES ASSUME StreamInv PROVE EndsTruthfully
    OBVIOUS
  <2>1. EndSeen /\ OutsAreSent /\ got \in Seq(Outs)
    BY DEF StreamInv, StreamTyped
  <2>2. \A i \in DOMAIN got : sent[i] # Bad
    BY <2>1, BadIsNoFrame DEF OutsAreSent
  <2> QED
    BY <2>1, <2>2 DEF EndSeen, EndsTruthfully
<1> QED
  BY <1>1, StreamHolds, PTL

(* decode leaves no complete frame in the buffer (protocol.rs:128-131).    *)
THEOREM AllHandedOut == Spec => []NothingHeldBack
<1>1. StreamInv => NothingHeldBack
  <2> SUFFICES ASSUME StreamInv, Finds(buf) = "none", wire = <<>>, ended # "cut"
               PROVE  Len(got) = Len(sent)
    BY DEF NothingHeldBack
  <2>1. StreamTyped /\ StreamWhole
    BY DEF StreamInv
  <2>2. buf \in Seq(Byte) /\ wire \in Seq(Byte) /\ Len(got) \in Nat /\ Len(sent) \in Nat
    BY <2>1 DEF StreamTyped
  <2>3. PICK cs, lost : Chunks(cs, lost, sent, Len(got), buf \o wire) /\ (lost # <<>> => ended = "cut")
    BY <2>1 DEF StreamWhole
  <2>4. cs # <<>> => lost # <<>>
    BY <2>2, <2>3, NothingFound
  <2> QED
    BY <2>2, <2>3, <2>4, SomeLeft
<1> QED
  BY <1>1, StreamHolds, PTL

-----------------------------------------------------------------------------
(* A list is taken line by line: what comes out of it is what comes of     *)
(* each item, one after the other.                                         *)
LEMMA InnerTyped ==
  ASSUME NEW S, NEW I, NEW F \in [Seq(S) -> Seq(I)], NEW p \in Seq(Seq(S))
  PROVE  Inner(F, S, p) \in Seq(I)
<1>1. Stripped(F, S) \in [Seq(S) -> Seq(I)]
  BY StrippedTyped, Zenon
<1>2. Collect(Stripped(F, S), p) \in Seq(I)
  BY <1>1, CollectTyped, Zenon
<1> QED
  BY <1>2 DEF Inner

LEMMA CollectTwo ==
  ASSUME NEW A, NEW I, NEW F \in [A -> Seq(I)], NEW s \in Seq(A), NEW t \in Seq(A)
  PROVE  IsConcat(Collect(F, s \o t), Collect(F, s), Collect(F, t))
  BY CollectBoth DEF IsConcat

InnerSplits(F, S, p, q) == Inner(F, S, p \o q) = Inner(F, S, p) \o Inner(F, S, q)

LEMMA InnerBoth ==
  ASSUME NEW S, NEW I, NEW F \in [Seq(S) -> Seq(I)], NEW p \in Seq(Seq(S)), NEW q \in Seq(Seq(S))
  PROVE  InnerSplits(F, S, p, q)
<1>1. Stripped(F, S) \in [Seq(S) -> Seq(I)]
  BY StrippedTyped, Zenon
<1> DEFINE G == Stripped(F, S)
           A == Seq(S)
<1>2. G \in [A -> Seq(I)] /\ p \in Seq(A) /\ q \in Seq(A)
  BY <1>1
<1> HIDE DEF G, A
<1>3. IsConcat(Collect(G, p \o q), Collect(G, p), Collect(G, q))
  BY <1>2, CollectTwo
<1> QED
  BY <1>3 DEF InnerSplits, Inner, G, IsConcat

LEMMA OuterBoth ==
  ASSUME NEW S, NEW I, NEW F \in [Seq(S) -> Seq(I)],
         NEW p \in Seq(Seq(S)), NEW q \in Seq(Seq(S)), q # <<>>
  PROVE  Outer(F, S, p \o q) = Inner(F, S, p) \o Outer(F, S, q)
<1>1. PICK r \in Seq(Seq(S)), x \in Seq(S) : q = Append(r, x)
  BY SequenceEmptyOrAppend
<1>2. p \o q = Append(p \o r, x) /\ p \o r \in Seq(Seq(S))
  <2>1. p \o Append(r, x) = Append(p \o r, x) /\ p \o r \in Seq(Seq(S))
    BY AppendLater, Zenon
  <2> QED
    BY <1>1, <2>1
<1>3. Outer(F, S, p \o q) = Inner(F, S, p \o r) \o F[x]
  <2>1. Outer(F, S, Append(p \o r, x)) = Inner(F, S, p \o r) \o F[x]
    BY <1>2, OuterMore, Zenon
  <2> QED
    BY <1>2, <2>1
<1>4. Outer(F, S, q) = Inner(F, S, r) \o F[x]
  <2>1. Outer(F, S, Append(r, x)) = Inner(F, S, r) \o F[x]
    BY OuterMore, Zenon
  <2> QED
    BY <1>1, <2>1
<1>5. Inner(F, S, p \o r) = Inner(F, S, p) \o Inner(F, S, r)
  <2>1. InnerSplits(F, S, p, r)
    BY InnerBoth, Zenon
  <2> QED
    BY <2>1, Zenon DEF InnerSplits
<1>6. Inner(F, S, p) \in Seq(I) /\ Inner(F, S, r) \in Seq(I) /\ F[x] \in Seq(I)
  <2>1. Inner(F, S, p) \in Seq(I)
    BY InnerTyped, Zenon
  <2>2. Inner(F, S, r) \in Seq(I)
    BY InnerTyped, Zenon
  <2>3. F[x] \in Seq(I)
    OBVIOUS
  <2> QED
    BY <2>1, <2>2, <2>3, Zenon
<1>7. (Inner(F, S, p) \o Inner(F, S, r)) \o F[x] = Inner(F, S, p) \o (Inner(F, S, r) \o F[x])
  <2> DEFINE a == Inner(F, S, p)
             b == Inner(F, S, r)
             c == F[x]
  <2>1. a \in Seq(I) /\ b \in Seq(I) /\ c \in Seq(I)
    BY <1>6
  <2> HIDE DEF a, b, c
  <2>2. Associated(a, b, c)
    BY <2>1, ConcatAssociated
  <2> QED
    BY <2>2 DEF a, b, c, Associated
<1> QED
  BY <1>3, <1>4, <1>5, <1>7

LEMMA InnerOuterTyped ==
  ASSUME NEW S, NEW I, NEW F \in [Seq(S) -> Seq(I)], NEW p \in Seq(Seq(S)), p # <<>>
  PROVE  Inner(F, S, p) \in Seq(I) /\ Outer(F, S, p) \in Seq(I)
<1>1. Inner(F, S, p) \in Seq(I)
  BY InnerTyped, Zenon
<1>2. PICK r \in Seq(Seq(S)), x \in Seq(S) : p = Append(r, x)
  BY SequenceEmptyOrAppend
<1>3. Outer(F, S, p) = Inner(F, S, r) \o F[x]
  BY <1>2, OuterMore, Zenon
<1>4. Inner(F, S, r) \in Seq(I) /\ F[x] \in Seq(I)
  BY InnerTyped
<1> QED
  BY <1>1, <1>3, <1>4, ConcatProperties

LEMMA OneAlone ==
  ASSUME NEW S, NEW I, NEW F \in [Seq(S) -> Seq(I)], NEW t \in Seq(S)
  PROVE  Outer(F, S, <<t>>) = F[t] /\ Inner(F, S, <<t>>) = F[StripReturn(t)]
<1>1. <<t>> = Append(<<>>, t) /\ <<>> \in Seq(Seq(S))
  OBVIOUS
<1>2. Inner(F, S, <<>>) = <<>>
  BY CollectNone DEF Inner
<1>3. F[t] \in Seq(I) /\ StripReturn(t) \in Seq(S) /\ F[StripReturn(t)] \in Seq(I)
  BY StripTyped
<1>4. Outer(F, S, <<t>>) = <<>> \o F[t]
  <2>1. Outer(F, S, Append(<<>>, t)) = Inner(F, S, <<>>) \o F[t]
    BY <1>1, OuterMore, Zenon
  <2> QED
    BY <1>1, <1>2, <2>1
<1>5. Inner(F, S, <<t>>) = <<>> \o Stripped(F, S)[t]
  <2>1. Collect(Stripped(F, S), Append(<<>>, t)) = Collect(Stripped(F, S), <<>>) \o Stripped(F, S)[t]
    <3>1. Stripped(F, S) \in [Seq(S) -> Seq(I)]
      BY StrippedTyped, Zenon
    <3> QED
      BY <1>1, <3>1, CollectMore, Zenon
  <2> QED
    BY <1>1, <1>2, <2>1 DEF Inner
<1>6. Stripped(F, S)[t] = F[StripReturn(t)]
  BY DEF Stripped
<1> QED
  BY <1>3, <1>4, <1>5, <1>6, ConcatEmptySeq

AsAlone(F, S, t) == Outer(F, S, <<t>>) = F[t] /\ Inner(F, S, <<t>>) = F[StripReturn(t)]

LEMMA EachAlone ==
  ASSUME NEW S, NEW I, NEW F \in [Seq(S) -> Seq(I)]
  PROVE  \A t \in Seq(S) : AsAlone(F, S, t)
<1> SUFFICES ASSUME NEW t \in Seq(S) PROVE AsAlone(F, S, t)
  OBVIOUS
<1> QED
  BY OneAlone DEF AsAlone

(* What may come of an item's text, depending on whether it is the last. *)
Results(F, S, t) == {Inner(F, S, Split(t, Newline)), Outer(F, S, Split(t, Newline))}
PartsOf(parts, F, S, I, ts) ==
  /\ parts \in Seq(Seq(I)) /\ Len(parts) = Len(ts)
  /\ \A k \in 1 .. Len(ts) : parts[k] \in Results(F, S, ts[k])

LEMMA PartsGrow ==
  ASSUME NEW S, NEW I, NEW F, NEW ts \in Seq(Seq(S)), NEW t \in Seq(S), NEW parts,
         PartsOf(parts, F, S, I, ts), NEW x \in Seq(I), x \in Results(F, S, t)
  PROVE  PartsOf(Append(parts, x), F, S, I, Append(ts, t))
<1>1. parts \in Seq(Seq(I)) /\ Len(parts) = Len(ts) /\ \A k \in 1 .. Len(ts) : parts[k] \in Results(F, S, ts[k])
  BY DEF PartsOf
<1> DEFINE ps == Append(parts, x)
           us == Append(ts, t)
           n == Len(ts)
<1>2. n \in Nat /\ Len(us) = n + 1 /\ us[n + 1] = t /\ \A k \in 1 .. n : us[k] = ts[k]
  OBVIOUS
<1>3. ps \in Seq(Seq(I)) /\ Len(ps) = n + 1 /\ ps[n + 1] = x /\ \A k \in 1 .. n : ps[k] = parts[k]
  BY <1>1
<1> HIDE DEF ps, us, n
<1>4. \A k \in 1 .. n + 1 : k \in 1 .. n \/ k = n + 1
  BY <1>2
<1>5. \A k \in 1 .. n : ps[k] \in Results(F, S, us[k])
  BY <1>1, <1>2, <1>3 DEF n
<1>6. ps[n + 1] \in Results(F, S, us[n + 1])
  BY <1>2, <1>3
<1>7. \A k \in 1 .. n + 1 : ps[k] \in Results(F, S, us[k])
  BY <1>4, <1>5, <1>6
<1>8. PartsOf(ps, F, S, I, us)
  BY <1>2, <1>3, <1>7 DEF PartsOf
<1> QED
  BY <1>8 DEF ps, us

LEMMA PartsFlat ==
  ASSUME NEW S, NEW I, NEW F, NEW ts, NEW parts, PartsOf(parts, F, S, I, ts), NEW x \in Seq(I)
  PROVE  IsConcat(FlattenSeq(Append(parts, x)), FlattenSeq(parts), x)
<1>1. parts \in Seq(Seq(I))
  BY DEF PartsOf
<1> QED
  BY <1>1, FlattenAppend DEF IsConcat

(* How the pieces of a list grow with it. *)
LEMMA PiecesOfMore ==
  ASSUME NEW S, Newline \in S, NEW ts \in Seq(Seq(S)), NEW t \in Seq(S), ts # <<>>
  PROVE  Split(Join(Append(ts, t), Newline), Newline) = Split(Join(ts, Newline), Newline) \o Split(t, Newline)
<1>1. Join(Append(ts, t), Newline) = Join(ts, Newline) \o (<<Newline>> \o t)
  BY JoinGrows
<1>2. Join(ts, Newline) \in Seq(S)
  BY JoinTyped
<1> QED
  BY <1>1, <1>2, SplitBoth

InnerParts(F, S, I, ts) ==
  \E parts : PartsOf(parts, F, S, I, ts) /\ Inner(F, S, Split(Join(ts, Newline), Newline)) = FlattenSeq(parts)

LEMMA InnerJoined ==
  ASSUME NEW S, Newline \in S, NEW I, NEW F \in [Seq(S) -> Seq(I)], F[<<>>] = <<>>
  PROVE  \A ts \in Seq(Seq(S)) : InnerParts(F, S, I, ts)
<1> DEFINE T == {ts \in Seq(Seq(S)) : InnerParts(F, S, I, ts)}
<1>0. PartsOf(<<>>, F, S, I, <<>>) /\ <<>> \in Seq(Seq(S)) /\ <<>> \in Seq(S)
  <2>1. <<>> \in Seq(Seq(I)) /\ 1 .. 0 = {} /\ Len(<<>>) = 0
    OBVIOUS
  <2> QED
    BY <2>1 DEF PartsOf
<1>1. <<>> \in T
  <2>1. Split(Join(<<>>, Newline), Newline) = << <<>> >>
    BY JoinNone, SplitNone
  <2>2. Inner(F, S, << <<>> >>) = F[StripReturn(<<>>)] /\ StripReturn(<<>>) = <<>>
    BY <1>0, OneAlone DEF StripReturn
  <2>3. Inner(F, S, Split(Join(<<>>, Newline), Newline)) = FlattenSeq(<<>>)
    BY <2>1, <2>2, FlattenEmpty
  <2> QED
    BY <1>0, <2>3 DEF InnerParts
<1>2. ASSUME NEW ts \in Seq(Seq(S)), NEW t \in Seq(S), ts \in T
      PROVE  Append(ts, t) \in T
  <2>1. PICK parts : /\ PartsOf(parts, F, S, I, ts)
                     /\ Inner(F, S, Split(Join(ts, Newline), Newline)) = FlattenSeq(parts)
    BY <1>2 DEF InnerParts
  <2> DEFINE x == Inner(F, S, Split(t, Newline))
             us == Append(ts, t)
  <2>2. x \in Seq(I) /\ x \in Results(F, S, t)
    BY SplitTyped, InnerOuterTyped DEF Results
  <2>3. PartsOf(Append(parts, x), F, S, I, us) /\ FlattenSeq(Append(parts, x)) = FlattenSeq(parts) \o x
    <3>1. x \in Seq(I) /\ x \in Results(F, S, t) /\ PartsOf(parts, F, S, I, ts)
      BY <2>1, <2>2
    <3> HIDE DEF x
    <3>2. PartsOf(Append(parts, x), F, S, I, Append(ts, t))
      BY <3>1, PartsGrow, ZenonT(60)
    <3>3. IsConcat(FlattenSeq(Append(parts, x)), FlattenSeq(parts), x)
      BY <3>1, PartsFlat, Zenon
    <3> QED
      BY <3>2, <3>3 DEF IsConcat
  <2>4. Inner(F, S, Split(Join(us, Newline), Newline)) = FlattenSeq(parts) \o x
    <3>1. CASE ts = <<>>
      <4>1. Join(us, Newline) = t
        BY <3>1, JoinGrows
      <4>2. parts = <<>>
        BY <2>1, <3>1 DEF PartsOf
      <4> QED
        BY <2>2, <4>1, <4>2, FlattenEmpty, ConcatEmptySeq
    <3>2. CASE ts # <<>>
      <4>1. Split(Join(us, Newline), Newline) = Split(Join(ts, Newline), Newline) \o Split(t, Newline)
        BY <3>2, PiecesOfMore
      <4>2. Split(Join(ts, Newline), Newline) \in Seq(Seq(S)) /\ Split(t, Newline) \in Seq(Seq(S))
        BY JoinTyped, SplitTyped
      <4> QED
        <5> DEFINE a == Split(Join(ts, Newline), Newline)
                   b == Split(t, Newline)
        <5>1. Inner(F, S, a \o b) = Inner(F, S, a) \o Inner(F, S, b)
          <6>1. InnerSplits(F, S, a, b)
            BY <4>2, InnerBoth, Zenon
          <6> QED
            BY <6>1, Zenon DEF InnerSplits
        <5> QED
          BY <2>1, <4>1, <5>1
    <3> QED
      BY <3>1, <3>2
  <2>5. us \in Seq(Seq(S))
    OBVIOUS
  <2> HIDE DEF x, us
  <2>6. InnerParts(F, S, I, us)
    BY <2>3, <2>4 DEF InnerParts
  <2> QED
    BY <2>5, <2>6 DEF us
<1>3. Seq(Seq(S)) \subseteq T
  <2> HIDE DEF T
  <2> QED
    BY <1>0, <1>1, <1>2, SeqInduction
<1> QED
  BY <1>3

LEMMA ListCollected ==
  ASSUME NEW S, Newline \in S, NEW I, NEW F \in [Seq(S) -> Seq(I)], F[<<>>] = <<>>, NEW ts \in Seq(Seq(S))
  PROVE  \E parts : PartsOf(parts, F, S, I, ts) /\ Collect(F, Lines(Join(ts, Newline))) = FlattenSeq(parts)
<1>0. Join(ts, Newline) \in Seq(S)
  BY JoinTyped
<1>1. Collect(F, Lines(Join(ts, Newline))) = Outer(F, S, Split(Join(ts, Newline), Newline))
  BY <1>0, LinesCollected
<1>2. CASE ts = <<>>
  <2>1. Split(Join(ts, Newline), Newline) = << <<>> >> /\ <<>> \in Seq(S)
    BY <1>2, JoinNone, SplitNone
  <2>2. Outer(F, S, << <<>> >>) = <<>>
    BY <2>1, OneAlone
  <2>3. PartsOf(<<>>, F, S, I, ts)
    <3>1. <<>> \in Seq(Seq(I)) /\ 1 .. 0 = {} /\ Len(<<>>) = 0
      OBVIOUS
    <3> QED
      BY <1>2, <3>1 DEF PartsOf
  <2> QED
    BY <1>1, <2>1, <2>2, <2>3, FlattenEmpty
<1>3. CASE ts # <<>>
  <2>1. PICK us \in Seq(Seq(S)), t \in Seq(S) : ts = Append(us, t)
    BY <1>3, SequenceEmptyOrAppend
  <2>2. PICK parts : /\ PartsOf(parts, F, S, I, us)
                     /\ Inner(F, S, Split(Join(us, Newline), Newline)) = FlattenSeq(parts)
    BY InnerJoined DEF InnerParts
  <2> DEFINE x == Outer(F, S, Split(t, Newline))
  <2>3. x \in Seq(I) /\ x \in Results(F, S, t)
    BY SplitTyped, InnerOuterTyped DEF Results
  <2>4. PartsOf(Append(parts, x), F, S, I, ts) /\ FlattenSeq(Append(parts, x)) = FlattenSeq(parts) \o x
    <3>1. /\ PartsOf(Append(parts, x), F, S, I, Append(us, t))
          /\ FlattenSeq(Append(parts, x)) = FlattenSeq(parts) \o x
      <4>1. x \in Seq(I) /\ x \in Results(F, S, t) /\ PartsOf(parts, F, S, I, us)
        BY <2>2, <2>3
      <4> HIDE DEF x
      <4>2. PartsOf(Append(parts, x), F, S, I, Append(us, t))
        BY <4>1, PartsGrow, ZenonT(60)
      <4>3. IsConcat(FlattenSeq(Append(parts, x)), FlattenSeq(parts), x)
        BY <4>1, PartsFlat, Zenon
      <4> QED
        BY <4>2, <4>3 DEF IsConcat
    <3> QED
      BY <2>1, <3>1
  <2>5. Outer(F, S, Split(Join(ts, Newline), Newline)) = FlattenSeq(parts) \o x
    <3>1. CASE us = <<>>
      <4>1. Join(ts, Newline) = t
        BY <2>1, <3>1, JoinGrows
      <4>2. parts = <<>>
        BY <2>2, <3>1 DEF PartsOf
      <4> QED
        BY <2>3, <4>1, <4>2, FlattenEmpty, ConcatEmptySeq
    <3>2. CASE us # <<>>
      <4>1. Split(Join(ts, Newline), Newline) = Split(Join(us, Newline), Newline) \o Split(t, Newline)
        BY <2>1, <3>2, PiecesOfMore
      <4>2. Split(Join(us, Newline), Newline) \in Seq(Seq(S))
            /\ Split(t, Newline) \in Seq(Seq(S)) /\ Split(t, Newline) # <<>>
        BY JoinTyped, SplitTyped
      <4> QED
        <5> DEFINE a == Split(Join(us, Newline), Newline)
                   b == Split(t, Newline)
        <5>1. Outer(F, S, a \o b) = Inner(F, S, a) \o Outer(F, S, b)
          BY <4>2, OuterBoth, Zenon
        <5> QED
          BY <2>2, <4>1, <5>1
    <3> QED
      BY <3>1, <3>2
  <2> QED
    BY <1>1, <2>4, <2>5
<1> QED
  BY <1>2, <1>3

-----------------------------------------------------------------------------
LEMMA PieceTyped ==
  ASSUME NEW S, NEW s \in Seq(S), NEW m \in Nat \ {0}, NEW n \in Int, n <= Len(s)
  PROVE  SubSeq(s, m, n) \in Seq(S)
<1>1. \A i \in m .. n : s[i] \in S
  OBVIOUS
<1> QED
  BY <1>1, SubSeqProperties

(* Variables: what VarOf makes of a line, and of a variable's own text.    *)
VarFn == [l \in Text |-> VarOf(l)]
Var == Text \X Text

LEMMA VarOfTyped == ASSUME NEW l \in Text PROVE VarOf(l) \in Seq(Var)
<1>1. CASE FirstEquals(l) = {}
  BY <1>1 DEF VarOf
<1>2. CASE FirstEquals(l) # {}
  <2> DEFINE i == CHOOSE i \in FirstEquals(l) : TRUE
  <2>1. i \in DOMAIN l
    BY <1>2 DEF FirstEquals
  <2> HIDE DEF i
  <2>2. l \in Seq(0 .. 127) /\ i \in 1 .. Len(l)
    BY <2>1 DEF Text
  <2>3. SubSeq(l, 1, i - 1) \in Text /\ SubSeq(l, i + 1, Len(l)) \in Text
    <3>1. i - 1 \in Int /\ i - 1 <= Len(l) /\ 1 \in Nat \ {0} /\ i + 1 \in Nat \ {0} /\ Len(l) \in Int
          /\ Len(l) <= Len(l)
      BY <2>2
    <3> QED
      BY <2>2, <3>1, PieceTyped, Zenon DEF Text
  <2>4. CutAt(l, i) \in Var
    BY <2>3 DEF CutAt, Var
  <2>5. VarOf(l) = <<CutAt(l, i)>>
    BY <1>2 DEF VarOf, i
  <2> QED
    BY <2>4, <2>5
<1> QED
  BY <1>1, <1>2

LEMMA VarFnTyped == VarFn \in [Text -> Seq(Var)] /\ VarFn[<<>>] = <<>>
<1>1. <<>> \in Text
  BY DEF Text
<1>2. FirstEquals(<<>>) = {}
  BY DEF FirstEquals
<1> QED
  BY <1>1, <1>2, VarOfTyped DEF VarFn, VarOf

(* Where the parts of a variable's text are. *)
LEMMA VarPlaces ==
  ASSUME NEW a \in Text, NEW b \in Text
  PROVE  LET l == a \o <<Equals>> \o b
             n == Len(a)
         IN  /\ l \in Text /\ Len(l) = n + 1 + Len(b) /\ n \in Nat /\ Len(b) \in Nat /\ l[n + 1] = Equals
             /\ \A i \in 1 .. n : l[i] = a[i]
             /\ \A i \in 1 .. Len(b) : l[n + 1 + i] = b[i]
<1> DEFINE S == 0 .. 127
           n == Len(a)
           e == <<Equals>>
           m == a \o e
           l == m \o b
<1>1. a \in Seq(S) /\ b \in Seq(S) /\ e \in Seq(S) /\ Len(e) = 1 /\ e[1] = Equals /\ n \in Nat /\ Len(b) \in Nat
  BY DEF Text, Equals
<1> HIDE DEF S, e
<1>2. m \in Seq(S) /\ Len(m) = n + 1 /\ m[n + 1] = Equals /\ \A i \in 1 .. n : m[i] = a[i]
  <2>1. m \in Seq(S) /\ Len(m) = Len(a) + Len(e)
        /\ \A i \in 1 .. Len(a) + Len(e) : m[i] = IF i <= Len(a) THEN a[i] ELSE e[i - Len(a)]
    BY <1>1, ConcatProperties
  <2>2. n + 1 \in 1 .. Len(a) + Len(e) /\ ~(n + 1 <= n) /\ (n + 1) - n = 1
        /\ \A i \in 1 .. n : i \in 1 .. Len(a) + Len(e) /\ i <= n
    BY <1>1
  <2> HIDE DEF m
  <2> QED
    BY <1>1, <2>1, <2>2
<1> HIDE DEF m
<1>3. l \in Seq(S) /\ Len(l) = Len(m) + Len(b)
      /\ \A i \in 1 .. Len(m) + Len(b) : l[i] = IF i <= Len(m) THEN m[i] ELSE b[i - Len(m)]
  BY <1>1, <1>2, ConcatProperties
<1>4. Len(l) = n + 1 + Len(b)
  BY <1>1, <1>2, <1>3
<1>5. \A i \in 1 .. n + 1 : i \in 1 .. Len(m) + Len(b) /\ i <= Len(m)
  BY <1>1, <1>2
<1>6. \A i \in 1 .. Len(b) : n + 1 + i \in 1 .. Len(m) + Len(b) /\ ~(n + 1 + i <= Len(m)) /\ (n + 1 + i) - Len(m) = i
  BY <1>1, <1>2
<1>7. \A i \in 1 .. n : i \in 1 .. n + 1
  BY <1>1
<1>8. n + 1 \in 1 .. n + 1
  BY <1>1
<1> HIDE DEF l, n
<1>9. \A i \in 1 .. n + 1 : l[i] = m[i]
  BY <1>3, <1>5
<1>10. ASSUME NEW i \in 1 .. Len(b) PROVE l[n + 1 + i] = b[i]
  <2>1. n + 1 + i \in 1 .. Len(m) + Len(b) /\ ~(n + 1 + i <= Len(m)) /\ (n + 1 + i) - Len(m) = i
    BY <1>6 DEF n
  <2> DEFINE k == n + 1 + i
  <2>2. k \in 1 .. Len(m) + Len(b) /\ ~(k <= Len(m)) /\ k - Len(m) = i
    BY <2>1
  <2> HIDE DEF k
  <2>3. l[k] = b[i]
    BY <1>3, <2>2
  <2> QED
    BY <2>3 DEF k
<1>11. l[n + 1] = Equals /\ \A i \in 1 .. n : l[i] = a[i]
  BY <1>2, <1>7, <1>8, <1>9 DEF n
<1>12. l \in Text
  BY <1>3 DEF Text, S
<1> QED
  BY <1>1, <1>4, <1>10, <1>11, <1>12 DEF l, n, m, e

LEMMA VarBack ==
  ASSUME NEW v \in Var, ~Contains(v[1], Equals)
  PROVE  VarOf(VarText(v)) = <<v>>
<1> DEFINE a == v[1]
           b == v[2]
           n == Len(a)
           l == a \o <<Equals>> \o b
<1>0. a \in Text /\ b \in Text /\ v = <<a, b>>
  BY DEF Var
<1> HIDE DEF a, b
<1>1. /\ l \in Text /\ Len(l) = n + 1 + Len(b) /\ n \in Nat /\ Len(b) \in Nat /\ l[n + 1] = Equals
      /\ \A i \in 1 .. n : l[i] = a[i]
      /\ \A i \in 1 .. Len(b) : l[n + 1 + i] = b[i]
  BY <1>0, VarPlaces
<1>2. \A i \in 1 .. n : a[i] # Equals
  BY DEF Contains, a
<1> HIDE DEF l, n
<1>3. DOMAIN l = 1 .. Len(l) /\ n + 1 \in 1 .. Len(l)
  BY <1>1 DEF Text
<1>4. FirstEquals(l) = {n + 1}
  <2>1. n + 1 \in FirstEquals(l)
    <3>1. \A j \in 1 .. n + 1 - 1 : l[j] # Equals
      BY <1>1, <1>2
    <3> QED
      BY <1>1, <1>3, <3>1 DEF FirstEquals
  <2>2. ASSUME NEW i \in FirstEquals(l) PROVE i = n + 1
    <3>1. i \in 1 .. Len(l) /\ l[i] = Equals /\ \A j \in 1 .. i - 1 : l[j] # Equals
      BY <1>3, <2>2 DEF FirstEquals
    <3>2. ~(i \in 1 .. n)
      BY <1>1, <1>2, <3>1
    <3>3. ~(n + 1 \in 1 .. i - 1)
      BY <1>1, <3>1
    <3> QED
      BY <1>1, <3>1, <3>2, <3>3
  <2> QED
    BY <2>1, <2>2
<1>5. VarOf(l) = <<CutAt(l, n + 1)>>
  BY <1>4 DEF VarOf
<1>6. SubSeq(l, 1, (n + 1) - 1) = a
  <2>1. SubSeq(l, 0 + 1, 0 + n) = a
    <3> DEFINE S == 0 .. 127
    <3>1. l \in Seq(S) /\ a \in Seq(S) /\ 0 \in Nat /\ n \in Nat /\ 0 + n <= Len(l)
      BY <1>0, <1>1 DEF Text
    <3> HIDE DEF S
    <3>2. SubSeq(l, 0 + 1, 0 + n) \in Seq(S) /\ Len(SubSeq(l, 0 + 1, 0 + n)) = n
          /\ \A i \in 1 .. n : SubSeq(l, 0 + 1, 0 + n)[i] = l[0 + i]
      BY <3>1, Middle
    <3>3. \A i \in 1 .. n : SubSeq(l, 0 + 1, 0 + n)[i] = a[i]
      BY <1>1, <3>2
    <3> QED
      BY <3>1, <3>2, <3>3, SeqEqual DEF n
  <2>2. 0 + 1 = 1 /\ 0 + n = (n + 1) - 1
    BY <1>1
  <2> QED
    BY <2>1, <2>2
<1>7. SubSeq(l, n + 1 + 1, Len(l)) = b
  <2> DEFINE k == n + 1
             m == Len(b)
             S == 0 .. 127
  <2>1. k \in Nat /\ m \in Nat /\ Len(l) = k + m /\ k + m <= Len(l)
    BY <1>1
  <2>2. l \in Seq(S) /\ b \in Seq(S)
    BY <1>0, <1>1 DEF Text
  <2>3a. \A i \in 1 .. m : l[k + i] = b[i]
    BY <1>1
  <2> HIDE DEF S, k
  <2>3. SubSeq(l, k + 1, k + m) \in Seq(S) /\ Len(SubSeq(l, k + 1, k + m)) = m
        /\ \A i \in 1 .. m : SubSeq(l, k + 1, k + m)[i] = l[k + i]
    BY <2>1, <2>2, Middle
  <2>4. \A i \in 1 .. m : SubSeq(l, k + 1, k + m)[i] = b[i]
    BY <2>3, <2>3a
  <2>5. SubSeq(l, k + 1, k + m) = b
    BY <2>2, <2>3, <2>4, SeqEqual
  <2> QED
    BY <2>1, <2>5 DEF k
<1>8. CutAt(l, n + 1) = <<a, b>>
  <2> DEFINE k == n + 1
  <2>1. SubSeq(l, 1, k - 1) = a /\ SubSeq(l, k + 1, Len(l)) = b
    BY <1>6, <1>7
  <2> HIDE DEF k
  <2>2. CutAt(l, k) = <<a, b>>
    BY <2>1 DEF CutAt
  <2> QED
    BY <2>2 DEF k
<1> QED
  BY <1>0, <1>5, <1>8 DEF VarText, l, a, b

-----------------------------------------------------------------------------
(* Sessions: what EntryOf makes of a line, and of a session's own text.    *)
EntryFn == [l \in Text |-> EntryOf(l)]

LEMMA ParsedTyped == ASSUME NEW t PROVE ParseDigit(t) \in 0 .. 9
<1>1. CASE Len(t) = 1 /\ t[1] \in Zero .. Zero + 9
  <2>1. t[1] \in 48 .. 57
    BY <1>1 DEF Zero
  <2>2. ParseDigit(t) = t[1] - 48
    BY <1>1 DEF ParseDigit, Zero
  <2> QED
    BY <2>1, <2>2
<1>2. CASE ~(Len(t) = 1 /\ t[1] \in Zero .. Zero + 9)
  BY <1>2 DEF ParseDigit
<1> QED
  BY <1>1, <1>2

(* The record of seven texts. *)
EntryIn(ps) ==
  [id |-> ps[1], name |-> ps[2], pty_path |-> ps[3],
   shell_pid |-> ParseDigit(ps[4]), created_at |-> ParseDigit(ps[5]),
   attached |-> ps[6] = Digit(1), last_heartbeat |-> ParseDigit(ps[7])]

LEMMA EntryOfBy ==
  ASSUME NEW l
  PROVE  EntryOf(l) = IF Len(Split(l, Tab)) # 7 THEN <<>> ELSE <<EntryIn(Split(l, Tab))>>
  BY DEF EntryOf, EntryIn

LEMMA EntryOfTyped == ASSUME NEW l \in Text PROVE EntryOf(l) \in Seq(Entries)
<1> DEFINE ps == Split(l, Tab)
<1>1. ps \in Seq(Text)
  <2>1. l \in Seq(0 .. 127)
    BY DEF Text
  <2> QED
    BY <2>1, SplitTyped DEF Text
<1>2. CASE Len(ps) # 7
  <2>1. EntryOf(l) = <<>>
    BY <1>2, EntryOfBy
  <2> QED
    BY <2>1, EmptySeq
<1>3. CASE Len(ps) = 7
  <2>1. EntryOf(l) = <<EntryIn(ps)>>
    BY <1>3, EntryOfBy
  <2> HIDE DEF ps
  <2>2. ps[1] \in Text /\ ps[2] \in Text /\ ps[3] \in Text
    <3>1. 1 \in 1 .. Len(ps) /\ 2 \in 1 .. Len(ps) /\ 3 \in 1 .. Len(ps)
      BY <1>3
    <3> QED
      BY <1>1, <3>1, ElementOfSeq
  <2>3. ParseDigit(ps[4]) \in 0 .. 9 /\ ParseDigit(ps[5]) \in 0 .. 9 /\ ParseDigit(ps[7]) \in 0 .. 9
    BY ParsedTyped
  <2>4. (ps[6] = Digit(1)) \in BOOLEAN
    OBVIOUS
  <2>5. EntryIn(ps) \in Entries
    BY <2>2, <2>3, <2>4 DEF EntryIn, Entries
  <2> QED
    BY <2>1, <2>5
<1> QED
  BY <1>2, <1>3

LEMMA EntryFnTyped == EntryFn \in [Text -> Seq(Entries)] /\ EntryFn[<<>>] = <<>>
<1>1. <<>> \in Text
  BY DEF Text
<1>2. Split(<<>>, Tab) = << <<>> >>
  BY SplitNone
<1>3. Len(<< <<>> >>) # 7
  OBVIOUS
<1>4. EntryOf(<<>>) = <<>>
  BY <1>2, <1>3, EntryOfBy
<1> QED
  BY <1>1, <1>4, EntryOfTyped DEF EntryFn

(* A digit holds no separator. *)
LEMMA DigitClean ==
  ASSUME NEW n \in 0 .. 9
  PROVE  ~Contains(Digit(n), Tab) /\ ~Contains(Digit(n), Newline) /\ Last(Digit(n)) # Return /\ Digit(n) # <<>>
<1>1. Len(Digit(n)) = 1 /\ Digit(n)[1] \in 48 .. 57 /\ Digit(n) \in Seq(0 .. 127)
  BY DigitTyped DEF Text
<1>2. Digit(n)[1] # 9 /\ Digit(n)[1] # 10 /\ Digit(n)[1] # 13
  BY <1>1
<1>3. \A i \in 1 .. 1 : i = 1
  OBVIOUS
<1>4. ~Contains(Digit(n), Tab) /\ ~Contains(Digit(n), Newline)
  BY <1>1, <1>2, <1>3 DEF Contains, Tab, Newline
<1>5. Last(Digit(n)) = Digit(n)[1]
  BY <1>1 DEF Last
<1>6. Digit(n) # <<>>
  BY <1>1, EmptySeq
<1> QED
  BY <1>1, <1>2, <1>4, <1>5, <1>6 DEF Return

LEMMA EntryParts ==
  ASSUME NEW e \in Entries
  PROVE  /\ e.id \in Text /\ e.name \in Text /\ e.pty_path \in Text /\ e.shell_pid \in 0 .. 9
         /\ e.created_at \in 0 .. 9 /\ e.attached \in BOOLEAN /\ e.last_heartbeat \in 0 .. 9
         /\ (IF e.attached THEN 1 ELSE 0) \in 0 .. 9
         /\ e = [id |-> e.id, name |-> e.name, pty_path |-> e.pty_path, shell_pid |-> e.shell_pid,
                 created_at |-> e.created_at, attached |-> e.attached, last_heartbeat |-> e.last_heartbeat]
<1>1. /\ e.id \in Text /\ e.name \in Text /\ e.pty_path \in Text /\ e.shell_pid \in 0 .. 9
      /\ e.created_at \in 0 .. 9 /\ e.attached \in BOOLEAN /\ e.last_heartbeat \in 0 .. 9
  BY DEF Entries
<1>2. (IF e.attached THEN 1 ELSE 0) \in 0 .. 9
  BY <1>1
<1>3. e = [id |-> e.id, name |-> e.name, pty_path |-> e.pty_path, shell_pid |-> e.shell_pid,
           created_at |-> e.created_at, attached |-> e.attached, last_heartbeat |-> e.last_heartbeat]
  BY DEF Entries
<1> QED
  BY <1>1, <1>2, <1>3

(* x is not a byte of the fields of a clean session. *)
LEMMA FieldsLack ==
  ASSUME NEW e \in Entries, CleanEntry(e), NEW x \in {Tab, Newline}
  PROVE  \A i \in 1 .. Len(Fields(e)) : ~Contains(Fields(e)[i], x)
<1>1. ~Contains(e.id, x) /\ ~Contains(e.name, x) /\ ~Contains(e.pty_path, x)
  BY DEF CleanEntry
<1>2. ~Contains(Digit(e.shell_pid), x) /\ ~Contains(Digit(e.created_at), x)
  BY EntryParts, DigitClean
<1>3. ~Contains(Digit(IF e.attached THEN 1 ELSE 0), x) /\ ~Contains(Digit(e.last_heartbeat), x)
  BY EntryParts, DigitClean
<1>4. \A i \in 1 .. 7 : i = 1 \/ i = 2 \/ i = 3 \/ i = 4 \/ i = 5 \/ i = 6 \/ i = 7
  OBVIOUS
<1>5. Len(Fields(e)) = 7
  BY DEF Fields
<1>6. /\ Fields(e)[1] = e.id /\ Fields(e)[2] = e.name /\ Fields(e)[3] = e.pty_path
      /\ Fields(e)[4] = Digit(e.shell_pid) /\ Fields(e)[5] = Digit(e.created_at)
      /\ Fields(e)[6] = Digit(IF e.attached THEN 1 ELSE 0) /\ Fields(e)[7] = Digit(e.last_heartbeat)
  BY DEF Fields
<1> HIDE DEF Fields
<1> QED
  BY <1>1, <1>2, <1>3, <1>4, <1>5, <1>6

LEMMA EntryBack ==
  ASSUME NEW e \in Entries, CleanEntry(e)
  PROVE  EntryOf(EntryText(e)) = <<e>>
<1>1. /\ Fields(e)[1] = e.id /\ Fields(e)[2] = e.name /\ Fields(e)[3] = e.pty_path
      /\ Fields(e)[4] = Digit(e.shell_pid) /\ Fields(e)[5] = Digit(e.created_at)
      /\ Fields(e)[6] = Digit(IF e.attached THEN 1 ELSE 0) /\ Fields(e)[7] = Digit(e.last_heartbeat)
      /\ Len(Fields(e)) = 7 /\ Fields(e) # <<>>
  BY DEF Fields
<1>2. Split(EntryText(e), Tab) = Fields(e)
  <2> DEFINE S == 0 .. 127
  <2>1. Tab \in S /\ Fields(e) \in Seq(Seq(S))
    BY FieldsTyped DEF Tab, Text
  <2>2. \A i \in 1 .. Len(Fields(e)) : ~Contains(Fields(e)[i], Tab)
    BY FieldsLack
  <2> HIDE DEF S
  <2>3. Split(Join(Fields(e), Tab), Tab) = Fields(e)
    BY <1>1, <2>1, <2>2, SplitJoined
  <2> QED
    BY <2>3 DEF EntryText, Fields
<1>3. EntryOf(EntryText(e)) = <<EntryIn(Fields(e))>>
  BY <1>1, <1>2, EntryOfBy
<1>4. ParseDigit(Digit(e.shell_pid)) = e.shell_pid /\ ParseDigit(Digit(e.created_at)) = e.created_at
      /\ ParseDigit(Digit(e.last_heartbeat)) = e.last_heartbeat
  BY EntryParts, DigitTyped
<1>5. (Digit(IF e.attached THEN 1 ELSE 0) = Digit(1)) = e.attached
  <2>1. Digit(0) # Digit(1)
    <3>1. Digit(0)[1] = 48 /\ Digit(1)[1] = 49
      BY DEF Digit, Zero
    <3> QED
      BY <3>1
  <2>2. e.attached \in BOOLEAN
    BY EntryParts
  <2>3. CASE e.attached = TRUE
    BY <2>3
  <2>4. CASE e.attached = FALSE
    BY <2>1, <2>4
  <2> QED
    BY <2>2, <2>3, <2>4
<1>6. EntryIn(Fields(e)) = e
  BY <1>1, <1>4, <1>5, EntryParts DEF EntryIn
<1> QED
  BY <1>3, <1>6

-----------------------------------------------------------------------------
(* A list comes out item by item: the clean ones as they are. *)
LEMMA ListIntact ==
  ASSUME NEW f, NEW I, NEW F \in [Text -> Seq(I)], F[<<>>] = <<>>, NEW ts \in Seq(Text), Len(ts) = Len(f.body),
         \A k \in 1 .. Len(ts) : Clean(f, f.body[k]) =>
           F[ts[k]] = <<f.body[k]>> /\ ~Contains(ts[k], Newline) /\ StripReturn(ts[k]) = ts[k]
  PROVE  ItemsIntact(f, Collect(F, Lines(Join(ts, Newline))))
<1> DEFINE S == 0 .. 127
           items == Collect(F, Lines(Join(ts, Newline)))
           n == Len(ts)
<1>1. Newline \in S /\ Text = Seq(S) /\ n \in Nat
  BY DEF Newline, Text
<1> HIDE DEF S
<1>2. F \in [Seq(S) -> Seq(I)] /\ ts \in Seq(Seq(S))
  BY <1>1
<1>a. \A t \in Seq(S) : AsAlone(F, S, t)
  BY <1>2, EachAlone, Zenon
<1>3. PICK parts : PartsOf(parts, F, S, I, ts) /\ items = FlattenSeq(parts)
  BY <1>1, <1>2, ListCollected
<1>4. parts \in Seq(Seq(I)) /\ Len(parts) = n /\ \A k \in 1 .. n : parts[k] \in Results(F, S, ts[k])
  BY <1>3 DEF PartsOf
<1>5. PICK c : Ends(c, parts)
  BY <1>4, EndsExist
<1> HIDE DEF items, n
<1>6. /\ c \in [0 .. n -> 0 .. Len(items)] /\ c[0] = 0 /\ c[n] = Len(items)
      /\ \A k \in 1 .. n : /\ c[k] = c[k - 1] + Len(parts[k])
                           /\ \A j \in 1 .. Len(parts[k]) : items[c[k - 1] + j] = parts[k][j]
  BY <1>3, <1>4, <1>5 DEF Ends
<1>7. ASSUME NEW k \in 1 .. n
      PROVE  /\ c[k - 1] <= c[k]
             /\ Clean(f, f.body[k]) => c[k] = c[k - 1] + 1 /\ items[c[k]] = f.body[k]
  <2>1. k - 1 \in 0 .. n /\ k \in 0 .. n
    BY <1>1
  <2>2. c[k - 1] \in 0 .. Len(items) /\ c[k] \in 0 .. Len(items) /\ c[k] = c[k - 1] + Len(parts[k])
    BY <1>6, <2>1
  <2>3. parts[k] \in Seq(I)
    BY <1>4
  <2>4. Len(parts[k]) \in Nat
    BY <2>3
  <2>5. c[k - 1] \in Int /\ c[k] \in Int
    BY <2>2
  <2>6. c[k - 1] <= c[k]
    BY <2>2, <2>4, <2>5
  <2>7. ASSUME Clean(f, f.body[k])
        PROVE  c[k] = c[k - 1] + 1 /\ items[c[k]] = f.body[k]
    <3>1. F[ts[k]] = <<f.body[k]>> /\ ~Contains(ts[k], Newline) /\ StripReturn(ts[k]) = ts[k]
      BY <2>7 DEF n
    <3>2. ts[k] \in Seq(S)
      BY <1>2 DEF n
    <3>3. Split(ts[k], Newline) = <<ts[k]>>
      BY <3>1, <3>2, SplitOne
    <3>4. Outer(F, S, <<ts[k]>>) = F[ts[k]] /\ Inner(F, S, <<ts[k]>>) = F[StripReturn(ts[k])]
      BY <1>a, <3>2 DEF AsAlone
    <3>5. parts[k] = <<f.body[k]>>
      BY <1>4, <3>1, <3>3, <3>4 DEF Results
    <3>6. Len(parts[k]) = 1 /\ parts[k][1] = f.body[k] /\ 1 \in 1 .. Len(parts[k])
      BY <3>5
    <3>7. items[c[k - 1] + 1] = f.body[k]
      BY <1>6, <3>6
    <3> QED
      BY <2>2, <3>6, <3>7
  <2> QED
    BY <2>6, <2>7
<1>8. Len(f.body) = n
  BY DEF n
<1>9. ItemsIntact(f, items)
  BY <1>6, <1>7, <1>8 DEF ItemsIntact
<1> QED
  BY <1>9 DEF items

LEMMA LinesTyped == ASSUME NEW text \in Text PROVE Lines(text) \in Seq(Text)
<1> DEFINE S == 0 .. 127
           F == [l \in Seq(S) |-> <<>>]
<1>1. F \in [Seq(S) -> Seq(S)] /\ F[<<>>] = <<>> /\ text \in Seq(S)
  BY DEF Text
<1> HIDE DEF F
<1>2. Lines(text) \in Seq(Seq(S))
  BY <1>1, LinesCollected
<1> QED
  BY <1>2 DEF Text

LEMMA NotReturned ==
  ASSUME NEW t, Last(t) # Return \/ t = <<>>
  PROVE  StripReturn(t) = t
  BY DEF StripReturn

(* The text of a clean variable or session is one line, and comes back.    *)
LEMMA VarClean ==
  ASSUME NEW v \in Var, CleanVar(v)
  PROVE  VarOf(VarText(v)) = <<v>> /\ ~Contains(VarText(v), Newline) /\ StripReturn(VarText(v)) = VarText(v)
<1> DEFINE a == v[1]
           b == v[2]
           n == Len(a)
           l == a \o <<Equals>> \o b
<1>0. a \in Text /\ b \in Text
  BY DEF Var
<1>1. ~Contains(a, Equals) /\ ~Contains(a \o b, Newline) /\ (b = <<>> \/ Last(b) # Return)
  BY DEF CleanVar
<1>2. VarOf(VarText(v)) = <<v>>
  BY <1>1, VarBack
<1> HIDE DEF a, b
<1>3. /\ l \in Text /\ Len(l) = n + 1 + Len(b) /\ n \in Nat /\ Len(b) \in Nat /\ l[n + 1] = Equals
      /\ \A i \in 1 .. n : l[i] = a[i]
      /\ \A i \in 1 .. Len(b) : l[n + 1 + i] = b[i]
  BY <1>0, VarPlaces
<1>4. (\A i \in 1 .. n : a[i] # Newline) /\ (\A i \in 1 .. Len(b) : b[i] # Newline)
  <2>1. a \in Seq(0 .. 127) /\ b \in Seq(0 .. 127)
    BY <1>0 DEF Text
  <2>2. \A i \in 1 .. n + Len(b) : (a \o b)[i] # Newline
    <3>1. Len(a \o b) = n + Len(b)
      BY <2>1
    <3> QED
      BY <1>1, <3>1 DEF Contains
  <2>3. ASSUME NEW i \in 1 .. n PROVE a[i] # Newline
    <3>1. (a \o b)[i] = a[i] /\ i \in 1 .. n + Len(b)
      BY <2>1
    <3> QED
      BY <2>2, <3>1
  <2>4. ASSUME NEW i \in 1 .. Len(b) PROVE b[i] # Newline
    <3>1. (a \o b)[n + i] = b[i]
      BY <2>1
    <3>2. n + i \in 1 .. n + Len(b)
      BY <2>1
    <3> QED
      BY <2>2, <3>1, <3>2
  <2> QED
    BY <2>3, <2>4
<1> HIDE DEF l, n
<1>5. ASSUME NEW i \in 1 .. n + 1 + Len(b) PROVE l[i] # Newline
  <2>1. i \in 1 .. n \/ i = n + 1 \/ (i - (n + 1) \in 1 .. Len(b) /\ n + 1 + (i - (n + 1)) = i)
    BY <1>3
  <2>2. Equals # Newline
    BY DEF Equals, Newline
  <2>3. i - (n + 1) \in 1 .. Len(b) /\ n + 1 + (i - (n + 1)) = i => l[i] = b[i - (n + 1)]
    BY <1>3
  <2> QED
    BY <1>3, <1>4, <2>1, <2>2, <2>3
<1>6. ~Contains(l, Newline)
  BY <1>3, <1>5 DEF Contains
<1>7. Last(l) # Return
  <2>1. Last(l) = l[n + 1 + Len(b)]
    BY <1>3 DEF Last
  <2>2. CASE b = <<>>
    <3>1. n + 1 + Len(b) = n + 1
      BY <1>3, <2>2
    <3> QED
      BY <1>3, <2>1, <3>1 DEF Equals, Return
  <2>3. CASE b # <<>>
    <3>1. Len(b) \in 1 .. Len(b)
      BY <1>0, <2>3 DEF Text
    <3>2. l[n + 1 + Len(b)] = b[Len(b)]
      BY <1>3, <3>1
    <3> QED
      BY <1>1, <2>1, <2>3, <3>2 DEF Last
  <2> QED
    BY <2>2, <2>3
<1>8. StripReturn(l) = l
  BY <1>7, NotReturned
<1>9. l = VarText(v)
  BY DEF l, a, b, VarText
<1> QED
  BY <1>2, <1>6, <1>8, <1>9

LEMMA EntryClean ==
  ASSUME NEW e \in Entries, CleanEntry(e)
  PROVE  EntryOf(EntryText(e)) = <<e>> /\ ~Contains(EntryText(e), Newline) /\ StripReturn(EntryText(e)) = EntryText(e)
<1>1. EntryOf(EntryText(e)) = <<e>>
  BY EntryBack
<1>2. EntryText(e) = Join(Fields(e), Tab)
  BY DEF EntryText, Fields
<1> DEFINE S == 0 .. 127
<1>3. Tab \in S /\ Tab # Newline /\ Fields(e) \in Seq(Seq(S))
  BY FieldsTyped DEF Tab, Newline, Text
<1>4. \A i \in 1 .. Len(Fields(e)) : ~Contains(Fields(e)[i], Newline)
  BY FieldsLack
<1> HIDE DEF S
<1>5. ~Contains(EntryText(e), Newline)
  BY <1>2, <1>3, <1>4, JoinLacks
<1>6. Last(EntryText(e)) # Return
  <2> DEFINE t == Digit(e.last_heartbeat)
             six == <<e.id, e.name, e.pty_path, Digit(e.shell_pid), Digit(e.created_at),
                      Digit(IF e.attached THEN 1 ELSE 0)>>
  <2>1. t \in Text /\ t # <<>> /\ Last(t) # Return
    BY EntryParts, DigitTyped, DigitClean
  <2>2. six \in Seq(Text)
    <3>1. Digit(e.shell_pid) \in Text /\ Digit(e.created_at) \in Text /\ Digit(IF e.attached THEN 1 ELSE 0) \in Text
      BY EntryParts, DigitTyped
    <3> QED
      BY <3>1, EntryParts
  <2>3. Fields(e) = Append(six, t)
    BY DEF Fields
  <2>4. six \in Seq(Seq(S)) /\ t \in Seq(S)
    BY <2>1, <2>2 DEF S, Text
  <2> HIDE DEF six, t
  <2>5. Last(Join(Append(six, t), Tab)) = Last(t)
    BY <1>3, <2>1, <2>4, JoinEnds
  <2> QED
    BY <1>2, <2>1, <2>3, <2>5
<1>7. StripReturn(EntryText(e)) = EntryText(e)
  BY <1>6, NotReturned
<1> QED
  BY <1>1, <1>5, <1>7

(* What decode makes of the frames that were sent, type by type. *)
LEMMA VarsIntact ==
  ASSUME NEW f \in Frames, f.type = Env
  PROVE  Decoded(f).type = Env /\ ItemsIntact(f, Decoded(f).body)
<1>1. IsValue(f)
  BY FramesFit
<1>2. f.body \in Seq(Var)
  BY <1>1, KindOf DEF Var
<1> DEFINE ts == VarTexts(f.body)
<1>3. ts \in Seq(Text) /\ Len(ts) = Len(f.body) /\ Len(ts) \in Nat
  BY <1>2, TextsTyped DEF Var
<1>4. Payload(f) = Join(ts, Newline) /\ Payload(f) \in Text
  BY <1>1, PayloadIs, PayloadTyped
<1>5. Lines(Payload(f)) \in Seq(Text)
  BY <1>4, LinesTyped
<1>6. Decoded(f).type = Env /\ Decoded(f).body = FilterMap(VarOf, Lines(Payload(f)))
  BY DEF Decoded, Parse, Env, SessionInfo, EmptyTypes, StringTypes, Data, Resize, Exit, FilterMap
<1> DEFINE ls == Lines(Payload(f))
<1>7. FilterMap(VarOf, ls) = Collect(VarFn, ls)
  <2> HIDE DEF ls
  <2>1. \A i \in DOMAIN ls : VarOf(ls[i]) = VarFn[ls[i]]
    BY <1>5 DEF VarFn, ls
  <2>2. [i \in DOMAIN ls |-> VarOf(ls[i])] = [i \in DOMAIN ls |-> VarFn[ls[i]]]
    BY <2>1
  <2> QED
    BY <2>2 DEF FilterMap, Collect, Image
<1>8. ASSUME NEW k \in 1 .. Len(ts), Clean(f, f.body[k])
      PROVE  VarFn[ts[k]] = <<f.body[k]>> /\ ~Contains(ts[k], Newline) /\ StripReturn(ts[k]) = ts[k]
  <2>1. f.body[k] \in Var /\ ts[k] = VarText(f.body[k]) /\ ts[k] \in Text
    BY <1>2, <1>3 DEF VarTexts
  <2>2. CleanVar(f.body[k])
    BY <1>8 DEF Clean, Env, SessionInfo
  <2>3. VarFn[ts[k]] = VarOf(ts[k])
    BY <2>1 DEF VarFn
  <2> QED
    BY <2>1, <2>2, <2>3, VarClean
<1> HIDE DEF ts, ls
<1>9. ItemsIntact(f, Collect(VarFn, Lines(Join(ts, Newline))))
  BY <1>3, <1>8, VarFnTyped, ListIntact
<1> QED
  BY <1>4, <1>6, <1>7, <1>9 DEF ls

LEMMA EntriesIntact ==
  ASSUME NEW f \in Frames, f.type = SessionInfo
  PROVE  Decoded(f).type = SessionInfo /\ ItemsIntact(f, Decoded(f).body)
<1>1. IsValue(f)
  BY FramesFit
<1>2. f.body \in Seq(Entries)
  BY <1>1, KindOf
<1> DEFINE ts == EntryTexts(f.body)
<1>3. ts \in Seq(Text) /\ Len(ts) = Len(f.body) /\ Len(ts) \in Nat
  BY <1>2, TextsTyped
<1>4. Payload(f) = Join(ts, Newline) /\ Payload(f) \in Text
  BY <1>1, PayloadIs, PayloadTyped
<1>5. Lines(Payload(f)) \in Seq(Text)
  BY <1>4, LinesTyped
<1>6. Decoded(f).type = SessionInfo /\ Decoded(f).body = FilterMap(EntryOf, Lines(Payload(f)))
  BY DEF Decoded, Parse, Env, SessionInfo, EmptyTypes, StringTypes, Data, Resize, Exit, FilterMap
<1> DEFINE ls == Lines(Payload(f))
<1>7. FilterMap(EntryOf, ls) = Collect(EntryFn, ls)
  <2> HIDE DEF ls
  <2>1. \A i \in DOMAIN ls : EntryOf(ls[i]) = EntryFn[ls[i]]
    BY <1>5 DEF EntryFn, ls
  <2>2. [i \in DOMAIN ls |-> EntryOf(ls[i])] = [i \in DOMAIN ls |-> EntryFn[ls[i]]]
    BY <2>1
  <2> QED
    BY <2>2 DEF FilterMap, Collect, Image
<1>8. ASSUME NEW k \in 1 .. Len(ts), Clean(f, f.body[k])
      PROVE  EntryFn[ts[k]] = <<f.body[k]>> /\ ~Contains(ts[k], Newline) /\ StripReturn(ts[k]) = ts[k]
  <2>1. f.body[k] \in Entries /\ ts[k] = EntryText(f.body[k]) /\ ts[k] \in Text
    BY <1>2, <1>3 DEF EntryTexts
  <2>2. CleanEntry(f.body[k])
    BY <1>8 DEF Clean, Env, SessionInfo
  <2>3. EntryFn[ts[k]] = EntryOf(ts[k])
    BY <2>1 DEF EntryFn
  <2> QED
    BY <2>1, <2>2, <2>3, EntryClean
<1> HIDE DEF ts, ls
<1>9. ItemsIntact(f, Collect(EntryFn, Lines(Join(ts, Newline))))
  BY <1>3, <1>8, EntryFnTyped, ListIntact
<1> QED
  BY <1>4, <1>6, <1>7, <1>9 DEF ls

LEMMA PairAgain ==
  ASSUME NEW m \in U16s, NEW n \in U16s
  PROVE  U16At(U16(m) \o U16(n), 1) = m /\ U16At(U16(m) \o U16(n), 3) = n
<1> DEFINE a == U16(m)
           b == U16(n)
           c == a \o b
<1>1. a \in Seq(Byte) /\ b \in Seq(Byte) /\ Len(a) = 2 /\ Len(b) = 2
      /\ 256 * a[1] + a[2] = m /\ 256 * b[1] + b[2] = n
  BY U16Typed
<1> HIDE DEF a, b
<1>2. c[1] = a[1] /\ c[2] = a[2] /\ c[3] = b[1] /\ c[4] = b[2]
  <2>1. \A k \in 1 .. Len(a) + Len(b) : c[k] = IF k <= Len(a) THEN a[k] ELSE b[k - Len(a)]
    BY <1>1, ConcatProperties
  <2> HIDE DEF c
  <2>2. \A k \in 1 .. 4 : c[k] = IF k <= 2 THEN a[k] ELSE b[k - 2]
    BY <1>1, <2>1
  <2> QED
    BY <2>2
<1> HIDE DEF c
<1>3. 1 + 1 = 2 /\ 3 + 1 = 4
  OBVIOUS
<1>4. U16At(c, 1) = m
  BY <1>1, <1>2, <1>3 DEF U16At
<1>5. U16At(c, 3) = n
  BY <1>1, <1>2, <1>3 DEF U16At
<1> QED
  BY <1>4, <1>5 DEF a, b, c

LEMMA PairOf ==
  ASSUME NEW A, NEW p \in A \X A
  PROVE  p[1] \in A /\ p[2] \in A /\ p = <<p[1], p[2]>>
  OBVIOUS

LEMMA DecodedIs ==
  ASSUME NEW f
  PROVE  /\ Decoded(f) = [type |-> f.type, body |-> Decoded(f).body]
         /\ f.type \in EmptyTypes => Decoded(f).body = <<>>
         /\ f.type = Data \/ f.type \in StringTypes => Decoded(f).body = Payload(f)
         /\ f.type = Resize => Decoded(f).body = <<U16At(Payload(f), 1), U16At(Payload(f), 3)>>
         /\ f.type = Exit => Decoded(f).body = I32At(Payload(f), 1)
<1> USE DEF Decoded, Parse, FilterMap, EmptyTypes, StringTypes, Data, Resize, Exit, Env, SessionInfo
<1>1. Decoded(f) = [type |-> f.type, body |-> Decoded(f).body]
  <2> DEFINE R(x) == [type |-> f.type, body |-> x]
  <2>1. \E x : Decoded(f) = R(x)
    OBVIOUS
  <2>2. \A x : R(x) = [type |-> f.type, body |-> R(x).body]
    OBVIOUS
  <2> HIDE DEF R
  <2> QED
    BY <2>1, <2>2
<1>2. f.type \in EmptyTypes => Decoded(f).body = <<>>
  OBVIOUS
<1>3. f.type = Data \/ f.type \in StringTypes => Decoded(f).body = Payload(f)
  OBVIOUS
<1>4. f.type = Resize => Decoded(f).body = <<U16At(Payload(f), 1), U16At(Payload(f), 3)>>
  OBVIOUS
<1>5. f.type = Exit => Decoded(f).body = I32At(Payload(f), 1)
  OBVIOUS
<1> QED
  BY <1>1, <1>2, <1>3, <1>4, <1>5

LEMMA SimpleIntact ==
  ASSUME NEW f \in Frames, f.type \notin {Env, SessionInfo}
  PROVE  Decoded(f) = f
<1>1. IsValue(f)
  BY FramesFit
<1>2. f = [type |-> f.type, body |-> f.body]
  BY <1>1, KindOf
<1>3. Decoded(f).body = f.body
  <2>1. CASE f.type \in EmptyTypes
    <3>1. f.body = <<>>
      BY <1>1, <2>1, KindOf
    <3> QED
      BY <2>1, <3>1, DecodedIs
  <2>2. CASE f.type = Data \/ f.type \in StringTypes
    <3>1. Payload(f) = f.body
      BY <2>2, PayloadIs
    <3> QED
      BY <2>2, <3>1, DecodedIs
  <2>3. CASE f.type = Resize
    <3>1. f.body \in U16s \X U16s
      BY <1>1, <2>3, KindOf
    <3> DEFINE m == f.body[1]
               n == f.body[2]
    <3>2. m \in U16s /\ n \in U16s /\ f.body = <<m, n>>
      BY <3>1, PairOf
    <3>3. Payload(f) = U16(m) \o U16(n)
      BY <2>3, PayloadIs, Zenon
    <3> HIDE DEF m, n
    <3>4. U16At(U16(m) \o U16(n), 1) = m /\ U16At(U16(m) \o U16(n), 3) = n
      BY <3>2, PairAgain
    <3>5. Decoded(f).body = <<U16At(Payload(f), 1), U16At(Payload(f), 3)>>
      BY <2>3, DecodedIs
    <3> QED
      BY <3>2, <3>3, <3>4, <3>5, Zenon
  <2>4. CASE f.type = Exit
    <3>1. f.body \in I32
      BY <1>1, <2>4, KindOf
    <3>2. Payload(f) = U32(f.body)
      BY <2>4, PayloadIs
    <3>3. I32At(Payload(f), 1) = f.body
      <4> DEFINE n == f.body
                 b == U32(n)
      <4>1. n \in I32 /\ n \in Int
        BY <3>1 DEF I32
      <4> HIDE DEF n
      <4>2. b \in Seq(Byte) /\ Len(b) = 4
        BY <4>1, U32Typed
      <4>3. Holds4(b, 1, n)
        BY DEF Holds4
      <4>4. I32At(b, 1) = n
        BY <4>1, <4>2, <4>3, I32Kept
      <4> QED
        BY <3>2, <4>4 DEF n
    <3>4. Decoded(f).body = I32At(Payload(f), 1)
      BY <2>4, DecodedIs
    <3> QED
      BY <3>3, <3>4
  <2> QED
    BY <1>1, <2>1, <2>2, <2>3, <2>4, KindOf
<1>4. Decoded(f) = [type |-> f.type, body |-> Decoded(f).body]
  BY DecodedIs
<1> QED
  BY <1>2, <1>3, <1>4

(* Frames come out as they went in, but for the items of a list that hold  *)
(* separators themselves, which spoil no other item (protocol.rs:113-217). *)
THEOREM FramesComeOut == Spec => []FramesIntact
<1>1. StreamInv => FramesIntact
  <2> SUFFICES ASSUME StreamInv, NEW i \in DOMAIN got
               PROVE  /\ got[i].type = sent[i].type
                      /\ IF got[i].type \in {Env, SessionInfo} THEN ItemsIntact(sent[i], got[i].body)
                         ELSE got[i] = sent[i]
    BY DEF FramesIntact
  <2>1. got \in Seq(Outs)
    BY DEF StreamInv, StreamTyped
  <2>2. i \in 1 .. Len(got)
    BY <2>1
  <2>3. sent[i] \in Frames /\ got[i] = Decoded(sent[i])
    BY <2>2 DEF StreamInv, OutsAreSent
  <2> DEFINE f == sent[i]
  <2>4. Decoded(f).type = f.type
    BY DEF Decoded, Parse
  <2>5. f.type \in {Env, SessionInfo} => ItemsIntact(f, Decoded(f).body)
    BY <2>3, VarsIntact, EntriesIntact
  <2>6. f.type \notin {Env, SessionInfo} => Decoded(f) = f
    BY <2>3, SimpleIntact
  <2> QED
    BY <2>3, <2>4, <2>5, <2>6
<1> QED
  BY <1>1, StreamHolds, PTL
=============================================================================
