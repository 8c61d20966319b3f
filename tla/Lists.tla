------------------------------- MODULE Lists -------------------------------
(***************************************************************************)
(* Induction over numbers and sequences, as facts about sets, and what     *)
(* FlattenSeq computes: the lemmas the proofs about data rest on.          *)
(***************************************************************************)
EXTENDS Integers, Sequences, SequencesExt, SequenceTheorems, WellFoundedInduction, TLAPS

LEMMA LeastOf ==
  ASSUME NEW T \in SUBSET Nat, T # {}
  PROVE  \E x \in T : \A y \in T : x <= y
<1> DEFINE R == OpToRel(<, Nat)
<1>1. IsWellFoundedOn(R, Nat)
  BY NatLessThanWellFounded
<1>2. \A x, y \in Nat : <<y, x>> \notin R => x <= y
  BY DEF OpToRel
<1>3. \E x \in T : \A y \in T : <<y, x>> \notin R
  <2> HIDE DEF R
  <2> QED
    BY <1>1, WFMin
<1> QED
  BY <1>2, <1>3

(* A set that has 0 and the successors of its members has every number. *)
LEMMA Induction ==
  ASSUME NEW T, 0 \in T, \A n \in Nat : n \in T => n + 1 \in T
  PROVE  Nat \subseteq T
<1> SUFFICES ASSUME Nat \ T # {} PROVE FALSE
  OBVIOUS
<1>1. PICK x \in Nat \ T : \A y \in Nat \ T : x <= y
  BY LeastOf
<1>2. x # 0 /\ x - 1 \in Nat /\ x - 1 \in T
  BY <1>1
<1> QED
  BY <1>1, <1>2

(* A set that has <<>> and what its members grow to has every sequence. *)
LEMMA SeqInduction ==
  ASSUME NEW S, NEW T, <<>> \in T, \A s \in Seq(S), e \in S : s \in T => Append(s, e) \in T
  PROVE  Seq(S) \subseteq T
<1> DEFINE N == {n \in Nat : \A s \in Seq(S) : Len(s) = n => s \in T}
<1>1. 0 \in N
  <2>1. \A s \in Seq(S) : Len(s) = 0 => s = <<>>
    OBVIOUS
  <2> QED
    BY <2>1
<1>2. ASSUME NEW n \in Nat, n \in N PROVE n + 1 \in N
  <2>1. ASSUME NEW s \in Seq(S), Len(s) = n + 1 PROVE s \in T
    <3>1. s # <<>>
      BY <2>1
    <3>2. PICK t \in Seq(S), e \in S : s = Append(t, e)
      BY <3>1, SequenceEmptyOrAppend
    <3>3. Len(t) = n
      BY <2>1, <3>2
    <3> QED
      BY <1>2, <3>2, <3>3
  <2> QED
    BY <2>1
<1>3. Nat \subseteq N
  <2> HIDE DEF N
  <2> QED
    BY <1>1, <1>2, Induction
<1> QED
  BY <1>3

-----------------------------------------------------------------------------
(* Opaque to the provers, which otherwise unfold concatenations for ever. *)
IsConcat(c, a, b) == c = a \o b
Associated(a, b, c) == (a \o b) \o c = a \o (b \o c)

LEMMA ConcatAssociated ==
  ASSUME NEW S, NEW a \in Seq(S), NEW b \in Seq(S), NEW c \in Seq(S)
  PROVE  Associated(a, b, c)
  BY ConcatAssociative DEF Associated

(* An element that is appended stays behind what comes in front. *)
LEMMA AppendLater ==
  ASSUME NEW S, NEW s \in Seq(S), NEW t \in Seq(S), NEW x \in S
  PROVE  s \o Append(t, x) = Append(s \o t, x) /\ s \o t \in Seq(S)
<1>1. /\ Append(t, x) \in Seq(S) /\ s \o Append(t, x) \in Seq(S)
      /\ s \o t \in Seq(S) /\ Append(s \o t, x) \in Seq(S)
  OBVIOUS
<1>2. Append(t, x) = t \o <<x>> /\ Append(s \o t, x) = (s \o t) \o <<x>>
  BY <1>1, AppendIsConcat
<1>3. <<x>> \in Seq(S)
  OBVIOUS
<1> QED
  BY <1>1, <1>2, <1>3, ConcatAssociative

-----------------------------------------------------------------------------
(* The partial results of FlattenSeq. *)
Steps(f, S, s) ==
  /\ f \in [0 .. Len(s) -> Seq(S)]
  /\ f[0] = <<>>
  /\ \A i \in 1 .. Len(s) : f[i] = f[i - 1] \o s[i]

LEMMA FlattenBy ==
  ASSUME NEW S, NEW s \in Seq(Seq(S)), NEW f, Steps(f, S, s)
  PROVE  FlattenSeq(s) = f[Len(s)]
<1>1. CASE s = <<>>
  BY <1>1 DEF Steps, FlattenSeq
<1>2. CASE s # <<>>
  <2> DEFINE Def(g) == [i \in 1 .. Len(s) |-> IF i = 1 THEN s[1] ELSE g[i - 1] \o s[i]]
             g == CHOOSE h : h = Def(h)
             h0 == [i \in 1 .. Len(s) |-> f[i]]
  <2>0. Len(s) \in Nat \ {0} /\ \A i \in 1 .. Len(s) : s[i] \in Seq(S)
    BY <1>2
  <2>a. f[1] = s[1]
    <3>1. 1 \in 1 .. Len(s) /\ 1 - 1 = 0 /\ s[1] \in Seq(S)
      BY <2>0
    <3>2. f[1] = <<>> \o s[1]
      BY <3>1 DEF Steps
    <3> QED
      BY <3>1, <3>2, ConcatEmptySeq
  <2>1. FlattenSeq(s) = g[Len(s)]
    BY <2>0 DEF FlattenSeq
  <2>2. h0 = Def(h0)
    <3>1. \A i \in 1 .. Len(s) : i # 1 => i - 1 \in 1 .. Len(s)
      BY <2>0
    <3>2. \A i \in 1 .. Len(s) : f[i] = f[i - 1] \o s[i]
      BY DEF Steps
    <3> QED
      BY <2>a, <3>1, <3>2
  <2>3. g = Def(g)
    <3> HIDE DEF h0, Def
    <3> QED
      BY <2>2
  <2>4. g[1] = s[1] /\ \A i \in 2 .. Len(s) : g[i] = g[i - 1] \o s[i]
    <3> HIDE DEF g
    <3>1. 1 \in 1 .. Len(s) /\ \A i \in 2 .. Len(s) : i \in 1 .. Len(s) /\ i # 1
      BY <2>0
    <3> QED
      BY <2>3, <3>1
  <2> HIDE DEF g
  <2> DEFINE N == {n \in Nat : n \in 1 .. Len(s) => g[n] = f[n]}
  <2>5. 0 \in N
    OBVIOUS
  <2>6. ASSUME NEW n \in Nat, n \in N PROVE n + 1 \in N
    <3>1. ASSUME n + 1 \in 1 .. Len(s) PROVE g[n + 1] = f[n + 1]
      <4>1. CASE n = 0
        BY <2>4, <2>a, <4>1
      <4>2. CASE n # 0
        <5>1. n \in 1 .. Len(s) /\ n + 1 \in 2 .. Len(s) /\ (n + 1) - 1 = n
          BY <2>0, <3>1, <4>2
        <5>2. g[n + 1] = g[n] \o s[n + 1]
          BY <2>4, <5>1
        <5>3. f[n + 1] = f[n] \o s[n + 1]
          BY <3>1, <5>1 DEF Steps
        <5> QED
          BY <2>6, <5>1, <5>2, <5>3
      <4> QED
        BY <4>1, <4>2
    <3> QED
      BY <3>1
  <2>7. Nat \subseteq N
    <3> HIDE DEF N
    <3> QED
      BY <2>5, <2>6, Induction
  <2>9. g[Len(s)] = f[Len(s)]
    <3>1. Len(s) \in N /\ Len(s) \in 1 .. Len(s)
      BY <2>0, <2>7
    <3> QED
      BY <3>1
  <2> QED
    BY <2>1, <2>9
<1> QED
  BY <1>1, <1>2

LEMMA StepsGrow ==
  ASSUME NEW S, NEW s \in Seq(Seq(S)), NEW x \in Seq(S), NEW f, Steps(f, S, s)
  PROVE  \E g : Steps(g, S, Append(s, x)) /\ g[Len(s) + 1] = f[Len(s)] \o x
<1> DEFINE n == Len(s)
           g == [i \in 0 .. n + 1 |-> IF i <= n THEN f[i] ELSE f[n] \o x]
           t == Append(s, x)
<1>1. n \in Nat /\ Len(t) = n + 1 /\ t[n + 1] = x /\ \A i \in 1 .. n : t[i] = s[i]
  OBVIOUS
<1>2. \A i \in 0 .. n : f[i] \in Seq(S)
  BY DEF Steps
<1>3. f[n] \in Seq(S) /\ f[n] \o x \in Seq(S)
  BY <1>1, <1>2, ConcatProperties
<1>4. g \in [0 .. n + 1 -> Seq(S)]
  BY <1>2, <1>3
<1>5. g[0] = <<>> /\ g[n + 1] = f[n] \o x
  BY <1>1 DEF Steps
<1>6. ASSUME NEW i \in 1 .. n + 1 PROVE g[i] = g[i - 1] \o t[i]
  <2>1. CASE i = n + 1
    <3>1. i - 1 = n /\ n \in 0 .. n + 1 /\ n <= n
      BY <1>1, <2>1
    <3>2. g[n] = f[n]
      BY <3>1
    <3>3. g[n + 1] = g[n] \o t[n + 1]
      BY <1>1, <1>5, <3>2
    <3> HIDE DEF g, n, t
    <3> QED
      BY <2>1, <3>1, <3>3
  <2>2. CASE i # n + 1
    <3>1. i \in 1 .. n /\ i - 1 \in 0 .. n /\ i - 1 <= n /\ i <= n
      BY <1>1, <2>2
    <3>2. g[i] = f[i] /\ g[i - 1] = f[i - 1]
      BY <1>1, <3>1
    <3>3. f[i] = f[i - 1] \o s[i]
      BY <3>1 DEF Steps
    <3> QED
      BY <1>1, <3>1, <3>2, <3>3
  <2> QED
    BY <2>1, <2>2
<1> HIDE DEF g
<1>7. Steps(g, S, t)
  BY <1>1, <1>4, <1>5, <1>6 DEF Steps
<1> QED
  BY <1>5, <1>7

LEMMA StepsExist ==
  ASSUME NEW S
  PROVE  \A s \in Seq(Seq(S)) : \E f : Steps(f, S, s)
<1> DEFINE T == {s \in Seq(Seq(S)) : \E f : Steps(f, S, s)}
<1>1. <<>> \in T
  <2> DEFINE f == [i \in {0} |-> <<>>]
  <2>1. Len(<<>>) = 0 /\ 0 .. 0 = {0} /\ 1 .. 0 = {}
    OBVIOUS
  <2>2. Steps(f, S, <<>>)
    BY <2>1 DEF Steps
  <2> QED
    BY <2>2
<1>2. ASSUME NEW s \in Seq(Seq(S)), NEW x \in Seq(S), s \in T PROVE Append(s, x) \in T
  BY <1>2, StepsGrow
<1>3. Seq(Seq(S)) \subseteq T
  <2> HIDE DEF T
  <2> QED
    BY <1>1, <1>2, SeqInduction
<1> QED
  BY <1>3

LEMMA FlattenEmpty == FlattenSeq(<<>>) = <<>>
  BY DEF FlattenSeq

LEMMA FlattenTyped ==
  ASSUME NEW S, NEW s \in Seq(Seq(S))
  PROVE  FlattenSeq(s) \in Seq(S)
<1>1. PICK f : Steps(f, S, s)
  BY StepsExist
<1>2. Len(s) \in 0 .. Len(s)
  OBVIOUS
<1>3. f[Len(s)] \in Seq(S)
  BY <1>1, <1>2 DEF Steps
<1> QED
  BY <1>1, <1>3, FlattenBy

(* One more part comes last. *)
LEMMA FlattenAppend ==
  ASSUME NEW S, NEW s \in Seq(Seq(S)), NEW x \in Seq(S)
  PROVE  FlattenSeq(Append(s, x)) = FlattenSeq(s) \o x
<1>1. PICK f : Steps(f, S, s)
  BY StepsExist
<1>2. PICK g : Steps(g, S, Append(s, x)) /\ g[Len(s) + 1] = f[Len(s)] \o x
  BY <1>1, StepsGrow
<1>3. Append(s, x) \in Seq(Seq(S)) /\ Len(Append(s, x)) = Len(s) + 1
  OBVIOUS
<1> QED
  BY <1>1, <1>2, <1>3, FlattenBy

LEMMA FlattenOne ==
  ASSUME NEW S, NEW x \in Seq(S)
  PROVE  FlattenSeq(<<x>>) = x
<1>1. <<>> \in Seq(Seq(S)) /\ <<x>> = Append(<<>>, x)
  OBVIOUS
<1>2. FlattenSeq(<<x>>) = FlattenSeq(<<>>) \o x
  BY <1>1, FlattenAppend
<1> QED
  BY <1>2, FlattenEmpty, ConcatEmptySeq

(* The parts of two lists, one after the other. *)
LEMMA FlattenConcat ==
  ASSUME NEW S, NEW s \in Seq(Seq(S))
  PROVE  \A t \in Seq(Seq(S)) : FlattenSeq(s \o t) = FlattenSeq(s) \o FlattenSeq(t)
<1> DEFINE T == {t \in Seq(Seq(S)) : FlattenSeq(s \o t) = FlattenSeq(s) \o FlattenSeq(t)}
<1>1. <<>> \in T
  <2>1. FlattenSeq(s) \in Seq(S)
    BY FlattenTyped
  <2>2. s \o <<>> = s /\ FlattenSeq(s) \o <<>> = FlattenSeq(s)
    BY <2>1, ConcatEmptySeq
  <2>3. <<>> \in Seq(Seq(S))
    OBVIOUS
  <2>4. FlattenSeq(s \o <<>>) = FlattenSeq(s) \o FlattenSeq(<<>>)
    BY <2>2, FlattenEmpty
  <2> QED
    BY <2>3, <2>4
<1>2. ASSUME NEW t \in Seq(Seq(S)), NEW x \in Seq(S), t \in T PROVE Append(t, x) \in T
  <2>1. s \o Append(t, x) = Append(s \o t, x) /\ s \o t \in Seq(Seq(S))
    BY AppendLater
  <2>2. FlattenSeq(s \o Append(t, x)) = FlattenSeq(s \o t) \o x
    BY <2>1, FlattenAppend
  <2>3. FlattenSeq(Append(t, x)) = FlattenSeq(t) \o x
    BY FlattenAppend
  <2>4. FlattenSeq(s) \in Seq(S) /\ FlattenSeq(t) \in Seq(S)
    BY FlattenTyped
  <2>5. (FlattenSeq(s) \o FlattenSeq(t)) \o x = FlattenSeq(s) \o (FlattenSeq(t) \o x)
    BY <2>4, ConcatAssociative
  <2>6. Append(t, x) \in Seq(Seq(S))
    OBVIOUS
  <2> QED
    BY <1>2, <2>2, <2>3, <2>5, <2>6
<1>3. Seq(Seq(S)) \subseteq T
  <2> HIDE DEF T
  <2> QED
    BY <1>1, <1>2, SeqInduction
<1> QED
  BY <1>3

-----------------------------------------------------------------------------
(* What a function F to lists makes of each element of s, put together. *)
Image(F, s) == [i \in DOMAIN s |-> F[s[i]]]
Collect(F, s) == FlattenSeq(Image(F, s))

LEMMA ImageLen == ASSUME NEW A, NEW F, NEW s \in Seq(A) PROVE Len(Image(F, s)) = Len(s)
  BY DEF Image

LEMMA ImageTyped ==
  ASSUME NEW A, NEW I, NEW F \in [A -> I], NEW s \in Seq(A)
  PROVE  Image(F, s) \in Seq(I)
<1>1. DOMAIN s = 1 .. Len(s) /\ Len(s) \in Nat
  OBVIOUS
<1>2. \A i \in 1 .. Len(s) : F[s[i]] \in I
  OBVIOUS
<1> QED
  BY <1>1, <1>2 DEF Image

LEMMA ImageAppend ==
  ASSUME NEW A, NEW I, NEW F \in [A -> I], NEW s \in Seq(A), NEW x \in A
  PROVE  Image(F, Append(s, x)) = Append(Image(F, s), F[x])
<1> DEFINE t == Append(s, x)
<1>1. /\ t \in Seq(A) /\ Len(t) = Len(s) + 1 /\ Len(s) \in Nat /\ t[Len(s) + 1] = x
      /\ \A i \in 1 .. Len(s) : t[i] = s[i]
  OBVIOUS
<1>2. /\ Image(F, t) \in Seq(I) /\ Len(Image(F, t)) = Len(s) + 1
      /\ Image(F, s) \in Seq(I) /\ Len(Image(F, s)) = Len(s) /\ F[x] \in I
  <2>1. Image(F, t) \in Seq(I) /\ Len(Image(F, t)) = Len(t)
    BY <1>1, ImageTyped, ImageLen
  <2>2. Image(F, s) \in Seq(I) /\ Len(Image(F, s)) = Len(s)
    BY ImageTyped, ImageLen
  <2> HIDE DEF t
  <2> QED
    BY <1>1, <2>1, <2>2
<1>3. /\ Append(Image(F, s), F[x]) \in Seq(I) /\ Len(Append(Image(F, s), F[x])) = Len(s) + 1
      /\ Append(Image(F, s), F[x])[Len(s) + 1] = F[x]
      /\ \A i \in 1 .. Len(s) : Append(Image(F, s), F[x])[i] = Image(F, s)[i]
  BY <1>2
<1>4. /\ \A i \in 1 .. Len(s) : Image(F, s)[i] = F[s[i]]
      /\ \A i \in 1 .. Len(s) + 1 : Image(F, t)[i] = F[t[i]]
  BY <1>1 DEF Image
<1>5. ASSUME NEW i \in 1 .. Len(s) + 1 PROVE Image(F, t)[i] = Append(Image(F, s), F[x])[i]
  <2> HIDE DEF t
  <2>1. CASE i = Len(s) + 1
    BY <1>1, <1>3, <1>4, <2>1
  <2>2. CASE i # Len(s) + 1
    <3>1. i \in 1 .. Len(s)
      BY <1>1, <2>2
    <3> QED
      BY <1>1, <1>3, <1>4, <3>1
  <2> QED
    BY <2>1, <2>2
<1> HIDE DEF t
<1>6. Image(F, t) = Append(Image(F, s), F[x])
  BY <1>2, <1>3, <1>5, SeqEqual
<1> QED
  BY <1>6 DEF t

LEMMA CollectTyped ==
  ASSUME NEW A, NEW I, NEW F \in [A -> Seq(I)], NEW s \in Seq(A)
  PROVE  Collect(F, s) \in Seq(I)
  BY ImageTyped, FlattenTyped DEF Collect

LEMMA CollectNone == ASSUME NEW F PROVE Collect(F, <<>>) = <<>>
<1>1. Image(F, <<>>) = <<>>
  BY DEF Image
<1> QED
  BY <1>1, FlattenEmpty DEF Collect

LEMMA CollectMore ==
  ASSUME NEW A, NEW I, NEW F \in [A -> Seq(I)], NEW s \in Seq(A), NEW x \in A
  PROVE  Collect(F, Append(s, x)) = Collect(F, s) \o F[x]
<1>1. Image(F, s) \in Seq(Seq(I)) /\ F[x] \in Seq(I)
  BY ImageTyped
<1>2. Image(F, Append(s, x)) = Append(Image(F, s), F[x])
  BY ImageAppend
<1>3. FlattenSeq(Append(Image(F, s), F[x])) = FlattenSeq(Image(F, s)) \o F[x]
  BY <1>1, FlattenAppend
<1> QED
  BY <1>2, <1>3 DEF Collect

LEMMA CollectBoth ==
  ASSUME NEW A, NEW I, NEW F \in [A -> Seq(I)], NEW s \in Seq(A)
  PROVE  \A t \in Seq(A) : Collect(F, s \o t) = Collect(F, s) \o Collect(F, t)
<1> DEFINE T == {t \in Seq(A) : Collect(F, s \o t) = Collect(F, s) \o Collect(F, t)}
<1>0. Collect(F, s) \in Seq(I)
  BY CollectTyped
<1>1. <<>> \in T
  <2>1. s \o <<>> = s /\ Collect(F, s) \o <<>> = Collect(F, s) /\ <<>> \in Seq(A)
    BY <1>0, ConcatEmptySeq
  <2> QED
    BY <2>1, CollectNone
<1>2. ASSUME NEW t \in Seq(A), NEW x \in A, t \in T PROVE Append(t, x) \in T
  <2>1. s \o Append(t, x) = Append(s \o t, x) /\ s \o t \in Seq(A) /\ Append(t, x) \in Seq(A)
    BY AppendLater
  <2>2. Collect(F, Append(s \o t, x)) = Collect(F, s \o t) \o F[x]
    BY <2>1, CollectMore
  <2>3. Collect(F, Append(t, x)) = Collect(F, t) \o F[x]
    BY CollectMore
  <2>4. Collect(F, t) \in Seq(I) /\ F[x] \in Seq(I)
    BY CollectTyped
  <2>5. (Collect(F, s) \o Collect(F, t)) \o F[x] = Collect(F, s) \o (Collect(F, t) \o F[x])
    BY <1>0, <2>4, ConcatAssociative
  <2> QED
    BY <1>2, <2>1, <2>2, <2>3, <2>5
<1>3. Seq(A) \subseteq T
  <2> HIDE DEF T
  <2> QED
    BY <1>1, <1>2, SeqInduction
<1> QED
  BY <1>3

(* Where each part of a flattened list ends. *)
Ends(c, s) ==
  /\ c \in [0 .. Len(s) -> 0 .. Len(FlattenSeq(s))]
  /\ c[0] = 0 /\ c[Len(s)] = Len(FlattenSeq(s))
  /\ \A k \in 1 .. Len(s) :
       /\ c[k] = c[k - 1] + Len(s[k])
       /\ \A j \in 1 .. Len(s[k]) : FlattenSeq(s)[c[k - 1] + j] = s[k][j]

LEMMA EndsGrow ==
  ASSUME NEW S, NEW s \in Seq(Seq(S)), NEW x \in Seq(S), NEW c, Ends(c, s)
  PROVE  \E d : Ends(d, Append(s, x))
<1> DEFINE n == Len(s)
           t == Append(s, x)
           a == FlattenSeq(s)
           b == FlattenSeq(t)
           d == [i \in 0 .. n + 1 |-> IF i <= n THEN c[i] ELSE Len(a) + Len(x)]
<1>1. /\ t \in Seq(Seq(S)) /\ n \in Nat /\ Len(t) = n + 1 /\ t[n + 1] = x
      /\ \A i \in 1 .. n : t[i] = s[i] /\ s[i] \in Seq(S)
  OBVIOUS
<1>2. a \in Seq(S) /\ b = a \o x
  BY FlattenTyped, FlattenAppend
<1>3. /\ Len(b) = Len(a) + Len(x) /\ Len(a) \in Nat /\ Len(x) \in Nat
      /\ \A j \in 1 .. Len(a) : b[j] = a[j]
      /\ \A j \in 1 .. Len(x) : b[Len(a) + j] = x[j]
  <2> HIDE DEF a, b
  <2> QED
    BY <1>2
<1>4. /\ c \in [0 .. n -> 0 .. Len(a)] /\ c[0] = 0 /\ c[n] = Len(a)
      /\ \A k \in 1 .. n : c[k] = c[k - 1] + Len(s[k])
      /\ \A k \in 1 .. n : \A j \in 1 .. Len(s[k]) : a[c[k - 1] + j] = s[k][j]
  BY DEF Ends
<1> HIDE DEF n, t, a, b
<1>5. \A i \in 0 .. n : c[i] \in 0 .. Len(a) /\ d[i] = c[i]
  <2>1. \A i \in 0 .. n : i \in 0 .. n + 1 /\ i <= n
    BY <1>1
  <2> QED
    BY <1>4, <2>1
<1>6. d[0] = 0 /\ d[n + 1] = Len(b) /\ d[n] = Len(a)
  <2>1. 0 \in 0 .. n /\ n \in 0 .. n /\ n + 1 \in 0 .. n + 1 /\ ~(n + 1 <= n)
    BY <1>1
  <2> QED
    BY <1>3, <1>4, <1>5, <2>1
<1>7. d \in [0 .. n + 1 -> 0 .. Len(b)]
  <2>1. ASSUME NEW i \in 0 .. n + 1 PROVE d[i] \in 0 .. Len(b)
    <3>1. i \in 0 .. n \/ i = n + 1
      BY <1>1
    <3>2. Len(b) \in 0 .. Len(b) /\ \A j \in 0 .. Len(a) : j \in 0 .. Len(b)
      BY <1>3
    <3> HIDE DEF d
    <3> QED
      BY <1>5, <1>6, <3>1, <3>2
  <2> QED
    BY <2>1
<1> HIDE DEF d
<1>8. ASSUME NEW k \in 1 .. n + 1
      PROVE  /\ d[k] = d[k - 1] + Len(t[k])
             /\ \A j \in 1 .. Len(t[k]) : b[d[k - 1] + j] = t[k][j]
  <2>1. CASE k = n + 1
    <3>1. k - 1 = n /\ t[k] = x
      BY <1>1, <2>1
    <3> QED
      BY <1>3, <1>6, <2>1, <3>1
  <2>2. CASE k # n + 1
    <3>1. k \in 1 .. n /\ k \in 0 .. n /\ k - 1 \in 0 .. n
      BY <1>1, <2>2
    <3>2. d[k] = c[k] /\ d[k - 1] = c[k - 1] /\ t[k] = s[k] /\ s[k] \in Seq(S)
      BY <1>1, <1>5, <3>1
    <3>3. c[k] = c[k - 1] + Len(s[k]) /\ \A j \in 1 .. Len(s[k]) : a[c[k - 1] + j] = s[k][j]
      BY <1>4, <3>1
    <3>4. Len(s[k]) \in Nat /\ c[k - 1] \in 0 .. Len(a) /\ c[k] \in 0 .. Len(a)
      BY <1>5, <3>1, <3>2
    <3>5. \A j \in 1 .. Len(s[k]) : c[k - 1] + j \in 1 .. Len(a)
      <4> DEFINE p == c[k - 1]
                 l == Len(s[k])
                 m == Len(a)
      <4>1. p \in 0 .. m /\ p + l \in 0 .. m /\ l \in Nat /\ m \in Nat
        BY <1>3, <3>3, <3>4
      <4> HIDE DEF p, l, m
      <4>2. \A j \in 1 .. l : p + j \in 1 .. m
        BY <4>1
      <4> QED
        BY <4>2 DEF p, l, m
    <3> QED
      BY <1>3, <3>2, <3>3, <3>5
  <2> QED
    BY <2>1, <2>2
<1>9. Ends(d, t)
  BY <1>1, <1>6, <1>7, <1>8 DEF Ends, b
<1> QED
  BY <1>9 DEF t

LEMMA EndsExist ==
  ASSUME NEW S
  PROVE  \A s \in Seq(Seq(S)) : \E c : Ends(c, s)
<1> DEFINE T == {s \in Seq(Seq(S)) : \E c : Ends(c, s)}
<1>1. <<>> \in T
  <2> DEFINE c == [i \in {0} |-> 0]
  <2>1. Len(<<>>) = 0 /\ 0 .. 0 = {0} /\ 1 .. 0 = {} /\ <<>> \in Seq(Seq(S)) /\ FlattenSeq(<<>>) = <<>>
    BY FlattenEmpty
  <2>2. Ends(c, <<>>)
    BY <2>1 DEF Ends
  <2> QED
    BY <2>1, <2>2
<1>2. ASSUME NEW s \in Seq(Seq(S)), NEW x \in Seq(S), s \in T PROVE Append(s, x) \in T
  BY <1>2, EndsGrow
<1>3. Seq(Seq(S)) \subseteq T
  <2> HIDE DEF T
  <2> QED
    BY <1>1, <1>2, SeqInduction
<1> QED
  BY <1>3
=============================================================================
