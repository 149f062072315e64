------------------------- MODULE DecisionTextProofs -------------------------
(***************************************************************************)
(* Theorems about DecisionText, for every way of writing a decision, every *)
(* place a page may end and every length of its parts.                     *)
(***************************************************************************)
EXTENDS DecisionText, FiniteSetTheorems, SequenceTheorems, NaturalsInduction,
        WellFoundedInduction, TLAPS

(***************************************************************************)
(* Loops.                                                                  *)
(***************************************************************************)
\* What holds of 0, and of n + 1 where it holds of n, holds of every number.
LEMMA SetInduction ==
    ASSUME NEW S, 0 \in S, \A n \in Nat : n \in S => n + 1 \in S
    PROVE  Nat \subseteq S
  <1> DEFINE T == Nat \ S
             R == OpToRel(<, Nat)
  <1>1. SUFFICES ASSUME T # {}
                 PROVE  FALSE
    OBVIOUS
  <1>2. \E x \in T : \A y \in T : <<y, x>> \notin R
    <2>1. IsWellFoundedOn(R, Nat)
      BY NatLessThanWellFounded
    <2> HIDE DEF R
    <2> QED  BY <1>1, <2>1, WFMin
  <1>3. PICK x \in T : \A y \in T : ~(y < x)
    BY <1>2 DEF OpToRel
  <1>4. x # 0 /\ x - 1 \in Nat /\ x - 1 < x
    BY <1>3
  <1>5. x - 1 \in S /\ (x - 1) + 1 = x
    BY <1>3, <1>4
  <1> QED  BY <1>3, <1>4, <1>5

\* A set of numbers that is not empty has a least one.
LEMMA LeastExists ==
    ASSUME NEW S \in SUBSET Nat, S # {}
    PROVE  /\ Min(S) \in S
           /\ \A x \in S : Min(S) <= x
  <1> DEFINE R == OpToRel(<, Nat)
  <1>1. \E x \in S : \A y \in S : <<y, x>> \notin R
    <2>1. IsWellFoundedOn(R, Nat)
      BY NatLessThanWellFounded
    <2> HIDE DEF R
    <2> QED  BY <2>1, WFMin
  <1>2. PICK x \in S : \A y \in S : ~(y < x)
    BY <1>1 DEF OpToRel
  <1>3. \A y \in S : x <= y
    BY <1>2
  <1> QED  BY <1>3 DEF Min

\* A set of numbers that is not empty and has a bound has a greatest one.
LEMMA GreatestExists ==
    ASSUME NEW S \in SUBSET Nat, S # {}, NEW N \in Nat, \A x \in S : x <= N
    PROVE  /\ Max(S) \in S
           /\ \A x \in S : x <= Max(S)
  <1> DEFINE D == {N - x : x \in S}
  <1>1. D \in SUBSET Nat /\ D # {}
    <2>1. \A x \in S : x \in Nat /\ N - x \in Nat
      OBVIOUS
    <2>2. D \subseteq Nat
      BY <2>1
    <2>3. D # {}
      OBVIOUS
    <2> QED  BY <2>2, <2>3
  <1>2. Min(D) \in D /\ \A d \in D : Min(D) <= d
    <2> HIDE DEF D
    <2> QED  BY <1>1, LeastExists
  <1>3. PICK x \in S : Min(D) = N - x
    BY <1>2
  <1>4. ASSUME NEW y \in S
        PROVE  y <= x
    <2>1. N - y \in D
      OBVIOUS
    <2>2. N - x <= N - y
      BY <1>2, <1>3, <2>1
    <2> QED  BY <2>2
  <1> QED  BY <1>4 DEF Max

\* What a loop over s makes of base, when turn is one round of it.
Loops(f, base, turn, s) ==
    /\ f[0] = base
    /\ \A k \in 1 .. Len(s) : f[k] = turn[<<f[k - 1], s[k]>>]

\* A loop over a sequence has a result, whatever its turn does.
LEMMA LoopExists ==
    ASSUME NEW T, NEW S, NEW turn \in [T \X S -> T], NEW base \in T, NEW s \in Seq(S)
    PROVE  \E f \in [0 .. Len(s) -> T] : Loops(f, base, turn, s)
  <1>1. Len(s) \in Nat /\ \A k \in 1 .. Len(s) : s[k] \in S
    BY LenProperties, ElementOfSeq
  <1> DEFINE Upto(n) ==
                \E f \in [0 .. n -> T] :
                    f[0] = base /\ \A k \in 1 .. n : f[k] = turn[<<f[k - 1], s[k]>>]
             N == {n \in Nat : n <= Len(s) => Upto(n)}
  <1>2. 0 \in N
    <2>1. [k \in 0 .. 0 |-> base] \in [0 .. 0 -> T]
      OBVIOUS
    <2>2. [k \in 0 .. 0 |-> base][0] = base
      OBVIOUS
    <2>3. 1 .. 0 = {}
      OBVIOUS
    <2>4. Upto(0)
      BY <2>1, <2>2, <2>3
    <2> QED  BY <2>4
  <1>3. ASSUME NEW n \in Nat, n \in N
        PROVE  n + 1 \in N
    <2> SUFFICES ASSUME n + 1 <= Len(s)
                 PROVE  Upto(n + 1)
      OBVIOUS
    <2>1. n <= Len(s) /\ n + 1 \in 1 .. Len(s)
      BY <1>1
    <2>2. PICK f \in [0 .. n -> T] :
                  f[0] = base /\ \A k \in 1 .. n : f[k] = turn[<<f[k - 1], s[k]>>]
      BY <1>3, <2>1
    <2> DEFINE last == turn[<<f[n], s[n + 1]>>]
               g == [k \in 0 .. n + 1 |-> IF k <= n THEN f[k] ELSE last]
    <2>3. f[n] \in T /\ s[n + 1] \in S
      BY <1>1, <2>1, <2>2
    <2>4. last \in T
      BY <2>3
    <2> HIDE DEF last
    <2>5. g \in [0 .. n + 1 -> T] /\ g[0] = base
      BY <2>2, <2>4
    <2>6. ASSUME NEW k \in 1 .. n + 1
          PROVE  g[k] = turn[<<g[k - 1], s[k]>>]
      <3>1. CASE k <= n
        <4>1. k \in 1 .. n /\ k \in 0 .. n + 1 /\ k - 1 \in 0 .. n + 1 /\ k - 1 <= n
          BY <3>1
        <4>2. g[k] = f[k] /\ g[k - 1] = f[k - 1]
          BY <3>1, <4>1
        <4> QED  BY <2>2, <4>1, <4>2
      <3>2. CASE ~(k <= n)
        <4>1. k = n + 1 /\ k - 1 = n /\ k \in 0 .. n + 1 /\ k - 1 \in 0 .. n + 1
          BY <3>2
        <4>2. g[k] = last /\ g[k - 1] = f[n]
          BY <3>2, <4>1
        <4> QED  BY <4>1, <4>2 DEF last
      <3> QED  BY <3>1, <3>2
    <2> QED  BY <2>5, <2>6
  <1>4. Nat \subseteq N
    <2> HIDE DEF N
    <2> QED  BY <1>2, <1>3, SetInduction
  <1>5. Upto(Len(s))
    BY <1>1, <1>4
  <1> QED  BY <1>5 DEF Loops

\* Whatever satisfies the loop's equations where its values have their type
\* is the loop.
IsTurn(T, S, turn, base) == turn \in [T \X S -> T] /\ base \in T

Turns(T, f, base, turn, s) ==
    /\ f[0] = base
    /\ \A k \in 1 .. Len(s) : f[k - 1] \in T => f[k] = turn[<<f[k - 1], s[k]>>]

\* What a loop computes is of the type its turn keeps.
LEMMA LoopIsTyped ==
    ASSUME NEW T, NEW S, NEW turn, NEW base, NEW s \in Seq(S), NEW f,
           IsTurn(T, S, turn, base), Turns(T, f, base, turn, s)
    PROVE  /\ Loops(f, base, turn, s)
           /\ \A k \in 0 .. Len(s) : f[k] \in T
  <1> USE DEF IsTurn, Turns
  <1>1. Len(s) \in Nat /\ \A k \in 1 .. Len(s) : s[k] \in S
    BY LenProperties, ElementOfSeq
  <1> DEFINE N == {n \in Nat : n <= Len(s) => f[n] \in T}
  <1>2. 0 \in N
    OBVIOUS
  <1>3. ASSUME NEW n \in Nat, n \in N
        PROVE  n + 1 \in N
    <2> SUFFICES ASSUME n + 1 <= Len(s)
                 PROVE  f[n + 1] \in T
      OBVIOUS
    <2>1. f[n] \in T /\ n + 1 \in 1 .. Len(s) /\ (n + 1) - 1 = n
      BY <1>1, <1>3
    <2>2. f[n + 1] = turn[<<f[n], s[n + 1]>>] /\ s[n + 1] \in S
      BY <1>1, <2>1
    <2> QED  BY <2>1, <2>2
  <1>4. Nat \subseteq N
    <2> HIDE DEF N
    <2> QED  BY <1>2, <1>3, SetInduction
  <1>5. \A k \in 0 .. Len(s) : f[k] \in T
    BY <1>1, <1>4
  <1>6. ASSUME NEW k \in 1 .. Len(s)
        PROVE  f[k] = turn[<<f[k - 1], s[k]>>]
    <2>1. k - 1 \in 0 .. Len(s)
      BY <1>1
    <2> QED  BY <1>5, <2>1
  <1> QED  BY <1>5, <1>6 DEF Loops

\* A loop over one more element goes one round further.
LEMMA LoopAppends ==
    ASSUME NEW T, NEW S, NEW turn, NEW base, NEW s \in Seq(S), NEW x \in S, NEW f, NEW g,
           IsTurn(T, S, turn, base),
           Loops(f, base, turn, s), Loops(g, base, turn, Append(s, x))
    PROVE  g[Len(Append(s, x))] = turn[<<f[Len(s)], x>>]
  <1>1. Len(s) \in Nat /\ Len(Append(s, x)) = Len(s) + 1 /\ Append(s, x)[Len(s) + 1] = x
    BY AppendProperties, LenProperties
  <1>2. \A k \in 1 .. Len(s) : Append(s, x)[k] = s[k]
    BY AppendProperties, LenProperties
  <1> DEFINE N == {n \in Nat : n <= Len(s) => g[n] = f[n]}
  <1>3. 0 \in N
    BY DEF Loops
  <1>4. ASSUME NEW n \in Nat, n \in N
        PROVE  n + 1 \in N
    <2> SUFFICES ASSUME n + 1 <= Len(s)
                 PROVE  g[n + 1] = f[n + 1]
      OBVIOUS
    <2>1. /\ n + 1 \in 1 .. Len(s) /\ n + 1 \in 1 .. Len(Append(s, x))
          /\ (n + 1) - 1 = n /\ g[n] = f[n]
      BY <1>1, <1>4
    <2>2. f[n + 1] = turn[<<f[n], s[n + 1]>>] /\ g[n + 1] = turn[<<g[n], Append(s, x)[n + 1]>>]
      BY <2>1 DEF Loops
    <2> QED  BY <1>2, <2>1, <2>2
  <1>5. Nat \subseteq N
    <2> HIDE DEF N
    <2> QED  BY <1>3, <1>4, SetInduction
  <1>6. g[Len(s)] = f[Len(s)]
    BY <1>1, <1>5
  <1>7. Len(s) + 1 \in 1 .. Len(Append(s, x)) /\ (Len(s) + 1) - 1 = Len(s)
    BY <1>1
  <1> QED  BY <1>1, <1>6, <1>7 DEF Loops

(***************************************************************************)
(* Sequences.                                                              *)
(***************************************************************************)
\* What holds of the empty sequence, and of a sequence with one element more
\* where it holds of the sequence, holds of every sequence.
LEMMA SeqInduction ==
    ASSUME NEW S, NEW G, <<>> \in G, \A s \in Seq(S), x \in S : s \in G => Append(s, x) \in G
    PROVE  Seq(S) \subseteq G
  <1> DEFINE N == {n \in Nat : \A s \in Seq(S) : Len(s) = n => s \in G}
  <1>1. 0 \in N
    BY EmptySeq
  <1>2. ASSUME NEW n \in Nat, n \in N
        PROVE  n + 1 \in N
    <2> SUFFICES ASSUME NEW s \in Seq(S), Len(s) = n + 1
                 PROVE  s \in G
      OBVIOUS
    <2>1. s # <<>>
      BY EmptySeq
    <2>2. PICK t \in Seq(S), x \in S : s = Append(t, x)
      BY <2>1, SequenceEmptyOrAppend
    <2>3. Len(s) = Len(t) + 1 /\ Len(t) \in Nat
      BY <2>2, AppendProperties, LenProperties
    <2>4. Len(t) = n
      BY <2>3
    <2> QED  BY <1>2, <2>2, <2>4
  <1>3. Nat \subseteq N
    <2> HIDE DEF N
    <2> QED  BY <1>1, <1>2, SetInduction
  <1> QED  BY <1>3, LenProperties

\* One element more at the end of two sequences.
LEMMA ConcatAppends ==
    ASSUME NEW S, NEW s \in Seq(S), NEW t \in Seq(S), NEW x \in S
    PROVE  s \o Append(t, x) = Append(s \o t, x)
  <1>1. <<x>> \in Seq(S)
    OBVIOUS
  <1>2. s \o t \in Seq(S) /\ Append(t, x) = t \o <<x>>
    BY ConcatProperties, AppendIsConcat
  <1>3. Append(s \o t, x) = (s \o t) \o <<x>>
    BY <1>2, AppendIsConcat
  <1> QED  BY <1>1, <1>2, <1>3, ConcatAssociative

\* The sequences of a sequence of sequences, joined by a loop.
LEMMA FlattenIsLoop ==
    ASSUME NEW X, NEW ss \in Seq(Seq(X))
    PROVE  \E h : /\ Loops(h, <<>>, [p \in Seq(X) \X Seq(X) |-> p[1] \o p[2]], ss)
                  /\ FlattenSeq(ss) = h[Len(ss)]
                  /\ h[Len(ss)] \in Seq(X)
  <1> DEFINE T == Seq(X)
             turn == [p \in T \X T |-> p[1] \o p[2]]
             L == Len(ss)
             Goes(g) == g = [i \in 1 .. L |-> IF i = 1 THEN ss[i] ELSE g[i - 1] \o ss[i]]
             flatten == CHOOSE g : Goes(g)
  <1>1. turn \in [T \X T -> T] /\ <<>> \in T
    BY ConcatProperties, EmptySeq
  <1>2. L \in Nat /\ \A k \in 1 .. L : ss[k] \in T
    BY LenProperties, ElementOfSeq
  <1>3. \A a, b \in T : turn[<<a, b>>] = a \o b
    OBVIOUS
  <1> HIDE DEF turn
  <1>4. PICK f \in [0 .. L -> T] : Loops(f, <<>>, turn, ss)
    BY <1>1, LoopExists
  <1>5. CASE L = 0
    <2>1. ss = <<>>
      BY <1>5, EmptySeq
    <2>2. FlattenSeq(ss) = <<>>
      BY <1>5, <2>1 DEF FlattenSeq
    <2>3. f[0] = <<>>
      BY <1>4 DEF Loops
    <2> QED  BY <1>1, <1>4, <1>5, <2>2, <2>3 DEF turn
  <1>6. CASE L # 0
    <2>1. FlattenSeq(ss) = flatten[L]
      BY <1>6 DEF FlattenSeq
    <2>2. Goes([i \in 1 .. L |-> f[i]])
      <3> DEFINE g == [i \in 1 .. L |-> f[i]]
      <3>1. ASSUME NEW i \in 1 .. L
            PROVE  g[i] = IF i = 1 THEN ss[i] ELSE g[i - 1] \o ss[i]
        <4>1. f[i] = turn[<<f[i - 1], ss[i]>>]
          BY <1>4 DEF Loops
        <4>6. i - 1 \in 0 .. L
          BY <1>2
        <4>5. f[i - 1] \in T
          BY <1>4, <4>6
        <4>2. f[i] = f[i - 1] \o ss[i]
          BY <1>2, <1>3, <4>1, <4>5
        <4>3. CASE i = 1
          <5>1. f[i - 1] = <<>>
            BY <1>4, <4>3 DEF Loops
          <5> QED  BY <1>2, <4>2, <4>3, <5>1, ConcatEmptySeq
        <4>4. CASE i # 1
          <5>1. i - 1 \in 1 .. L
            BY <4>4
          <5> QED  BY <4>2, <4>4, <5>1
        <4> QED  BY <4>3, <4>4
      <3>2. g = [i \in 1 .. L |-> g[i]]
        OBVIOUS
      <3> HIDE DEF g
      <3>3. Goes(g)
        BY <3>1, <3>2
      <3> QED  BY <3>3 DEF g
    <2>3. Goes(flatten)
      BY <2>2
    <2> HIDE DEF flatten
    <2> DEFINE h == [k \in 0 .. L |-> IF k = 0 THEN <<>> ELSE flatten[k]]
    <2>4. h[0] = <<>>
      BY <1>2
    <2>5. ASSUME NEW k \in 1 .. L, h[k - 1] \in T
          PROVE  h[k] = turn[<<h[k - 1], ss[k]>>]
      <3>1. k \in 0 .. L /\ k # 0 /\ k - 1 \in 0 .. L
        BY <1>2
      <3>2. h[k] = flatten[k]
        BY <3>1
      <3>3. turn[<<h[k - 1], ss[k]>>] = h[k - 1] \o ss[k]
        <4> HIDE DEF h
        <4> QED  BY <1>2, <1>3, <2>5
      <3>4. CASE k = 1
        <4>1. h[k - 1] = <<>> /\ flatten[k] = ss[k]
          BY <2>3, <2>4, <3>4
        <4> HIDE DEF h
        <4> QED  BY <1>2, <3>2, <3>3, <4>1, ConcatEmptySeq
      <3>5. CASE k # 1
        <4>1. h[k - 1] = flatten[k - 1]
          BY <3>1, <3>5
        <4>2. flatten[k] = flatten[k - 1] \o ss[k]
          BY <2>3, <3>5
        <4> HIDE DEF h
        <4> QED  BY <3>2, <3>3, <4>1, <4>2
      <3> QED  BY <3>4, <3>5
    <2>6. h[L] = flatten[L] /\ L \in 0 .. L
      BY <1>2, <1>6
    <2> HIDE DEF h
    <2>7. Loops(h, <<>>, turn, ss) /\ \A k \in 0 .. L : h[k] \in T
      <3> DEFINE base == <<>>
      <3>1. base \in T /\ h[0] = base /\ ss \in Seq(T)
        BY <1>1, <2>4
      <3> HIDE DEF base, T
      <3>2. IsTurn(T, T, turn, base) /\ Turns(T, h, base, turn, ss)
        BY <1>1, <2>5, <3>1 DEF IsTurn, Turns
      <3>3. Loops(h, base, turn, ss) /\ \A k \in 0 .. Len(ss) : h[k] \in T
        BY <3>1, <3>2, LoopIsTyped
      <3> QED  BY <3>3 DEF base
    <2> QED  BY <2>1, <2>6, <2>7 DEF turn
  <1> QED  BY <1>5, <1>6

\* Joining one more sequence appends it.
LEMMA FlattenAppends ==
    ASSUME NEW X
    PROVE  /\ FlattenSeq(<<>>) = <<>>
           /\ \A ss \in Seq(Seq(X)) : FlattenSeq(ss) \in Seq(X)
           /\ \A ss \in Seq(Seq(X)), s \in Seq(X) :
                 FlattenSeq(Append(ss, s)) = FlattenSeq(ss) \o s
  <1>1. FlattenSeq(<<>>) = <<>>
    BY EmptySeq DEF FlattenSeq
  <1>2. \A ss \in Seq(Seq(X)) : FlattenSeq(ss) \in Seq(X)
    BY FlattenIsLoop
  <1>3. ASSUME NEW ss \in Seq(Seq(X)), NEW s \in Seq(X)
        PROVE  FlattenSeq(Append(ss, s)) = FlattenSeq(ss) \o s
    <2> DEFINE T == Seq(X)
               turn == [p \in T \X T |-> p[1] \o p[2]]
    <2>1. turn \in [T \X T -> T] /\ <<>> \in T
      BY ConcatProperties, EmptySeq
    <2>2. \A a, b \in T : turn[<<a, b>>] = a \o b
      OBVIOUS
    <2>3. PICK f : Loops(f, <<>>, turn, ss) /\ FlattenSeq(ss) = f[Len(ss)] /\ f[Len(ss)] \in T
      BY FlattenIsLoop
    <2>4. Append(ss, s) \in Seq(T)
      BY AppendProperties
    <2>5. PICK g : Loops(g, <<>>, turn, Append(ss, s))
                   /\ FlattenSeq(Append(ss, s)) = g[Len(Append(ss, s))]
      BY <2>4, FlattenIsLoop
    <2> HIDE DEF turn, T
    <2>6. s \in T /\ ss \in Seq(T)
      BY DEF T
    <2>7. g[Len(Append(ss, s))] = turn[<<f[Len(ss)], s>>]
      <3> DEFINE base == <<>>
      <3>1. base \in T /\ Loops(f, base, turn, ss) /\ Loops(g, base, turn, Append(ss, s))
        BY <2>1, <2>3, <2>5
      <3>2. IsTurn(T, T, turn, base)
        BY <2>1 DEF IsTurn
      <3> HIDE DEF base
      <3> QED  BY <2>6, <3>1, <3>2, LoopAppends
    <2> QED  BY <2>2, <2>3, <2>5, <2>6, <2>7
  <1> QED  BY <1>1, <1>2, <1>3

\* Joining two sequences of sequences joins what they join to.
LEMMA FlattenJoins ==
    ASSUME NEW X, NEW ss \in Seq(Seq(X)), NEW tt \in Seq(Seq(X))
    PROVE  FlattenSeq(ss \o tt) = FlattenSeq(ss) \o FlattenSeq(tt)
  <1> DEFINE T == Seq(X)
             G == {t \in Seq(T) : FlattenSeq(ss \o t) = FlattenSeq(ss) \o FlattenSeq(t)}
  <1>1. \A t \in Seq(T) : FlattenSeq(t) \in T
    BY FlattenAppends
  <1>2. \A t \in Seq(T), x \in T : FlattenSeq(Append(t, x)) = FlattenSeq(t) \o x
    BY FlattenAppends
  <1>3. <<>> \in G
    <2>1. ss \o <<>> = ss /\ FlattenSeq(<<>>) = <<>> /\ <<>> \in Seq(T)
      BY ConcatEmptySeq, FlattenAppends, EmptySeq
    <2>2. FlattenSeq(ss) \o <<>> = FlattenSeq(ss)
      BY <1>1, ConcatEmptySeq
    <2> QED  BY <2>1, <2>2
  <1>4. ASSUME NEW t \in Seq(T), NEW x \in T, t \in G
        PROVE  Append(t, x) \in G
    <2>1. ss \o Append(t, x) = Append(ss \o t, x) /\ ss \o t \in Seq(T)
      BY ConcatAppends, ConcatProperties
    <2>2. FlattenSeq(Append(ss \o t, x)) = FlattenSeq(ss \o t) \o x
      BY <1>2, <2>1
    <2>3. FlattenSeq(ss \o t) = FlattenSeq(ss) \o FlattenSeq(t)
      BY <1>4
    <2>4. (FlattenSeq(ss) \o FlattenSeq(t)) \o x = FlattenSeq(ss) \o (FlattenSeq(t) \o x)
      BY <1>1, ConcatAssociative
    <2>5. FlattenSeq(Append(t, x)) = FlattenSeq(t) \o x /\ Append(t, x) \in Seq(T)
      BY <1>2, AppendProperties
    <2> QED  BY <2>1, <2>2, <2>3, <2>4, <2>5
  <1>5. Seq(T) \subseteq G
    <2> HIDE DEF G, T
    <2> QED  BY <1>3, <1>4, SeqInduction
  <1> QED  BY <1>5

\* What is in the joined sequence is in one of those it joins.
LEMMA FlattenRange ==
    ASSUME NEW X, NEW ss \in Seq(Seq(X))
    PROVE  Range(FlattenSeq(ss)) = UNION {Range(ss[i]) : i \in 1 .. Len(ss)}
  <1> DEFINE T == Seq(X)
             All(s) == UNION {Range(s[i]) : i \in 1 .. Len(s)}
             G == {s \in Seq(T) : Range(FlattenSeq(s)) = All(s)}
  <1>1. <<>> \in G
    <2>1. Range(<<>>) = {} /\ Len(<<>>) = 0 /\ <<>> \in Seq(T) /\ FlattenSeq(<<>>) = <<>>
      BY EmptySeq, FlattenAppends DEF Range
    <2> QED  BY <2>1
  <1>2. ASSUME NEW s \in Seq(T), NEW x \in T, s \in G
        PROVE  Append(s, x) \in G
    <2>1. FlattenSeq(Append(s, x)) = FlattenSeq(s) \o x /\ FlattenSeq(s) \in T
      BY FlattenAppends
    <2>2. Range(FlattenSeq(s) \o x) = Range(FlattenSeq(s)) \union Range(x)
      BY <2>1, RangeConcatenation
    <2>3. /\ Append(s, x) \in Seq(T) /\ Len(Append(s, x)) = Len(s) + 1 /\ Len(s) \in Nat
          /\ \A i \in 1 .. Len(s) : Append(s, x)[i] = s[i]
          /\ Append(s, x)[Len(s) + 1] = x
      BY AppendProperties, LenProperties
    <2>4. All(Append(s, x)) = All(s) \union Range(x)
      <3>1. 1 .. Len(Append(s, x)) = (1 .. Len(s)) \union {Len(s) + 1}
        BY <2>3
      <3> QED  BY <2>3, <3>1
    <2> QED  BY <1>2, <2>1, <2>2, <2>3, <2>4
  <1>3. Seq(T) \subseteq G
    <2> HIDE DEF G, T
    <2> QED  BY <1>1, <1>2, SeqInduction
  <1> QED  BY <1>3

\* The words of lines are those of each line, one after another.
LEMMA WordsAppend ==
    ASSUME NEW R, NEW X, \A l \in R : LineWords(l) \in Seq(X)
    PROVE  /\ Words(<<>>) = <<>>
           /\ \A ls \in Seq(R) : Words(ls) \in Seq(X)
           /\ \A ls \in Seq(R), l \in R : Words(Append(ls, l)) = Words(ls) \o LineWords(l)
  <1> DEFINE each(ls) == [i \in DOMAIN ls |-> LineWords(ls[i])]
  <1>1. ASSUME NEW ls \in Seq(R)
        PROVE  each(ls) \in Seq(Seq(X)) /\ Len(each(ls)) = Len(ls)
    <2>1. Len(ls) \in Nat /\ DOMAIN ls = 1 .. Len(ls) /\ \A i \in 1 .. Len(ls) : ls[i] \in R
      BY LenProperties, ElementOfSeq
    <2>2. each(ls) \in [1 .. Len(ls) -> Seq(X)]
      BY <2>1
    <2> HIDE DEF each
    <2> QED  BY <2>1, <2>2, SeqDef, LenProperties
  <1>2. Words(<<>>) = <<>>
    <2>1. each(<<>>) = <<>>
      OBVIOUS
    <2> QED  BY <2>1, FlattenAppends DEF Words
  <1>3. \A ls \in Seq(R) : Words(ls) \in Seq(X)
    BY <1>1, FlattenAppends DEF Words
  <1>4. ASSUME NEW ls \in Seq(R), NEW l \in R
        PROVE  Words(Append(ls, l)) = Words(ls) \o LineWords(l)
    <2>1. /\ Append(ls, l) \in Seq(R) /\ Len(Append(ls, l)) = Len(ls) + 1 /\ Len(ls) \in Nat
          /\ \A i \in 1 .. Len(ls) : Append(ls, l)[i] = ls[i]
          /\ Append(ls, l)[Len(ls) + 1] = l
          /\ DOMAIN Append(ls, l) = 1 .. Len(ls) + 1 /\ DOMAIN ls = 1 .. Len(ls)
      BY AppendProperties, LenProperties
    <2>2. /\ each(ls) \in Seq(Seq(X)) /\ Len(each(ls)) = Len(ls)
          /\ each(Append(ls, l)) \in Seq(Seq(X)) /\ Len(each(Append(ls, l))) = Len(ls) + 1
      BY <1>1, <2>1
    <2>3. \A i \in 1 .. Len(ls) : each(Append(ls, l))[i] = each(ls)[i]
      BY <2>1
    <2>4. each(Append(ls, l))[Len(ls) + 1] = LineWords(l)
      BY <2>1
    <2> DEFINE a == each(Append(ls, l))
               b == each(ls)
    <2> HIDE DEF each
    <2>5. LineWords(l) \in Seq(X)
      OBVIOUS
    <2>6. /\ Append(b, LineWords(l)) \in Seq(Seq(X)) /\ Len(Append(b, LineWords(l))) = Len(b) + 1
          /\ \A i \in 1 .. Len(b) : Append(b, LineWords(l))[i] = b[i]
          /\ Append(b, LineWords(l))[Len(b) + 1] = LineWords(l)
      BY <2>2, <2>5, AppendProperties
    <2>7. a = Append(b, LineWords(l))
      <3>1. \A i \in 1 .. Len(ls) + 1 : i = Len(ls) + 1 \/ i \in 1 .. Len(ls)
        BY <2>1
      <3>2. \A i \in 1 .. Len(a) : a[i] = Append(b, LineWords(l))[i]
        BY <2>2, <2>3, <2>4, <2>6, <3>1
      <3>3. a \in Seq(Seq(X)) /\ Len(a) = Len(Append(b, LineWords(l)))
        BY <2>2, <2>6
      <3> HIDE DEF a, b
      <3> QED  BY <2>6, <3>2, <3>3, SeqEqual
    <2>8. FlattenSeq(Append(b, LineWords(l))) = FlattenSeq(b) \o LineWords(l)
      BY <2>2, <2>5, FlattenAppends
    <2>9. Words(Append(ls, l)) = FlattenSeq(a) /\ Words(ls) = FlattenSeq(b)
      BY DEF Words, each
    <2> QED  BY <2>7, <2>8, <2>9
  <1> QED  BY <1>2, <1>3, <1>4

\* The words of two runs of lines are those of one after the other.
LEMMA WordsJoin ==
    ASSUME NEW R, NEW X, \A l \in R : LineWords(l) \in Seq(X), NEW ls \in Seq(R), NEW ms \in Seq(R)
    PROVE  Words(ls \o ms) = Words(ls) \o Words(ms)
  <1> DEFINE G == {m \in Seq(R) : Words(ls \o m) = Words(ls) \o Words(m)}
  <1>1. /\ Words(<<>>) = <<>>
        /\ \A m \in Seq(R) : Words(m) \in Seq(X)
        /\ \A m \in Seq(R), l \in R : Words(Append(m, l)) = Words(m) \o LineWords(l)
    BY WordsAppend
  <1>2. <<>> \in G
    <2>1. ls \o <<>> = ls /\ <<>> \in Seq(R)
      BY ConcatEmptySeq, EmptySeq
    <2>2. Words(ls) \o <<>> = Words(ls)
      BY <1>1, ConcatEmptySeq
    <2> QED  BY <1>1, <2>1, <2>2
  <1>3. ASSUME NEW m \in Seq(R), NEW l \in R, m \in G
        PROVE  Append(m, l) \in G
    <2>1. ls \o Append(m, l) = Append(ls \o m, l) /\ ls \o m \in Seq(R) /\ Append(m, l) \in Seq(R)
      BY ConcatAppends, ConcatProperties, AppendProperties
    <2>2. Words(Append(ls \o m, l)) = (Words(ls) \o Words(m)) \o LineWords(l)
      BY <1>1, <1>3, <2>1
    <2>3. (Words(ls) \o Words(m)) \o LineWords(l) = Words(ls) \o (Words(m) \o LineWords(l))
      <3> DEFINE a == Words(ls)
                 b == Words(m)
                 c == LineWords(l)
      <3>1. a \in Seq(X) /\ b \in Seq(X) /\ c \in Seq(X)
        BY <1>1
      <3> HIDE DEF a, b, c
      <3>2. (a \o b) \o c = a \o (b \o c)
        BY <3>1, ConcatAssociative
      <3> QED  BY <3>2 DEF a, b, c
    <2> QED  BY <1>1, <2>1, <2>2, <2>3
  <1>4. Seq(R) \subseteq G
    <2> HIDE DEF G
    <2> QED  BY <1>2, <1>3, SeqInduction
  <1> QED  BY <1>4

\* The words of lines are the words of each of them.
LEMMA WordsRange ==
    ASSUME NEW R, NEW X, \A l \in R : LineWords(l) \in Seq(X), NEW ls \in Seq(R)
    PROVE  Range(Words(ls)) = UNION {Range(LineWords(l)) : l \in Range(ls)}
  <1> DEFINE All(s) == UNION {Range(LineWords(l)) : l \in Range(s)}
             G == {s \in Seq(R) : Range(Words(s)) = All(s)}
  <1>1. /\ Words(<<>>) = <<>>
        /\ \A m \in Seq(R) : Words(m) \in Seq(X)
        /\ \A m \in Seq(R), l \in R : Words(Append(m, l)) = Words(m) \o LineWords(l)
    BY WordsAppend
  <1>2. <<>> \in G
    <2>1. Range(<<>>) = {} /\ <<>> \in Seq(R)
      BY EmptySeq DEF Range
    <2> QED  BY <1>1, <2>1
  <1>3. ASSUME NEW s \in Seq(R), NEW l \in R, s \in G
        PROVE  Append(s, l) \in G
    <2>1. Words(Append(s, l)) = Words(s) \o LineWords(l) /\ Words(s) \in Seq(X)
      BY <1>1
    <2>2. Range(Words(Append(s, l))) = Range(Words(s)) \union Range(LineWords(l))
      BY <2>1, RangeConcatenation
    <2>3. Append(s, l) \in Seq(R) /\ Append(s, l) = s \o <<l>> /\ <<l>> \in Seq(R)
      BY AppendProperties, AppendIsConcat
    <2>4. Range(Append(s, l)) = Range(s) \union {l}
      <3>1. Range(s \o <<l>>) = Range(s) \union Range(<<l>>)
        BY <2>3, RangeConcatenation
      <3>2. Range(<<l>>) = {l}
        BY DEF Range
      <3> QED  BY <2>3, <3>1, <3>2
    <2>5. All(Append(s, l)) = All(s) \union Range(LineWords(l))
      BY <2>4
    <2> QED  BY <1>3, <2>2, <2>3, <2>5
  <1>4. Seq(R) \subseteq G
    <2> HIDE DEF G
    <2> QED  BY <1>2, <1>3, SeqInduction
  <1> QED  BY <1>4

(***************************************************************************)
(* Places, counted.                                                        *)
(***************************************************************************)
\* How many of the places are up to i.
Count(S, i) == Cardinality({j \in S : j <= i})

\* How many places there are up to a number grows by one at each place.
LEMMA CountSteps ==
    ASSUME NEW N \in Nat, NEW S \in SUBSET (1 .. N)
    PROVE  /\ \A i \in Nat : Count(S, i) \in Nat
           /\ Count(S, 0) = 0 /\ Count(S, N) = Cardinality(S) /\ Cardinality(S) \in Nat
           /\ \A i \in Nat : Count(S, i + 1) = IF i + 1 \in S THEN Count(S, i) + 1 ELSE Count(S, i)
           /\ \A i, k \in Nat : i <= k => Count(S, i) <= Count(S, k)
           /\ \A j \in S : j \in Nat /\ 1 <= j /\ j <= N
  <1>0. \A j \in S : j \in Nat /\ 1 <= j /\ j <= N
    <2>1. \A j \in 1 .. N : j \in Nat /\ 1 <= j /\ j <= N
      OBVIOUS
    <2> QED  BY <2>1
  <1>1. IsFiniteSet(S)
    <2>1. IsFiniteSet(1 .. N)
      BY FS_Interval
    <2> QED  BY <2>1, FS_Subset
  <1>2. \A i \in Nat : IsFiniteSet({j \in S : j <= i}) /\ Count(S, i) \in Nat
    <2> TAKE i \in Nat
    <2>1. {j \in S : j <= i} \subseteq S
      OBVIOUS
    <2>2. IsFiniteSet({j \in S : j <= i})
      BY <1>1, <2>1, FS_Subset
    <2> QED  BY <2>2, FS_CardinalityType DEF Count
  <1>3. Count(S, 0) = 0 /\ Count(S, N) = Cardinality(S)
    <2>1. \A j \in S : ~(j <= 0)
      BY <1>0
    <2>2. \A j \in S : j <= N
      BY <1>0
    <2>3. {j \in S : j <= 0} = {} /\ {j \in S : j <= N} = S
      BY <2>1, <2>2
    <2> QED  BY <2>3, FS_EmptySet DEF Count
  <1>4. ASSUME NEW i \in Nat
        PROVE  Count(S, i + 1) = IF i + 1 \in S THEN Count(S, i) + 1 ELSE Count(S, i)
    <2>1. CASE i + 1 \in S
      <3>3. \A j \in S : j <= i + 1 <=> j <= i \/ j = i + 1
        BY <1>0
      <3>1. {j \in S : j <= i + 1} = {j \in S : j <= i} \union {i + 1}
        BY <2>1, <3>3
      <3>2. i + 1 \notin {j \in S : j <= i}
        OBVIOUS
      <3> QED  BY <1>2, <2>1, <3>1, <3>2, FS_AddElement DEF Count
    <2>2. CASE i + 1 \notin S
      <3>2. \A j \in S : j <= i + 1 <=> j <= i
        BY <1>0, <2>2
      <3>1. {j \in S : j <= i + 1} = {j \in S : j <= i}
        BY <3>2
      <3> QED  BY <2>2, <3>1 DEF Count
    <2> QED  BY <2>1, <2>2
  <1>5. ASSUME NEW i \in Nat, NEW k \in Nat, i <= k
        PROVE  Count(S, i) <= Count(S, k)
    <2>1. {j \in S : j <= i} \subseteq {j \in S : j <= k}
      <3>1. \A j \in S : j <= i => j <= k
        BY <1>0, <1>5
      <3> QED  BY <3>1
    <2> QED  BY <1>2, <2>1, FS_Subset DEF Count
  <1>6. Cardinality(S) \in Nat
    BY <1>1, FS_CardinalityType
  <1> QED  BY <1>0, <1>2, <1>3, <1>4, <1>5, <1>6

\* A place counts more than any before it.
LEMMA CountIncreases ==
    ASSUME NEW N \in Nat, NEW S \in SUBSET (1 .. N), NEW k \in S, NEW i \in Nat, i < k
    PROVE  Count(S, i) < Count(S, k)
  <1>1. k \in Nat /\ k - 1 \in Nat /\ (k - 1) + 1 = k /\ i <= k - 1
    <2>1. k \in Nat /\ 1 <= k
      BY CountSteps
    <2> QED  BY <2>1
  <1>2. Count(S, k) = Count(S, k - 1) + 1
    <2>1. \A j \in Nat : j + 1 \in S => Count(S, j + 1) = Count(S, j) + 1
      BY CountSteps
    <2>2. k - 1 + 1 \in S
      BY <1>1
    <2> QED  BY <1>1, <2>1, <2>2
  <1>3. Count(S, i) <= Count(S, k - 1) /\ Count(S, i) \in Nat /\ Count(S, k - 1) \in Nat
    BY <1>1, CountSteps
  <1> QED  BY <1>2, <1>3

\* The n-th place is one, and has n places up to it.
LEMMA NthCounts ==
    ASSUME NEW N \in Nat, NEW S \in SUBSET (1 .. N), NEW n \in 1 .. Cardinality(S)
    PROVE  Nth(S, n) \in S /\ Count(S, Nth(S, n)) = n
  <1> DEFINE D == {i \in Nat : n <= Count(S, i)}
  <1>0. Cardinality(S) \in Nat /\ n \in Nat /\ n >= 1
    BY CountSteps
  <1>1. N \in D /\ D \in SUBSET Nat
    <2>1. Count(S, N) = Cardinality(S)
      BY CountSteps
    <2>2. n <= Count(S, N)
      BY <1>0, <2>1
    <2> QED  BY <2>2
  <1>2. Min(D) \in D /\ \A x \in D : Min(D) <= x
    BY <1>1, LeastExists
  <1> DEFINE i == Min(D)
  <1>3. i \in Nat /\ n <= Count(S, i) /\ i # 0
    <2>1. i \in Nat /\ n <= Count(S, i)
      BY <1>2
    <2>2. Count(S, 0) = 0
      BY CountSteps
    <2> HIDE DEF i
    <2> QED  BY <1>0, <2>1, <2>2
  <1> HIDE DEF i
  <1>4. i - 1 \in Nat /\ (i - 1) + 1 = i
    BY <1>3
  <1>5. ~(n <= Count(S, i - 1))
    BY <1>2, <1>4 DEF i
  <1>6. i \in S /\ Count(S, i) = Count(S, i - 1) + 1 /\ Count(S, i - 1) \in Nat
    <2>1. \A j \in Nat : Count(S, j + 1) = IF j + 1 \in S THEN Count(S, j) + 1 ELSE Count(S, j)
      BY CountSteps
    <2>2. Count(S, i) = IF i \in S THEN Count(S, i - 1) + 1 ELSE Count(S, i - 1)
      BY <1>4, <2>1
    <2>3. Count(S, i - 1) \in Nat
      BY <1>4, CountSteps
    <2> QED  BY <1>3, <1>5, <2>2, <2>3
  <1>7. Count(S, i) = n
    BY <1>0, <1>3, <1>5, <1>6
  <1> QED  BY <1>6, <1>7 DEF Nth, Count

\* Places are numbered in their order, without a gap.
LEMMA NthOrders ==
    ASSUME NEW N \in Nat, NEW S \in SUBSET (1 .. N)
    PROVE  /\ \A j \in S : Count(S, j) \in 1 .. Cardinality(S) /\ Nth(S, Count(S, j)) = j
           /\ \A m, n \in 1 .. Cardinality(S) : m < n <=> Nth(S, m) < Nth(S, n)
           /\ \A n \in 1 .. Cardinality(S), i \in Nat :
                 (Nth(S, n) <= i /\ \A j \in S : j <= i => j <= Nth(S, n)) <=> Count(S, i) = n
  <1>1. ASSUME NEW j \in S
        PROVE  Count(S, j) \in 1 .. Cardinality(S) /\ Nth(S, Count(S, j)) = j
    <2>1. j \in Nat /\ 0 < j /\ j <= N
      BY CountSteps
    <2>2. Count(S, 0) < Count(S, j) /\ Count(S, 0) = 0
      BY <2>1, CountIncreases, CountSteps
    <2>3. Count(S, j) <= Cardinality(S) /\ Cardinality(S) \in Nat /\ Count(S, j) \in Nat
      BY <2>1, CountSteps
    <2>4. Count(S, j) \in 1 .. Cardinality(S)
      BY <2>2, <2>3
    <2>5. Nth(S, Count(S, j)) \in S /\ Count(S, Nth(S, Count(S, j))) = Count(S, j)
      BY <2>4, NthCounts
    <2> DEFINE k == Nth(S, Count(S, j))
    <2>6. ~(k < j) /\ ~(j < k)
      <3>1. k \in S /\ j \in S /\ k \in Nat /\ j \in Nat /\ Count(S, k) = Count(S, j)
        BY <2>5, CountSteps
      <3>2. Count(S, j) \in Nat
        BY <2>3
      <3> HIDE DEF k
      <3>3. k < j => Count(S, k) < Count(S, j)
        BY <3>1, CountIncreases
      <3>4. j < k => Count(S, j) < Count(S, k)
        BY <3>1, CountIncreases
      <3> QED  BY <3>1, <3>2, <3>3, <3>4
    <2>7. k \in Nat /\ j \in Nat
      BY <2>5, CountSteps
    <2>8. k = j
      <3> HIDE DEF k
      <3> QED  BY <2>6, <2>7
    <2> QED  BY <2>4, <2>8
  <1>2. ASSUME NEW m \in 1 .. Cardinality(S), NEW n \in 1 .. Cardinality(S)
        PROVE  m < n <=> Nth(S, m) < Nth(S, n)
    <2>1. /\ Nth(S, m) \in S /\ Count(S, Nth(S, m)) = m
          /\ Nth(S, n) \in S /\ Count(S, Nth(S, n)) = n
      BY NthCounts
    <2>2. Nth(S, m) \in Nat /\ Nth(S, n) \in Nat /\ m \in Nat /\ n \in Nat
      BY <2>1, CountSteps
    <2>3. Nth(S, m) < Nth(S, n) => m < n
      BY <2>1, <2>2, CountIncreases
    <2>4. Nth(S, n) <= Nth(S, m) => n <= m
      <3>1. \A i, k \in Nat : i <= k => Count(S, i) <= Count(S, k)
        BY CountSteps
      <3> QED  BY <2>1, <2>2, <3>1
    <2> QED  BY <2>2, <2>3, <2>4
  <1>3. ASSUME NEW n \in 1 .. Cardinality(S), NEW i \in Nat
        PROVE  (Nth(S, n) <= i /\ \A j \in S : j <= i => j <= Nth(S, n)) <=> Count(S, i) = n
    <2>1. Nth(S, n) \in S /\ Count(S, Nth(S, n)) = n /\ Nth(S, n) \in Nat /\ n \in Nat
      BY NthCounts, CountSteps
    <2>2. ASSUME Nth(S, n) <= i, \A j \in S : j <= i => j <= Nth(S, n)
          PROVE  Count(S, i) = n
      <3>2. \A j \in S : j <= i <=> j <= Nth(S, n)
        <4>1. \A j \in S : j \in Nat
          BY CountSteps
        <4> QED  BY <2>1, <2>2, <4>1
      <3>1. {j \in S : j <= i} = {j \in S : j <= Nth(S, n)}
        BY <3>2
      <3> QED  BY <2>1, <3>1 DEF Count
    <2>3. ASSUME Count(S, i) = n
          PROVE  Nth(S, n) <= i /\ \A j \in S : j <= i => j <= Nth(S, n)
      <3>1. i < Nth(S, n) => Count(S, i) < n
        BY <2>1, CountIncreases
      <3>2. Nth(S, n) <= i
        BY <2>1, <2>3, <3>1
      <3>3. ASSUME NEW j \in S, j <= i, ~(j <= Nth(S, n))
            PROVE  FALSE
        <4>1. j \in Nat /\ Nth(S, n) < j
          BY <2>1, <3>3
        <4>2. n < Count(S, j)
          BY <2>1, <4>1, CountIncreases
        <4>3. Count(S, j) <= Count(S, i) /\ Count(S, j) \in Nat
          BY <3>3, <4>1, CountSteps
        <4> QED  BY <2>1, <2>3, <4>2, <4>3
      <3> QED  BY <3>2, <3>3
    <2> QED  BY <2>2, <2>3
  <1> QED  BY <1>1, <1>2, <1>3

(***************************************************************************)
(* The text: its lines are given ones and page breaks, its parts come in   *)
(* order, and each opens as it should.                                     *)
(***************************************************************************)
TextLines(t) == LinesGiven(t) \union Range(PageBreak)

Rank(line) ==
    CASE line.part = "head" -> 1
      [] line.part = "reasons" -> 2
      [] line.part = "holding" -> 3
      [] line.part = "trailer" -> 4
      [] OTHER -> 5

PartsInOrder ==
    \A i, j \in DOMAIN text :
        i < j /\ text[i].part # "page" /\ text[j].part # "page" =>
            Rank(text[i]) <= Rank(text[j])

HoldingOpens ==
    \A i \in DOMAIN text : text[i].part = "holding" =>
        (text[i].kind = "heading" <=> \A j \in 1 .. i - 1 : text[j].part # "holding")

AppendixOpens ==
    \A i \in DOMAIN text :
        text[i].part = "appendix" /\ (\A j \in 1 .. i - 1 : text[j].part # "appendix") =>
            text[i].kind = "label"

\* What is wrapped under the subject line follows it, or a page break does.
ProseFollowsSubject ==
    \A i \in DOMAIN text : text[i].part = "trailer" /\ text[i].kind = "prose" =>
        /\ i > 1 /\ text[i - 1].kind \in {"subject", "blank"}
        /\ \E j \in 1 .. i - 1 : text[j].part = "trailer" /\ text[j].kind = "subject"

FieldsOnce ==
    \A i, j \in DOMAIN text :
        /\ text[i].part = "trailer" /\ text[j].part = "trailer"
        /\ text[i].kind = text[j].kind /\ text[i].kind # "prose"
        => i = j

TextHolds ==
    /\ template \in DOMAIN Templates
    /\ text \in Seq(TextLines(template))
    /\ PartsInOrder
    /\ HoldingOpens
    /\ AppendixOpens
    /\ ProseFollowsSubject
    /\ FieldsOnce

\* Nothing was published yet.
DraftHolds ==
    step = "draft" =>
        /\ part \in 1 .. 5 /\ text # <<>>
        /\ text[Len(text)].part = Parts[part]
        /\ \A i \in DOMAIN text : text[i].part # "page"

\* What the pipeline's steps stored, they read off the text.
StepsRan ==
    /\ step \in {"draft", "parsed", "described", "extracted", "chunked"}
    /\ Described =>
          /\ heard.answer \in Given.answers
          /\ columns = Completed(ExtractMetadata(text, heard.headline), heard.answer)
    /\ step \in {"extracted", "chunked"} =>
          \E strategy \in Given.strategies, finding \in Given.findings :
              LET segments == SplitDocument(text)
                  found == Extracted(strategy, segments, finding)
              IN  links = [entities |-> DeduplicateEntities(Inferred(found.entities)
                                            \union DeclaredKeywords(segments.trailer)),
                           references |-> found.references \ OwnIdentifiers,
                           strategy |-> strategy]
    /\ step = "chunked" =>
          \E window \in Given.windows, summary \in Given.summaries :
              /\ VerifyWindow(window)
              /\ LET budget == ComputeBudget(window)
                 IN  passages = [summary |-> TruncateSummary(summary, budget.summary),
                                 chunks |-> SplitDocumentIntoChunks(SplitDocument(text), budget),
                                 budget |-> budget, window |-> window]

Inductive == TextHolds /\ DraftHolds /\ StepsRan

\* What the parts of a text consist of.
LEMMA LineFacts ==
    ASSUME NEW t \in DOMAIN Templates, NEW l \in TextLines(t)
    PROVE  /\ l.part \in {"head", "reasons", "holding", "trailer", "appendix", "page"}
           /\ l.kind \in LineKinds
           /\ l.words \in Seq(Range(l.words))
           /\ l.kind \in {"blank", "rule"} => l.words = <<>>
           /\ l.part \in {"head", "reasons"} => l.kind \in ProseKinds
           /\ l.part = "holding" => l.kind \in ProseKinds \union {"heading"}
           /\ l.part = "trailer" => l.kind \in TrailerFields \union {"prose", "rule"}
           /\ l.part = "page" => l.kind \in {"blank", "rule"}
           /\ l = [kind |-> l.kind, words |-> l.words, part |-> l.part, cites |-> l.cites]
  <1>1. ASSUME NEW where, NEW kinds, IsLine(l, where, kinds), kinds \subseteq LineKinds
        PROVE  /\ l.part = where /\ l.kind \in kinds /\ l.kind \in LineKinds
               /\ l.words \in Seq(Range(l.words))
               /\ l.kind \in {"blank", "rule"} => l.words = <<>>
               /\ l = [kind |-> l.kind, words |-> l.words, part |-> l.part, cites |-> l.cites]
    <2>1. l.part = where
      <3> DEFINE m == [kind |-> l.kind, words |-> l.words, part |-> where, cites |-> l.cites]
      <3>1. m.part = where /\ l = m
        BY <1>1 DEF IsLine
      <3> HIDE DEF m
      <3> QED  BY <3>1
    <2> QED  BY <1>1, <2>1 DEF IsLine
  <1>2. /\ ProseKinds \subseteq LineKinds /\ ProseKinds \union {"heading"} \subseteq LineKinds
        /\ TrailerFields \union {"prose", "rule"} \subseteq LineKinds
    BY DEF ProseKinds, LineKinds, TrailerFields
  <1>3. CASE l \in Range(Templates[t].head)
    <2>1. IsLine(l, "head", ProseKinds)
      BY <1>3, LinesAssumption
    <2> QED  BY <1>1, <1>2, <2>1
  <1>4. CASE l \in Templates[t].lines["reasons"]
    <2>1. IsLine(l, "reasons", ProseKinds)
      BY <1>4, LinesAssumption
    <2> QED  BY <1>1, <1>2, <2>1
  <1>5. CASE l \in Templates[t].lines["holding"]
    <2>1. IsLine(l, "holding", ProseKinds \union {"heading"})
      BY <1>5, LinesAssumption
    <2> QED  BY <1>1, <1>2, <2>1
  <1>6. CASE l \in Templates[t].lines["trailer"]
    <2>1. IsLine(l, "trailer", TrailerFields \union {"prose", "rule"})
      BY <1>6, LinesAssumption
    <2> QED  BY <1>1, <1>2, <2>1
  <1>7. CASE l \in Templates[t].lines["appendix"]
    <2>1. IsLine(l, "appendix", LineKinds)
      BY <1>7, LinesAssumption
    <2> QED  BY <1>1, <1>2, <2>1
  <1>8. CASE l \in Range(PageBreak)
    <2>1. PICK k \in {"blank", "rule"} :
                  l = [kind |-> k, words |-> <<>>, part |-> "page", cites |-> {}]
      BY <1>8 DEF PageBreak, Range
    <2>2. l.kind = k /\ l.words = <<>> /\ l.part = "page" /\ l.cites = {}
      BY <2>1
    <2>3. <<>> \in Seq(Range(<<>>))
      BY EmptySeq
    <2> QED  BY <2>1, <2>2, <2>3 DEF LineKinds
  <1> QED  BY <1>3, <1>4, <1>5, <1>6, <1>7, <1>8 DEF TextLines, LinesGiven, Pieces

\* The lines given for a part are of it.
LEMMA GivenFacts ==
    ASSUME NEW t \in DOMAIN Templates, NEW p \in 2 .. 5, NEW l \in Templates[t].lines[Parts[p]]
    PROVE  l \in TextLines(t) /\ l.part = Parts[p] /\ Rank(l) = p
  <1>1. \/ p = 2 /\ Parts[p] = "reasons"
        \/ p = 3 /\ Parts[p] = "holding"
        \/ p = 4 /\ Parts[p] = "trailer"
        \/ p = 5 /\ Parts[p] = "appendix"
    <2>1. p = 2 \/ p = 3 \/ p = 4 \/ p = 5
      OBVIOUS
    <2>2. Parts[2] = "reasons" /\ Parts[3] = "holding" /\ Parts[4] = "trailer" /\ Parts[5] = "appendix"
      BY DEF Parts
    <2>3. /\ p = 2 => Parts[p] = "reasons"
          /\ p = 3 => Parts[p] = "holding"
          /\ p = 4 => Parts[p] = "trailer"
          /\ p = 5 => Parts[p] = "appendix"
      BY <2>2
    <2> QED  BY <2>1, <2>3
  <1>2. l \in TextLines(t)
    <2>1. Parts[p] \in Pieces
      BY <1>1 DEF Pieces
    <2> QED  BY <2>1 DEF TextLines, LinesGiven
  <1>3. ASSUME NEW where, NEW kinds, IsLine(l, where, kinds)
        PROVE  l.part = where
    <2> DEFINE m == [kind |-> l.kind, words |-> l.words, part |-> where, cites |-> l.cites]
    <2>1. m.part = where /\ l = m
      BY <1>3 DEF IsLine
    <2> HIDE DEF m
    <2> QED  BY <2>1
  <1>4. CASE p = 2
    <2>1. IsLine(l, "reasons", ProseKinds)
      BY <1>1, <1>4, LinesAssumption
    <2>2. l.part = "reasons"
      BY <1>3, <2>1
    <2> QED  BY <1>1, <1>2, <1>4, <2>2 DEF Rank
  <1>5. CASE p = 3
    <2>1. IsLine(l, "holding", ProseKinds \union {"heading"})
      <3>1. l \in Templates[t].lines["holding"]
        BY <1>1, <1>5
      <3> QED  BY <3>1, LinesAssumption
    <2>2. l.part = "holding"
      BY <1>3, <2>1
    <2> QED  BY <1>1, <1>2, <1>5, <2>2 DEF Rank
  <1>6. CASE p = 4
    <2>1. IsLine(l, "trailer", TrailerFields \union {"prose", "rule"})
      <3>1. l \in Templates[t].lines["trailer"]
        BY <1>1, <1>6
      <3> QED  BY <3>1, LinesAssumption
    <2>2. l.part = "trailer"
      BY <1>3, <2>1
    <2> QED  BY <1>1, <1>2, <1>6, <2>2 DEF Rank
  <1>7. CASE p = 5
    <2>1. IsLine(l, "appendix", LineKinds)
      BY <1>1, <1>7, LinesAssumption
    <2>2. l.part = "appendix"
      BY <1>3, <2>1
    <2> QED  BY <1>1, <1>2, <1>7, <2>2 DEF Rank
  <1> QED  BY <1>1, <1>4, <1>5, <1>6, <1>7

\* The places of the text and its lines.
LEMMA TextIsLines ==
    ASSUME TextHolds
    PROVE  /\ Len(text) \in Nat /\ DOMAIN text = 1 .. Len(text)
           /\ \A i \in DOMAIN text : i \in Nat /\ text[i] \in TextLines(template)
  BY LenProperties, ElementOfSeq DEF TextHolds

\* The opening lines of a decision are in order.
LEMMA InitHolds == Init => Inductive
  <1> SUFFICES ASSUME Init
               PROVE  Inductive
    OBVIOUS
  <1> DEFINE head == Templates[template].head
  <1>1. /\ template \in DOMAIN Templates /\ text = head /\ part = 1 /\ step = "draft"
        /\ head \in Seq(Range(head)) /\ head # <<>>
    BY LinesAssumption DEF Init
  <1>2. Range(head) \subseteq TextLines(template)
    BY DEF TextLines, LinesGiven
  <1>3. text \in Seq(TextLines(template))
    <2> HIDE DEF head
    <2> QED  BY <1>1, <1>2, SeqMonotonic
  <1>4. ASSUME NEW i \in DOMAIN text
        PROVE  text[i].part = "head" /\ Rank(text[i]) = 1 /\ text[i].part = Parts[1]
    <2>1. text[i] \in Range(head)
      BY <1>1 DEF Range
    <2>2. IsLine(text[i], "head", ProseKinds)
      BY <1>1, <2>1, LinesAssumption
    <2>3. text[i].part = "head"
      <3> DEFINE l == text[i]
                 m == [kind |-> l.kind, words |-> l.words, part |-> "head", cites |-> l.cites]
      <3>1. m.part = "head" /\ l = m
        BY <2>2 DEF IsLine
      <3> HIDE DEF m
      <3> QED  BY <3>1
    <2> QED  BY <2>3 DEF Rank, Parts
  <1>5. TextHolds
    <2>1. PartsInOrder
      BY <1>4 DEF PartsInOrder
    <2>2. HoldingOpens /\ AppendixOpens /\ ProseFollowsSubject /\ FieldsOnce
      BY <1>4 DEF HoldingOpens, AppendixOpens, ProseFollowsSubject, FieldsOnce
    <2> QED  BY <1>1, <1>3, <2>1, <2>2 DEF TextHolds
  <1>6. DraftHolds
    <2>1. Len(text) \in DOMAIN text
      <3>1. Len(text) \in Nat \ {0} /\ DOMAIN text = 1 .. Len(text)
        BY <1>1, <1>3, EmptySeq, LenProperties
      <3> QED  BY <3>1
    <2> QED  BY <1>1, <1>4, <2>1 DEF DraftHolds
  <1>7. StepsRan
    BY <1>1 DEF StepsRan, Described
  <1> QED  BY <1>5, <1>6, <1>7 DEF Inductive

\* A line fits where the order of the parts lets it stand.
LEMMA WriteHolds == Inductive /\ Write => Inductive'
  <1> SUFFICES ASSUME Inductive, Write
               PROVE  Inductive'
    OBVIOUS
  <1>1. TextHolds /\ DraftHolds /\ step = "draft" /\ step' = "draft" /\ template' = template
    BY DEF Inductive, Write
  <1>a. PICK p \in 2 .. 5 :
                \E line \in Given.lines[Parts[p]] :
                    p >= part /\ Fits(p, line) /\ text' = Append(text, line) /\ part' = p
    <2>1. Len(Parts) = 5
      BY DEF Parts
    <2> QED  BY <2>1 DEF Write
  <1>2. PICK line \in Given.lines[Parts[p]] :
                p >= part /\ Fits(p, line) /\ text' = Append(text, line) /\ part' = p
    BY <1>a
  <1> DEFINE R == TextLines(template)
             n == Len(text)
  <1>3. template \in DOMAIN Templates /\ line \in R /\ line.part = Parts[p] /\ Rank(line) = p
    BY <1>1, <1>2, GivenFacts DEF Given, TextHolds
  <1>4. /\ text' \in Seq(R) /\ DOMAIN text' = 1 .. n + 1 /\ n \in Nat /\ Len(text') = n + 1
        /\ DOMAIN text = 1 .. n
        /\ \A i \in 1 .. n : text'[i] = text[i]
        /\ text'[n + 1] = line
    BY <1>1, <1>2, <1>3, AppendProperties, LenProperties DEF TextHolds
  <1>5. /\ n \in 1 .. n /\ part \in 1 .. 5 /\ text[n].part = Parts[part]
        /\ \A i \in 1 .. n : text[i].part # "page" /\ text[i] \in R
    <2>1. n # 0
      BY <1>1, <1>4, EmptySeq DEF DraftHolds, TextHolds
    <2> QED  BY <1>1, <1>4, <2>1, ElementOfSeq DEF DraftHolds, TextHolds
  <1>6. \A i \in 1 .. n : text[i].part \in {"head", "reasons", "holding", "trailer", "appendix"}
    BY <1>3, <1>5, LineFacts
  <1>7. \A q \in 1 .. 5 : /\ q = 1 => Parts[q] = "head"
                          /\ q = 2 => Parts[q] = "reasons"
                          /\ q = 3 => Parts[q] = "holding"
                          /\ q = 4 => Parts[q] = "trailer"
                          /\ q = 5 => Parts[q] = "appendix"
    BY DEF Parts
  <1>8. part = 1 \/ part = 2 \/ part = 3 \/ part = 4 \/ part = 5
    BY <1>5
  <1>9. p = 2 \/ p = 3 \/ p = 4 \/ p = 5
    BY <1>2
  <1>10. Rank(text[n]) = part
    BY <1>5, <1>7, <1>8 DEF Rank
  <1> HIDE DEF n
  <1>11. \A i \in 1 .. n : Rank(text[i]) <= p /\ Rank(text[i]) \in 1 .. 5
    <2> TAKE i \in 1 .. n
    <2>1. Rank(text[i]) \in 1 .. 5
      BY <1>6 DEF Rank
    <2>2. Rank(text[i]) <= part
      <3>1. i = n \/ i < n
        BY <1>4
      <3>2. i < n => Rank(text[i]) <= Rank(text[n])
        BY <1>1, <1>4, <1>5 DEF TextHolds, PartsInOrder
      <3> QED  BY <1>10, <2>1, <3>1, <3>2
    <2> QED  BY <1>2, <1>5, <2>1, <2>2
  <1>12. \A i \in DOMAIN text' : i \in 1 .. n \/ i = n + 1
    BY <1>4
  <1>13. PartsInOrder'
    <2> SUFFICES ASSUME NEW i \in DOMAIN text', NEW j \in DOMAIN text', i < j
                 PROVE  Rank(text'[i]) <= Rank(text'[j])
      BY DEF PartsInOrder, Rank
    <2>1. i \in 1 .. n
      BY <1>4, <1>12
    <2>2. CASE j \in 1 .. n
      <3>1. text'[i] = text[i] /\ text'[j] = text[j]
        BY <1>4, <2>1, <2>2
      <3>2. Rank(text[i]) <= Rank(text[j])
        BY <1>1, <1>4, <1>5, <2>1, <2>2 DEF TextHolds, PartsInOrder
      <3> QED  BY <3>1, <3>2
    <2>3. CASE j = n + 1
      <3>1. text'[i] = text[i] /\ text'[j] = line
        BY <1>4, <2>1, <2>3
      <3> QED  BY <1>3, <1>11, <2>1, <3>1
    <2> QED  BY <1>12, <2>2, <2>3
  <1>14. WrittenIn(Parts[p]) = {} <=> \A j \in 1 .. n : text[j].part # Parts[p]
    BY <1>4 DEF WrittenIn
  <1>15. HoldingOpens'
    <2> SUFFICES ASSUME NEW i \in DOMAIN text', text'[i].part = "holding"
                 PROVE  text'[i].kind = "heading"
                            <=> \A j \in 1 .. i - 1 : text'[j].part # "holding"
      BY DEF HoldingOpens
    <2>1. CASE i \in 1 .. n
      <3>1. \A j \in 1 .. i - 1 : j \in 1 .. n
        BY <1>4, <2>1
      <3>2. text'[i] = text[i] /\ \A j \in 1 .. i - 1 : text'[j] = text[j]
        BY <1>4, <2>1, <3>1
      <3>3. text[i].kind = "heading" <=> \A j \in 1 .. i - 1 : text[j].part # "holding"
        BY <1>1, <1>4, <2>1, <3>2 DEF TextHolds, HoldingOpens
      <3> QED  BY <3>2, <3>3
    <2>2. CASE i = n + 1
      <3>1. Parts[p] = "holding" /\ text'[i] = line /\ i - 1 = n
        BY <1>3, <1>4, <2>2
      <3>2. WrittenIn(Parts[p]) = {} <=> line.kind = "heading"
        BY <1>2, <3>1 DEF Fits
      <3>3. \A j \in 1 .. n : text'[j] = text[j]
        BY <1>4
      <3> QED  BY <1>14, <3>1, <3>2, <3>3
    <2> QED  BY <1>12, <2>1, <2>2
  <1>16. AppendixOpens'
    <2> SUFFICES ASSUME NEW i \in DOMAIN text', text'[i].part = "appendix",
                        \A j \in 1 .. i - 1 : text'[j].part # "appendix"
                 PROVE  text'[i].kind = "label"
      BY DEF AppendixOpens
    <2>1. CASE i \in 1 .. n
      <3>1. \A j \in 1 .. i - 1 : j \in 1 .. n
        BY <1>4, <2>1
      <3>2. text'[i] = text[i] /\ \A j \in 1 .. i - 1 : text'[j] = text[j]
        BY <1>4, <2>1, <3>1
      <3> QED  BY <1>1, <1>4, <2>1, <3>2 DEF TextHolds, AppendixOpens
    <2>2. CASE i = n + 1
      <3>1. Parts[p] = "appendix" /\ text'[i] = line /\ i - 1 = n
        BY <1>3, <1>4, <2>2
      <3>2. \A j \in 1 .. n : text[j].part # Parts[p]
        BY <1>4, <3>1
      <3>3. WrittenIn(Parts[p]) = {}
        BY <1>14, <3>2
      <3> QED  BY <1>2, <3>1, <3>3 DEF Fits
    <2> QED  BY <1>12, <2>1, <2>2
  <1>17. ProseFollowsSubject'
    <2> SUFFICES ASSUME NEW i \in DOMAIN text', text'[i].part = "trailer", text'[i].kind = "prose"
                 PROVE  /\ i > 1 /\ text'[i - 1].kind \in {"subject", "blank"}
                        /\ \E j \in 1 .. i - 1 : text'[j].part = "trailer"
                                                 /\ text'[j].kind = "subject"
      BY DEF ProseFollowsSubject
    <2>1. CASE i \in 1 .. n
      <3>1. text'[i] = text[i]
        BY <1>4, <2>1
      <3>2. /\ i > 1 /\ text[i - 1].kind \in {"subject", "blank"}
            /\ \E j \in 1 .. i - 1 : text[j].part = "trailer" /\ text[j].kind = "subject"
        BY <1>1, <1>4, <2>1, <3>1 DEF TextHolds, ProseFollowsSubject
      <3>3. i - 1 \in 1 .. n /\ \A j \in 1 .. i - 1 : j \in 1 .. n
        BY <1>4, <2>1, <3>2
      <3>4. text'[i - 1] = text[i - 1] /\ \A j \in 1 .. i - 1 : text'[j] = text[j]
        BY <1>4, <3>3
      <3> QED  BY <3>2, <3>4
    <2>2. CASE i = n + 1
      <3>1. Parts[p] = "trailer" /\ text'[i] = line /\ i - 1 = n /\ p = 4
        BY <1>3, <1>4, <1>7, <1>9, <2>2
      <3>2. line.kind = "prose"
        BY <2>2, <3>1
      <3>3. text[n].kind = "subject"
        BY <1>2, <3>1, <3>2 DEF Fits, n
      <3>4. text[n].part \in {"trailer", "appendix"}
        <4>1. text[n].part = "holding" => text[n].kind \in ProseKinds \union {"heading"}
          BY <1>3, <1>5, LineFacts
        <4>2. text[n].part \in {"head", "reasons"} => text[n].kind \in ProseKinds
          BY <1>3, <1>5, LineFacts
        <4> QED  BY <1>5, <1>6, <3>3, <4>1, <4>2 DEF ProseKinds
      <3>5. text[n].part # "appendix"
        BY <1>2, <1>5, <1>7, <1>8, <3>1
      <3>6. text'[n] = text[n] /\ n > 0 /\ n \in 1 .. i - 1
        BY <1>4, <1>5, <3>1
      <3> QED  BY <1>4, <3>1, <3>3, <3>4, <3>5, <3>6
    <2> QED  BY <1>12, <2>1, <2>2
  <1>18. FieldsOnce'
    <2> SUFFICES ASSUME NEW i \in DOMAIN text', NEW j \in DOMAIN text',
                        text'[i].part = "trailer", text'[j].part = "trailer",
                        text'[i].kind = text'[j].kind, text'[i].kind # "prose"
                 PROVE  i = j
      BY DEF FieldsOnce
    <2>1. ASSUME NEW k \in 1 .. n, text[k].part = "trailer", text[k].kind # "prose",
                 line.part = "trailer", line.kind = text[k].kind
          PROVE  FALSE
      <3>1. k \in WrittenIn(Parts[p]) /\ Parts[p] = "trailer"
        BY <1>3, <1>4, <2>1 DEF WrittenIn
      <3> QED  BY <1>2, <2>1, <3>1 DEF Fits
    <2>2. CASE i \in 1 .. n /\ j \in 1 .. n
      <3>1. text'[i] = text[i] /\ text'[j] = text[j]
        BY <1>4, <2>2
      <3> QED  BY <1>1, <1>4, <2>2, <3>1 DEF TextHolds, FieldsOnce
    <2>3. CASE i \in 1 .. n /\ j = n + 1
      <3>1. text'[i] = text[i] /\ text'[j] = line
        BY <1>4, <2>3
      <3> QED  BY <2>1, <2>3, <3>1
    <2>4. CASE i = n + 1 /\ j \in 1 .. n
      <3>1. text'[j] = text[j] /\ text'[i] = line
        BY <1>4, <2>4
      <3> QED  BY <2>1, <2>4, <3>1
    <2>5. CASE i = n + 1 /\ j = n + 1
      BY <2>5
    <2> QED  BY <1>12, <2>2, <2>3, <2>4, <2>5
  <1>19. TextHolds'
    BY <1>1, <1>3, <1>4, <1>13, <1>15, <1>16, <1>17, <1>18 DEF TextHolds
  <1>20. DraftHolds'
    <2>1. text' # <<>>
      <3>1. Len(text') # 0
        BY <1>4
      <3> QED  BY <1>4, <3>1, EmptySeq
    <2>2. text'[n + 1].part = Parts[part'] /\ part' \in 1 .. 5
      BY <1>2, <1>3, <1>4
    <2>3. \A i \in DOMAIN text' : text'[i].part # "page"
      <3>1. line.part # "page"
        BY <1>3, <1>7, <1>9
      <3> QED  BY <1>4, <1>5, <1>12, <3>1
    <2> QED  BY <1>4, <2>1, <2>2, <2>3 DEF DraftHolds
  <1>21. StepsRan'
    BY <1>1 DEF StepsRan, Described
  <1> QED  BY <1>19, <1>20, <1>21 DEF Inductive

\* Where a page ends, the lines after it move on by three, and what comes
\* between them is of no part.
LEMMA JoinedFacts ==
    ASSUME NEW R, NEW lines \in Seq(R), Range(PageBreak) \subseteq R,
           NEW at \in 1 .. Len(lines), at < Len(lines)
    PROVE  /\ JoinPages(lines, at) \in Seq(R)
           /\ Len(JoinPages(lines, at)) = Len(lines) + 3
           /\ \A i \in 1 .. at : JoinPages(lines, at)[i] = lines[i]
           /\ \A i \in at + 4 .. Len(lines) + 3 : JoinPages(lines, at)[i] = lines[i - 3]
           /\ \A i \in at + 1 .. at + 3 : JoinPages(lines, at)[i].part = "page"
           /\ JoinPages(lines, at)[at + 3].kind = "blank"
  <1> DEFINE n == Len(lines)
             a == SubSeq(lines, 1, at)
             b == SubSeq(lines, at + 1, n)
             p == PageBreak
  <1>1. n \in Nat /\ \A i \in 1 .. n : lines[i] \in R
    BY LenProperties, ElementOfSeq
  <1>2. a \in Seq(R) /\ Len(a) = at /\ \A i \in 1 .. at : a[i] = lines[i]
    <2>1. at \in Int /\ 1 \in Int /\ 1 <= at /\ \A i \in 1 .. at : lines[i] \in R
      BY <1>1
    <2> QED  BY <2>1, SubSeqProperties
  <1>3. b \in Seq(R) /\ Len(b) = n - at /\ \A i \in 1 .. n - at : b[i] = lines[at + i]
    <2>1. at + 1 \in Int /\ n \in Int /\ at + 1 <= n /\ \A i \in at + 1 .. n : lines[i] \in R
      BY <1>1
    <2>2. b \in Seq(R) /\ Len(b) = n - (at + 1) + 1 /\ \A i \in 1 .. n - (at + 1) + 1 : b[i] = lines[(at + 1) + i - 1]
      BY <2>1, SubSeqProperties
    <2>3. n - (at + 1) + 1 = n - at /\ \A i \in 1 .. n - at : (at + 1) + i - 1 = at + i
      BY <1>1
    <2> HIDE DEF b, n
    <2>4. ASSUME NEW i \in 1 .. n - at
          PROVE  b[i] = lines[at + i]
      <3>1. b[i] = lines[(at + 1) + i - 1]
        BY <2>2, <2>3
      <3> QED  BY <2>3, <3>1
    <2> QED  BY <2>2, <2>3, <2>4
  <1>4. p \in Seq(R) /\ Len(p) = 3 /\ \A i \in 1 .. 3 : p[i].part = "page"
    <2>1. p[1] \in R /\ p[2] \in R /\ p[3] \in R
      <3>1. 1 \in DOMAIN p /\ 2 \in DOMAIN p /\ 3 \in DOMAIN p
        BY DEF PageBreak
      <3>2. Range(p) \subseteq R
        OBVIOUS
      <3> HIDE DEF p
      <3> QED  BY <3>1, <3>2 DEF Range
    <2>2. p = <<p[1], p[2], p[3]>>
      BY DEF PageBreak
    <2>3. Len(p) = 3 /\ p[1].part = "page" /\ p[2].part = "page" /\ p[3].part = "page"
      BY DEF PageBreak
    <2>4. <<p[1], p[2], p[3]>> \in Seq(R)
      BY <2>1
    <2>5. \A i \in 1 .. 3 : i = 1 \/ i = 2 \/ i = 3
      OBVIOUS
    <2> QED  BY <2>2, <2>3, <2>4, <2>5
  <1>5. p[3].kind = "blank"
    BY DEF PageBreak
  <1>6. JoinPages(lines, at) = (a \o p) \o b
    <2>1. at # n
      BY <1>1
    <2> QED  BY <2>1 DEF JoinPages
  <1> HIDE DEF a, b, p, n
  <1> DEFINE c == a \o p
             d == c \o b
  <1>7. /\ c \in Seq(R) /\ Len(c) = at + 3
        /\ \A i \in 1 .. at + 3 : c[i] = IF i <= at THEN a[i] ELSE p[i - at]
    <2>1. /\ a \o p \in Seq(R) /\ Len(a \o p) = Len(a) + Len(p)
          /\ \A i \in 1 .. Len(a) + Len(p) : (a \o p)[i] = IF i <= Len(a) THEN a[i] ELSE p[i - Len(a)]
      BY <1>2, <1>4, ConcatProperties
    <2> QED  BY <1>2, <1>4, <2>1
  <1> HIDE DEF c
  <1>8. /\ d \in Seq(R) /\ Len(d) = (at + 3) + (n - at)
        /\ \A i \in 1 .. (at + 3) + (n - at) : d[i] = IF i <= at + 3 THEN c[i] ELSE b[i - (at + 3)]
    <2>1. /\ c \o b \in Seq(R) /\ Len(c \o b) = Len(c) + Len(b)
          /\ \A i \in 1 .. Len(c) + Len(b) : (c \o b)[i] = IF i <= Len(c) THEN c[i] ELSE b[i - Len(c)]
      BY <1>3, <1>7, ConcatProperties
    <2> QED  BY <1>3, <1>7, <2>1
  <1>14. JoinPages(lines, at) = d
    BY <1>6 DEF c
  <1> HIDE DEF d
  <1>9. Len(d) = n + 3 /\ at \in Nat /\ at < n
    BY <1>1, <1>8 DEF n
  <1>10. \A i \in 1 .. at : d[i] = lines[i]
    BY <1>1, <1>2, <1>7, <1>8, <1>9
  <1>11. ASSUME NEW i \in at + 1 .. at + 3
         PROVE  d[i] = p[i - at] /\ i - at \in 1 .. 3
    <2>1. /\ i \in 1 .. at + 3 /\ i \in 1 .. (at + 3) + (n - at) /\ i <= at + 3 /\ ~(i <= at)
          /\ i - at \in 1 .. 3
      BY <1>1, <1>9
    <2> QED  BY <1>7, <1>8, <2>1
  <1>12. ASSUME NEW i \in at + 4 .. n + 3
         PROVE  d[i] = lines[i - 3]
    <2>1. i \in 1 .. (at + 3) + (n - at) /\ ~(i <= at + 3) /\ i - (at + 3) \in 1 .. n - at
      BY <1>1, <1>9
    <2>2. at + (i - (at + 3)) = i - 3
      BY <1>9
    <2> QED  BY <1>3, <1>8, <2>1, <2>2
  <1>13. d[at + 3].kind = "blank"
    <2>1. at + 3 \in at + 1 .. at + 3 /\ (at + 3) - at = 3
      BY <1>9
    <2> QED  BY <1>5, <1>11, <2>1
  <1>15. \A i \in at + 1 .. at + 3 : d[i].part = "page"
    BY <1>4, <1>11
  <1> QED  BY <1>8, <1>9, <1>10, <1>12, <1>13, <1>14, <1>15 DEF n

\* A page break moves lines and puts none of a part before one of another.
LEMMA ParseHolds == Inductive /\ Parse => Inductive'
  <1> SUFFICES ASSUME Inductive, Parse
               PROVE  Inductive'
    OBVIOUS
  <1>1. TextHolds /\ DraftHolds /\ step = "draft" /\ step' = "parsed" /\ template' = template
    BY DEF Inductive, Parse
  <1>2. template \in DOMAIN Templates /\ text \in Seq(TextLines(template))
    BY <1>1 DEF TextHolds
  <1>3. PICK at \in Len(Given.head) .. Len(text) : text' = JoinPages(text, at)
    BY DEF Parse
  <1>4. at \in 1 .. Len(text)
    <2>1. Len(Given.head) \in Nat \ {0} /\ Len(text) \in Nat
      BY <1>2, LinesAssumption, EmptySeq, LenProperties DEF Given
    <2> QED  BY <2>1
  <1>5. DraftHolds' /\ StepsRan'
    BY <1>1 DEF DraftHolds, StepsRan, Described
  <1>6. CASE at = Len(text)
    <2>1. text' = text
      BY <1>3, <1>6 DEF JoinPages
    <2>2. TextHolds'
      <3>1. PartsInOrder' /\ HoldingOpens' /\ AppendixOpens'
        BY <1>1, <2>1 DEF TextHolds, PartsInOrder, HoldingOpens, AppendixOpens, Rank
      <3>2. ProseFollowsSubject'
        BY <1>1, <2>1 DEF TextHolds, ProseFollowsSubject
      <3>3. FieldsOnce'
        BY <1>1, <2>1 DEF TextHolds, FieldsOnce
      <3> QED  BY <1>1, <2>1, <3>1, <3>2, <3>3 DEF TextHolds
    <2> QED  BY <1>5, <2>2 DEF Inductive
  <1>7. CASE at # Len(text)
    <2> DEFINE n == Len(text)
               R == TextLines(template)
               \* Where a line of the joined text comes from.
               Kept(i) == i \in 1 .. at \/ i \in at + 4 .. n + 3
               From(i) == IF i <= at THEN i ELSE i - 3
    <2>1. n \in Nat /\ at \in Nat /\ at >= 1 /\ at < n
      BY <1>2, <1>4, <1>7, LenProperties
    <2>2. Range(PageBreak) \subseteq R
      BY DEF TextLines
    <2>3. /\ text' \in Seq(R) /\ Len(text') = n + 3
          /\ \A i \in 1 .. at : text'[i] = text[i]
          /\ \A i \in at + 4 .. n + 3 : text'[i] = text[i - 3]
          /\ \A i \in at + 1 .. at + 3 : text'[i].part = "page"
          /\ text'[at + 3].kind = "blank"
      <3> HIDE DEF R
      <3> QED  BY <1>2, <1>3, <1>4, <2>1, <2>2, JoinedFacts DEF R
    <2>4. DOMAIN text' = 1 .. n + 3 /\ DOMAIN text = 1 .. n
      BY <1>2, <2>3, LenProperties
    <2> HIDE DEF n, R
    <2>5. ASSUME NEW i \in DOMAIN text', text'[i].part # "page"
          PROVE  Kept(i) /\ From(i) \in 1 .. n /\ text'[i] = text[From(i)]
      <3>1. i \in 1 .. at \/ i \in at + 1 .. at + 3 \/ i \in at + 4 .. n + 3
        BY <2>1, <2>4
      <3>2. i \notin at + 1 .. at + 3
        BY <2>3, <2>5
      <3> QED  BY <2>1, <2>3, <3>1, <3>2
    <2>6. \A i, j : Kept(i) /\ Kept(j) /\ i < j => From(i) < From(j)
      BY <2>1
    <2>7. ASSUME NEW i \in DOMAIN text', text'[i].part # "page", NEW j \in 1 .. From(i) - 1
          PROVE  \E k \in 1 .. i - 1 : Kept(k) /\ k \in DOMAIN text' /\ text'[k] = text[j]
      <3>1. Kept(i)
        BY <2>5, <2>7
      <3>2. CASE j <= at
        <4>1. j \in 1 .. at /\ j \in 1 .. i - 1
          BY <2>1, <3>1, <3>2
        <4> QED  BY <2>1, <2>3, <2>4, <4>1
      <3>3. CASE ~(j <= at)
        <4>1. j + 3 \in at + 4 .. n + 3 /\ j + 3 \in 1 .. i - 1 /\ (j + 3) - 3 = j
          BY <2>1, <3>1, <3>3
        <4>2. text'[j + 3] = text[j]
          BY <2>3, <4>1
        <4>3. Kept(j + 3) /\ j + 3 \in DOMAIN text'
          BY <2>1, <2>4, <4>1
        <4> HIDE DEF Kept, From
        <4> QED  BY <4>1, <4>2, <4>3
      <3> QED  BY <3>2, <3>3
    <2>8. PartsInOrder'
      <3> SUFFICES ASSUME NEW i \in DOMAIN text', NEW j \in DOMAIN text', i < j,
                          text'[i].part # "page", text'[j].part # "page"
                   PROVE  Rank(text'[i]) <= Rank(text'[j])
        BY DEF PartsInOrder, Rank
      <3>1. /\ Kept(i) /\ From(i) \in 1 .. n /\ text'[i] = text[From(i)]
            /\ Kept(j) /\ From(j) \in 1 .. n /\ text'[j] = text[From(j)]
        BY <2>5
      <3>2. From(i) < From(j)
        BY <2>6, <3>1
      <3> HIDE DEF From, Kept
      <3>3. \A k, l \in 1 .. n : /\ k < l /\ text[k].part # "page" /\ text[l].part # "page"
                                 => Rank(text[k]) <= Rank(text[l])
        BY <1>1, <2>4 DEF TextHolds, PartsInOrder
      <3> QED  BY <3>1, <3>2, <3>3
    <2>9. ASSUME NEW where, where # "page", NEW i \in DOMAIN text', text'[i].part = where
          PROVE  (\A j \in 1 .. i - 1 : text'[j].part # where)
                    <=> \A j \in 1 .. From(i) - 1 : text[j].part # where
      <3>1. Kept(i) /\ From(i) \in 1 .. n
        BY <2>5, <2>9
      <3>2. ASSUME NEW j \in 1 .. From(i) - 1, text[j].part = where
            PROVE  \E k \in 1 .. i - 1 : text'[k].part = where
        BY <2>7, <2>9, <3>2
      <3>3. ASSUME NEW j \in 1 .. i - 1, text'[j].part = where
            PROVE  \E k \in 1 .. From(i) - 1 : text[k].part = where
        <4>1. j \in DOMAIN text' /\ j < i
          BY <2>1, <2>4
        <4>2. Kept(j) /\ From(j) \in 1 .. n /\ text'[j] = text[From(j)]
          BY <2>5, <2>9, <3>3, <4>1
        <4>3. From(j) < From(i)
          BY <2>6, <3>1, <4>1, <4>2
        <4>4. From(j) \in 1 .. From(i) - 1
          <5> HIDE DEF From
          <5> QED  BY <2>1, <3>1, <4>2, <4>3
        <4> QED  BY <3>3, <4>2, <4>4
      <3> QED  BY <3>2, <3>3
    <2>10. HoldingOpens'
      <3> SUFFICES ASSUME NEW i \in DOMAIN text', text'[i].part = "holding"
                   PROVE  text'[i].kind = "heading"
                              <=> \A j \in 1 .. i - 1 : text'[j].part # "holding"
        BY DEF HoldingOpens
      <3>1. From(i) \in 1 .. n /\ text'[i] = text[From(i)]
        BY <2>5
      <3> HIDE DEF From
      <3>2. text[From(i)].kind = "heading"
                <=> \A j \in 1 .. From(i) - 1 : text[j].part # "holding"
        BY <1>1, <2>4, <3>1 DEF TextHolds, HoldingOpens
      <3> QED  BY <2>9, <3>1, <3>2
    <2>11. AppendixOpens'
      <3> SUFFICES ASSUME NEW i \in DOMAIN text', text'[i].part = "appendix",
                          \A j \in 1 .. i - 1 : text'[j].part # "appendix"
                   PROVE  text'[i].kind = "label"
        BY DEF AppendixOpens
      <3>1. From(i) \in 1 .. n /\ text'[i] = text[From(i)]
        BY <2>5
      <3> HIDE DEF From
      <3>2. \A j \in 1 .. From(i) - 1 : text[j].part # "appendix"
        BY <2>9
      <3> QED  BY <1>1, <2>4, <3>1, <3>2 DEF TextHolds, AppendixOpens
    <2>12. ProseFollowsSubject'
      <3> SUFFICES ASSUME NEW i \in DOMAIN text', text'[i].part = "trailer",
                          text'[i].kind = "prose"
                   PROVE  /\ i > 1 /\ text'[i - 1].kind \in {"subject", "blank"}
                          /\ \E j \in 1 .. i - 1 : text'[j].part = "trailer"
                                                   /\ text'[j].kind = "subject"
        BY DEF ProseFollowsSubject
      <3>1. Kept(i) /\ From(i) \in 1 .. n /\ text'[i] = text[From(i)]
        BY <2>5
      <3>2. /\ From(i) > 1 /\ text[From(i) - 1].kind \in {"subject", "blank"}
            /\ \E j \in 1 .. From(i) - 1 : text[j].part = "trailer" /\ text[j].kind = "subject"
        <4> HIDE DEF From, Kept
        <4> QED  BY <1>1, <2>4, <3>1 DEF TextHolds, ProseFollowsSubject
      <3>3. \E j \in 1 .. i - 1 : text'[j].part = "trailer" /\ text'[j].kind = "subject"
        <4>1. PICK j \in 1 .. From(i) - 1 : text[j].part = "trailer" /\ text[j].kind = "subject"
          BY <3>2
        <4>2. PICK k \in 1 .. i - 1 : text'[k] = text[j]
          BY <2>7, <4>1
        <4> QED  BY <4>1, <4>2
      <3>4. i > 1 /\ text'[i - 1].kind \in {"subject", "blank"}
        <4>1. CASE i \in 1 .. at
          <5>1. i > 1 /\ i - 1 \in 1 .. at /\ From(i) = i
            BY <2>1, <3>2, <4>1
          <5> HIDE DEF From
          <5> QED  BY <2>3, <3>2, <5>1
        <4>2. CASE i = at + 4
          <5>1. i - 1 = at + 3 /\ i > 1
            BY <2>1, <4>2
          <5> QED  BY <2>3, <5>1
        <4>3. CASE i \in at + 5 .. n + 3
          <5>1. i > 1 /\ i - 1 \in at + 4 .. n + 3 /\ From(i) - 1 = (i - 1) - 3
            BY <2>1, <4>3
          <5> HIDE DEF From
          <5> QED  BY <2>3, <3>2, <5>1
        <4>4. i \in 1 .. at \/ i = at + 4 \/ i \in at + 5 .. n + 3
          BY <2>1, <3>1
        <4> QED  BY <4>1, <4>2, <4>3, <4>4
      <3> QED  BY <3>3, <3>4
    <2>13. FieldsOnce'
      <3> SUFFICES ASSUME NEW i \in DOMAIN text', NEW j \in DOMAIN text',
                          text'[i].part = "trailer", text'[j].part = "trailer",
                          text'[i].kind = text'[j].kind, text'[i].kind # "prose"
                   PROVE  i = j
        BY DEF FieldsOnce
      <3>1. /\ Kept(i) /\ From(i) \in 1 .. n /\ text'[i] = text[From(i)]
            /\ Kept(j) /\ From(j) \in 1 .. n /\ text'[j] = text[From(j)]
        BY <2>5
      <3>2. From(i) = From(j)
        <4> HIDE DEF From, Kept
        <4> QED  BY <1>1, <2>4, <3>1 DEF TextHolds, FieldsOnce
      <3>3. ~(From(i) < From(j)) /\ ~(From(j) < From(i))
        BY <2>1, <3>1, <3>2
      <3> QED  BY <2>1, <2>4, <2>6, <3>1, <3>3
    <2>14. TextHolds'
      BY <1>1, <1>2, <2>3, <2>8, <2>10, <2>11, <2>12, <2>13 DEF TextHolds, R
    <2> QED  BY <1>5, <2>14 DEF Inductive
  <1> QED  BY <1>6, <1>7

\* The steps that only store what they read leave the text alone.
LEMMA PipelineHolds == Inductive /\ (Describe \/ Extract \/ Chunk) => Inductive'
  <1> SUFFICES ASSUME Inductive, Describe \/ Extract \/ Chunk
               PROVE  Inductive'
    OBVIOUS
  <1>1. template' = template /\ text' = text /\ part' = part
    BY DEF Describe, Extract, Chunk
  <1>2. TextHolds'
    <2>1. PartsInOrder' /\ HoldingOpens' /\ AppendixOpens'
      BY <1>1 DEF Inductive, TextHolds, PartsInOrder, HoldingOpens, AppendixOpens, Rank
    <2>2. ProseFollowsSubject'
      BY <1>1 DEF Inductive, TextHolds, ProseFollowsSubject
    <2>3. FieldsOnce'
      BY <1>1 DEF Inductive, TextHolds, FieldsOnce
    <2> QED  BY <1>1, <2>1, <2>2, <2>3 DEF Inductive, TextHolds
  <1>3. step' # "draft"
    BY DEF Describe, Extract, Chunk
  <1>4. CASE Describe
    <2>1. PICK headline \in Given.headlines, answer \in Given.answers :
                /\ columns' = Completed(ExtractMetadata(text, headline), answer)
                /\ heard' = [headline |-> headline, answer |-> answer]
      BY <1>4 DEF Describe
    <2>2. heard'.headline = headline /\ heard'.answer = answer
      BY <2>1
    <2>3. step' = "described" /\ Given' = Given
      BY <1>1, <1>4 DEF Describe, Given
    <2>4. StepsRan'
      BY <1>1, <2>1, <2>2, <2>3 DEF StepsRan, Described
    <2> QED  BY <1>2, <1>3, <2>4 DEF Inductive, DraftHolds
  <1>5. CASE Extract
    <2>1. Described /\ step' = "extracted" /\ columns' = columns /\ heard' = heard
      BY <1>5 DEF Extract, Described
    <2>2. StepsRan
      BY DEF Inductive
    <2>3. Described' =>
            /\ heard'.answer \in Given'.answers
            /\ columns' = Completed(ExtractMetadata(text', heard'.headline), heard'.answer)
      BY <1>1, <2>1, <2>2 DEF StepsRan, Given
    <2>4. StepsRan'
      BY <1>1, <1>5, <2>1, <2>3 DEF StepsRan, Extract, Given, OwnIdentifiers
    <2> QED  BY <1>2, <1>3, <2>4 DEF Inductive, DraftHolds
  <1>6. CASE Chunk
    <2>1. /\ Described /\ step = "extracted" /\ step' = "chunked"
          /\ heard' = heard /\ columns' = columns /\ links' = links
      BY <1>6 DEF Chunk, Described
    <2>2. StepsRan
      BY DEF Inductive
    <2>3. StepsRan'
      BY <1>1, <1>6, <2>1, <2>2 DEF StepsRan, Chunk, Given, OwnIdentifiers
    <2> QED  BY <1>2, <1>3, <2>3 DEF Inductive, DraftHolds
  <1> QED  BY <1>4, <1>5, <1>6

\* The invariant holds in every reachable state.
THEOREM InductiveHolds == Spec => []Inductive
  <1>1. Inductive /\ [Next]_vars => Inductive'
    <2> SUFFICES ASSUME Inductive, [Next]_vars
                 PROVE  Inductive'
      OBVIOUS
    <2>1. CASE UNCHANGED vars
      <3>1. /\ template' = template /\ text' = text /\ part' = part /\ step' = step
            /\ heard' = heard /\ columns' = columns /\ links' = links /\ passages' = passages
        BY <2>1 DEF vars
      <3>2. PartsInOrder' /\ HoldingOpens' /\ AppendixOpens'
        BY <3>1 DEF Inductive, TextHolds, PartsInOrder, HoldingOpens, AppendixOpens, Rank
      <3>3. ProseFollowsSubject'
        BY <3>1 DEF Inductive, TextHolds, ProseFollowsSubject
      <3>4. FieldsOnce'
        BY <3>1 DEF Inductive, TextHolds, FieldsOnce
      <3>5. TextHolds'
        BY <3>1, <3>2, <3>3, <3>4 DEF Inductive, TextHolds
      <3>6. DraftHolds'
        BY <3>1 DEF Inductive, DraftHolds
      <3>7. StepsRan'
        BY <3>1 DEF Inductive, StepsRan, Described, Given, OwnIdentifiers
      <3> QED  BY <3>5, <3>6, <3>7 DEF Inductive
    <2>2. CASE Next
      BY <2>2, WriteHolds, ParseHolds, PipelineHolds DEF Next
    <2> QED  BY <2>1, <2>2
  <1> QED  BY <1>1, InitHolds, PTL DEF Spec

(***************************************************************************)
(* Where the document is cut.                                              *)
(***************************************************************************)
\* The decision ends where the appendix is first labelled, and its trailer
\* opens with the subject or the matter, whichever is earlier.
LEMMA Cuts ==
    ASSUME TextHolds
    PROVE  LET A == AppendixStart(text)
               S == FindTrailerStart(text)
           IN  /\ A \in 1 .. Len(text) + 1 /\ S \in 1 .. A
               /\ \A i \in DOMAIN text :
                     /\ i < A => text[i].part # "appendix" /\ text[i].kind # "label"
                     /\ i >= A => text[i].part \in {"appendix", "page"}
                     /\ i < S => \/ text[i].part \in {"head", "reasons", "holding", "page"}
                                 \/ text[i].part = "trailer" /\ text[i].kind \in {"number", "rule"}
                     /\ i < S => text[i].kind \notin {"subject", "matter"}
                     /\ S <= i /\ i < A => text[i].part \in {"trailer", "page"}
               /\ S < A => text[S].part = "trailer" /\ text[S].kind \in {"subject", "matter"}
               /\ A <= Len(text) => text[A].part = "appendix" /\ text[A].kind = "label"
  <1> DEFINE A == AppendixStart(text)
             S == FindTrailerStart(text)
             n == Len(text)
             R == TextLines(template)
  <1>1. n \in Nat /\ DOMAIN text = 1 .. n /\ \A i \in 1 .. n : text[i] \in R
    BY TextIsLines
  <1>2. template \in DOMAIN Templates
    BY DEF TextHolds
  <1>3. \A i \in 1 .. n :
           /\ text[i].part \in {"head", "reasons", "holding", "trailer", "appendix", "page"}
           /\ text[i].kind = "label" => text[i].part = "appendix"
           /\ text[i].kind \in {"subject", "matter"} => text[i].part \in {"trailer", "appendix"}
           /\ text[i].part = "trailer" => text[i].kind \in TrailerFields \union {"prose", "rule"}
    <2> TAKE i \in 1 .. n
    <2> DEFINE l == text[i]
    <2>1. l \in R
      BY <1>1
    <2> HIDE DEF l
    <2>2. /\ l.part \in {"head", "reasons", "holding", "trailer", "appendix", "page"}
          /\ l.part \in {"head", "reasons"} => l.kind \in ProseKinds
          /\ l.part = "holding" => l.kind \in ProseKinds \union {"heading"}
          /\ l.part = "trailer" => l.kind \in TrailerFields \union {"prose", "rule"}
          /\ l.part = "page" => l.kind \in {"blank", "rule"}
      BY <1>2, <2>1, LineFacts
    <2>3. /\ l.kind = "label" => l.part = "appendix"
          /\ l.kind \in {"subject", "matter"} => l.part \in {"trailer", "appendix"}
      BY <2>2 DEF ProseKinds, TrailerFields
    <2> QED  BY <2>2, <2>3 DEF l
  <1> DEFINE labels == LinesOf(text, {"label"}) \union {n + 1}
  <1>4. A \in labels /\ \A x \in labels : A <= x
    <2>1. labels \in SUBSET Nat /\ labels # {}
      BY <1>1 DEF LinesOf
    <2>2. A = Min(labels)
      BY DEF AppendixStart
    <2> HIDE DEF labels, A
    <2> QED  BY <2>1, <2>2, LeastExists
  <1>5. /\ A \in 1 .. n + 1
        /\ A <= n => text[A].kind = "label"
        /\ \A i \in 1 .. n : i < A => text[i].kind # "label"
    <2>1. A \in 1 .. n + 1 /\ (A <= n => text[A].kind = "label")
      <3> HIDE DEF A
      <3> QED  BY <1>1, <1>4 DEF LinesOf
    <2>2. ASSUME NEW i \in 1 .. n, i < A, text[i].kind = "label"
          PROVE  FALSE
      <3>1. i \in labels
        BY <1>1, <2>2 DEF LinesOf
      <3> HIDE DEF A, labels
      <3> QED  BY <1>1, <1>4, <2>1, <2>2, <3>1
    <2> QED  BY <2>1, <2>2
  <1> DEFINE opens == {i \in LinesOf(text, {"subject", "matter"}) : i < A} \union {A}
  <1>6. S \in opens /\ \A x \in opens : S <= x
    <2>1. opens \in SUBSET Nat /\ opens # {}
      <3> HIDE DEF A
      <3> QED  BY <1>1, <1>5 DEF LinesOf
    <2>2. S = Min(opens)
      BY DEF FindTrailerStart
    <2> HIDE DEF opens, S
    <2> QED  BY <2>1, <2>2, LeastExists
  <1> HIDE DEF A, S
  <1>7. /\ S \in 1 .. A
        /\ S < A => text[S].kind \in {"subject", "matter"}
        /\ \A i \in 1 .. n : i < S => text[i].kind \notin {"subject", "matter"}
    <2>1. S \in 1 .. A /\ (S < A => text[S].kind \in {"subject", "matter"})
      BY <1>1, <1>5, <1>6 DEF LinesOf
    <2>2. ASSUME NEW i \in 1 .. n, i < S, text[i].kind \in {"subject", "matter"}
          PROVE  FALSE
      <3>1. i < A
        BY <1>1, <1>5, <2>1, <2>2
      <3>2. i \in opens
        BY <1>1, <2>2, <3>1 DEF LinesOf
      <3>3. S <= i
        <4> HIDE DEF opens
        <4> QED  BY <1>6, <3>2
      <3> QED  BY <1>5, <2>1, <2>2, <3>3
    <2> QED  BY <2>1, <2>2
  <1> HIDE DEF labels, opens
  <1>8. \A i, j \in 1 .. n :
           i < j /\ text[i].part # "page" /\ text[j].part # "page" => Rank(text[i]) <= Rank(text[j])
    BY <1>1 DEF TextHolds, PartsInOrder
  <1>9. ASSUME NEW i \in 1 .. n, i < A, text[i].part = "appendix"
        PROVE  FALSE
    <2> DEFINE D == {j \in 1 .. n : text[j].part = "appendix"}
    <2>1. D \in SUBSET Nat /\ i \in D
      BY <1>9
    <2>2. Min(D) \in D /\ \A x \in D : Min(D) <= x
      <3> HIDE DEF D
      <3> QED  BY <2>1, LeastExists
    <2> DEFINE m == Min(D)
    <2>3. m \in 1 .. n /\ text[m].part = "appendix" /\ m <= i
      BY <2>1, <2>2
    <2>4. \A j \in 1 .. m - 1 : text[j].part # "appendix"
      <3> TAKE j \in 1 .. m - 1
      <3>1. j \in 1 .. n /\ ~(m <= j)
        <4> HIDE DEF m
        <4> QED  BY <1>1, <2>3
      <3>2. j \notin D
        <4> HIDE DEF D
        <4> QED  BY <2>2, <3>1
      <3> QED  BY <3>1, <3>2
    <2> HIDE DEF m, D
    <2>5. text[m].kind = "label"
      BY <1>1, <2>3, <2>4 DEF TextHolds, AppendixOpens
    <2>6. m < A
      BY <1>5, <1>9, <2>3
    <2> QED  BY <1>5, <2>3, <2>5, <2>6
  <1>10. ASSUME NEW i \in 1 .. n, i >= A
         PROVE  text[i].part \in {"appendix", "page"}
    <2>1. A \in 1 .. n /\ text[A].part = "appendix"
      BY <1>1, <1>3, <1>5, <1>10
    <2>2. CASE i = A
      BY <2>1, <2>2
    <2>3. CASE i # A /\ text[i].part # "page"
      <3>1. A < i
        BY <1>5, <1>10, <2>3
      <3>2. Rank(text[A]) <= Rank(text[i]) /\ Rank(text[A]) = 5
        BY <1>8, <2>1, <2>3, <3>1 DEF Rank
      <3> QED  BY <1>3, <3>2 DEF Rank
    <2> QED  BY <2>2, <2>3
  <1>11. S < A => S \in 1 .. n /\ text[S].part = "trailer"
    <2> SUFFICES ASSUME S < A
                 PROVE  S \in 1 .. n /\ text[S].part = "trailer"
      OBVIOUS
    <2>1. S \in 1 .. n
      BY <1>1, <1>5, <1>7
    <2> QED  BY <1>3, <1>7, <1>9, <2>1
  <1>12. ASSUME NEW i \in 1 .. n, S <= i, i < A
         PROVE  text[i].part \in {"trailer", "page"}
    <2>1. S \in 1 .. n /\ text[S].part = "trailer"
      BY <1>1, <1>5, <1>7, <1>11, <1>12
    <2>2. CASE i = S
      BY <2>1, <2>2
    <2>3. CASE i # S /\ text[i].part # "page"
      <3>1. S < i
        BY <1>7, <1>12, <2>1, <2>3
      <3>2. Rank(text[S]) <= Rank(text[i]) /\ Rank(text[S]) = 4
        BY <1>8, <2>1, <2>3, <3>1 DEF Rank
      <3>3. text[i].part # "appendix"
        BY <1>9, <1>12
      <3> QED  BY <1>3, <3>2, <3>3 DEF Rank
    <2> QED  BY <2>2, <2>3
  <1>13. ASSUME NEW i \in 1 .. n, i < S
         PROVE  \/ text[i].part \in {"head", "reasons", "holding", "page"}
                \/ text[i].part = "trailer" /\ text[i].kind \in {"number", "rule"}
    <2>1. i < A
      BY <1>5, <1>7, <1>13
    <2>2. text[i].part # "appendix" /\ text[i].kind \notin {"subject", "matter"}
      BY <1>7, <1>9, <1>13, <2>1
    <2>3. ASSUME text[i].part = "trailer", text[i].kind = "prose"
          PROVE  FALSE
      <3>1. PICK j \in 1 .. i - 1 : text[j].kind = "subject"
        BY <1>1, <2>3 DEF TextHolds, ProseFollowsSubject
      <3>2. j \in 1 .. n /\ j < S
        BY <1>1, <1>5, <1>7, <1>13
      <3> QED  BY <1>7, <3>1, <3>2
    <2> QED  BY <1>3, <2>2, <2>3 DEF TrailerFields
  <1>14. A <= n => text[A].part = "appendix"
    <2>1. A <= n => A \in 1 .. n
      BY <1>1, <1>5
    <2> QED  BY <1>3, <1>5, <2>1
  <1> QED  BY <1>1, <1>5, <1>7, <1>9, <1>10, <1>11, <1>12, <1>13, <1>14 DEF A, S, n

\* A cut of a sequence.
LEMMA CutFacts ==
    ASSUME NEW R, NEW s \in Seq(R), NEW a \in Nat, NEW b \in Nat, 1 <= a, a <= b + 1, b <= Len(s)
    PROVE  /\ SubSeq(s, a, b) \in Seq(R) /\ Len(SubSeq(s, a, b)) = b - a + 1
           /\ DOMAIN SubSeq(s, a, b) = 1 .. b - a + 1 /\ b - a + 1 \in Nat
           /\ \A i \in 1 .. b - a + 1 : SubSeq(s, a, b)[i] = s[a + i - 1] /\ a + i - 1 \in a .. b
  <1>1. Len(s) \in Nat /\ \A i \in 1 .. Len(s) : s[i] \in R
    BY LenProperties, ElementOfSeq
  <1>2. a \in Int /\ b \in Int /\ \A i \in a .. b : s[i] \in R
    BY <1>1
  <1>3. /\ SubSeq(s, a, b) \in Seq(R)
        /\ Len(SubSeq(s, a, b)) = IF a <= b THEN b - a + 1 ELSE 0
        /\ \A i \in 1 .. b - a + 1 : SubSeq(s, a, b)[i] = s[a + i - 1]
    BY <1>2, SubSeqProperties
  <1>4. Len(SubSeq(s, a, b)) = b - a + 1 /\ b - a + 1 \in Nat
    BY <1>3
  <1>5. DOMAIN SubSeq(s, a, b) = 1 .. b - a + 1
    BY <1>3, <1>4, LenProperties
  <1>6. \A i \in 1 .. b - a + 1 : a + i - 1 \in a .. b
    OBVIOUS
  <1> QED  BY <1>3, <1>4, <1>5, <1>6

\* Stripping empty lines cuts the sequence around all others.
LEMMA StrippedIs ==
    ASSUME NEW R, NEW lines \in Seq(R)
    PROVE  \E a, b \in Nat :
               /\ 1 <= a /\ a <= b + 1 /\ b <= Len(lines)
               /\ Stripped(lines) = SubSeq(lines, a, b)
               /\ \A i \in 1 .. Len(lines) : lines[i].kind # "blank" => a <= i /\ i <= b
  <1> DEFINE n == Len(lines)
             kept == DOMAIN lines \ LinesOf(lines, {"blank"})
  <1>1. n \in Nat /\ DOMAIN lines = 1 .. n
    BY LenProperties
  <1>2. \A i \in 1 .. n : i \in kept <=> lines[i].kind # "blank"
    BY <1>1 DEF LinesOf
  <1>3. kept \in SUBSET Nat /\ \A i \in kept : i \in 1 .. n
    BY <1>1
  <1>4. Stripped(lines) = IF kept = {} THEN <<>> ELSE SubSeq(lines, Min(kept), Max(kept))
    BY DEF Stripped
  <1> HIDE DEF kept
  <1>5. CASE kept = {}
    <2>1. SubSeq(lines, 1, 0) = <<>>
      BY SubSeqEmpty
    <2>2. Stripped(lines) = SubSeq(lines, 1, 0)
      BY <1>4, <1>5, <2>1
    <2>3. \A i \in 1 .. n : lines[i].kind # "blank" => 1 <= i /\ i <= 0
      BY <1>2, <1>5
    <2>4. 1 \in Nat /\ 0 \in Nat /\ 1 <= 1 /\ 1 <= 0 + 1 /\ 0 <= n
      BY <1>1
    <2> QED  BY <2>2, <2>3, <2>4
  <1>6. CASE kept # {}
    <2>1. Min(kept) \in kept /\ \A x \in kept : Min(kept) <= x
      BY <1>3, <1>6, LeastExists
    <2>2. Max(kept) \in kept /\ \A x \in kept : x <= Max(kept)
      <3>1. \A x \in kept : x <= n
        BY <1>1, <1>3
      <3> QED  BY <1>1, <1>3, <1>6, <3>1, GreatestExists
    <2> DEFINE a == Min(kept)
               b == Max(kept)
    <2>4. Stripped(lines) = SubSeq(lines, a, b)
      BY <1>4, <1>6
    <2>5. \A i \in 1 .. n : lines[i].kind # "blank" => a <= i /\ i <= b
      BY <1>2, <2>1, <2>2
    <2>7. a \in 1 .. n /\ b \in 1 .. n /\ a <= b
      BY <1>3, <2>1, <2>2
    <2> HIDE DEF a, b
    <2>3. a \in Nat /\ b \in Nat /\ 1 <= a /\ a <= b /\ b <= n
      BY <1>1, <2>7
    <2>6. a <= b + 1
      BY <2>3
    <2> QED  BY <2>3, <2>4, <2>5, <2>6
  <1> QED  BY <1>5, <1>6

\* The body is the text before the trailer, without the empty lines around it.
LEMMA BodyIs ==
    ASSUME TextHolds
    PROVE  LET S == FindTrailerStart(text)
               body == SplitDocument(text).body
           IN  \E a, b \in Nat :
                   /\ 1 <= a /\ a <= b + 1 /\ b < S
                   /\ body = SubSeq(text, a, b) /\ body \in Seq(TextLines(template))
                   /\ Len(body) = b - a + 1 /\ DOMAIN body = 1 .. b - a + 1
                   /\ \A i \in 1 .. b - a + 1 : body[i] = text[a + i - 1] /\ a + i - 1 \in a .. b
                   /\ \A i \in 1 .. S - 1 : text[i].kind # "blank" => a <= i /\ i <= b
  <1> DEFINE S == FindTrailerStart(text)
             A == AppendixStart(text)
             n == Len(text)
             R == TextLines(template)
             opening == SubSeq(text, 1, S - 1)
  <1>1. n \in Nat /\ DOMAIN text = 1 .. n /\ text \in Seq(R)
    BY TextIsLines DEF TextHolds
  <1>2. A \in 1 .. n + 1 /\ S \in 1 .. A
    BY Cuts
  <1>3. SplitDocument(text).body = Stripped(opening)
    BY DEF SplitDocument
  <1> HIDE DEF S, A, R
  <1>4. S - 1 \in Nat /\ 1 \in Nat /\ 1 <= (S - 1) + 1 /\ S - 1 <= n
    BY <1>1, <1>2
  <1>5. /\ opening \in Seq(R) /\ Len(opening) = S - 1
        /\ \A i \in 1 .. S - 1 : opening[i] = text[i]
    <2>1. /\ opening \in Seq(R) /\ Len(opening) = (S - 1) - 1 + 1
          /\ \A i \in 1 .. (S - 1) - 1 + 1 : opening[i] = text[1 + i - 1]
      BY <1>1, <1>4, CutFacts
    <2>2. (S - 1) - 1 + 1 = S - 1 /\ \A i \in 1 .. S - 1 : 1 + i - 1 = i
      BY <1>4
    <2> QED  BY <2>1, <2>2
  <1>6. PICK a, b \in Nat :
                /\ 1 <= a /\ a <= b + 1 /\ b <= Len(opening)
                /\ Stripped(opening) = SubSeq(opening, a, b)
                /\ \A i \in 1 .. Len(opening) : opening[i].kind # "blank" => a <= i /\ i <= b
    BY <1>5, StrippedIs
  <1>7. b < S /\ b <= n
    BY <1>2, <1>4, <1>5, <1>6
  <1>8. SubSeq(opening, a, b) = SubSeq(text, a, b)
    <2> DEFINE s == SubSeq(opening, a, b)
               t == SubSeq(text, a, b)
    <2>1. /\ s \in Seq(R) /\ Len(s) = b - a + 1
          /\ \A i \in 1 .. b - a + 1 : s[i] = opening[a + i - 1] /\ a + i - 1 \in a .. b
      BY <1>5, <1>6, CutFacts
    <2>2. /\ t \in Seq(R) /\ Len(t) = b - a + 1
          /\ \A i \in 1 .. b - a + 1 : t[i] = text[a + i - 1]
      BY <1>1, <1>6, <1>7, CutFacts
    <2>3. \A i \in a .. b : i \in 1 .. S - 1
      BY <1>2, <1>6, <1>7
    <2>4. \A i \in 1 .. Len(s) : s[i] = t[i]
      BY <1>5, <2>1, <2>2, <2>3
    <2> HIDE DEF s, t
    <2> QED  BY <2>1, <2>2, <2>4, SeqEqual DEF s, t
  <1>9. \A i \in 1 .. S - 1 : text[i].kind # "blank" => a <= i /\ i <= b
    BY <1>5, <1>6
  <1>10. /\ SubSeq(text, a, b) \in Seq(R) /\ Len(SubSeq(text, a, b)) = b - a + 1
         /\ DOMAIN SubSeq(text, a, b) = 1 .. b - a + 1
         /\ \A i \in 1 .. b - a + 1 : SubSeq(text, a, b)[i] = text[a + i - 1] /\ a + i - 1 \in a .. b
    BY <1>1, <1>6, <1>7, CutFacts
  <1> HIDE DEF opening
  <1> QED  BY <1>3, <1>6, <1>7, <1>8, <1>9, <1>10 DEF S, R

\* The places of the text that the trailer's lines are at.
IsTrailer(h) ==
    LET S == FindTrailerStart(text)
        A == AppendixStart(text)
        trailer == SplitDocument(text).trailer
    IN  /\ h \in [1 .. Len(trailer) -> S .. A - 1]
        /\ \A n \in 1 .. Len(trailer) :
              trailer[n] = text[h[n]] /\ text[h[n]].kind # "rule"
        /\ \A m, n \in 1 .. Len(trailer) : m < n => h[m] < h[n]
        /\ \A i \in S .. A - 1 : text[i].kind \notin {"blank", "rule"} =>
              \E n \in 1 .. Len(trailer) : h[n] = i
        /\ \A n \in 1 .. Len(trailer) - 1, i \in S .. A - 1 :
              h[n] < i /\ i < h[n + 1] => text[i].kind = "rule"

\* The trailer is what lies between the body and the appendix, without its
\* rules and the empty lines around it.
LEMMA TrailerIs ==
    ASSUME TextHolds
    PROVE  /\ SplitDocument(text).trailer \in Seq(TextLines(template))
           /\ \E h : IsTrailer(h)
  <1> DEFINE S == FindTrailerStart(text)
             A == AppendixStart(text)
             N == Len(text)
             R == TextLines(template)
             L == SubSeq(text, S, A - 1)
             P == DOMAIN L \ LinesOf(L, {"rule"})
             K == Picked(L, P)
             c == Cardinality(P)
  <1>1. N \in Nat /\ DOMAIN text = 1 .. N /\ text \in Seq(R)
    BY TextIsLines DEF TextHolds
  <1>2. A \in 1 .. N + 1 /\ S \in 1 .. A
    BY Cuts
  <1>3. SplitDocument(text).trailer = Stripped(K)
    BY DEF SplitDocument, StripRuleLines
  <1> HIDE DEF S, A, R
  <1>4. A - S \in Nat /\ A \in Nat /\ S \in Nat /\ A - 1 \in Nat /\ 1 <= S /\ S <= (A - 1) + 1 /\ A - 1 <= N
    BY <1>1, <1>2
  <1>5. /\ L \in Seq(R) /\ Len(L) = A - S /\ DOMAIN L = 1 .. A - S
        /\ \A i \in 1 .. A - S : L[i] = text[S + i - 1]
    <2>1. /\ L \in Seq(R) /\ Len(L) = (A - 1) - S + 1 /\ DOMAIN L = 1 .. (A - 1) - S + 1
          /\ \A i \in 1 .. (A - 1) - S + 1 : L[i] = text[S + i - 1]
      BY <1>1, <1>4, CutFacts
    <2>2. (A - 1) - S + 1 = A - S
      BY <1>4
    <2> QED  BY <2>1, <2>2
  <1> HIDE DEF L
  <1>6. P \in SUBSET (1 .. A - S) /\ \A i \in 1 .. A - S : i \in P <=> L[i].kind # "rule"
    BY <1>5 DEF LinesOf
  <1>7. K = [n \in 1 .. c |-> L[Nth(P, n)]]
    BY DEF Picked
  <1> HIDE DEF P
  <1>8. c \in Nat /\ \A n \in 1 .. c : Nth(P, n) \in P /\ Nth(P, n) \in 1 .. A - S /\ L[Nth(P, n)] \in R
    <2>1. c \in Nat
      BY <1>4, <1>6, CountSteps
    <2>2. \A n \in 1 .. c : Nth(P, n) \in P
      BY <1>4, <1>6, NthCounts
    <2>3. \A i \in 1 .. A - S : L[i] \in R
      BY <1>5, ElementOfSeq
    <2> QED  BY <1>6, <2>1, <2>2, <2>3
  <1> HIDE DEF K, c
  <1>9. /\ K \in Seq(R) /\ Len(K) = c /\ DOMAIN K = 1 .. c
        /\ \A n \in 1 .. c : K[n] = text[S + Nth(P, n) - 1] /\ K[n].kind # "rule"
    <2>1. K \in [1 .. c -> R]
      BY <1>7, <1>8
    <2>2. K \in Seq(R)
      BY <1>8, <2>1, SeqDef
    <2>3. DOMAIN K = 1 .. c
      BY <2>1
    <2>4. Len(K) = c
      BY <1>8, <2>2, <2>3, LenProperties
    <2>5. \A n \in 1 .. c : K[n] = L[Nth(P, n)]
      BY <1>7
    <2> QED  BY <1>5, <1>6, <1>8, <2>2, <2>3, <2>4, <2>5
  <1>10. PICK a, b \in Nat :
                 /\ 1 <= a /\ a <= b + 1 /\ b <= Len(K)
                 /\ Stripped(K) = SubSeq(K, a, b)
                 /\ \A i \in 1 .. Len(K) : K[i].kind # "blank" => a <= i /\ i <= b
    BY <1>9, StrippedIs
  <1> DEFINE T == SubSeq(K, a, b)
             len == b - a + 1
             h == [n \in 1 .. len |-> S + Nth(P, a + n - 1) - 1]
  <1>11. /\ T \in Seq(R) /\ Len(T) = len /\ len \in Nat
         /\ \A n \in 1 .. len : T[n] = K[a + n - 1] /\ a + n - 1 \in a .. b
    BY <1>9, <1>10, CutFacts
  <1>12. \A n \in 1 .. len : a + n - 1 \in 1 .. c
    BY <1>8, <1>9, <1>10, <1>11
  <1>13. \A n \in 1 .. len :
            /\ h[n] = S + Nth(P, a + n - 1) - 1 /\ h[n] \in S .. A - 1
            /\ T[n] = text[h[n]] /\ text[h[n]].kind # "rule"
    <2> TAKE n \in 1 .. len
    <2>1. h[n] = S + Nth(P, a + n - 1) - 1
      OBVIOUS
    <2>2. a + n - 1 \in 1 .. c /\ T[n] = K[a + n - 1]
      BY <1>11, <1>12
    <2> HIDE DEF T, h, len
    <2>3. Nth(P, a + n - 1) \in 1 .. A - S
      BY <1>8, <2>2
    <2>4. h[n] \in S .. A - 1
      BY <1>4, <2>1, <2>3
    <2>5. T[n] = text[h[n]] /\ text[h[n]].kind # "rule"
      BY <1>9, <2>1, <2>2
    <2> QED  BY <2>1, <2>4, <2>5
  <1>14. h \in [1 .. len -> S .. A - 1]
    <2>1. h = [n \in 1 .. len |-> h[n]]
      OBVIOUS
    <2> HIDE DEF h, len
    <2> QED  BY <1>13, <2>1
  <1> HIDE DEF T, h, len
  <1>15. /\ \A j \in P : Count(P, j) \in 1 .. c /\ Nth(P, Count(P, j)) = j
         /\ \A m, n \in 1 .. c : m < n <=> Nth(P, m) < Nth(P, n)
    BY <1>4, <1>6, NthOrders DEF c
  <1>16. \A n \in 1 .. c : Nth(P, n) \in Nat
    BY <1>8
  <1>17. ASSUME NEW m \in 1 .. len, NEW n \in 1 .. len, m < n
         PROVE  h[m] < h[n]
    <2>1. a + m - 1 \in 1 .. c /\ a + n - 1 \in 1 .. c
      BY <1>12
    <2>2. a + m - 1 < a + n - 1
      <3>1. a \in Nat /\ m \in Nat /\ n \in Nat
        BY <1>11
      <3> QED  BY <1>17, <3>1
    <2>3. Nth(P, a + m - 1) < Nth(P, a + n - 1)
      BY <1>15, <2>1, <2>2
    <2>4. h[m] = S + Nth(P, a + m - 1) - 1 /\ h[n] = S + Nth(P, a + n - 1) - 1
      BY <1>13
    <2>5. Nth(P, a + m - 1) \in Nat /\ Nth(P, a + n - 1) \in Nat
      BY <1>16, <2>1
    <2> QED  BY <1>4, <2>3, <2>4, <2>5
  <1>18. ASSUME NEW i \in S .. A - 1, text[i].kind # "rule"
         PROVE  \E q \in 1 .. c : S + Nth(P, q) - 1 = i /\ K[q] = text[i]
    <2>1. i - S + 1 \in 1 .. A - S /\ S + (i - S + 1) - 1 = i
      BY <1>4
    <2>2. i - S + 1 \in P
      BY <1>5, <1>6, <1>18, <2>1
    <2>3. Count(P, i - S + 1) \in 1 .. c /\ Nth(P, Count(P, i - S + 1)) = i - S + 1
      BY <1>15, <2>2
    <2> QED  BY <1>9, <2>1, <2>3
  <1>19. ASSUME NEW i \in S .. A - 1, text[i].kind \notin {"blank", "rule"}
         PROVE  \E n \in 1 .. len : h[n] = i
    <2>1. PICK q \in 1 .. c : S + Nth(P, q) - 1 = i /\ K[q] = text[i]
      BY <1>18, <1>19
    <2>2. a <= q /\ q <= b
      BY <1>9, <1>10, <1>19, <2>1
    <2>3. q - a + 1 \in 1 .. len /\ a + (q - a + 1) - 1 = q
      BY <1>10, <2>2 DEF len
    <2> QED  BY <1>13, <2>1, <2>3
  <1>20. ASSUME NEW n \in 1 .. len - 1, NEW i \in S .. A - 1, h[n] < i, i < h[n + 1],
                text[i].kind # "rule"
         PROVE  FALSE
    <2>1. PICK q \in 1 .. c : S + Nth(P, q) - 1 = i
      BY <1>18, <1>20
    <2>2. n \in 1 .. len /\ n + 1 \in 1 .. len
      BY <1>11
    <2> DEFINE m == a + n - 1
    <2>3. m \in 1 .. c /\ m + 1 \in 1 .. c /\ a + (n + 1) - 1 = m + 1 /\ m \in Nat
      BY <1>10, <1>12, <2>2
    <2>4. h[n] = S + Nth(P, m) - 1 /\ h[n + 1] = S + Nth(P, m + 1) - 1
      BY <1>13, <2>2, <2>3
    <2> HIDE DEF m
    <2>7. Nth(P, m) \in Nat /\ Nth(P, q) \in Nat /\ Nth(P, m + 1) \in Nat
      BY <1>16, <2>1, <2>3
    <2>5. Nth(P, m) < Nth(P, q) /\ Nth(P, q) < Nth(P, m + 1)
      <3>1. S + Nth(P, m) - 1 < S + Nth(P, q) - 1 /\ S + Nth(P, q) - 1 < S + Nth(P, m + 1) - 1
        BY <1>20, <2>1, <2>4
      <3>2. \A x, y, z \in Nat : z + x - 1 < z + y - 1 => x < y
        OBVIOUS
      <3>3. S \in Nat
        BY <1>4
      <3> QED  BY <2>7, <3>1, <3>2, <3>3
    <2>6. m < q /\ q < m + 1
      BY <1>15, <2>3, <2>5
    <2> QED  BY <2>3, <2>6
  <1>21. SplitDocument(text).trailer = T
    BY <1>3, <1>10 DEF T
  <1>22. IsTrailer(h)
    BY <1>11, <1>13, <1>14, <1>17, <1>19, <1>20, <1>21 DEF S, A, IsTrailer
  <1> QED  BY <1>11, <1>21, <1>22 DEF R

(***************************************************************************)
(* What the trailer's fields read.                                         *)
(***************************************************************************)
\* A field's value is what is written from its line to the last of the lines
\* that go on from it.
LEMMA FieldRuns ==
    ASSUME NEW R, NEW trailer \in Seq(R), NEW field \in TrailerFields,
           NEW n \in 1 .. Len(trailer), trailer[n].kind = field,
           \A i \in 1 .. Len(trailer) : trailer[i].kind = field => i = n,
           NEW m \in n .. Len(trailer), \A i \in n + 1 .. m : IsContinuation(trailer[i]),
           m < Len(trailer) => ~IsContinuation(trailer[m + 1])
    PROVE  FieldValue(trailer, field)
             = FlattenSeq([k \in 1 .. m - n + 1 |-> trailer[n + k - 1].words])
  <1> DEFINE at == LinesOf(trailer, {field})
             N == Len(trailer)
             going == {j \in n .. N : \A k \in n + 1 .. j : IsContinuation(trailer[k])}
  <1>1. N \in Nat /\ DOMAIN trailer = 1 .. N /\ n \in Nat /\ m \in Nat
    BY LenProperties
  <1>2. at = {n}
    BY <1>1 DEF LinesOf
  <1>3. Max(at) = n
    <2>1. at \in SUBSET Nat /\ at # {} /\ \A x \in at : x <= n
      <3> HIDE DEF at
      <3> QED  BY <1>1, <1>2
    <2>2. Max(at) \in at
      <3> HIDE DEF at
      <3> QED  BY <1>1, <2>1, GreatestExists
    <2> QED  BY <1>2, <2>2
  <1>4. Max(going) = m
    <2>1. m \in going
      OBVIOUS
    <2>2. going \in SUBSET Nat /\ \A x \in going : x <= N
      BY <1>1
    <2>3. Max(going) \in going /\ \A x \in going : x <= Max(going)
      <3> HIDE DEF going
      <3> QED  BY <1>1, <2>1, <2>2, GreatestExists
    <2> DEFINE g == Max(going)
    <2>4. g \in n .. N /\ \A k \in n + 1 .. g : IsContinuation(trailer[k])
      BY <2>3
    <2>5. m <= g
      BY <2>1, <2>3
    <2> HIDE DEF g
    <2>6. ~(m < g)
      <3> SUFFICES ASSUME m < g
                   PROVE  FALSE
        OBVIOUS
      <3>1. m < N /\ m + 1 \in n + 1 .. g
        BY <1>1, <2>4
      <3> QED  BY <2>4, <3>1
    <2>7. g = m
      BY <1>1, <2>4, <2>5, <2>6
    <2> QED  BY <2>7 DEF g
  <1>5. at # {}
    BY <1>2
  <1> HIDE DEF at
  <1>6. FieldValue(trailer, field)
          = LET first == Max(at)
                last == Max({j \in first .. N : \A k \in first + 1 .. j : IsContinuation(trailer[k])})
            IN  FlattenSeq([k \in 1 .. last - first + 1 |-> trailer[first + k - 1].words])
    BY <1>5 DEF FieldValue, at
  <1>7. FieldValue(trailer, field)
          = LET last == Max(going)
            IN  FlattenSeq([k \in 1 .. last - n + 1 |-> trailer[n + k - 1].words])
    BY <1>3, <1>6
  <1> HIDE DEF going
  <1> QED  BY <1>4, <1>7

\* One sequence alone, and two, joined.
LEMMA FlattenFew ==
    ASSUME NEW X, NEW u \in Seq(X)
    PROVE  /\ FlattenSeq([k \in 1 .. 1 |-> u]) = u
           /\ \A v \in Seq(X) : FlattenSeq([k \in 1 .. 2 |-> IF k = 1 THEN u ELSE v]) = u \o v
  <1> DEFINE none == <<>>
             one == [k \in 1 .. 1 |-> u]
  <1>1. none \in Seq(Seq(X)) /\ Len(none) = 0 /\ FlattenSeq(none) = <<>>
    BY FlattenAppends, EmptySeq
  <1>2. one = <<u>> /\ Append(<<>>, u) = <<u>>
    BY SMT
  <1>3. one = Append(none, u)
    BY <1>2
  <1>4. one \in Seq(Seq(X)) /\ FlattenSeq(one) = u
    <2>1. FlattenSeq(Append(none, u)) = FlattenSeq(none) \o u
      <3> HIDE DEF none
      <3> QED  BY <1>1, FlattenAppends
    <2>2. FlattenSeq(none) \o u = u
      BY <1>1, ConcatEmptySeq
    <2>3. Append(none, u) \in Seq(Seq(X))
      <3> HIDE DEF none
      <3> QED  BY <1>1, AppendProperties
    <2> QED  BY <1>3, <2>1, <2>2, <2>3
  <1>5. ASSUME NEW v \in Seq(X)
        PROVE  FlattenSeq([k \in 1 .. 2 |-> IF k = 1 THEN u ELSE v]) = u \o v
    <2> DEFINE two == [k \in 1 .. 2 |-> IF k = 1 THEN u ELSE v]
    <2>1. Len(one) = 1 /\ one[1] = u
      BY <1>2
    <2>2. two = Append(one, v)
      <3>1. two \in [1 .. 2 -> Seq(X)]
        OBVIOUS
      <3>2. two \in Seq(Seq(X))
        BY <3>1, SeqDef
      <3>3. two[1] = u /\ two[2] = v /\ DOMAIN two = 1 .. 2
        OBVIOUS
      <3>4. Len(two) = 2
        BY <3>2, <3>3, LenProperties
      <3> HIDE DEF one, two
      <3>5. /\ Append(one, v) \in Seq(Seq(X)) /\ Len(Append(one, v)) = 2
            /\ Append(one, v)[1] = u /\ Append(one, v)[2] = v
        <4>1. one \in Seq(Seq(X)) /\ v \in Seq(X)
          BY <1>4
        <4>2. /\ Append(one, v) \in Seq(Seq(X)) /\ Len(Append(one, v)) = Len(one) + 1
              /\ \A i \in 1 .. Len(one) : Append(one, v)[i] = one[i]
              /\ Append(one, v)[Len(one) + 1] = v
          BY <4>1, AppendProperties
        <4> QED  BY <2>1, <4>2
      <3>6. \A k \in 1 .. Len(two) : two[k] = Append(one, v)[k]
        BY <3>3, <3>4, <3>5
      <3> QED  BY <3>2, <3>4, <3>5, <3>6, SeqEqual
    <2> HIDE DEF one
    <2>3. FlattenSeq(Append(one, v)) = FlattenSeq(one) \o v
      BY <1>4, FlattenAppends
    <2> QED  BY <1>4, <2>2, <2>3
  <1> QED  BY <1>4, <1>5

\* The words of the lines.
WordsGiven(t) == UNION {Range(l.words) : l \in TextLines(t)}

AllWords(t) ==
    WordsGiven(t) \union {<<"gap">>, <<"---">>}
    \union {<<k>> : k \in {"heading"} \union TrailerFields}

\* A line consists of given words, and is not None.
LEMMA WordsAreGiven ==
    ASSUME NEW t \in DOMAIN Templates, NEW l \in TextLines(t)
    PROVE  /\ l.words \in Seq(WordsGiven(t)) /\ Range(l.words) \subseteq WordsGiven(t)
           /\ l.words # None
           /\ l.words \in Seq(AllWords(t)) /\ LineWords(l) \in Seq(AllWords(t))
  <1> DEFINE X == WordsGiven(t)
             Y == AllWords(t)
             w == l.words
  <1>1. w \in Seq(Range(w))
    BY LineFacts
  <1>2. Range(w) \subseteq X
    BY DEF WordsGiven
  <1>3. X \subseteq Y
    BY DEF AllWords
  <1> HIDE DEF X, w
  <1>4. Len(w) \in Nat /\ DOMAIN w = 1 .. Len(w) /\ \A i \in 1 .. Len(w) : w[i] \in X
    <2>1. Len(w) \in Nat /\ DOMAIN w = 1 .. Len(w) /\ \A i \in 1 .. Len(w) : w[i] \in Range(w)
      BY <1>1, LenProperties, ElementOfSeq
    <2> QED  BY <1>2, <2>1
  <1>5. w \in Seq(X)
    BY <1>1, <1>4, SeqDef, LenProperties
  <1> HIDE DEF Y
  <1>6. w \in Seq(Y)
    BY <1>3, <1>4, <1>5, SeqDef, LenProperties
  <1>7. w # None
    <2>1. None \notin Seq(X)
      BY NoneAssumption DEF X, WordsGiven, TextLines
    <2> QED  BY <1>5, <2>1
  <1>8. LineWords(l) \in Seq(Y)
    <2>1. CASE l.kind \in {"heading"} \union TrailerFields
      <3> DEFINE first == <<l.kind>>
      <3>2. <<l.kind>> \in Y
        BY <2>1 DEF Y, AllWords
      <3>3. <<first>> \in Seq(Y)
        BY <3>2
      <3>4. LineWords(l) = <<first>> \o w
        BY <2>1 DEF LineWords, TrailerFields, w
      <3> HIDE DEF first
      <3> QED  BY <1>6, <3>3, <3>4, ConcatProperties
    <2>2. CASE l.kind = "blank"
      <3> DEFINE g == <<"gap">>
      <3>1. LineWords(l) = <<g>>
        BY <2>2 DEF LineWords, TrailerFields
      <3>2. g \in Y
        BY DEF Y, AllWords
      <3> HIDE DEF g
      <3> QED  BY <3>1, <3>2
    <2>3. CASE l.kind = "rule"
      <3> DEFINE g == <<"---">>
      <3>1. LineWords(l) = <<g>>
        BY <2>3 DEF LineWords, TrailerFields
      <3>2. g \in Y
        BY DEF Y, AllWords
      <3> HIDE DEF g
      <3> QED  BY <3>1, <3>2
    <2>4. CASE l.kind \notin {"heading"} \union TrailerFields \union {"blank", "rule"}
      BY <1>6, <2>4 DEF LineWords, w
    <2> QED  BY <2>1, <2>2, <2>3, <2>4
  <1> QED  BY <1>2, <1>5, <1>6, <1>7, <1>8 DEF X, Y, w

\* The trailer's own lines, and what goes on from one of them: only what is
\* wrapped under the subject line itself, or after the end of a page.
LEMMA TrailerFollows ==
    ASSUME TextHolds, NEW h, IsTrailer(h)
    PROVE  LET trailer == SplitDocument(text).trailer
           IN  /\ \A n \in 1 .. Len(trailer) :
                     /\ h[n] \in DOMAIN text /\ trailer[n] = text[h[n]]
                     /\ text[h[n]].part \in {"trailer", "page"}
               /\ \A i \in DOMAIN text :
                     text[i].part = "trailer" /\ text[i].kind # "rule" /\ FindTrailerStart(text) <= i =>
                         \E n \in 1 .. Len(trailer) : h[n] = i
               /\ \A n, m \in 1 .. Len(trailer) :
                     trailer[n].kind = trailer[m].kind /\ trailer[n].kind \in TrailerFields => n = m
               /\ \A n \in 1 .. Len(trailer) - 1 :
                     IsContinuation(trailer[n + 1]) =>
                         /\ trailer[n].kind \in {"subject", "blank"} /\ trailer[n + 1].kind = "prose"
                         /\ trailer[n + 1].part = "trailer" /\ h[n + 1] = h[n] + 1
  <1> DEFINE S == FindTrailerStart(text)
             A == AppendixStart(text)
             N == Len(text)
             trailer == SplitDocument(text).trailer
             len == Len(trailer)
  <1>1. N \in Nat /\ DOMAIN text = 1 .. N /\ \A i \in 1 .. N : text[i] \in TextLines(template)
    BY TextIsLines
  <1>2. A \in 1 .. N + 1 /\ S \in 1 .. A
    BY Cuts
  <1>3. \A i \in 1 .. N :
           /\ S <= i /\ i < A => text[i].part \in {"trailer", "page"}
           /\ i >= A => text[i].part \in {"appendix", "page"}
    BY <1>1, Cuts
  <1>4. /\ h \in [1 .. len -> S .. A - 1]
        /\ \A n \in 1 .. len : trailer[n] = text[h[n]] /\ text[h[n]].kind # "rule"
        /\ \A m, n \in 1 .. len : m < n => h[m] < h[n]
        /\ \A i \in S .. A - 1 : text[i].kind \notin {"blank", "rule"} =>
              \E n \in 1 .. len : h[n] = i
        /\ \A n \in 1 .. len - 1, i \in S .. A - 1 :
              h[n] < i /\ i < h[n + 1] => text[i].kind = "rule"
    BY DEF IsTrailer
  <1>5. len \in Nat
    BY TrailerIs, LenProperties
  <1>6. template \in DOMAIN Templates
    BY DEF TextHolds
  <1> HIDE DEF S, A, trailer, len
  <1>7. \A n \in 1 .. len : /\ h[n] \in 1 .. N /\ h[n] \in S .. A - 1 /\ trailer[n] = text[h[n]]
                            /\ text[h[n]].part \in {"trailer", "page"}
    <2> TAKE n \in 1 .. len
    <2>1. h[n] \in S .. A - 1
      BY <1>4
    <2>2. h[n] \in 1 .. N /\ S <= h[n] /\ h[n] < A
      BY <1>1, <1>2, <2>1
    <2> QED  BY <1>3, <1>4, <2>1, <2>2
  <1>8. ASSUME NEW i \in 1 .. N
        PROVE  /\ text[i].part = "trailer" => text[i].kind \in TrailerFields \union {"prose", "rule"}
               /\ text[i].part = "page" => text[i].kind \in {"blank", "rule"}
    BY <1>1, <1>6, LineFacts
  <1>9. ASSUME NEW i \in 1 .. N, text[i].part = "trailer", text[i].kind # "rule", S <= i
        PROVE  \E n \in 1 .. len : h[n] = i
    <2>1. i < A
      BY <1>1, <1>2, <1>3, <1>9
    <2>2. i \in S .. A - 1
      BY <1>1, <1>2, <1>9, <2>1
    <2>3. text[i].kind \notin {"blank", "rule"}
      BY <1>8, <1>9 DEF TrailerFields
    <2> QED  BY <1>4, <2>2, <2>3
  <1>10. ASSUME NEW n \in 1 .. len, NEW m \in 1 .. len, trailer[n].kind = trailer[m].kind,
                trailer[n].kind \in TrailerFields
         PROVE  n = m
    <2>1. text[h[n]].part = "trailer" /\ text[h[m]].part = "trailer"
      BY <1>7, <1>8, <1>10 DEF TrailerFields
    <2>2. h[n] = h[m]
      BY <1>1, <1>7, <1>10, <2>1 DEF TextHolds, FieldsOnce, TrailerFields
    <2>3. ~(n < m) /\ ~(m < n)
      BY <1>2, <1>4, <1>7, <2>2
    <2> QED  BY <2>3
  <1>11. ASSUME NEW n \in 1 .. len - 1, IsContinuation(trailer[n + 1])
         PROVE  /\ trailer[n].kind \in {"subject", "blank"} /\ trailer[n + 1].kind = "prose"
                /\ trailer[n + 1].part = "trailer" /\ h[n + 1] = h[n] + 1
    <2>1. n \in 1 .. len /\ n + 1 \in 1 .. len /\ n < n + 1
      BY <1>5
    <2> DEFINE i == h[n]
               j == h[n + 1]
    <2>2. /\ i \in 1 .. N /\ i \in S .. A - 1 /\ j \in 1 .. N /\ j \in S .. A - 1 /\ i < j
          /\ trailer[n] = text[i] /\ trailer[n + 1] = text[j]
          /\ text[i].part \in {"trailer", "page"} /\ text[j].part \in {"trailer", "page"}
      BY <1>4, <1>7, <2>1
    <2>3. \A k \in S .. A - 1 : i < k /\ k < j => text[k].kind = "rule"
      BY <1>4
    <2> HIDE DEF i, j
    <2>4. text[j].kind = "prose" /\ text[j].part = "trailer"
      BY <1>8, <1>11, <2>2 DEF IsContinuation, TrailerFields
    <2>5. text[j - 1].kind \in {"subject", "blank"}
      BY <1>1, <2>2, <2>4 DEF TextHolds, ProseFollowsSubject
    <2>6. j - 1 = i
      <3> SUFFICES ASSUME j - 1 # i
                   PROVE  FALSE
        OBVIOUS
      <3>1. j - 1 \in S .. A - 1 /\ i < j - 1 /\ j - 1 < j
        BY <1>2, <2>2
      <3> QED  BY <2>3, <2>5, <3>1
    <2>7. text[i].kind \in {"subject", "blank"}
      BY <2>5, <2>6
    <2>8. j = i + 1
      BY <2>2, <2>6
    <2> QED  BY <2>2, <2>4, <2>7, <2>8 DEF i, j
  <1> QED  BY <1>1, <1>7, <1>9, <1>10, <1>11 DEF S, trailer, len

\* A field the decision states once is read as it was written; its subject line
\* with what was wrapped under it.
LEMMA FieldReads ==
    ASSUME TextHolds, NEW i \in DOMAIN text, FindTrailerStart(text) <= i,
           text[i].part = "trailer", text[i].kind \in TrailerFields
    PROVE  LET value == FieldValue(SplitDocument(text).trailer, text[i].kind)
           IN  \/ value = text[i].words
                  /\ (text[i].kind = "subject" =>
                        ~(/\ i + 1 \in DOMAIN text /\ text[i + 1].part = "trailer"
                          /\ text[i + 1].kind = "prose"))
               \/ /\ text[i].kind = "subject" /\ i + 1 \in DOMAIN text
                  /\ text[i + 1].part = "trailer" /\ text[i + 1].kind = "prose"
                  /\ value = text[i].words \o text[i + 1].words
  <1> DEFINE trailer == SplitDocument(text).trailer
             len == Len(trailer)
             N == Len(text)
             R == TextLines(template)
             X == WordsGiven(template)
             field == text[i].kind
             follows == /\ i + 1 \in DOMAIN text /\ text[i + 1].part = "trailer"
                        /\ text[i + 1].kind = "prose"
  <1>1. N \in Nat /\ DOMAIN text = 1 .. N /\ i \in 1 .. N /\ \A k \in 1 .. N : text[k] \in R
    BY TextIsLines
  <1>2. PICK h : IsTrailer(h)
    BY TrailerIs
  <1>3. /\ \A n \in 1 .. len :
              /\ h[n] \in DOMAIN text /\ trailer[n] = text[h[n]]
              /\ text[h[n]].part \in {"trailer", "page"}
        /\ \A k \in DOMAIN text :
              text[k].part = "trailer" /\ text[k].kind # "rule" /\ FindTrailerStart(text) <= k =>
                  \E n \in 1 .. len : h[n] = k
        /\ \A n, m \in 1 .. len :
              trailer[n].kind = trailer[m].kind /\ trailer[n].kind \in TrailerFields => n = m
        /\ \A n \in 1 .. len - 1 :
              IsContinuation(trailer[n + 1]) =>
                  /\ trailer[n].kind \in {"subject", "blank"} /\ trailer[n + 1].kind = "prose"
                  /\ trailer[n + 1].part = "trailer" /\ h[n + 1] = h[n] + 1
    BY <1>2, TrailerFollows
  <1>4. trailer \in Seq(R) /\ len \in Nat
    BY TrailerIs, LenProperties
  <1>14. FindTrailerStart(text) \in Nat
    BY <1>1, Cuts
  <1>5. \A l \in R : l.words \in Seq(X)
    BY WordsAreGiven DEF TextHolds
  <1>6. field \in TrailerFields /\ field \notin {"blank", "rule", "prose"}
    BY DEF TrailerFields
  <1> HIDE DEF trailer, len, R, X
  <1>7. PICK n \in 1 .. len : h[n] = i
    BY <1>1, <1>3, <1>6
  <1>8. trailer[n] = text[i] /\ trailer[n].kind = field
    BY <1>3, <1>7
  <1>9. \A k \in 1 .. len : trailer[k].kind = field => k = n
    BY <1>3, <1>6, <1>8
  <1>10. ASSUME NEW m \in n .. len, \A k \in n + 1 .. m : IsContinuation(trailer[k]),
                m < len => ~IsContinuation(trailer[m + 1])
         PROVE  FieldValue(trailer, field)
                  = FlattenSeq([k \in 1 .. m - n + 1 |-> trailer[n + k - 1].words])
    <2> HIDE DEF field
    <2>1. /\ n \in 1 .. Len(trailer) /\ m \in n .. Len(trailer)
          /\ \A k \in 1 .. Len(trailer) : trailer[k].kind = field => k = n
          /\ m < Len(trailer) => ~IsContinuation(trailer[m + 1])
      BY <1>9, <1>10 DEF len
    <2>2. field \in TrailerFields /\ trailer[n].kind = field /\ trailer \in Seq(R)
      BY <1>4, <1>6, <1>8
    <2>3. \A k \in n + 1 .. m : IsContinuation(trailer[k])
      BY <1>10
    <2> HIDE DEF len
    <2> QED  BY ONLY <2>1, <2>2, <2>3, FieldRuns, ZenonT(60)
  <1>11. ASSUME follows
         PROVE  n < len /\ IsContinuation(trailer[n + 1])
    <2>1. PICK m \in 1 .. len : h[m] = i + 1
      BY <1>1, <1>3, <1>11, <1>14
    <2>2. \A p, q \in 1 .. len : p < q => h[p] < h[q]
      BY <1>2 DEF IsTrailer, len, trailer
    <2>3. \A p \in 1 .. len : h[p] \in Nat
      BY <1>1, <1>3
    <2>4. ~(m < n) /\ m # n
      BY <1>1, <1>7, <2>1, <2>2
    <2>5. n < m
      BY <2>4
    <2>6. ~(n + 1 < m)
      <3> SUFFICES ASSUME n + 1 < m
                   PROVE  FALSE
        OBVIOUS
      <3>1. n + 1 \in 1 .. len /\ n < n + 1
        BY <1>4
      <3>2. h[n] < h[n + 1] /\ h[n + 1] < h[m]
        BY <2>2, <3>1
      <3> QED  BY <1>1, <1>7, <2>1, <2>3, <3>1, <3>2
    <2>7. m = n + 1
      BY <2>5, <2>6
    <2>8. trailer[m].kind = "prose"
      BY <1>3, <1>11, <2>1
    <2>9. n < len
      BY <1>4, <2>1, <2>5
    <2>10. IsContinuation(trailer[m])
      BY <2>8 DEF IsContinuation, TrailerFields
    <2> QED  BY <2>7, <2>9, <2>10
  <1>12. CASE n = len \/ ~IsContinuation(trailer[n + 1])
    <2>1. FieldValue(trailer, field) = FlattenSeq([k \in 1 .. n - n + 1 |-> trailer[n + k - 1].words])
      <3>1. n \in n .. len /\ \A k \in n + 1 .. n : IsContinuation(trailer[k])
        OBVIOUS
      <3>2. n < len => ~IsContinuation(trailer[n + 1])
        BY <1>12
      <3> QED  BY <1>10, <3>1, <3>2
    <2>2. [k \in 1 .. n - n + 1 |-> trailer[n + k - 1].words] = [k \in 1 .. 1 |-> text[i].words]
      BY <1>8
    <2>3. text[i].words \in Seq(X)
      BY <1>1, <1>5
    <2>4. FieldValue(trailer, field) = text[i].words
      BY <2>1, <2>2, <2>3, FlattenFew
    <2>5. ~follows
      BY <1>11, <1>12
    <2> QED  BY <2>4, <2>5 DEF trailer
  <1>13. CASE n # len /\ IsContinuation(trailer[n + 1])
    <2>1. n \in 1 .. len - 1 /\ n + 1 \in 1 .. len
      BY <1>4, <1>13
    <2>2. /\ field = "subject" /\ trailer[n + 1].kind = "prose"
          /\ trailer[n + 1].part = "trailer" /\ h[n + 1] = i + 1
      BY <1>3, <1>6, <1>7, <1>8, <1>13, <2>1
    <2>3. follows /\ trailer[n + 1] = text[i + 1]
      BY <1>3, <2>1, <2>2
    <2>4. n + 1 < len => ~IsContinuation(trailer[(n + 1) + 1])
      <3> SUFFICES ASSUME n + 1 < len, IsContinuation(trailer[(n + 1) + 1])
                   PROVE  FALSE
        OBVIOUS
      <3>1. n + 1 \in 1 .. len - 1
        BY <1>4
      <3> QED  BY <1>3, <2>2, <3>1
    <2>5. FieldValue(trailer, field)
            = FlattenSeq([k \in 1 .. (n + 1) - n + 1 |-> trailer[n + k - 1].words])
      <3>1. \A k \in n + 1 .. n + 1 : IsContinuation(trailer[k])
        BY <1>13
      <3>2. n + 1 \in n .. len
        BY <2>1
      <3> QED  BY <1>10, <2>4, <3>1, <3>2
    <2>6. [k \in 1 .. (n + 1) - n + 1 |-> trailer[n + k - 1].words]
            = [k \in 1 .. 2 |-> IF k = 1 THEN text[i].words ELSE text[i + 1].words]
      <3>1. \A k \in 1 .. 2 : (k = 1 => n + k - 1 = n) /\ (k # 1 => n + k - 1 = n + 1)
        OBVIOUS
      <3>2. (n + 1) - n + 1 = 2
        OBVIOUS
      <3>3. \A k \in 1 .. 2 :
               trailer[n + k - 1].words = IF k = 1 THEN text[i].words ELSE text[i + 1].words
        BY <1>8, <2>3, <3>1
      <3> QED  BY <3>2, <3>3
    <2>7. text[i].words \in Seq(X) /\ text[i + 1].words \in Seq(X)
      BY <1>1, <1>5, <2>3
    <2>8. FieldValue(trailer, field) = text[i].words \o text[i + 1].words
      BY <2>5, <2>6, <2>7, FlattenFew
    <2> QED  BY <2>2, <2>3, <2>8 DEF trailer
  <1> QED  BY <1>7, <1>12, <1>13

\* A line of a part is one of those given for it.
LEMMA LineOrigins ==
    ASSUME NEW t \in DOMAIN Templates, NEW l \in TextLines(t)
    PROVE  /\ l.part = "head" => l \in Range(Templates[t].head)
           /\ \A p \in Pieces : l.part = p => l \in Templates[t].lines[p]
           /\ l.part = "page" => l.words = <<>> /\ l.cites = {}
           /\ \A w \in Range(l.words) :
                 /\ w[1] = "run" => w[2] \in Nat
                 /\ w[1] = "provision" => /\ w[3] \in Nat /\ w[4] \in Nat
                                          /\ w[3] = 0 => w[4] = 0
  <1> DEFINE Sized == \A w \in Range(l.words) :
                         /\ w[1] = "run" => w[2] \in Nat
                         /\ w[1] = "provision" => /\ w[3] \in Nat /\ w[4] \in Nat
                                                  /\ w[3] = 0 => w[4] = 0
  <1>1. ASSUME NEW where, NEW kinds, IsLine(l, where, kinds)
        PROVE  l.part = where /\ Sized
    <2> DEFINE m == [kind |-> l.kind, words |-> l.words, part |-> where, cites |-> l.cites]
    <2>1. m.part = where /\ l = m
      BY <1>1 DEF IsLine
    <2>2. Sized
      BY <1>1 DEF IsLine
    <2> HIDE DEF m, Sized
    <2> QED  BY <2>1, <2>2
  <1> HIDE DEF Sized
  <1>2. Pieces = {"reasons", "holding", "trailer", "appendix"}
    BY DEF Pieces
  <1>3. CASE l \in Range(Templates[t].head)
    <2>1. IsLine(l, "head", ProseKinds)
      BY <1>3, LinesAssumption
    <2>2. l.part = "head" /\ Sized
      BY <1>1, <2>1
    <2> QED  BY <1>2, <1>3, <2>2 DEF Sized
  <1>4. CASE l \in Templates[t].lines["reasons"]
    <2>1. IsLine(l, "reasons", ProseKinds)
      BY <1>4, LinesAssumption
    <2>2. l.part = "reasons" /\ Sized
      BY <1>1, <2>1
    <2> QED  BY <1>2, <1>4, <2>2 DEF Sized
  <1>5. CASE l \in Templates[t].lines["holding"]
    <2>1. IsLine(l, "holding", ProseKinds \union {"heading"})
      BY <1>5, LinesAssumption
    <2>2. l.part = "holding" /\ Sized
      BY <1>1, <2>1
    <2> QED  BY <1>2, <1>5, <2>2 DEF Sized
  <1>6. CASE l \in Templates[t].lines["trailer"]
    <2>1. IsLine(l, "trailer", TrailerFields \union {"prose", "rule"})
      BY <1>6, LinesAssumption
    <2>2. l.part = "trailer" /\ Sized
      BY <1>1, <2>1
    <2> QED  BY <1>2, <1>6, <2>2 DEF Sized
  <1>7. CASE l \in Templates[t].lines["appendix"]
    <2>1. IsLine(l, "appendix", LineKinds)
      BY <1>7, LinesAssumption
    <2>2. l.part = "appendix" /\ Sized
      BY <1>1, <2>1
    <2> QED  BY <1>2, <1>7, <2>2 DEF Sized
  <1>8. CASE l \in Range(PageBreak)
    <2>1. PICK k \in {"blank", "rule"} :
                  l = [kind |-> k, words |-> <<>>, part |-> "page", cites |-> {}]
      BY <1>8 DEF PageBreak, Range
    <2>2. l.words = <<>> /\ l.part = "page" /\ l.cites = {}
      BY <2>1
    <2>3. Range(l.words) = {}
      BY <2>2 DEF Range
    <2> QED  BY <1>2, <2>2, <2>3
  <1> QED  BY <1>3, <1>4, <1>5, <1>6, <1>7, <1>8 DEF TextLines, LinesGiven, Pieces

\* A field the trailer does not have reads as nothing.
LEMMA FieldIsNone ==
    ASSUME TextHolds, NEW field \in TrailerFields,
           \A i \in DOMAIN text :
              FindTrailerStart(text) <= i /\ text[i].part = "trailer" => text[i].kind # field
    PROVE  FieldValue(SplitDocument(text).trailer, field) = None
  <1> DEFINE trailer == SplitDocument(text).trailer
             len == Len(trailer)
  <1>1. PICK h : IsTrailer(h)
    BY TrailerIs
  <1>2. DOMAIN trailer = 1 .. len
    BY TrailerIs, LenProperties
  <1>3. \A n \in 1 .. len : /\ h[n] \in DOMAIN text /\ trailer[n] = text[h[n]]
                            /\ text[h[n]].part \in {"trailer", "page"}
    BY <1>1, TrailerFollows
  <1>4. \A n \in 1 .. len : FindTrailerStart(text) <= h[n]
    <2> TAKE n \in 1 .. len
    <2>1. h[n] \in FindTrailerStart(text) .. AppendixStart(text) - 1
      BY <1>1 DEF IsTrailer
    <2>2. FindTrailerStart(text) \in Nat /\ AppendixStart(text) \in Nat
      BY Cuts, TextIsLines
    <2> QED  BY <2>1, <2>2
  <1> HIDE DEF trailer, len
  <1>5. ASSUME NEW n \in 1 .. len, trailer[n].kind = field
        PROVE  FALSE
    <2>1. text[h[n]] \in TextLines(template) /\ template \in DOMAIN Templates
      BY <1>3, TextIsLines DEF TextHolds
    <2>2. text[h[n]].part = "page" => text[h[n]].kind \in {"blank", "rule"}
      BY <2>1, LineFacts
    <2> QED  BY <1>3, <1>4, <1>5, <2>2 DEF TrailerFields
  <1>6. LinesOf(trailer, {field}) = {}
    BY <1>2, <1>5 DEF LinesOf
  <1> QED  BY <1>6 DEF FieldValue, trailer

\* The body is of the lines before the trailer, and has all but the empty ones
\* around it.
LEMMA BodyLines ==
    ASSUME TextHolds
    PROVE  LET S == FindTrailerStart(text)
               body == SplitDocument(text).body
           IN  /\ body \in Seq(TextLines(template))
               /\ \A k \in DOMAIN body :
                     /\ \E i \in DOMAIN text : i < S /\ body[k] = text[i]
                     /\ Range(body[k].words) \subseteq WordsIn(NamndsOwn)
                     /\ body[k].kind \notin {"subject", "matter"}
                     /\ body[k].kind = "number" => body[k].part = "trailer"
               /\ \A i \in DOMAIN text : i < S /\ text[i].kind # "blank" =>
                     \E k \in DOMAIN body : body[k] = text[i]
  <1> DEFINE S == FindTrailerStart(text)
             body == SplitDocument(text).body
             N == Len(text)
  <1>1. N \in Nat /\ DOMAIN text = 1 .. N /\ \A i \in 1 .. N : text[i] \in TextLines(template)
    BY TextIsLines
  <1>2. S \in 1 .. N + 1
    BY <1>1, Cuts
  <1>3. template \in DOMAIN Templates
    BY DEF TextHolds
  <1>4. PICK a \in Nat, b \in Nat :
                   /\ 1 <= a /\ a <= b + 1 /\ b < S
                   /\ body = SubSeq(text, a, b) /\ body \in Seq(TextLines(template))
                   /\ Len(body) = b - a + 1 /\ DOMAIN body = 1 .. b - a + 1
                   /\ \A i \in 1 .. b - a + 1 : body[i] = text[a + i - 1] /\ a + i - 1 \in a .. b
                   /\ \A i \in 1 .. S - 1 : text[i].kind # "blank" => a <= i /\ i <= b
    BY BodyIs
  <1>5. \A i \in 1 .. N : i < S =>
           /\ \/ text[i].part \in {"head", "reasons", "holding", "page"}
              \/ text[i].part = "trailer" /\ text[i].kind \in {"number", "rule"}
           /\ text[i].kind \notin {"subject", "matter"}
    BY <1>1, Cuts
  <1> HIDE DEF S, body
  <1>6. ASSUME NEW k \in DOMAIN body
        PROVE  /\ \E i \in DOMAIN text : i < S /\ body[k] = text[i]
               /\ Range(body[k].words) \subseteq WordsIn(NamndsOwn)
               /\ body[k].kind \notin {"subject", "matter"}
               /\ body[k].kind = "number" => body[k].part = "trailer"
    <2> DEFINE i == a + k - 1
    <2>1. body[k] = text[i] /\ i \in a .. b
      BY <1>4
    <2>2. i \in 1 .. N /\ i < S
      BY <1>1, <1>2, <1>4, <2>1
    <2> HIDE DEF i
    <2>3. /\ text[i].part \in {"head", "reasons", "holding", "trailer", "page"}
          /\ text[i].kind \notin {"subject", "matter"}
      BY <1>5, <2>2
    <2>4. /\ text[i].part = "page" => text[i].words = <<>> /\ text[i].kind \in {"blank", "rule"}
          /\ text[i].part \in {"head", "reasons"} => text[i].kind \in ProseKinds
          /\ text[i].part = "holding" => text[i].kind \in ProseKinds \union {"heading"}
      BY <1>1, <1>3, <2>2, LineFacts, LineOrigins
    <2>5. Range(text[i].words) \subseteq WordsIn(NamndsOwn)
      <3>1. CASE text[i].part = "page"
        BY <2>4, <3>1 DEF Range
      <3>2. CASE text[i].part # "page"
        <4>1. text[i].part \in NamndsOwn
          BY <2>3, <3>2 DEF NamndsOwn
        <4>2. text[i] \in LinesIn(NamndsOwn)
          BY <1>1, <2>2, <4>1 DEF LinesIn
        <4> QED  BY <4>2 DEF WordsIn
      <3> QED  BY <3>1, <3>2
    <2>6. text[i].kind = "number" => text[i].part = "trailer"
      BY <2>3, <2>4 DEF ProseKinds
    <2> QED  BY <1>1, <2>1, <2>2, <2>3, <2>5, <2>6
  <1>7. ASSUME NEW i \in DOMAIN text, i < S, text[i].kind # "blank"
        PROVE  \E k \in DOMAIN body : body[k] = text[i]
    <2>1. a <= i /\ i <= b
      BY <1>1, <1>2, <1>4, <1>7
    <2>2. i - a + 1 \in 1 .. b - a + 1 /\ a + (i - a + 1) - 1 = i
      BY <1>1, <1>4, <1>7, <2>1
    <2> QED  BY <1>4, <2>2
  <1> QED  BY <1>4, <1>6, <1>7 DEF S, body

(***************************************************************************)
(* The decision's identity.                                                *)
(***************************************************************************)
\* The trailer's labelled lines state a number each.
LEMMA TrailerStates ==
    ASSUME TextHolds, NEW i \in DOMAIN text, text[i].part = "trailer"
    PROVE  /\ text[i].kind = "matter" => NormalizeCase(text[i].words) # None
           /\ text[i].kind = "number" => /\ NormalizeDecision(text[i].words) # None
                                         /\ StandsAlone(text[i].words)
                                         /\ CitesNothing(text[i].words)
           /\ NamesNoProvision(text[i]) /\ text[i].words # None
           /\ text[i].kind \in TrailerFields \union {"prose", "rule"}
  <1>1. text[i] \in TextLines(template) /\ template \in DOMAIN Templates
    BY TextIsLines DEF TextHolds
  <1>2. text[i] \in Templates[template].lines["trailer"]
    BY <1>1, LineOrigins DEF Pieces
  <1>3. text[i].words # None
    BY <1>1, WordsAreGiven
  <1>4. text[i].kind \in TrailerFields \union {"prose", "rule"}
    BY <1>1, LineFacts
  <1> QED  BY <1>1, <1>2, <1>3, <1>4, LinesAssumption

\* The case number that the rules read off a decision is the one its trailer
\* states, and none where it states none.
LEMMA CaseIsStated ==
    ASSUME TextHolds
    PROVE  LET case == ExtractCaseNumber(SplitDocument(text))
               stated == {l \in LinesIn({"trailer"}) : l.kind = "matter"}
           IN  /\ \A l \in stated : case = NormalizeCase(l.words) /\ case # None
               /\ stated = {} => case = None
  <1> DEFINE seg == SplitDocument(text)
             S == FindTrailerStart(text)
             case == ExtractCaseNumber(seg)
             value == FieldValue(seg.trailer, "matter")
             stated == {l \in LinesIn({"trailer"}) : l.kind = "matter"}
  <1>1. LinesOf(seg.body, {"matter"}) = {}
    BY BodyLines DEF LinesOf
  <1>2. case = IF value # None /\ NormalizeCase(value) # None THEN NormalizeCase(value) ELSE None
    BY <1>1 DEF ExtractCaseNumber, FromTrailerOrBody
  <1>3. "matter" \in TrailerFields
    BY DEF TrailerFields
  <1>4. \A i \in DOMAIN text : i \in Nat /\ S \in Nat /\ (i < S => text[i].kind # "matter")
    BY TextIsLines, Cuts
  <1> HIDE DEF seg, case, value, S
  <1>5. ASSUME NEW i \in DOMAIN text, text[i].part = "trailer", text[i].kind = "matter"
        PROVE  case = NormalizeCase(text[i].words) /\ case # None
    <2>1. S <= i
      BY <1>4, <1>5
    <2>2. value = text[i].words
      BY <1>3, <1>5, <2>1, FieldReads DEF value, seg, S
    <2>3. NormalizeCase(value) # None /\ value # None
      BY <1>5, <2>2, TrailerStates
    <2> QED  BY <1>2, <2>2, <2>3
  <1>6. ASSUME stated = {}
        PROVE  case = None
    <2>1. \A i \in DOMAIN text : text[i].part = "trailer" => text[i].kind # "matter"
      BY <1>6 DEF LinesIn
    <2>2. value = None
      BY <1>3, <2>1, FieldIsNone DEF value, seg
    <2> QED  BY <1>2, <2>2
  <1>7. \A l \in stated : case = NormalizeCase(l.words) /\ case # None
    BY <1>5 DEF LinesIn
  <1> QED  BY <1>6, <1>7 DEF case, seg

\* The decision number is the one the trailer states, wherever in it, and the
\* listing's where it states none.
LEMMA DecisionIsStated ==
    ASSUME TextHolds, NEW headline
    PROVE  LET decision == ExtractDecisionNumber(SplitDocument(text), headline)
               stated == {l \in LinesIn({"trailer"}) : l.kind = "number"}
           IN  /\ \A l \in stated : decision = NormalizeDecision(l.words)
               /\ stated = {} => decision = ParseHeadline(headline).decision
  <1> DEFINE seg == SplitDocument(text)
             S == FindTrailerStart(text)
             decision == ExtractDecisionNumber(seg, headline)
             value == FieldValue(seg.trailer, "number")
             inBody == LinesOf(seg.body, {"number"})
             read == FromTrailerOrBody(seg, "number")
             stated == {l \in LinesIn({"trailer"}) : l.kind = "number"}
  <1>1. decision = IF read # None THEN read ELSE ParseHeadline(headline).decision
    BY DEF ExtractDecisionNumber
  <1>2. read = IF value # None /\ NormalizeDecision(value) # None THEN NormalizeDecision(value)
               ELSE IF inBody # {} THEN NormalizeDecision(seg.body[Min(inBody)].words)
               ELSE None
    BY DEF FromTrailerOrBody
  <1>3. inBody # {} =>
            \E i \in DOMAIN text : /\ text[i].part = "trailer" /\ text[i].kind = "number"
                                   /\ seg.body[Min(inBody)] = text[i]
    <2> SUFFICES ASSUME inBody # {}
                 PROVE  \E i \in DOMAIN text :
                            /\ text[i].part = "trailer" /\ text[i].kind = "number"
                            /\ seg.body[Min(inBody)] = text[i]
      OBVIOUS
    <2>1. DOMAIN seg.body \in SUBSET Nat
      BY BodyLines, LenProperties
    <2>2. inBody \in SUBSET Nat
      BY <2>1 DEF LinesOf
    <2>3. Min(inBody) \in inBody
      <3> HIDE DEF inBody
      <3> QED  BY <2>2, LeastExists
    <2> DEFINE k == Min(inBody)
    <2>4. k \in DOMAIN seg.body /\ seg.body[k].kind = "number"
      BY <2>3 DEF LinesOf
    <2> HIDE DEF k
    <2>5. PICK i \in DOMAIN text : seg.body[k] = text[i]
      BY <2>4, BodyLines
    <2>6. text[i].part = "trailer" /\ text[i].kind = "number"
      BY <2>4, <2>5, BodyLines
    <2> QED  BY <2>5, <2>6 DEF k
  <1>4. "number" \in TrailerFields
    BY DEF TrailerFields
  <1>5. \A i \in DOMAIN text : /\ i \in Nat /\ S \in Nat
                               /\ i < S /\ text[i].kind = "number" => inBody # {}
    BY TextIsLines, Cuts, BodyLines DEF LinesOf
  <1> HIDE DEF seg, decision, value, inBody, read, S
  <1>6. ASSUME NEW i \in DOMAIN text, text[i].part = "trailer", text[i].kind = "number"
        PROVE  decision = NormalizeDecision(text[i].words)
    <2>1. \A j \in DOMAIN text : text[j].part = "trailer" /\ text[j].kind = "number" => j = i
      BY <1>6 DEF TextHolds, FieldsOnce
    <2>2. NormalizeDecision(text[i].words) # None /\ text[i].words # None
      BY <1>6, TrailerStates
    <2>3. CASE S <= i
      <3>1. value = text[i].words
        BY <1>4, <1>6, <2>3, FieldReads DEF value, seg, S
      <3> QED  BY <1>1, <1>2, <2>2, <3>1
    <2>4. CASE i < S
      <3>1. \A j \in DOMAIN text : S <= j /\ text[j].part = "trailer" => text[j].kind # "number"
        BY <1>5, <2>1, <2>4
      <3>2. value = None
        BY <1>4, <3>1, FieldIsNone DEF value, seg, S
      <3>3. inBody # {}
        BY <1>5, <1>6, <2>4
      <3>4. seg.body[Min(inBody)] = text[i]
        BY <1>3, <2>1, <3>3
      <3> QED  BY <1>1, <1>2, <2>2, <3>2, <3>3, <3>4
    <2> QED  BY <1>5, <2>3, <2>4
  <1>7. ASSUME stated = {}
        PROVE  decision = ParseHeadline(headline).decision
    <2>1. \A i \in DOMAIN text : text[i].part = "trailer" => text[i].kind # "number"
      BY <1>7 DEF LinesIn
    <2>2. value = None
      BY <1>4, <2>1, FieldIsNone DEF value, seg
    <2>3. inBody = {}
      BY <1>3, <2>1
    <2> QED  BY <1>1, <1>2, <2>2, <2>3
  <1>8. \A l \in stated : decision = NormalizeDecision(l.words)
    BY <1>6 DEF LinesIn
  <1> QED  BY <1>7, <1>8 DEF decision, seg

\* The holding runs from the first heading to the end of the body, and is
\* nothing where no word is in it.
AsProse(l) == [l EXCEPT !.kind = "prose"]

IsHolding(rest, m, body, R) ==
    /\ m \in 1 .. Len(body) /\ body[m].kind = "heading"
    /\ \A j \in 1 .. m - 1 : body[j].kind # "heading"
    /\ rest \in Seq(R \union {AsProse(l) : l \in R})
    /\ Len(rest) = Len(body) - m + 1 /\ Len(rest) >= 1
    /\ rest[1] = AsProse(body[m])
    /\ \A i \in 2 .. Len(rest) : rest[i] = body[m + i - 1]

\* The holding runs from the first heading of the body to its end.
LEMMA HoldingIs ==
    ASSUME NEW R, NEW body \in Seq(R)
    PROVE  \/ LinesOf(body, {"heading"}) = {} /\ FindHolding(body) = None
           \/ \E rest, m : /\ IsHolding(rest, m, body, R)
                           /\ FindHolding(body) =
                                IF \A i \in 1 .. Len(rest) : rest[i].words = <<>> THEN None ELSE rest
  <1> DEFINE headings == LinesOf(body, {"heading"})
             n == Len(body)
             m == Min(headings)
             cut == SubSeq(body, m, n)
             rest == [cut EXCEPT ![1].kind = "prose"]
             T == R \union {AsProse(l) : l \in R}
  <1>1. n \in Nat /\ DOMAIN body = 1 .. n /\ \A i \in 1 .. n : body[i] \in R
    BY LenProperties, ElementOfSeq
  <1>2. CASE headings = {}
    <2>1. FindHolding(body) = None
      BY <1>2 DEF FindHolding
    <2> QED  BY <1>2, <2>1
  <1>3. CASE headings # {}
    <2>1. FindHolding(body) = IF \A i \in DOMAIN rest : rest[i].words = <<>> THEN None ELSE rest
      BY <1>3 DEF FindHolding
    <2>2. headings \in SUBSET Nat
      BY <1>1 DEF LinesOf
    <2>3. m \in headings /\ \A x \in headings : m <= x
      <3> HIDE DEF headings
      <3> QED  BY <1>3, <2>2, LeastExists
    <2>4. m \in 1 .. n /\ body[m].kind = "heading"
      <3> HIDE DEF m
      <3> QED  BY <1>1, <2>3 DEF LinesOf
    <2> HIDE DEF m
    <2>5. \A j \in 1 .. m - 1 : body[j].kind # "heading"
      <3> SUFFICES ASSUME NEW j \in 1 .. m - 1, body[j].kind = "heading"
                   PROVE  FALSE
        OBVIOUS
      <3>1. j \in headings /\ ~(m <= j)
        BY <1>1, <2>4 DEF LinesOf
      <3> QED  BY <2>3, <3>1
    <2>6. m \in Nat /\ 1 <= m /\ m <= n + 1 /\ n - m + 1 \in Nat /\ n - m + 1 >= 1
      BY <1>1, <2>4
    <2>7. /\ cut \in Seq(R) /\ Len(cut) = n - m + 1 /\ DOMAIN cut = 1 .. n - m + 1
          /\ \A i \in 1 .. n - m + 1 : cut[i] = body[m + i - 1]
      BY <1>1, <2>6, CutFacts
    <2>8. \A i \in 1 .. n - m + 1 : cut[i] \in R
      BY <2>7, ElementOfSeq
    <2> HIDE DEF cut
    <2>9. rest = [i \in 1 .. n - m + 1 |-> IF i = 1 THEN AsProse(cut[1]) ELSE cut[i]]
      BY <2>6, <2>7 DEF AsProse
    <2> HIDE DEF rest
    <2>10. cut[1] \in R /\ cut[1] = body[m]
      BY <2>6, <2>7, <2>8
    <2>11. AsProse(cut[1]) \in T
      BY <2>10
    <2>12. rest \in [1 .. n - m + 1 -> T]
      <3> HIDE DEF T
      <3>1. R \subseteq T
        BY DEF T
      <3> QED  BY <2>8, <2>9, <2>11, <3>1
    <2>13. rest \in Seq(T) /\ Len(rest) = n - m + 1 /\ DOMAIN rest = 1 .. n - m + 1
      <3> HIDE DEF T
      <3>1. rest \in Seq(T)
        BY <2>6, <2>12, SeqDef
      <3> QED  BY <2>6, <2>12, <3>1, LenProperties
    <2>14. rest[1] = AsProse(body[m])
      BY <2>6, <2>9, <2>10
    <2>15. \A i \in 2 .. Len(rest) : rest[i] = body[m + i - 1]
      <3> TAKE i \in 2 .. Len(rest)
      <3>1. i \in 1 .. n - m + 1 /\ i # 1
        BY <2>13
      <3>2. rest[i] = cut[i]
        BY <2>9, <3>1
      <3> QED  BY <2>7, <3>1, <3>2
    <2>16. IsHolding(rest, m, body, R)
      BY <2>4, <2>5, <2>6, <2>13, <2>14, <2>15 DEF IsHolding
    <2>17. FindHolding(body) = IF \A i \in 1 .. Len(rest) : rest[i].words = <<>> THEN None ELSE rest
      BY <2>1, <2>13
    <2> QED  BY <2>16, <2>17
  <1> QED  BY <1>2, <1>3

\* Its lines are of the decision itself.
LEMMA HoldingLines ==
    ASSUME TextHolds, NEW rest, NEW m,
           IsHolding(rest, m, SplitDocument(text).body, TextLines(template))
    PROVE  LET body == SplitDocument(text).body
           IN  \A i \in 1 .. Len(rest) :
                  /\ m + i - 1 \in DOMAIN body
                  /\ rest[i].words = body[m + i - 1].words
                  /\ i = 1 => rest[i].kind = "prose"
                  /\ i # 1 => rest[i] = body[m + i - 1]
  <1> DEFINE body == SplitDocument(text).body
             R == TextLines(template)
  <1>1. body \in Seq(R)
    BY BodyLines
  <1> HIDE DEF body
  <1>2. Len(body) \in Nat /\ DOMAIN body = 1 .. Len(body) /\ \A k \in DOMAIN body : body[k] \in R
    BY <1>1, LenProperties, ElementOfSeq
  <1>3. /\ m \in 1 .. Len(body) /\ Len(rest) = Len(body) - m + 1 /\ rest[1] = AsProse(body[m])
        /\ \A i \in 2 .. Len(rest) : rest[i] = body[m + i - 1]
    BY DEF IsHolding, body
  <1>4. AsProse(body[m]).kind = "prose" /\ AsProse(body[m]).words = body[m].words
    <2> DEFINE l == body[m]
    <2>1. l \in R /\ template \in DOMAIN Templates
      BY <1>2, <1>3 DEF TextHolds
    <2> HIDE DEF l
    <2>2. l = [kind |-> l.kind, words |-> l.words, part |-> l.part, cites |-> l.cites]
      BY <2>1, LineFacts
    <2>3. "kind" \in DOMAIN l /\ "words" \in DOMAIN l
      BY <2>2
    <2>4. AsProse(l).kind = "prose" /\ AsProse(l).words = l.words
      BY <2>3 DEF AsProse
    <2> QED  BY <2>4 DEF l
  <1>5. ASSUME NEW i \in 1 .. Len(rest)
        PROVE  /\ m + i - 1 \in DOMAIN body
               /\ rest[i].words = body[m + i - 1].words
               /\ i = 1 => rest[i].kind = "prose"
               /\ i # 1 => rest[i] = body[m + i - 1]
    <2>1. m + i - 1 \in DOMAIN body
      BY <1>2, <1>3
    <2>2. CASE i = 1
      <3>1. m + i - 1 = m
        BY <1>3, <2>2
      <3> QED  BY <1>3, <1>4, <2>1, <2>2, <3>1
    <2>3. CASE i # 1
      <3>1. i \in 2 .. Len(rest)
        BY <1>2, <1>3, <2>3
      <3> QED  BY <1>3, <2>1, <2>3, <3>1
    <2> QED  BY <2>2, <2>3
  <1> QED  BY <1>5 DEF body

\* What is read off the body is of the namnd's own words.
LEMMA ReadWordsAreOwn ==
    ASSUME TextHolds, NEW headline
    PROVE  LET seg == SplitDocument(text)
               date == ExtractDate(seg)
               outcome == ExtractOutcome(seg)
               category == ExtractCategory(seg, headline)
           IN  /\ date # None => Range(date) \subseteq WordsIn(NamndsOwn)
               /\ outcome # None => Range(outcome) \subseteq WordsIn(NamndsOwn)
               /\ \/ category = ParseHeadline(headline).title
                  \/ Range(category) \subseteq WordsIn(NamndsOwn)
  <1> DEFINE seg == SplitDocument(text)
             body == seg.body
             W == WordsIn(NamndsOwn)
             R == TextLines(template)
             X == WordsGiven(template)
             dates == LinesOf(body, {"date"})
             rulings(k) == {i \in DOMAIN body :
                              /\ i + SummaryTail > Len(body)
                              /\ OutcomeKeywords[k] \in Range(body[i].words)}
             said == {k \in DOMAIN OutcomeKeywords : rulings(k) # {}}
             lines == IF Len(body) < HeaderSearchLines THEN Len(body) ELSE HeaderSearchLines
             named == {i \in LinesOf(body, {"header"}) :
                         /\ i + CategoryOffset <= lines
                         /\ body[i + CategoryOffset].words # <<>>}
  <1>1. /\ body \in Seq(R) /\ Len(body) \in Nat /\ DOMAIN body = 1 .. Len(body)
        /\ \A k \in DOMAIN body : body[k] \in R /\ Range(body[k].words) \subseteq W
    BY BodyLines, LenProperties, ElementOfSeq
  <1>2. ASSUME NEW K \in SUBSET DOMAIN body, K # {}
        PROVE  Min(K) \in K /\ Range(body[Min(K)].words) \subseteq W
    <2>1. K \in SUBSET Nat
      BY <1>1
    <2>2. Min(K) \in K
      BY <1>2, <2>1, LeastExists
    <2> QED  BY <1>1, <2>2
  <1>3. ASSUME ExtractDate(seg) # None
        PROVE  Range(ExtractDate(seg)) \subseteq W
    <2>1. dates # {} /\ ExtractDate(seg) = body[Min(dates)].words
      BY <1>3 DEF ExtractDate
    <2>2. dates \in SUBSET DOMAIN body
      BY DEF LinesOf
    <2> HIDE DEF dates, seg
    <2> QED  BY <1>2, <2>1, <2>2
  <1>4. ASSUME seg.holding = None, ExtractOutcome(seg) # None
        PROVE  Range(ExtractOutcome(seg)) \subseteq W
    <2>1. said # {} /\ ExtractOutcome(seg) = body[Min(rulings(Min(said)))].words
      BY <1>4 DEF ExtractOutcome
    <2>2. said \in SUBSET Nat
      BY DEF OutcomeKeywords
    <2>3. Min(said) \in said
      <3> HIDE DEF said
      <3> QED  BY <2>1, <2>2, LeastExists
    <2> DEFINE K == rulings(Min(said))
    <2>4. K \in SUBSET DOMAIN body /\ K # {}
      BY <2>3
    <2> HIDE DEF K, seg
    <2>5. Range(body[Min(K)].words) \subseteq W
      BY <1>2, <2>4
    <2> QED  BY <2>1, <2>5 DEF K
  <1>5. ASSUME seg.holding # None
        PROVE  Range(ExtractOutcome(seg)) \subseteq W
    <2>1. seg.holding = FindHolding(body)
      BY DEF SplitDocument
    <2>2. PICK rest, m : IsHolding(rest, m, body, R) /\ seg.holding = rest
      <3> HIDE DEF seg
      <3> QED  BY <1>1, <1>5, <2>1, HoldingIs
    <2>3. rest \in Seq(R \union {AsProse(l) : l \in R})
      BY <2>2 DEF IsHolding
    <2>4. Len(rest) \in Nat /\ DOMAIN rest = 1 .. Len(rest)
      BY <2>3, LenProperties
    <2>5. \A i \in 1 .. Len(rest) : \E k \in DOMAIN body : rest[i].words = body[k].words
      BY <2>2, HoldingLines
    <2> DEFINE ss == [i \in 1 .. Len(rest) |-> rest[i].words]
    <2>6. ExtractOutcome(seg) = FlattenSeq(ss)
      BY <1>5, <2>2, <2>4 DEF ExtractOutcome
    <2>7. template \in DOMAIN Templates
      BY DEF TextHolds
    <2> HIDE DEF seg, X, R, W
    <2>8. \A k \in DOMAIN body : body[k].words \in Seq(X)
      BY <1>1, <2>7, WordsAreGiven DEF X, R
    <2>9. ss \in [1 .. Len(rest) -> Seq(X)]
      BY <2>5, <2>8
    <2>10. ss \in Seq(Seq(X))
      BY <2>4, <2>9, SeqDef
    <2>11. Len(ss) = Len(rest)
      BY <2>4, <2>9, <2>10, LenProperties
    <2>12. \A i \in 1 .. Len(ss) : Range(ss[i]) \subseteq W
      BY <1>1, <2>5, <2>11
    <2> HIDE DEF ss
    <2>13. Range(FlattenSeq(ss)) = UNION {Range(ss[i]) : i \in 1 .. Len(ss)}
      BY <2>10, FlattenRange
    <2> QED  BY <2>6, <2>12, <2>13
  <1>6. ASSUME ExtractCategory(seg, headline) # ParseHeadline(headline).title
        PROVE  Range(ExtractCategory(seg, headline)) \subseteq W
    <2>1. named # {} /\ ExtractCategory(seg, headline) = body[Min(named) + CategoryOffset].words
      BY <1>6 DEF ExtractCategory
    <2>2. named \in SUBSET DOMAIN body
      BY DEF LinesOf
    <2> DEFINE k == Min(named) + CategoryOffset
    <2>3. Min(named) \in named
      <3> HIDE DEF named, seg
      <3> QED  BY <1>2, <2>1, <2>2
    <2>4. k \in DOMAIN body
      <3>1. Min(named) \in DOMAIN body /\ Min(named) + CategoryOffset <= lines
        BY <2>2, <2>3
      <3>2. lines <= Len(body)
        <4> HIDE DEF seg
        <4> QED  BY <1>1 DEF HeaderSearchLines
      <3> DEFINE x == Min(named)
      <3> HIDE DEF lines, seg, x
      <3>3. x \in DOMAIN body /\ x + 2 <= lines /\ lines <= Len(body)
        BY <3>1, <3>2 DEF x, CategoryOffset
      <3>4. lines \in Int
        BY <1>1 DEF lines, HeaderSearchLines
      <3> QED  BY <1>1, <3>3, <3>4 DEF x, CategoryOffset
    <2> HIDE DEF k
    <2>5. Range(body[k].words) \subseteq W
      BY <1>1, <2>4
    <2> QED  BY <2>1, <2>5 DEF k
  <1> QED  BY <1>3, <1>4, <1>5, <1>6

\* The number a bare answer canonicalises to is among its words.
LEMMA BareAnswer ==
    ASSUME NEW words, words # None, IsBareIdentifier(words), NormalizeCase(words) # None,
           DOMAIN words \in SUBSET Nat
    PROVE  /\ \A w \in Range(words) : IsId(w) \/ w = <<"ON">>
           /\ \E w \in Range(words) : IsId(w) /\ NormalizeCase(words) = CaseNumber(w)
  <1> DEFINE at == {i \in DOMAIN words : IsId(words[i]) /\ words[i][2] \in CaseForms}
  <1>1. at # {} /\ NormalizeCase(words) = CaseNumber(words[Min(at)])
    BY DEF NormalizeCase, FirstId
  <1>2. Min(at) \in at
    <2>1. at \in SUBSET Nat
      OBVIOUS
    <2> HIDE DEF at
    <2> QED  BY <1>1, <2>1, LeastExists
  <1>3. \A w \in Range(words) : IsId(w) \/ w = <<"ON">>
    BY DEF IsBareIdentifier, Range
  <1>4. words[Min(at)] \in Range(words) /\ IsId(words[Min(at)])
    BY <1>2 DEF Range
  <1> QED  BY <1>1, <1>3, <1>4

\* A decision is filed under what its trailer states, and else under what was
\* said of it.
LEMMA IdentityFollows == Inductive => IdentityIsAsStated
  <1> DEFINE stated(kind) == {l \in LinesIn({"trailer"}) : l.kind = kind}
             answer == heard.answer
             headline == heard.headline
             listed == ParseHeadline(headline)
  <1> SUFFICES ASSUME Inductive, Described
               PROVE  /\ \A l \in stated("matter") : columns.case = NormalizeCase(l.words)
                      /\ \A l \in stated("number") : columns.decision = NormalizeDecision(l.words)
                      /\ stated("matter") = {} /\ columns.case # None =>
                            /\ answer # None
                            /\ \A w \in Range(answer.case) : IsId(w) \/ w = <<"ON">>
                            /\ \E w \in Range(answer.case) :
                                  IsId(w) /\ columns.case = CaseNumber(w)
                      /\ stated("number") = {} => columns.decision = listed.decision
                      /\ \A f \in {"date", "outcome", "category"} :
                            \/ columns[f] = None
                            \/ Range(columns[f]) \intersect Foreign = {}
                            \/ f = "category" /\ columns[f] = listed.title
                            \/ answer # None /\ columns[f] = answer[f]
    BY DEF IdentityIsAsStated
  <1> USE DEF Inductive
  <1>1. template \in DOMAIN Templates
    BY DEF TextHolds
  <1>2. /\ answer \in Templates[template].answers
        /\ columns = Completed(ExtractMetadata(text, headline), answer)
    BY DEF StepsRan, Given
  <1> DEFINE seg == SplitDocument(text)
             M == ExtractMetadata(text, headline)
             fields == {"case", "decision", "date", "outcome", "category"}
  <1>3. /\ DOMAIN M = fields
        /\ M.case = ExtractCaseNumber(seg)
        /\ M.decision = ExtractDecisionNumber(seg, headline)
        /\ M.date = ExtractDate(seg)
        /\ M.outcome = ExtractOutcome(seg)
        /\ M.category = ExtractCategory(seg, headline)
    BY DEF ExtractMetadata
  <1> HIDE DEF M, seg, answer, headline
  <1>4. /\ \A l \in stated("matter") : M.case = NormalizeCase(l.words) /\ M.case # None
        /\ stated("matter") = {} => M.case = None
    BY <1>3, CaseIsStated DEF seg
  <1>5. /\ \A l \in stated("number") : M.decision = NormalizeDecision(l.words)
        /\ stated("number") = {} => M.decision = listed.decision
    BY <1>3, DecisionIsStated DEF seg
  <1> HIDE DEF stated
  <1>6. ASSUME NEW f \in {"date", "outcome", "category"}, M[f] # None
        PROVE  \/ Range(M[f]) \intersect Foreign = {}
               \/ f = "category" /\ M[f] = listed.title
    <2>1. /\ M.date # None => Range(M.date) \subseteq WordsIn(NamndsOwn)
          /\ M.outcome # None => Range(M.outcome) \subseteq WordsIn(NamndsOwn)
          /\ \/ M.category = listed.title
             \/ Range(M.category) \subseteq WordsIn(NamndsOwn)
      BY <1>3, ReadWordsAreOwn DEF seg
    <2>2. Range(M[f]) \subseteq WordsIn(NamndsOwn) \/ (f = "category" /\ M[f] = listed.title)
      BY <1>6, <2>1
    <2>3. Foreign \intersect WordsIn(NamndsOwn) = {}
      BY DEF Foreign
    <2> QED  BY <2>2, <2>3
  <1> DEFINE read == CanonicalizeAnswer(ReadAnswer(answer))
  <1>7. ASSUME answer # None
        PROVE  /\ read.case # None => /\ answer.case # None /\ IsBareIdentifier(answer.case)
                                      /\ read.case = NormalizeCase(answer.case)
               /\ \A f \in {"date", "outcome", "category"} : read[f] \in {None, answer[f]}
    <2> DEFINE dated == ReadAnswer(answer)
    <2>1. DOMAIN answer = AskedFields \union {"decision"}
      BY <1>1, <1>2, <1>7, MeetingAssumption
    <2>2. /\ DOMAIN dated = AskedFields \union {"decision"}
          /\ dated.date = None \/ dated.date = answer.date
          /\ dated.case = answer.case /\ dated.outcome = answer.outcome
          /\ dated.category = answer.category
      BY <2>1 DEF ReadAnswer, AskedFields
    <2> HIDE DEF dated
    <2>3. /\ read.case = IF dated.case = None \/ ~IsBareIdentifier(dated.case) THEN None
                         ELSE NormalizeCase(dated.case)
          /\ read.date = dated.date /\ read.outcome = dated.outcome /\ read.category = dated.category
      BY <2>2 DEF CanonicalizeAnswer, AskedFields, dated
    <2> HIDE DEF read
    <2> QED  BY <2>2, <2>3
  <1> HIDE DEF read
  <1>8. \A f \in fields :
           \/ columns[f] = M[f]
           \/ f # "decision" /\ M[f] = None /\ answer # None /\ columns[f] = read[f]
    <2>1. CASE IsComplete(M) \/ answer = None
      BY <1>2, <2>1 DEF Completed, M
    <2>2. CASE ~(IsComplete(M) \/ answer = None)
      <3>1. columns = [f \in DOMAIN M |-> IF f \in AskedFields /\ M[f] = None THEN read[f] ELSE M[f]]
        BY <1>2, <2>2 DEF Completed, M, read
      <3> QED  BY <1>3, <2>2, <3>1 DEF AskedFields
    <2> QED  BY <2>1, <2>2
  <1>9. \A l \in stated("matter") : columns.case = NormalizeCase(l.words)
    BY <1>4, <1>8
  <1>10. columns.decision = M.decision
    BY <1>8
  <1>11. ASSUME stated("matter") = {}, columns.case # None
         PROVE  /\ answer # None
                /\ \A w \in Range(answer.case) : IsId(w) \/ w = <<"ON">>
                /\ \E w \in Range(answer.case) : IsId(w) /\ columns.case = CaseNumber(w)
    <2>1. answer # None /\ columns.case = read.case
      BY <1>4, <1>8, <1>11
    <2>2. /\ answer.case # None /\ IsBareIdentifier(answer.case)
          /\ columns.case = NormalizeCase(answer.case)
      BY <1>7, <1>11, <2>1
    <2>3. answer.case \in Seq(Range(answer.case))
      BY <1>1, <1>2, <2>1, <2>2, MeetingAssumption
    <2>4. DOMAIN answer.case \in SUBSET Nat
      BY <2>3, LenProperties
    <2> QED  BY <1>11, <2>1, <2>2, <2>4, BareAnswer
  <1>12. \A f \in {"date", "outcome", "category"} :
            \/ columns[f] = None
            \/ Range(columns[f]) \intersect Foreign = {}
            \/ f = "category" /\ columns[f] = listed.title
            \/ answer # None /\ columns[f] = answer[f]
    BY <1>6, <1>7, <1>8
  <1> QED  BY <1>5, <1>9, <1>10, <1>11, <1>12 DEF stated, answer, headline

\* A decision is filed under what its trailer states, and else under what was
\* said of it, in every state of every run.
THEOREM IdentityHolds == Spec => []IdentityIsAsStated
  <1>1. Inductive => IdentityIsAsStated
    BY IdentityFollows
  <1> QED  BY <1>1, InductiveHolds, PTL

(***************************************************************************)
(* The citations.                                                          *)
(***************************************************************************)
\* The k-th number after the first of the list that an anchor at i introduces.
Listed(words, anchor, forms, i, k) ==
    /\ words[i] = anchor
    /\ \A m \in 0 .. k : /\ i + 1 + 2 * m \in DOMAIN words
                         /\ IsId(words[i + 1 + 2 * m]) /\ words[i + 1 + 2 * m][2] \in forms
    /\ \A m \in 1 .. k : words[i + 2 * m] \in ListSeparators

\* A number is cited if an anchor introduces a list that comes to it.
LEMMA CitedIs ==
    ASSUME NEW X, NEW words \in Seq(X), NEW anchor, NEW forms, NEW x
    PROVE  x \in CitedIdentifiers(words, anchor, forms) <=>
               \E i \in DOMAIN words, k \in 0 .. Len(words) :
                   Listed(words, anchor, forms, i, k) /\ x = words[i + 1 + 2 * k]
  <1> DEFINE D == DOMAIN words
             L(i, k) == Listed(words, anchor, forms, i, k)
             places == {j \in D : \E i \in D, k \in 0 .. Len(words) : j = i + 1 + 2 * k /\ L(i, k)}
  <1>1. CitedIdentifiers(words, anchor, forms) = {words[j] : j \in places}
    BY DEF CitedIdentifiers, Listed
  <1>2. ASSUME NEW i \in D, NEW k \in 0 .. Len(words), L(i, k)
        PROVE  i + 1 + 2 * k \in D
    BY <1>2 DEF Listed
  <1> HIDE DEF L, D
  <1>3. x \in {words[j] : j \in places} <=> \E j \in places : x = words[j]
    OBVIOUS
  <1>4. (\E j \in places : x = words[j]) <=>
           \E i \in D, k \in 0 .. Len(words) : L(i, k) /\ x = words[i + 1 + 2 * k]
    BY <1>2
  <1> QED  BY <1>1, <1>3, <1>4 DEF L, D

\* No list crosses from one sequence to the next where the first does not end
\* in what asks for more, and the second does not begin with a separator.
LEMMA CitationsJoin ==
    ASSUME NEW X, NEW a \in Seq(X), NEW b \in Seq(X), NEW anchor, NEW forms,
           a # <<>> => a[Len(a)] \notin ListSeparators /\ a[Len(a)] # anchor,
           b # <<>> => b[1] \notin ListSeparators
    PROVE  CitedIdentifiers(a \o b, anchor, forms)
             = CitedIdentifiers(a, anchor, forms) \union CitedIdentifiers(b, anchor, forms)
  <1> DEFINE w == a \o b
             p == Len(a)
             q == Len(b)
             InA(i, k) == Listed(a, anchor, forms, i, k)
             InB(i, k) == Listed(b, anchor, forms, i, k)
             InW(i, k) == Listed(w, anchor, forms, i, k)
             cites(v) == IsId(v) /\ v[2] \in forms
  <1>1. /\ p \in Nat /\ q \in Nat /\ DOMAIN a = 1 .. p /\ DOMAIN b = 1 .. q
        /\ w \in Seq(X) /\ Len(w) = p + q
        /\ \A i \in 1 .. p + q : w[i] = IF i <= p THEN a[i] ELSE b[i - p]
    BY LenProperties, ConcatProperties
  <1>2. DOMAIN w = 1 .. p + q
    BY <1>1, LenProperties
  <1>3. /\ p > 0 => a[p] \notin ListSeparators /\ a[p] # anchor
        /\ q > 0 => b[1] \notin ListSeparators
    BY <1>1, EmptySeq
  <1> HIDE DEF w, p, q
  <1>4. /\ \A i \in 1 .. p : w[i] = a[i]
        /\ \A i \in 1 .. q : w[p + i] = b[i]
    <2>1. \A i \in 1 .. p : i \in 1 .. p + q /\ i <= p
      BY <1>1
    <2>2. \A i \in 1 .. q : p + i \in 1 .. p + q /\ ~(p + i <= p) /\ (p + i) - p = i
      BY <1>1
    <2>3. \A i \in 1 .. p : w[i] = a[i]
      BY <1>1, <2>1
    <2>4. \A i \in 1 .. q : w[p + i] = b[i]
      <3> TAKE i \in 1 .. q
      <3>1. w[p + i] = b[(p + i) - p]
        BY <1>1, <2>2
      <3> QED  BY <2>2, <3>1
    <2> QED  BY <2>3, <2>4
  <1>5. ASSUME NEW i \in 1 .. p + q, NEW k \in Nat, InW(i, k)
        PROVE  i > p \/ i + 1 + 2 * k <= p
    <2> SUFFICES ASSUME i <= p, i + 1 + 2 * k > p
                 PROVE  FALSE
      BY <1>1
    <2>1. /\ w[i] = anchor
          /\ \A m \in 0 .. k : i + 1 + 2 * m \in 1 .. p + q
          /\ \A m \in 1 .. k : w[i + 2 * m] \in ListSeparators
      BY <1>2, <1>5 DEF Listed
    <2>2. PICK m \in Nat : p - i = 2 * m \/ p - i = 2 * m + 1
      <3>1. p - i \in Nat
        BY <1>1
      <3>2. \A d \in Nat : \E m \in Nat : d = 2 * m \/ d = 2 * m + 1
        <4> TAKE d \in Nat
        <4>1. d \div 2 \in Nat /\ (d = 2 * (d \div 2) \/ d = 2 * (d \div 2) + 1)
          OBVIOUS
        <4> QED  BY <4>1
      <3> QED  BY <3>1, <3>2
    <2>3. p \in 1 .. p /\ p > 0
      BY <1>1
    <2>4. CASE p - i = 2 * m /\ m = 0
      <3>1. w[p] = anchor
        BY <1>1, <2>1, <2>4
      <3> QED  BY <1>3, <1>4, <2>3, <3>1
    <2>5. CASE p - i = 2 * m /\ m # 0
      <3>1. m \in 1 .. k /\ i + 2 * m = p
        BY <1>1, <2>5
      <3>2. w[p] \in ListSeparators
        BY <2>1, <3>1
      <3> QED  BY <1>3, <1>4, <2>3, <3>2
    <2>6. CASE p - i = 2 * m + 1
      <3>1. m + 1 \in 1 .. k /\ i + 2 * (m + 1) = p + 1
        BY <1>1, <2>6
      <3>2. w[p + 1] \in ListSeparators
        BY <2>1, <3>1
      <3>3. m + 1 \in 0 .. k
        BY <3>1
      <3>4. i + 1 + 2 * (m + 1) \in 1 .. p + q
        BY <2>1, <3>3
      <3>5. q > 0 /\ 1 \in 1 .. q
        BY <1>1, <3>1, <3>4
      <3>6. w[p + 1] = b[1]
        BY <1>4, <3>5
      <3> QED  BY <1>3, <3>2, <3>5, <3>6
    <2> QED  BY <2>2, <2>4, <2>5, <2>6
  <1>6. ASSUME NEW i \in 1 .. p, NEW k \in Nat, i + 1 + 2 * k <= p
        PROVE  InW(i, k) <=> InA(i, k)
    <2>1. \A m \in 0 .. k : i + 1 + 2 * m \in 1 .. p
      BY <1>1, <1>6
    <2>2. \A m \in 1 .. k : i + 2 * m \in 1 .. p
      BY <1>1, <1>6
    <2>3. w[i] = a[i]
      BY <1>4
    <2>4. \A m \in 0 .. k : /\ w[i + 1 + 2 * m] = a[i + 1 + 2 * m]
                            /\ i + 1 + 2 * m \in 1 .. p /\ i + 1 + 2 * m \in 1 .. p + q
      BY <1>1, <1>4, <2>1
    <2>5. \A m \in 1 .. k : w[i + 2 * m] = a[i + 2 * m]
      BY <1>4, <2>2
    <2>6. InW(i, k) <=> /\ a[i] = anchor
                        /\ \A m \in 0 .. k : cites(a[i + 1 + 2 * m])
                        /\ \A m \in 1 .. k : a[i + 2 * m] \in ListSeparators
      BY <1>2, <2>3, <2>4, <2>5 DEF Listed
    <2>7. InA(i, k) <=> /\ a[i] = anchor
                        /\ \A m \in 0 .. k : cites(a[i + 1 + 2 * m])
                        /\ \A m \in 1 .. k : a[i + 2 * m] \in ListSeparators
      BY <1>1, <2>4 DEF Listed
    <2> QED  BY <2>6, <2>7
  <1>7. ASSUME NEW i \in 1 .. q, NEW k \in Nat, i + 1 + 2 * k <= q
        PROVE  InW(p + i, k) <=> InB(i, k)
    <2>1. \A m \in 0 .. k : i + 1 + 2 * m \in 1 .. q /\ (p + i) + 1 + 2 * m = p + (i + 1 + 2 * m)
      BY <1>1, <1>7
    <2>2. \A m \in 1 .. k : i + 2 * m \in 1 .. q /\ (p + i) + 2 * m = p + (i + 2 * m)
      BY <1>1, <1>7
    <2>3. w[p + i] = b[i]
      BY <1>4
    <2>4. \A m \in 0 .. k : /\ w[(p + i) + 1 + 2 * m] = b[i + 1 + 2 * m]
                            /\ i + 1 + 2 * m \in 1 .. q /\ (p + i) + 1 + 2 * m \in 1 .. p + q
      <3> TAKE m \in 0 .. k
      <3> DEFINE j == i + 1 + 2 * m
      <3>1. j \in 1 .. q /\ (p + i) + 1 + 2 * m = p + j
        BY <2>1
      <3> HIDE DEF j
      <3>2. w[p + j] = b[j] /\ p + j \in 1 .. p + q
        BY <1>1, <1>4, <3>1
      <3> QED  BY <3>1, <3>2 DEF j
    <2>5. \A m \in 1 .. k : w[(p + i) + 2 * m] = b[i + 2 * m]
      <3> TAKE m \in 1 .. k
      <3> DEFINE j == i + 2 * m
      <3>1. j \in 1 .. q /\ (p + i) + 2 * m = p + j
        BY <2>2
      <3> HIDE DEF j
      <3>2. w[p + j] = b[j]
        BY <1>4, <3>1
      <3> QED  BY <3>1, <3>2 DEF j
    <2>6. InW(p + i, k) <=> /\ b[i] = anchor
                            /\ \A m \in 0 .. k : cites(b[i + 1 + 2 * m])
                            /\ \A m \in 1 .. k : b[i + 2 * m] \in ListSeparators
      BY <1>2, <2>3, <2>4, <2>5 DEF Listed
    <2>7. InB(i, k) <=> /\ b[i] = anchor
                        /\ \A m \in 0 .. k : cites(b[i + 1 + 2 * m])
                        /\ \A m \in 1 .. k : b[i + 2 * m] \in ListSeparators
      BY <1>1, <2>4 DEF Listed
    <2> QED  BY <2>6, <2>7
  <1> HIDE DEF InA, InB, InW
  <1>8. \A x : /\ x \in CitedIdentifiers(w, anchor, forms) <=>
                     \E i \in 1 .. p + q, k \in 0 .. p + q : InW(i, k) /\ x = w[i + 1 + 2 * k]
               /\ x \in CitedIdentifiers(a, anchor, forms) <=>
                     \E i \in 1 .. p, k \in 0 .. p : InA(i, k) /\ x = a[i + 1 + 2 * k]
               /\ x \in CitedIdentifiers(b, anchor, forms) <=>
                     \E i \in 1 .. q, k \in 0 .. q : InB(i, k) /\ x = b[i + 1 + 2 * k]
    <2> TAKE x
    <2>1. x \in CitedIdentifiers(w, anchor, forms) <=>
                     \E i \in DOMAIN w, k \in 0 .. Len(w) : InW(i, k) /\ x = w[i + 1 + 2 * k]
      <3>1. w \in Seq(X)
        BY <1>1
      <3> QED  BY ONLY <3>1, CitedIs DEF InW
    <2>2. x \in CitedIdentifiers(a, anchor, forms) <=>
                     \E i \in DOMAIN a, k \in 0 .. Len(a) : InA(i, k) /\ x = a[i + 1 + 2 * k]
      BY CitedIs DEF InA
    <2>3. x \in CitedIdentifiers(b, anchor, forms) <=>
                     \E i \in DOMAIN b, k \in 0 .. Len(b) : InB(i, k) /\ x = b[i + 1 + 2 * k]
      BY CitedIs DEF InB
    <2> QED  BY <1>1, <1>2, <2>1, <2>2, <2>3 DEF p, q
  <1>9. \A i \in 1 .. p, k \in Nat : InA(i, k) => i + 1 + 2 * k \in 1 .. p
    <2> TAKE i \in 1 .. p, k \in Nat
    <2>1. k \in 0 .. k
      OBVIOUS
    <2> QED  BY <1>1, <2>1 DEF InA, Listed
  <1>10. \A i \in 1 .. q, k \in Nat : InB(i, k) => i + 1 + 2 * k \in 1 .. q
    <2> TAKE i \in 1 .. q, k \in Nat
    <2>1. k \in 0 .. k
      OBVIOUS
    <2> QED  BY <1>1, <2>1 DEF InB, Listed
  <1>11. ASSUME NEW x \in CitedIdentifiers(w, anchor, forms)
         PROVE  x \in CitedIdentifiers(a, anchor, forms) \union CitedIdentifiers(b, anchor, forms)
    <2>1. PICK i \in 1 .. p + q : \E k \in 0 .. p + q : InW(i, k) /\ x = w[i + 1 + 2 * k]
      BY <1>8, <1>11
    <2>2. PICK k \in 0 .. p + q : InW(i, k) /\ x = w[i + 1 + 2 * k]
      BY <2>1
    <2>3. i + 1 + 2 * k \in 1 .. p + q
      <3>1. k \in 0 .. k
        BY <1>1
      <3> QED  BY <1>2, <2>2, <3>1 DEF InW, Listed
    <2>4. CASE i + 1 + 2 * k <= p
      <3>1. i \in 1 .. p /\ k \in 0 .. p /\ k \in Nat /\ i + 1 + 2 * k \in 1 .. p
        BY <1>1, <2>4
      <3>2. InA(i, k)
        BY <1>6, <2>2, <2>4, <3>1
      <3>3. x = a[i + 1 + 2 * k]
        BY <1>4, <2>2, <3>1
      <3> QED  BY <1>8, <3>1, <3>2, <3>3
    <2>5. CASE i > p
      <3> DEFINE j == i - p
      <3>1. j \in 1 .. q /\ k \in 0 .. q /\ k \in Nat /\ j + 1 + 2 * k \in 1 .. q
        BY <1>1, <2>3, <2>5
      <3>2. i = p + j /\ i + 1 + 2 * k = p + (j + 1 + 2 * k)
        BY <1>1
      <3> HIDE DEF j
      <3>3. InW(p + j, k) /\ j + 1 + 2 * k <= q
        BY <1>1, <2>2, <3>1, <3>2
      <3>4. InB(j, k)
        BY <1>7, <3>1, <3>3
      <3>5. x = b[j + 1 + 2 * k]
        BY <1>4, <2>2, <3>1, <3>2
      <3> QED  BY <1>8, <3>1, <3>4, <3>5
    <2> QED  BY <1>1, <1>5, <2>2, <2>4, <2>5
  <1>12. ASSUME NEW x \in CitedIdentifiers(a, anchor, forms)
         PROVE  x \in CitedIdentifiers(w, anchor, forms)
    <2>1. PICK i \in 1 .. p : \E k \in 0 .. p : InA(i, k) /\ x = a[i + 1 + 2 * k]
      BY <1>8, <1>12
    <2>2. PICK k \in 0 .. p : InA(i, k) /\ x = a[i + 1 + 2 * k]
      BY <2>1
    <2>3. k \in Nat /\ i + 1 + 2 * k \in 1 .. p
      BY <1>1, <1>9, <2>2
    <2>4. InW(i, k)
      BY <1>1, <1>6, <2>2, <2>3
    <2>5. x = w[i + 1 + 2 * k]
      BY <1>4, <2>2, <2>3
    <2>6. i \in 1 .. p + q /\ k \in 0 .. p + q
      BY <1>1
    <2> QED  BY <1>8, <2>4, <2>5, <2>6
  <1>13. ASSUME NEW x \in CitedIdentifiers(b, anchor, forms)
         PROVE  x \in CitedIdentifiers(w, anchor, forms)
    <2>1. PICK i \in 1 .. q : \E k \in 0 .. q : InB(i, k) /\ x = b[i + 1 + 2 * k]
      BY <1>8, <1>13
    <2>2. PICK k \in 0 .. q : InB(i, k) /\ x = b[i + 1 + 2 * k]
      BY <2>1
    <2>3. k \in Nat /\ i + 1 + 2 * k \in 1 .. q
      BY <1>1, <1>10, <2>2
    <2>4. InW(p + i, k)
      BY <1>1, <1>7, <2>2, <2>3
    <2>5. x = w[(p + i) + 1 + 2 * k]
      <3> DEFINE j == i + 1 + 2 * k
      <3>1. (p + i) + 1 + 2 * k = p + j /\ j \in 1 .. q
        BY <1>1, <2>3
      <3> HIDE DEF j
      <3>2. w[p + j] = b[j]
        BY <1>4, <3>1
      <3> QED  BY <2>2, <3>1, <3>2 DEF j
    <2>6. p + i \in 1 .. p + q /\ k \in 0 .. p + q
      BY <1>1
    <2> QED  BY <1>8, <2>4, <2>5, <2>6
  <1> QED  BY <1>11, <1>12, <1>13 DEF w

CitesOf(words) == CitedCases(words) \union CitedDecisions(words)

\* No list crosses from one run of words to the next where both stand alone.
LEMMA CitesJoin ==
    ASSUME NEW X, NEW a \in Seq(X), NEW b \in Seq(X), StandsAlone(a), StandsAlone(b)
    PROVE  CitesOf(a \o b) = CitesOf(a) \union CitesOf(b) /\ StandsAlone(a \o b)
  <1>1. CitesOf(a \o b) = CitesOf(a) \union CitesOf(b)
    <2>1. /\ a # <<>> => /\ a[Len(a)] \notin ListSeparators
                         /\ a[Len(a)] # <<"ON">> /\ a[Len(a)] # <<"beslut">>
          /\ b # <<>> => b[1] \notin ListSeparators
      BY DEF StandsAlone
    <2>2. CitedIdentifiers(a \o b, <<"ON">>, CaseForms)
            = CitedIdentifiers(a, <<"ON">>, CaseForms) \union CitedIdentifiers(b, <<"ON">>, CaseForms)
      <3> DEFINE anchor == <<"ON">>
                 forms == CaseForms
      <3>1. a # <<>> => a[Len(a)] # anchor
        BY <2>1
      <3> HIDE DEF anchor, forms
      <3>2. CitedIdentifiers(a \o b, anchor, forms)
              = CitedIdentifiers(a, anchor, forms) \union CitedIdentifiers(b, anchor, forms)
        BY <2>1, <3>1, CitationsJoin
      <3> QED  BY <3>2 DEF anchor, forms
    <2>3. CitedIdentifiers(a \o b, <<"beslut">>, {"NY", "YN"})
            = CitedIdentifiers(a, <<"beslut">>, {"NY", "YN"})
              \union CitedIdentifiers(b, <<"beslut">>, {"NY", "YN"})
      <3> DEFINE anchor == <<"beslut">>
                 forms == {"NY", "YN"}
      <3>1. a # <<>> => a[Len(a)] # anchor
        BY <2>1
      <3> HIDE DEF anchor, forms
      <3>2. CitedIdentifiers(a \o b, anchor, forms)
              = CitedIdentifiers(a, anchor, forms) \union CitedIdentifiers(b, anchor, forms)
        BY <2>1, <3>1, CitationsJoin
      <3> QED  BY <3>2 DEF anchor, forms
    <2>4. CitedCases(a \o b) = CitedCases(a) \union CitedCases(b)
      BY <2>2 DEF CitedCases
    <2>5. CitedDecisions(a \o b) = CitedDecisions(a) \union CitedDecisions(b)
      BY <2>3 DEF CitedDecisions
    <2> QED  BY <2>4, <2>5 DEF CitesOf
  <1>2. StandsAlone(a \o b)
    <2> DEFINE w == a \o b
               p == Len(a)
               q == Len(b)
               Open == ListSeparators \union {<<"ON">>, <<"beslut">>}
    <2>1. /\ p \in Nat /\ q \in Nat /\ w \in Seq(X) /\ Len(w) = p + q
          /\ \A i \in 1 .. p + q : w[i] = IF i <= p THEN a[i] ELSE b[i - p]
      BY LenProperties, ConcatProperties
    <2>2. (p = 0 <=> a = <<>>) /\ (q = 0 <=> b = <<>>)
      BY EmptySeq
    <2>3. /\ p > 0 => a[1] \notin ListSeparators /\ a[p] \notin Open
          /\ q > 0 => b[1] \notin ListSeparators /\ b[q] \notin Open
      BY <2>1, <2>2 DEF StandsAlone
    <2> HIDE DEF w, p, q, Open
    <2>4. ASSUME p + q > 0
          PROVE  w[1] \notin ListSeparators /\ w[p + q] \notin Open
      <3>1. 1 \in 1 .. p + q /\ p + q \in 1 .. p + q
        BY <2>1, <2>4
      <3>2. w[1] = IF p > 0 THEN a[1] ELSE b[1]
        <4>1. CASE p > 0
          <5>1. 1 <= p
            BY <2>1, <4>1
          <5> QED  BY <2>1, <3>1, <4>1, <5>1
        <4>2. CASE ~(p > 0)
          <5>1. ~(1 <= p) /\ 1 - p = 1
            BY <2>1, <4>2
          <5>2. w[1] = b[1 - p]
            BY <2>1, <3>1, <5>1
          <5> QED  BY <4>2, <5>1, <5>2
        <4> QED  BY <4>1, <4>2
      <3>3. w[p + q] = IF q > 0 THEN b[q] ELSE a[p]
        <4>1. CASE q > 0
          <5>1. ~(p + q <= p) /\ (p + q) - p = q
            BY <2>1, <4>1
          <5>2. w[p + q] = b[(p + q) - p]
            BY <2>1, <3>1, <5>1
          <5> QED  BY <4>1, <5>1, <5>2
        <4>2. CASE ~(q > 0)
          <5>1. p + q = p /\ p + q <= p
            BY <2>1, <4>2
          <5>2. w[p + q] = a[p + q]
            BY <2>1, <3>1, <5>1
          <5> QED  BY <4>2, <5>1, <5>2
        <4> QED  BY <4>1, <4>2
      <3>4. p > 0 \/ (~(p > 0) /\ q > 0)
        BY <2>1, <2>4
      <3>5. q > 0 \/ (~(q > 0) /\ p > 0)
        BY <2>1, <2>4
      <3> QED  BY <2>3, <3>2, <3>3, <3>4, <3>5
    <2>5. w # <<>> => Len(w) > 0
      BY <2>1, EmptySeq
    <2>6. w # <<>> => w[1] \notin ListSeparators /\ w[Len(w)] \notin Open
      BY <2>1, <2>4, <2>5
    <2> QED  BY <2>6 DEF w, Open, StandsAlone
  <1> QED  BY <1>1, <1>2

\* One word cites nothing.
LEMMA OneWordCites ==
    ASSUME NEW w
    PROVE  CitesOf(<<w>>) = {} /\ CitesOf(<<>>) = {}
  <1>1. ASSUME NEW words \in Seq({w}), Len(words) <= 1, NEW anchor, NEW forms
        PROVE  CitedIdentifiers(words, anchor, forms) = {}
    <2> SUFFICES ASSUME NEW x \in CitedIdentifiers(words, anchor, forms)
                 PROVE  FALSE
      OBVIOUS
    <2>1. PICK i \in DOMAIN words, k \in 0 .. Len(words) : Listed(words, anchor, forms, i, k)
      BY CitedIs
    <2>2. 0 \in 0 .. k
      OBVIOUS
    <2>3. i + 1 + 2 * 0 \in DOMAIN words
      BY <2>1, <2>2 DEF Listed
    <2>4. DOMAIN words = 1 .. Len(words) /\ Len(words) \in Nat
      BY LenProperties
    <2> QED  BY <1>1, <2>3, <2>4
  <1>2. <<w>> \in Seq({w}) /\ Len(<<w>>) <= 1
    OBVIOUS
  <1>3. <<>> \in Seq({w}) /\ Len(<<>>) <= 1
    OBVIOUS
  <1>4. CitedIdentifiers(<<w>>, <<"ON">>, CaseForms) = {}
    BY <1>1, <1>2
  <1>5. CitedIdentifiers(<<w>>, <<"beslut">>, {"NY", "YN"}) = {}
    BY <1>1, <1>2
  <1>6. CitedIdentifiers(<<>>, <<"ON">>, CaseForms) = {}
    BY <1>1, <1>3
  <1>7. CitedIdentifiers(<<>>, <<"beslut">>, {"NY", "YN"}) = {}
    BY <1>1, <1>3
  <1> QED  BY <1>4, <1>5, <1>6, <1>7 DEF CitesOf, CitedCases, CitedDecisions

\* Lines that each stand alone cite what each of them cites.
LEMMA LinesCite ==
    ASSUME NEW R, NEW X,
           \A l \in R : LineWords(l) \in Seq(X) /\ StandsAlone(LineWords(l)),
           NEW lines \in Seq(R)
    PROVE  CitesOf(Words(lines)) = UNION {CitesOf(LineWords(l)) : l \in Range(lines)}
  <1> DEFINE C(l) == CitesOf(LineWords(l))
             All(s) == UNION {C(l) : l \in Range(s)}
             Holds(s) == StandsAlone(Words(s)) /\ CitesOf(Words(s)) = All(s)
             G == {s \in Seq(R) : Holds(s)}
             none == <<>>
  <1>1. none \in G
    <2>1. Words(none) = <<>> /\ none \in Seq(R)
      BY WordsAppend, EmptySeq
    <2>2. Range(none) = {}
      BY DEF Range
    <2>3. StandsAlone(Words(none))
      BY <2>1 DEF StandsAlone
    <2>4. CitesOf(Words(none)) = {}
      BY <2>1, OneWordCites
    <2> HIDE DEF none
    <2> QED  BY <2>1, <2>2, <2>3, <2>4
  <1>2. ASSUME NEW s \in Seq(R), NEW l \in R, s \in G
        PROVE  Append(s, l) \in G
    <2> DEFINE t == Append(s, l)
    <2>1. t \in Seq(R)
      BY AppendProperties
    <2>2. Words(t) = Words(s) \o LineWords(l) /\ Words(s) \in Seq(X)
      BY WordsAppend
    <2>3. CitesOf(Words(t)) = CitesOf(Words(s)) \union C(l) /\ StandsAlone(Words(t))
      BY <1>2, <2>2, CitesJoin
    <2>4. \A y : y \in Range(t) <=> y \in Range(s) \/ y = l
      <3>1. /\ DOMAIN t = 1 .. Len(s) + 1 /\ DOMAIN s = 1 .. Len(s) /\ Len(s) \in Nat
            /\ \A i \in 1 .. Len(s) : t[i] = s[i]
            /\ t[Len(s) + 1] = l
        BY <2>1, AppendProperties, LenProperties
      <3> HIDE DEF t
      <3>2. \A i \in 1 .. Len(s) + 1 : i \in 1 .. Len(s) \/ i = Len(s) + 1
        BY <3>1
      <3>3. Len(s) + 1 \in DOMAIN t /\ \A i \in 1 .. Len(s) : i \in DOMAIN t
        BY <3>1
      <3> QED  BY <3>1, <3>2, <3>3 DEF Range
    <2> HIDE DEF t, C
    <2>5. All(t) = All(s) \union C(l)
      <3>1. \A x : x \in All(t) <=> \E y \in Range(t) : x \in C(y)
        OBVIOUS
      <3>2. \A x : x \in All(s) <=> \E y \in Range(s) : x \in C(y)
        OBVIOUS
      <3>3. \A x : (\E y \in Range(t) : x \in C(y)) <=> (\E y \in Range(s) : x \in C(y)) \/ x \in C(l)
        BY <2>4
      <3> HIDE DEF All
      <3>4. \A x : x \in All(t) <=> x \in All(s) \union C(l)
        BY <3>1, <3>2, <3>3
      <3> QED  BY <3>4
    <2>6. CitesOf(Words(s)) = All(s)
      BY <1>2
    <2> HIDE DEF All
    <2>7. CitesOf(Words(t)) = All(t)
      BY <2>3, <2>5, <2>6
    <2> QED  BY <2>1, <2>3, <2>7 DEF t
  <1> HIDE DEF G, none
  <1>3. none \in G /\ \A s \in Seq(R), l \in R : s \in G => Append(s, l) \in G
    BY <1>1, <1>2
  <1>4. Seq(R) \subseteq G
    BY <1>3, SeqInduction DEF none
  <1> QED  BY <1>4 DEF G

\* A line before the trailer stands alone, and cites what its author meant.
LEMMA BodyLineCites ==
    ASSUME TextHolds, NEW i \in DOMAIN text, i < FindTrailerStart(text)
    PROVE  /\ StandsAlone(LineWords(text[i]))
           /\ CitesOf(LineWords(text[i]))
                = IF text[i].part \in {"head", "reasons", "holding"} THEN text[i].cites ELSE {}
  <1> DEFINE l == text[i]
             w == l.words
             X == AllWords(template)
  <1>1. l \in TextLines(template) /\ template \in DOMAIN Templates
    BY TextIsLines DEF TextHolds
  <1>2. /\ \/ l.part \in {"head", "reasons", "holding", "page"}
           \/ l.part = "trailer" /\ l.kind \in {"number", "rule"}
        /\ l.part \in {"head", "reasons"} => l.kind \in ProseKinds
        /\ l.part = "holding" => l.kind \in ProseKinds \union {"heading"}
        /\ l.part = "page" => l.kind \in {"blank", "rule"}
    BY <1>1, LineFacts, Cuts
  <1>3. w \in Seq(X) /\ LineWords(l) \in Seq(X)
    BY <1>1, WordsAreGiven
  <1>4. l.part \in {"head", "reasons", "holding"} => StandsAlone(w) /\ l.cites = CitesOf(w)
    <2> SUFFICES ASSUME l.part \in {"head", "reasons", "holding"}
                 PROVE  StandsAlone(w) /\ l.cites = CitedCases(w) \union CitedDecisions(w)
      BY DEF CitesOf
    <2> DEFINE head == Templates[template].head
               lines == Templates[template].lines
    <2>1. l \in Range(head) \union lines["reasons"] \union lines["holding"]
      BY <1>1, LineOrigins DEF Pieces
    <2>2. \A m \in Range(head) \union lines["reasons"] \union lines["holding"] :
                  /\ StandsAlone(m.words)
                  /\ m.cites = CitedCases(m.words) \union CitedDecisions(m.words)
      BY <1>1, LinesAssumption
    <2> QED  BY <2>1, <2>2
  <1>5. l.kind = "number" => StandsAlone(w) /\ CitesOf(w) = {}
    <2> SUFFICES ASSUME l.kind = "number"
                 PROVE  StandsAlone(w) /\ CitesOf(w) = {}
      OBVIOUS
    <2>1. l.part = "trailer"
      BY <1>2 DEF ProseKinds
    <2> QED  BY <2>1, TrailerStates DEF CitesNothing, CitesOf
  <1> DEFINE Plain(v) == v \notin {",", "och", "ON", "beslut"}
  <1>6. ASSUME NEW v, Plain(v)
        PROVE  LET g == <<v>>
               IN  StandsAlone(<<g>>) /\ CitesOf(<<g>>) = {}
    <2> DEFINE g == <<v>>
    <2>1. g \notin ListSeparators \union {<<"ON">>, <<"beslut">>}
      <3>1. g[1] = v
        OBVIOUS
      <3> HIDE DEF g
      <3>2. <<",">>[1] = "," /\ <<"och">>[1] = "och" /\ <<"ON">>[1] = "ON" /\ <<"beslut">>[1] = "beslut"
        OBVIOUS
      <3>3. g # <<",">> /\ g # <<"och">> /\ g # <<"ON">> /\ g # <<"beslut">>
        <4>1. g[1] # "," /\ g[1] # "och" /\ g[1] # "ON" /\ g[1] # "beslut"
          <5>1. v # "," /\ v # "och" /\ v # "ON" /\ v # "beslut"
            BY <1>6
          <5> QED  BY ONLY <3>1, <5>1, Zenon
        <4> QED  BY ONLY <3>2, <4>1, Zenon
      <3> QED  BY ONLY <3>3, Zenon DEF ListSeparators
    <2> HIDE DEF g
    <2>2. Len(<<g>>) = 1 /\ <<g>>[1] = g
      OBVIOUS
    <2>3. StandsAlone(<<g>>)
      BY <2>1, <2>2 DEF StandsAlone
    <2>4. CitesOf(<<g>>) = {}
      BY OneWordCites
    <2> QED  BY <2>3, <2>4 DEF g
  <1>7. Plain("heading") /\ Plain("number") /\ Plain("---") /\ Plain("gap")
    OBVIOUS
  <1> HIDE DEF l, w, X, Plain
  <1>8. CASE l.kind \in ProseKinds
    <2>1. LineWords(l) = w
      BY <1>8 DEF LineWords, w, TrailerFields, ProseKinds
    <2>2. l.part \in {"head", "reasons", "holding"}
      BY <1>2, <1>8 DEF ProseKinds
    <2> QED  BY <1>4, <2>1, <2>2 DEF l
  <1>9. CASE l.kind \in {"heading", "number"}
    <2> DEFINE k == l.kind
               g == <<k>>
    <2>1. LineWords(l) = <<g>> \o w
      BY <1>9 DEF LineWords, w, TrailerFields
    <2>2. Plain(k)
      BY <1>7, <1>9
    <2>3. StandsAlone(<<g>>) /\ CitesOf(<<g>>) = {}
      BY <1>6, <2>2
    <2>4. g \in X
      BY <1>9 DEF X, AllWords, TrailerFields
    <2>5. /\ StandsAlone(w)
          /\ CitesOf(w) = IF l.part \in {"head", "reasons", "holding"} THEN l.cites ELSE {}
      BY <1>2, <1>4, <1>5, <1>9 DEF ProseKinds
    <2> DEFINE first == <<g>>
    <2>6. first \in Seq(X)
      <3> HIDE DEF g
      <3> QED  BY <2>4
    <2> HIDE DEF first
    <2>7. CitesOf(first \o w) = CitesOf(first) \union CitesOf(w) /\ StandsAlone(first \o w)
      BY <1>3, <2>3, <2>5, <2>6, CitesJoin DEF first
    <2>8. CitesOf(first) = {} /\ LineWords(l) = first \o w
      BY <2>1, <2>3 DEF first
    <2> QED  BY <2>5, <2>7, <2>8 DEF l
  <1>10. CASE l.kind \in {"rule", "blank"}
    <2>1. LineWords(l) = IF l.kind = "blank" THEN <<<<"gap">>>> ELSE <<<<"---">>>>
      BY <1>10 DEF LineWords, TrailerFields
    <2>2. StandsAlone(LineWords(l)) /\ CitesOf(LineWords(l)) = {}
      <3>1. StandsAlone(<<<<"gap">>>>) /\ CitesOf(<<<<"gap">>>>) = {}
        BY <1>6, <1>7
      <3>2. StandsAlone(<<<<"---">>>>) /\ CitesOf(<<<<"---">>>>) = {}
        BY <1>6, <1>7
      <3> QED  BY <2>1, <3>1, <3>2
    <2>3. l.part \notin {"head", "reasons", "holding"}
      BY <1>2, <1>10 DEF ProseKinds
    <2> QED  BY <2>2, <2>3 DEF l
  <1> QED  BY <1>2, <1>8, <1>9, <1>10 DEF ProseKinds

\* The rules cite what the namnd cites.
LEMMA ReferencesAreCited ==
    ASSUME TextHolds
    PROVE  ExtractReferences(SplitDocument(text))
             = UNION {l.cites : l \in LinesIn({"head", "reasons", "holding"})}
  <1> DEFINE body == SplitDocument(text).body
             S == FindTrailerStart(text)
             own == {"head", "reasons", "holding"}
             B == {text[i] : i \in {i \in DOMAIN text : i < S}}
             X == AllWords(template)
  <1>1. ExtractReferences(SplitDocument(text)) = CitesOf(Words(body))
    BY DEF ExtractReferences, CitesOf
  <1>2. /\ body \in Seq(TextLines(template))
        /\ \A k \in DOMAIN body : body[k] \in B
        /\ \A i \in DOMAIN text : i < S /\ text[i].kind # "blank" => text[i] \in Range(body)
    BY BodyLines DEF Range
  <1> HIDE DEF body
  <1>3. body \in Seq(B)
    <2>1. Len(body) \in Nat /\ DOMAIN body = 1 .. Len(body) /\ body \in [1 .. Len(body) -> TextLines(template)]
      BY <1>2, LenProperties
    <2>2. body \in [1 .. Len(body) -> B]
      <3> HIDE DEF B
      <3> QED  BY <1>2, <2>1
    <2> HIDE DEF B
    <2> QED  BY <2>1, <2>2, SeqDef
  <1>4. ASSUME NEW l \in B
        PROVE  /\ LineWords(l) \in Seq(X) /\ StandsAlone(LineWords(l))
               /\ CitesOf(LineWords(l)) = IF l.part \in own THEN l.cites ELSE {}
    <2>1. PICK i \in DOMAIN text : i < S /\ l = text[i]
      OBVIOUS
    <2>2. text[i] \in TextLines(template) /\ template \in DOMAIN Templates
      BY TextIsLines DEF TextHolds
    <2> QED  BY <2>1, <2>2, BodyLineCites, WordsAreGiven
  <1>5. CitesOf(Words(body)) = UNION {CitesOf(LineWords(l)) : l \in Range(body)}
    <2> HIDE DEF B, X
    <2> QED  BY <1>3, <1>4, LinesCite
  <1>6. Range(body) \subseteq B
    BY <1>2 DEF Range
  <1>7. \A l \in LinesIn(own) : l \in Range(body)
    <2> TAKE l \in LinesIn(own)
    <2>1. PICK i \in DOMAIN text : l = text[i] /\ text[i].part \in own
      BY DEF LinesIn
    <2>2. text[i] \in TextLines(template) /\ template \in DOMAIN Templates
      BY TextIsLines DEF TextHolds
    <2>3. text[i].kind # "blank"
      BY <2>1, <2>2, LineFacts DEF ProseKinds
    <2>4. i < S
      <3>1. i \in Nat /\ S \in Nat /\ AppendixStart(text) \in Nat
        BY TextIsLines, Cuts
      <3>2. i >= AppendixStart(text) => text[i].part \in {"appendix", "page"}
        BY Cuts
      <3>3. S <= i /\ i < AppendixStart(text) => text[i].part \in {"trailer", "page"}
        BY Cuts
      <3> QED  BY <2>1, <3>1, <3>2, <3>3
    <2> QED  BY <1>2, <2>1, <2>3, <2>4
  <1>8. \A l \in Range(body) : l.part \in own => l \in LinesIn(own)
    BY <1>6 DEF LinesIn
  <1> HIDE DEF B, own
  <1>9. \A x : x \in UNION {CitesOf(LineWords(l)) : l \in Range(body)}
                 <=> \E l \in Range(body) : x \in CitesOf(LineWords(l))
    OBVIOUS
  <1>10. \A x : x \in UNION {l.cites : l \in LinesIn(own)} <=> \E l \in LinesIn(own) : x \in l.cites
    OBVIOUS
  <1>11. \A x : (\E l \in Range(body) : x \in CitesOf(LineWords(l))) <=> \E l \in LinesIn(own) : x \in l.cites
    <2>1. \A l \in LinesIn(own) : l.part \in own
      BY DEF LinesIn
    <2>2. \A l \in Range(body) : CitesOf(LineWords(l)) = IF l.part \in own THEN l.cites ELSE {}
      BY <1>4, <1>6
    <2> QED  BY <1>7, <1>8, <2>1, <2>2
  <1>12. CitesOf(Words(body)) = UNION {l.cites : l \in LinesIn(own)}
    <2>1. \A x : x \in CitesOf(Words(body)) <=> x \in UNION {l.cites : l \in LinesIn(own)}
      BY <1>5, <1>9, <1>10, <1>11
    <2> QED  BY <2>1
  <1> QED  BY <1>1, <1>12 DEF own

\* The rules find every citation the namnd makes, and no other.
LEMMA CitationsFollow == Inductive => CitationsAreTheNamnds
  <1> DEFINE cited == UNION {l.cites : l \in LinesIn({"head", "reasons", "holding"})}
             segments == SplitDocument(text)
             rules == ExtractRuleBased(segments)
  <1> SUFFICES ASSUME Inductive, step \in {"extracted", "chunked"}
               PROVE  /\ links.strategy = "rules" => links.references = cited \ OwnIdentifiers
                      /\ links.strategy = "fallback" => cited \ OwnIdentifiers \subseteq links.references
    BY DEF CitationsAreTheNamnds
  <1>1. TextHolds
    BY DEF Inductive
  <1>2. rules.references = cited
    BY <1>1, ReferencesAreCited DEF ExtractRuleBased
  <1>3. PICK strategy \in Given.strategies, finding \in Given.findings :
                 /\ links.references = Extracted(strategy, segments, finding).references \ OwnIdentifiers
                 /\ links.strategy = strategy
    <2>1. PICK strategy \in Given.strategies, finding \in Given.findings :
             LET found == Extracted(strategy, segments, finding)
             IN  links = [entities |-> DeduplicateEntities(Inferred(found.entities)
                                           \union DeclaredKeywords(segments.trailer)),
                          references |-> found.references \ OwnIdentifiers,
                          strategy |-> strategy]
      BY DEF Inductive, StepsRan
    <2> DEFINE found == Extracted(strategy, segments, finding)
    <2>2. links.references = found.references \ OwnIdentifiers /\ links.strategy = strategy
      BY <2>1
    <2> QED  BY <2>2
  <1> HIDE DEF cited, segments, rules
  <1>4. strategy = "rules" => Extracted(strategy, segments, finding) = rules
    BY DEF Extracted, rules
  <1>5. strategy = "fallback" =>
            \/ Extracted(strategy, segments, finding) = rules
            \/ Extracted(strategy, segments, finding) = MergeResults(rules, finding)
    BY DEF Extracted, rules
  <1>6. MergeResults(rules, finding).references = rules.references \union finding.references
    BY DEF MergeResults
  <1> QED  BY <1>2, <1>3, <1>4, <1>5, <1>6

\* What the rules store as cited is what the namnd cites, in every state.
THEOREM CitationsHold == Spec => []CitationsAreTheNamnds
  <1>1. Inductive => CitationsAreTheNamnds
    BY CitationsFollow
  <1> QED  BY <1>1, InductiveHolds, PTL

(***************************************************************************)
(* The provisions the segments name.                                       *)
(***************************************************************************)
\* The lines of the segments: the text's, one of them read as prose.
SegmentLines(t) == TextLines(t) \union {AsProse(l) : l \in TextLines(t)}

\* The words of a segment's line, and the mark of its kind, which names no
\* provision.
LEMMA SegmentLineWords ==
    ASSUME NEW t \in DOMAIN Templates, NEW l \in SegmentLines(t)
    PROVE  /\ LineWords(l) \in Seq(AllWords(t))
           /\ Range(l.words) \subseteq Range(LineWords(l))
           /\ \A w \in Range(LineWords(l)) :
                 /\ w \in Range(l.words) \/ w[1] \in {"gap", "---", "heading"} \union TrailerFields
                 /\ w[1] = "run" => w[2] \in Nat
                 /\ w[1] = "provision" => /\ w \in Range(l.words)
                                          /\ w[3] \in Nat /\ w[4] \in Nat
                                          /\ w[3] = 0 => w[4] = 0
  <1> DEFINE Marks == {"gap", "---", "heading"} \union TrailerFields
             Goal(m) == /\ LineWords(m) \in Seq(AllWords(t))
                        /\ Range(m.words) \subseteq Range(LineWords(m))
                        /\ \A w \in Range(LineWords(m)) : w \in Range(m.words) \/ w[1] \in Marks
  <1>1. ASSUME NEW m \in TextLines(t)
        PROVE  Goal(m)
    <2>1. m.words \in Seq(AllWords(t)) /\ LineWords(m) \in Seq(AllWords(t))
      BY WordsAreGiven
    <2>2. CASE m.kind \in {"blank", "rule"}
      <3>1. m.words = <<>>
        BY <2>2, LineFacts
      <3>2. LineWords(m) = IF m.kind = "blank" THEN <<<<"gap">>>> ELSE <<<<"---">>>>
        BY <2>2 DEF LineWords, TrailerFields
      <3>3. Range(m.words) = {}
        BY <3>1 DEF Range
      <3>4. \A w \in Range(LineWords(m)) : w[1] \in {"gap", "---"}
        BY <3>2 DEF Range
      <3> QED  BY <2>1, <3>3, <3>4
    <2>3. CASE m.kind \in {"heading"} \union TrailerFields
      <3> DEFINE k == m.kind
                 g == <<k>>
                 a == <<g>>
                 b == m.words
                 X == AllWords(t)
      <3>1. LineWords(m) = a \o b
        BY <2>3 DEF LineWords, TrailerFields
      <3>2. g \in X
        BY <2>3 DEF AllWords, TrailerFields
      <3>3. a \in Seq(X) /\ Len(a) = 1 /\ a[1] = g
        <4> HIDE DEF g, X
        <4> QED  BY <3>2
      <3>4. b \in Seq(X)
        BY <2>1
      <3>5. g[1] = k
        OBVIOUS
      <3> HIDE DEF a, b, g, X, k
      <3>6. /\ DOMAIN (a \o b) = 1 .. 1 + Len(b) /\ DOMAIN b = 1 .. Len(b) /\ Len(b) \in Nat
            /\ \A i \in 1 .. 1 + Len(b) : (a \o b)[i] = IF i <= 1 THEN a[i] ELSE b[i - 1]
        <4>1. /\ a \o b \in Seq(X) /\ Len(a \o b) = Len(a) + Len(b)
              /\ \A i \in 1 .. Len(a) + Len(b) : (a \o b)[i] = IF i <= Len(a) THEN a[i] ELSE b[i - Len(a)]
          BY <3>3, <3>4, ConcatProperties
        <4>2. DOMAIN (a \o b) = 1 .. Len(a \o b) /\ DOMAIN b = 1 .. Len(b) /\ Len(b) \in Nat
          BY <3>4, <4>1, LenProperties
        <4> QED  BY <3>3, <4>1, <4>2
      <3>7. Range(b) \subseteq Range(a \o b)
        <4>1. ASSUME NEW i \in 1 .. Len(b)
              PROVE  i + 1 \in 1 .. 1 + Len(b) /\ (a \o b)[i + 1] = b[i]
          <5>1. i + 1 \in 1 .. 1 + Len(b) /\ ~(i + 1 <= 1) /\ (i + 1) - 1 = i
            BY <3>6
          <5>2. (a \o b)[i + 1] = b[(i + 1) - 1]
            BY <3>6, <5>1
          <5> QED  BY <5>1, <5>2
        <4> QED  BY <3>6, <4>1 DEF Range
      <3>8. \A w \in Range(a \o b) : w \in Range(b) \/ w = g
        <4>1. ASSUME NEW i \in 1 .. 1 + Len(b)
              PROVE  (a \o b)[i] = g \/ \E j \in 1 .. Len(b) : (a \o b)[i] = b[j]
          <5>1. CASE i = 1
            BY <3>3, <3>6, <5>1
          <5>2. CASE i # 1
            <6>1. i - 1 \in 1 .. Len(b) /\ ~(i <= 1)
              BY <3>6, <5>2
            <6> QED  BY <3>6, <6>1
          <5> QED  BY <5>1, <5>2
        <4> QED  BY <3>6, <4>1 DEF Range
      <3>9. k \in Marks
        BY <2>3 DEF k
      <3>10. LineWords(m) \in Seq(X)
        BY <2>1 DEF X
      <3> HIDE DEF Marks
      <3> QED  BY <3>1, <3>5, <3>7, <3>8, <3>9, <3>10 DEF b, X
    <2>4. CASE m.kind \notin {"heading"} \union TrailerFields \union {"blank", "rule"}
      <3>1. LineWords(m) = m.words
        BY <2>4 DEF LineWords
      <3> QED  BY <2>1, <3>1
    <2> QED  BY <2>2, <2>3, <2>4
  <1>2. ASSUME NEW m \in TextLines(t)
        PROVE  Goal(AsProse(m)) /\ AsProse(m).words = m.words
    <2>1. m = [kind |-> m.kind, words |-> m.words, part |-> m.part, cites |-> m.cites]
      BY LineFacts
    <2>2. "kind" \in DOMAIN m /\ "words" \in DOMAIN m
      BY <2>1
    <2>3. AsProse(m).kind = "prose" /\ AsProse(m).words = m.words
      BY <2>2 DEF AsProse
    <2>4. LineWords(AsProse(m)) = m.words
      BY <2>3 DEF LineWords, TrailerFields
    <2>5. m.words \in Seq(AllWords(t))
      BY WordsAreGiven
    <2> QED  BY <2>3, <2>4, <2>5
  <1>3. Goal(l)
    BY <1>1, <1>2 DEF SegmentLines
  <1>4. \A w \in Range(l.words) :
                 /\ w[1] = "run" => w[2] \in Nat
                 /\ w[1] = "provision" => /\ w[3] \in Nat /\ w[4] \in Nat
                                          /\ w[3] = 0 => w[4] = 0
    <2>1. PICK m \in TextLines(t) : l.words = m.words
      BY <1>2 DEF SegmentLines
    <2> QED  BY <2>1, LineOrigins
  <1>5. "run" \notin Marks /\ "provision" \notin Marks
    BY DEF TrailerFields
  <1> HIDE DEF Marks
  <1>6. \A w \in Range(LineWords(l)) :
                 /\ w \in Range(l.words) \/ w[1] \in Marks
                 /\ w[1] = "run" => w[2] \in Nat
                 /\ w[1] = "provision" => /\ w \in Range(l.words)
                                          /\ w[3] \in Nat /\ w[4] \in Nat
                                          /\ w[3] = 0 => w[4] = 0
    BY <1>3, <1>4, <1>5
  <1> QED  BY <1>3, <1>6 DEF Marks

\* What is named by the words of lines is named by one of the lines.
LEMMA ProvisionsOf ==
    ASSUME NEW t \in DOMAIN Templates, NEW lines \in Seq(SegmentLines(t)), NEW w
    PROVE  /\ w \in Range(Words(lines)) /\ w[1] = "provision" =>
                 /\ \E i \in DOMAIN lines : w \in Range(lines[i].words)
                 /\ w[3] \in Nat /\ w[4] \in Nat /\ (w[3] = 0 => w[4] = 0)
           /\ \A i \in DOMAIN lines : w \in Range(lines[i].words) => w \in Range(Words(lines))
           /\ Words(lines) \in Seq(AllWords(t))
  <1> DEFINE R == SegmentLines(t)
             X == AllWords(t)
  <1>1. \A l \in R : LineWords(l) \in Seq(X)
    BY SegmentLineWords
  <1>2. /\ Range(Words(lines)) = UNION {Range(LineWords(l)) : l \in Range(lines)}
        /\ Words(lines) \in Seq(X)
    <2> HIDE DEF R, X
    <2> QED  BY <1>1, WordsRange, WordsAppend DEF R
  <1>3. \A i \in DOMAIN lines : lines[i] \in R
    BY ElementOfSeq, LenProperties
  <1>4. \A l \in Range(lines) : l \in R /\ \E i \in DOMAIN lines : l = lines[i]
    BY <1>3 DEF Range
  <1>5. \A i \in DOMAIN lines : lines[i] \in Range(lines)
    BY DEF Range
  <1>6. ASSUME w \in Range(Words(lines)), w[1] = "provision"
        PROVE  /\ \E i \in DOMAIN lines : w \in Range(lines[i].words)
               /\ w[3] \in Nat /\ w[4] \in Nat /\ (w[3] = 0 => w[4] = 0)
    <2>1. PICK l \in Range(lines) : w \in Range(LineWords(l))
      BY <1>2, <1>6
    <2>2. w \in Range(l.words) /\ w[3] \in Nat /\ w[4] \in Nat /\ (w[3] = 0 => w[4] = 0)
      BY <1>4, <1>6, <2>1, SegmentLineWords
    <2> QED  BY <1>4, <2>1, <2>2
  <1>7. ASSUME NEW i \in DOMAIN lines, w \in Range(lines[i].words)
        PROVE  w \in Range(Words(lines))
    <2>1. w \in Range(LineWords(lines[i]))
      BY <1>3, <1>7, SegmentLineWords
    <2> QED  BY <1>2, <1>5, <2>1
  <1> QED  BY <1>2, <1>6, <1>7

\* The sections a provision is kept as.
LEMMA RegulationsOf ==
    ASSUME NEW w, w[3] \in Nat, w[4] \in Nat, w[3] = 0 => w[4] = 0
    PROVE  /\ \A n \in CanonicalRegulations(w) :
                 /\ n[1] = "regulation" /\ n[2] = w[2] /\ n[3] \in Nat /\ n[4] \in Nat
                 /\ n = Regulation(n[2], n[3], n[4])
                 /\ w[3] <= n[3] /\ n[4] <= w[4] /\ (n[3] = 0 => n[4] = 0)
           /\ w[3] = 0 => Regulation(w[2], 0, 0) \in CanonicalRegulations(w)
           /\ w[3] > 0 => \A s \in w[3] .. w[4] :
                 /\ \E n \in CanonicalRegulations(w) :
                       /\ n[3] <= s /\ s <= n[4] /\ 0 < n[3]
                       /\ w[4] - w[3] < MaxExpandedSections => n = Regulation(w[2], s, s)
  <1> DEFINE c == w[2]
             f == w[3]
             g == w[4]
  <1>1. f \in Nat /\ g \in Nat /\ MaxExpandedSections \in Nat /\ (f = 0 => g = 0)
    BY BoundsAssumption
  <1>2. \A x, y : LET n == Regulation(c, x, y)
                  IN  /\ n[1] = "regulation" /\ n[2] = c /\ n[3] = x /\ n[4] = y
                      /\ n = Regulation(n[2], n[3], n[4])
    BY DEF Regulation
  <1>3. CanonicalRegulations(w) =
            IF f < g /\ g - f < MaxExpandedSections THEN {Regulation(c, s, s) : s \in f .. g}
            ELSE {Regulation(c, f, g)}
    BY DEF CanonicalRegulations
  <1> HIDE DEF c, f, g
  <1>4. CASE f < g /\ g - f < MaxExpandedSections
    <2>1. CanonicalRegulations(w) = {Regulation(c, s, s) : s \in f .. g} /\ f > 0
      BY <1>1, <1>3, <1>4
    <2>2. ASSUME NEW n \in CanonicalRegulations(w)
          PROVE  /\ n[1] = "regulation" /\ n[2] = c /\ n[3] \in Nat /\ n[4] \in Nat
                 /\ n = Regulation(n[2], n[3], n[4])
                 /\ f <= n[3] /\ n[4] <= g /\ (n[3] = 0 => n[4] = 0)
      <3>1. PICK s \in f .. g : n = Regulation(c, s, s)
        BY <2>1
      <3>2. n[1] = "regulation" /\ n[2] = c /\ n[3] = s /\ n[4] = s /\ n = Regulation(n[2], n[3], n[4])
        BY <1>2, <3>1
      <3>3. s \in Nat /\ f <= s /\ s <= g
        BY <1>1
      <3> QED  BY <3>2, <3>3
    <2>3. ASSUME NEW s \in f .. g
          PROVE  \E n \in CanonicalRegulations(w) :
                       /\ n[3] <= s /\ s <= n[4] /\ 0 < n[3]
                       /\ g - f < MaxExpandedSections => n = Regulation(c, s, s)
      <3> DEFINE n == Regulation(c, s, s)
      <3>1. n \in CanonicalRegulations(w) /\ n[3] = s /\ n[4] = s /\ s \in Nat /\ s > 0
        BY <1>1, <1>2, <2>1
      <3> HIDE DEF n
      <3>2. n[3] <= s /\ s <= n[4] /\ 0 < n[3]
        BY <3>1
      <3> QED  BY <3>1, <3>2 DEF n
    <2> QED  BY <2>1, <2>2, <2>3 DEF c, f, g
  <1>5. CASE ~(f < g /\ g - f < MaxExpandedSections)
    <2> DEFINE n == Regulation(c, f, g)
    <2>1. CanonicalRegulations(w) = {n}
      BY <1>3, <1>5
    <2>2. n[1] = "regulation" /\ n[2] = c /\ n[3] = f /\ n[4] = g /\ n = Regulation(n[2], n[3], n[4])
      BY <1>2
    <2>3. f = 0 => n = Regulation(c, 0, 0)
      BY <1>1
    <2> HIDE DEF n
    <2>4. /\ n[3] \in Nat /\ n[4] \in Nat /\ f <= n[3] /\ n[4] <= g /\ (n[3] = 0 => n[4] = 0)
      BY <1>1, <2>2
    <2>5. ASSUME f > 0, NEW s \in f .. g
          PROVE  /\ n[3] <= s /\ s <= n[4] /\ 0 < n[3]
                 /\ g - f < MaxExpandedSections => n = Regulation(c, s, s)
      <3>1. s \in Nat /\ f <= s /\ s <= g
        BY <1>1
      <3>2. ASSUME g - f < MaxExpandedSections
            PROVE  n = Regulation(c, s, s)
        <4>1. ~(f < g)
          BY <1>5, <3>2
        <4>2. s = f /\ s = g
          BY <1>1, <3>1, <4>1
        <4> QED  BY <4>2 DEF n
      <3> QED  BY <1>1, <2>2, <2>5, <3>1, <3>2
    <2> QED  BY <2>1, <2>2, <2>3, <2>4, <2>5 DEF c, f, g
  <1> QED  BY <1>4, <1>5

\* Where names have a bound, what is dropped is covered by what stays; a single
\* section is never dropped.
AreNames(names, N) ==
    \A n \in names : n[1] = "regulation" =>
        /\ n = Regulation(n[2], n[3], n[4])
        /\ n[3] \in Nat /\ n[4] \in Nat /\ n[4] <= N /\ (n[3] = 0 => n[4] = 0)

\* So each regulation leaves one that covers it.
LEMMA NamesSurvive ==
    ASSUME NEW names, NEW N \in Nat, AreNames(names, N), NEW n \in names, n[1] = "regulation"
    PROVE  \E e \in names :
               /\ ~IsSubsumed(e, names) /\ e[1] = "regulation" /\ e[2] = n[2]
               /\ n[3] > 0 => e[3] <= n[3] /\ n[4] <= e[4]
               /\ n[3] > 0 /\ n[4] <= n[3] => e = n
  <1> DEFINE Stays(m, e) ==
               /\ ~IsSubsumed(e, names) /\ e[1] = "regulation" /\ e[2] = m[2]
               /\ e[3] <= m[3] /\ m[4] <= e[4]
               /\ m[4] <= m[3] => e = m
  <1>1. ASSUME NEW m \in names, m[1] = "regulation", m[3] > 0
        PROVE  \E e \in names : Stays(m, e)
    <2>1. m[3] \in Nat /\ m[4] \in Nat
      BY <1>1 DEF AreNames
    <2>2. CASE m[4] <= m[3]
      <3>1. ~IsSubsumed(m, names)
        BY <1>1, <2>1, <2>2 DEF IsSubsumed, IsRange
      <3> QED  BY <1>1, <2>1, <3>1
    <2>3. CASE ~(m[4] <= m[3])
      <3> DEFINE Over == {o \in names : /\ o[1] = "regulation" /\ o[2] = m[2]
                                        /\ o[3] < o[4] /\ o[3] <= m[3] /\ m[4] <= o[4]}
                 W == {o[4] - o[3] : o \in Over}
      <3>1. \A o \in Over : /\ o[3] \in Nat /\ o[4] \in Nat /\ o[4] <= N
                            /\ o = Regulation(o[2], o[3], o[4])
        BY DEF AreNames
      <3>2. m \in Over
        BY <1>1, <2>1, <2>3
      <3>3. W \in SUBSET Nat /\ W # {} /\ \A x \in W : x <= N
        <4>1. \A o \in Over : o[4] - o[3] \in Nat /\ o[4] - o[3] <= N
          BY <3>1
        <4> QED  BY <3>2, <4>1
      <3>4. PICK o \in Over : \A x \in W : x <= o[4] - o[3]
        <4>1. Max(W) \in W /\ \A x \in W : x <= Max(W)
          <5> HIDE DEF W
          <5> QED  BY <3>3, GreatestExists
        <4>2. PICK o \in Over : Max(W) = o[4] - o[3]
          BY <4>1
        <4> QED  BY <4>1, <4>2
      <3>5. ~IsSubsumed(o, names)
        <4> SUFFICES ASSUME IsSubsumed(o, names)
                     PROVE  FALSE
          OBVIOUS
        <4>1. PICK p \in names \ {o} :
                      /\ p[1] = "regulation" /\ p[2] = o[2]
                      /\ o[3] = 0 \/ (IsRange(p) /\ p[3] <= o[3] /\ o[4] <= p[4])
          BY DEF IsSubsumed
        <4>2. o[3] \in Nat /\ o[4] \in Nat /\ o[3] < o[4]
          BY <3>1
        <4>3. o[3] # 0
          BY <4>2 DEF AreNames
        <4>4. p[3] < p[4] /\ p[3] <= o[3] /\ o[4] <= p[4] /\ p[3] \in Nat /\ p[4] \in Nat
          BY <4>1, <4>3 DEF IsRange, AreNames
        <4>5. p \in Over
          BY <2>1, <4>1, <4>2, <4>4
        <4>6. p[4] - p[3] <= o[4] - o[3]
          BY <3>4, <4>5
        <4>7. p[3] = o[3] /\ p[4] = o[4]
          BY <4>2, <4>4, <4>6
        <4>8. p = Regulation(p[2], p[3], p[4]) /\ o = Regulation(o[2], o[3], o[4])
          BY <3>1, <4>5
        <4> QED  BY <4>1, <4>7, <4>8
      <3> QED  BY <2>3, <3>4, <3>5
    <2> QED  BY <2>2, <2>3
  <1> HIDE DEF Stays
  <1>2. n[3] \in Nat /\ n[4] \in Nat /\ n = Regulation(n[2], n[3], n[4]) /\ (n[3] = 0 => n[4] = 0)
    BY DEF AreNames
  <1>3. CASE n[3] > 0
    BY <1>1, <1>3 DEF Stays
  <1>4. CASE ~(n[3] > 0) /\ ~IsSubsumed(n, names)
    BY <1>4
  <1>5. CASE ~(n[3] > 0) /\ IsSubsumed(n, names)
    <2>1. n[3] = 0 /\ n[4] = 0
      BY <1>2, <1>5
    <2>2. PICK o \in names \ {n} : o[1] = "regulation" /\ o[2] = n[2]
      BY <1>5 DEF IsSubsumed
    <2>3. /\ o[3] \in Nat /\ o[4] \in Nat /\ o = Regulation(o[2], o[3], o[4])
          /\ o[3] = 0 => o[4] = 0
      BY <2>2 DEF AreNames
    <2>4. o[3] > 0
      <3>1. o[3] = 0 => o = n
        BY <1>2, <2>1, <2>2, <2>3
      <3> QED  BY <2>3, <3>1
    <2>5. PICK e \in names : Stays(o, e)
      BY <1>1, <2>2, <2>4
    <2> QED  BY <1>5, <2>2, <2>5 DEF Stays
  <1> QED  BY <1>3, <1>4, <1>5

\* The k-th appendix is what has k labels before it and is none.
LEMMA AppendicesAre ==
    ASSUME TextHolds
    PROVE  LET labels == LinesOf(text, {"label"})
               app == SplitDocument(text).appendices
           IN  /\ Cardinality(labels) \in Nat /\ app \in Seq(Seq(TextLines(template)))
               /\ Len(app) = Cardinality(labels)
               /\ \A k \in 1 .. Len(app) :
                     \E lo, hi \in Nat :
                        /\ 1 <= lo /\ lo <= hi + 1 /\ hi <= Len(text)
                        /\ app[k] = SubSeq(text, lo, hi)
                        /\ \A i \in 1 .. Len(text) :
                              (lo <= i /\ i <= hi) <=> (Count(labels, i) = k /\ i \notin labels)
  <1> DEFINE labels == LinesOf(text, {"label"})
             N == Len(text)
             c == Cardinality(labels)
             R == TextLines(template)
             app == SplitDocument(text).appendices
             Lo(k) == Nth(labels, k) + 1
             Hi(k) == IF k = c THEN N ELSE Nth(labels, k + 1) - 1
             Is(k, lo, hi) ==
                 /\ 1 <= lo /\ lo <= hi + 1 /\ hi <= N
                 /\ app[k] = SubSeq(text, lo, hi)
                 /\ \A i \in 1 .. N :
                       (lo <= i /\ i <= hi) <=> (Count(labels, i) = k /\ i \notin labels)
  <1>1. N \in Nat /\ DOMAIN text = 1 .. N /\ text \in Seq(R)
    BY TextIsLines DEF TextHolds
  <1>2. app = [k \in 1 .. c |-> SubSeq(text, Lo(k), Hi(k))]
    BY DEF SplitDocument, SplitAppendices
  <1>3. labels \in SUBSET (1 .. N)
    BY <1>1 DEF LinesOf
  <1> HIDE DEF labels, app, R
  <1>4. c \in Nat
    BY <1>1, <1>3, CountSteps
  <1>5. \A k \in 1 .. c : Nth(labels, k) \in labels /\ Nth(labels, k) \in 1 .. N
    BY <1>1, <1>3, NthCounts
  <1>6. /\ \A j \in labels : Count(labels, j) \in 1 .. c /\ Nth(labels, Count(labels, j)) = j
        /\ \A m, n \in 1 .. c : m < n <=> Nth(labels, m) < Nth(labels, n)
        /\ \A n \in 1 .. c, i \in Nat :
              (Nth(labels, n) <= i /\ \A j \in labels : j <= i => j <= Nth(labels, n))
                 <=> Count(labels, i) = n
    BY <1>1, <1>3, NthOrders
  <1> HIDE DEF c
  <1>7. ASSUME NEW k \in 1 .. c
        PROVE  Lo(k) \in Nat /\ Hi(k) \in Nat /\ Is(k, Lo(k), Hi(k))
    <2> DEFINE a == Nth(labels, k)
               b == Nth(labels, k + 1)
               lo == Lo(k)
               hi == Hi(k)
    <2>1. a \in labels /\ a \in 1 .. N /\ lo = a + 1
      BY <1>5
    <2>2. k # c => k + 1 \in 1 .. c /\ b \in labels /\ b \in 1 .. N /\ a < b
      <3> SUFFICES ASSUME k # c
                   PROVE  k + 1 \in 1 .. c /\ b \in labels /\ b \in 1 .. N /\ a < b
        OBVIOUS
      <3>1. k + 1 \in 1 .. c /\ k < k + 1
        BY <1>4
      <3> QED  BY <1>5, <1>6, <3>1
    <2>3. hi = IF k = c THEN N ELSE b - 1
      OBVIOUS
    <2>4. app[k] = SubSeq(text, lo, hi)
      BY <1>2
    <2> HIDE DEF a, b, lo, hi, Lo, Hi
    <2>5. lo \in Nat /\ hi \in Nat /\ 1 <= lo /\ lo <= hi + 1 /\ hi <= N
      BY <1>1, <2>1, <2>2, <2>3
    <2>6. \A i \in Nat : (a <= i /\ \A j \in labels : j <= i => j <= a) <=> Count(labels, i) = k
      BY <1>6 DEF a
    <2>7. ASSUME NEW i \in 1 .. N, lo <= i, i <= hi
          PROVE  Count(labels, i) = k /\ i \notin labels
      <3>1. ASSUME NEW j \in labels, j <= i
            PROVE  j <= a
        <4> DEFINE n == Count(labels, j)
        <4>1. n \in 1 .. c /\ Nth(labels, n) = j
          BY <1>6
        <4>2. j \in 1 .. N
          BY <1>3
        <4> HIDE DEF n
        <4>3. CASE n < k
          <5>1. Nth(labels, n) < Nth(labels, k)
            BY <1>6, <4>1, <4>3
          <5> QED  BY <2>1, <4>1, <4>2, <5>1 DEF a
        <4>4. CASE n = k
          BY <2>1, <4>1, <4>4 DEF a
        <4>5. CASE k < n
          <5>1. k # c /\ (k + 1 < n \/ k + 1 = n)
            BY <1>4, <4>1, <4>5
          <5>2. b <= j
            <6>1. CASE k + 1 < n
              <7>1. Nth(labels, k + 1) < Nth(labels, n)
                BY <1>6, <2>2, <4>1, <5>1, <6>1
              <7> QED  BY <2>2, <4>1, <4>2, <5>1, <7>1 DEF b
            <6>2. CASE k + 1 = n
              BY <2>2, <4>1, <4>2, <5>1, <6>2 DEF b
            <6> QED  BY <5>1, <6>1, <6>2
          <5>3. hi = b - 1
            BY <2>3, <5>1
          <5> QED  BY <1>1, <2>2, <2>7, <3>1, <4>2, <5>1, <5>2, <5>3
        <4> QED  BY <1>4, <4>1, <4>3, <4>4, <4>5
      <3>2. a <= i /\ a < i
        BY <1>1, <2>1, <2>7
      <3>3. Count(labels, i) = k
        BY <2>6, <3>1, <3>2
      <3>4. i \notin labels
        <4> SUFFICES ASSUME i \in labels
                     PROVE  FALSE
          OBVIOUS
        <4>1. i <= i
          OBVIOUS
        <4>2. i <= a
          BY <3>1, <4>1
        <4> QED  BY <1>1, <2>1, <3>2, <4>2
      <3> QED  BY <3>3, <3>4
    <2>8. ASSUME NEW i \in 1 .. N, Count(labels, i) = k, i \notin labels
          PROVE  lo <= i /\ i <= hi
      <3>1. a <= i /\ \A j \in labels : j <= i => j <= a
        BY <1>1, <2>6, <2>8
      <3>2. lo <= i
        BY <1>1, <2>1, <2>8, <3>1
      <3>3. CASE k = c
        BY <1>1, <2>3, <3>2, <3>3
      <3>4. CASE k # c
        <4>1. ~(b <= i)
          <5>1. b <= i => b <= a
            BY <2>2, <3>1, <3>4
          <5> QED  BY <2>1, <2>2, <3>4, <5>1
        <4>2. i <= b - 1
          BY <2>2, <3>4, <4>1
        <4> QED  BY <2>3, <3>2, <3>4, <4>2
      <3> QED  BY <3>3, <3>4
    <2>9. \A i \in 1 .. N : (lo <= i /\ i <= hi) <=> (Count(labels, i) = k /\ i \notin labels)
      BY <2>7, <2>8
    <2> QED  BY <2>4, <2>5, <2>9 DEF lo, hi
  <1> HIDE DEF Lo, Hi
  <1>8. ASSUME NEW k \in 1 .. c
        PROVE  SubSeq(text, Lo(k), Hi(k)) \in Seq(R)
    <2>1. Lo(k) \in Nat /\ Hi(k) \in Nat /\ 1 <= Lo(k) /\ Lo(k) <= Hi(k) + 1 /\ Hi(k) <= N
      BY <1>7
    <2> DEFINE lo == Lo(k)
               hi == Hi(k)
    <2>2. lo \in Nat /\ hi \in Nat /\ 1 <= lo /\ lo <= hi + 1 /\ hi <= N
      BY <2>1
    <2> HIDE DEF lo, hi
    <2>3. SubSeq(text, lo, hi) \in Seq(R)
      BY <1>1, <2>2, CutFacts
    <2> QED  BY <2>3 DEF lo, hi
  <1>9. app \in [1 .. c -> Seq(R)]
    BY <1>2, <1>8
  <1>10. app \in Seq(Seq(R)) /\ Len(app) = c
    <2>1. app \in Seq(Seq(R))
      BY <1>4, <1>9, SeqDef
    <2>2. DOMAIN app = 1 .. c
      BY <1>9
    <2> QED  BY <1>4, <2>1, <2>2, LenProperties
  <1>11. \A k \in 1 .. c : \E lo, hi \in Nat : Is(k, lo, hi)
    <2> HIDE DEF Is
    <2> QED  BY <1>7
  <1> QED  BY <1>4, <1>10, <1>11 DEF labels, app, R, c

\* The holding has all the holding's words, and no provision that is not one
\* of them.
LEMMA HoldingHolds ==
    ASSUME TextHolds
    PROVE  LET holding == SplitDocument(text).holding
           IN  /\ \A i \in DOMAIN text :
                     text[i].part = "holding" /\ text[i].words # <<>> =>
                         /\ holding # None
                         /\ \E k \in DOMAIN holding : holding[k].words = text[i].words
               /\ holding # None =>
                     /\ holding \in Seq(SegmentLines(template))
                     /\ \A k \in DOMAIN holding : \E i \in DOMAIN text :
                           /\ holding[k].words = text[i].words
                           /\ text[i].part = "holding" \/ NamesNoProvision(text[i])
  <1> DEFINE S == FindTrailerStart(text)
             A == AppendixStart(text)
             N == Len(text)
             R == TextLines(template)
             body == SplitDocument(text).body
             holding == SplitDocument(text).holding
  <1>1. /\ N \in Nat /\ DOMAIN text = 1 .. N /\ template \in DOMAIN Templates
        /\ \A i \in 1 .. N : text[i] \in R
    BY TextIsLines DEF TextHolds
  <1>2. S \in 1 .. N + 1 /\ A \in 1 .. N + 1
    BY <1>1, Cuts
  <1>3. PICK a \in Nat, b \in Nat :
                   /\ 1 <= a /\ a <= b + 1 /\ b < S
                   /\ body = SubSeq(text, a, b) /\ body \in Seq(TextLines(template))
                   /\ Len(body) = b - a + 1 /\ DOMAIN body = 1 .. b - a + 1
                   /\ \A i \in 1 .. b - a + 1 : body[i] = text[a + i - 1] /\ a + i - 1 \in a .. b
                   /\ \A i \in 1 .. S - 1 : text[i].kind # "blank" => a <= i /\ i <= b
    BY BodyIs
  <1>4. holding = FindHolding(body)
    BY DEF SplitDocument
  <1>5. \A i \in 1 .. N :
           /\ i < S => \/ text[i].part \in {"head", "reasons", "holding", "page"}
                       \/ text[i].part = "trailer" /\ text[i].kind \in {"number", "rule"}
           /\ text[i].part = "holding" => i < S
           /\ i < S => text[i].part # "appendix"
    <2> TAKE i \in 1 .. N
    <2>1. /\ i < S => \/ text[i].part \in {"head", "reasons", "holding", "page"}
                      \/ text[i].part = "trailer" /\ text[i].kind \in {"number", "rule"}
          /\ S <= i /\ i < A => text[i].part \in {"trailer", "page"}
          /\ i >= A => text[i].part \in {"appendix", "page"}
      BY <1>1, Cuts
    <2> HIDE DEF S, A
    <2> QED  BY <1>2, <2>1
  <1>6. \A i \in 1 .. N :
           /\ text[i].part \in {"head", "reasons"} => text[i].kind \in ProseKinds
           /\ text[i].part = "holding" => text[i].kind \in ProseKinds \union {"heading"}
           /\ text[i].part = "page" => text[i].kind \in {"blank", "rule"} /\ text[i].words = <<>>
    BY <1>1, LineFacts, LineOrigins
  <1> HIDE DEF S, A, body, holding
  <1>7. ASSUME NEW i \in 1 .. N, text[i].part = "holding"
        PROVE  /\ i - a + 1 \in 1 .. b - a + 1 /\ body[i - a + 1] = text[i]
               /\ \E j \in 1 .. i : /\ j - a + 1 \in 1 .. b - a + 1 /\ text[j].kind = "heading"
                                    /\ body[j - a + 1] = text[j]
    <2>1. ASSUME NEW j \in 1 .. N, text[j].part = "holding"
          PROVE  j - a + 1 \in 1 .. b - a + 1 /\ body[j - a + 1] = text[j]
      <3>1. j < S /\ text[j].kind # "blank"
        BY <1>5, <1>6, <2>1 DEF ProseKinds
      <3>2. a <= j /\ j <= b
        BY <1>1, <1>2, <1>3, <3>1
      <3>3. j - a + 1 \in 1 .. b - a + 1 /\ a + (j - a + 1) - 1 = j
        BY <1>3, <3>2
      <3> QED  BY <1>3, <3>3
    <2> DEFINE D == {j \in 1 .. N : text[j].part = "holding"}
               j == Min(D)
    <2>2. j \in D /\ \A x \in D : j <= x
      <3>1. D \in SUBSET Nat /\ D # {}
        BY <1>7
      <3> HIDE DEF D
      <3> QED  BY <3>1, LeastExists
    <2>3. j \in 1 .. N /\ text[j].part = "holding" /\ j <= i
      BY <1>7, <2>2
    <2> HIDE DEF j
    <2>4. \A x \in 1 .. j - 1 : text[x].part # "holding"
      <3> TAKE x \in 1 .. j - 1
      <3>1. x \in 1 .. N /\ ~(j <= x)
        BY <1>1, <2>3
      <3> QED  BY <2>2, <3>1
    <2>5. text[j].kind = "heading"
      BY <1>1, <2>3, <2>4 DEF TextHolds, HoldingOpens
    <2>6. j \in 1 .. i
      BY <2>3
    <2> QED  BY <1>7, <2>1, <2>3, <2>5, <2>6
  <1>8. CASE LinesOf(body, {"heading"}) = {} /\ FindHolding(body) = None
    <2>1. ASSUME NEW i \in DOMAIN text, text[i].part = "holding"
          PROVE  FALSE
      <3>1. PICK j \in 1 .. i : /\ j - a + 1 \in 1 .. b - a + 1 /\ text[j].kind = "heading"
                                /\ body[j - a + 1] = text[j]
        BY <1>1, <1>7, <2>1
      <3>2. j - a + 1 \in LinesOf(body, {"heading"})
        BY <1>3, <3>1 DEF LinesOf
      <3> QED  BY <1>8, <3>2
    <2> QED  BY <1>4, <1>8, <2>1 DEF holding
  <1>9. CASE \E rest, m : /\ IsHolding(rest, m, body, R)
                          /\ FindHolding(body) =
                                IF \A i \in 1 .. Len(rest) : rest[i].words = <<>> THEN None ELSE rest
    <2>1. PICK rest, m : /\ IsHolding(rest, m, body, R)
                         /\ FindHolding(body) =
                                IF \A i \in 1 .. Len(rest) : rest[i].words = <<>> THEN None ELSE rest
      BY <1>9
    <2>2. /\ m \in 1 .. Len(body) /\ body[m].kind = "heading"
          /\ \A j \in 1 .. m - 1 : body[j].kind # "heading"
          /\ rest \in Seq(SegmentLines(template))
          /\ Len(rest) = Len(body) - m + 1
      BY <2>1 DEF IsHolding, SegmentLines
    <2>3. DOMAIN rest = 1 .. Len(rest) /\ Len(rest) \in Nat
      BY <2>2, LenProperties
    <2>4. \A i \in 1 .. Len(rest) : /\ m + i - 1 \in 1 .. b - a + 1
                                    /\ rest[i].words = body[m + i - 1].words
      BY <1>3, <2>1, HoldingLines DEF body
    <2>5. rest # None
      <3>1. rest \in Seq(R \union {[l EXCEPT !.kind = "prose"] : l \in R})
        BY <2>1 DEF IsHolding, AsProse
      <3>2. None \notin Seq(R \union {[l EXCEPT !.kind = "prose"] : l \in R})
        BY <1>1, NoneAssumption DEF TextLines
      <3> QED  BY <3>1, <3>2
    <2>6. ASSUME NEW i \in DOMAIN text, text[i].part = "holding", text[i].words # <<>>
          PROVE  holding # None /\ \E k \in DOMAIN holding : holding[k].words = text[i].words
      <3> DEFINE p == i - a + 1
      <3>1. i \in 1 .. N /\ p \in 1 .. b - a + 1 /\ body[p] = text[i]
        BY <1>1, <1>7, <2>6
      <3>2. PICK j \in 1 .. i : /\ j - a + 1 \in 1 .. b - a + 1 /\ text[j].kind = "heading"
                                /\ body[j - a + 1] = text[j]
        BY <1>7, <2>6, <3>1
      <3>3. ~(j - a + 1 < m)
        <4> SUFFICES ASSUME j - a + 1 < m
                     PROVE  FALSE
          OBVIOUS
        <4>1. j - a + 1 \in 1 .. m - 1
          BY <1>3, <2>2, <3>2
        <4> QED  BY <2>2, <3>2, <4>1
      <3>4. p - m + 1 \in 1 .. Len(rest) /\ m + (p - m + 1) - 1 = p
        <4>1. i \in Nat /\ j \in Nat /\ j <= i /\ m \in Nat /\ b - a + 1 \in Nat
          BY <1>1, <1>3, <2>2, <3>1, <3>2
        <4>2. m <= p
          BY <1>3, <3>3, <4>1
        <4> HIDE DEF p
        <4>3. p \in Nat /\ p <= b - a + 1 /\ Len(rest) = (b - a + 1) - m + 1
          BY <1>3, <2>2, <3>1
        <4> QED  BY <1>3, <4>1, <4>2, <4>3
      <3> HIDE DEF p
      <3>5. rest[p - m + 1].words = text[i].words
        BY <2>4, <3>1, <3>4
      <3>6. FindHolding(body) = rest
        BY <2>1, <2>6, <3>4, <3>5
      <3> QED  BY <1>4, <2>3, <2>5, <3>4, <3>5, <3>6
    <2>7. ASSUME holding # None
          PROVE  /\ holding \in Seq(SegmentLines(template))
                 /\ \A k \in DOMAIN holding : \E i \in DOMAIN text :
                       /\ holding[k].words = text[i].words
                       /\ text[i].part = "holding" \/ NamesNoProvision(text[i])
      <3>1. holding = rest
        BY <1>4, <2>1, <2>7
      <3>2. ASSUME NEW k \in 1 .. Len(rest)
            PROVE  \E i \in DOMAIN text :
                       /\ rest[k].words = text[i].words
                       /\ text[i].part = "holding" \/ NamesNoProvision(text[i])
        <4> DEFINE q == m + k - 1
                   i == a + q - 1
                   j == a + m - 1
        <4>1. q \in 1 .. b - a + 1 /\ rest[k].words = body[q].words /\ m \in 1 .. b - a + 1
          BY <1>3, <2>2, <2>4
        <4>2. body[q] = text[i] /\ i \in a .. b /\ body[m] = text[j] /\ j \in a .. b
          BY <1>3, <4>1
        <4>3. j <= i
          BY <2>2, <2>3
        <4> HIDE DEF q, i, j
        <4>4. i \in 1 .. N /\ j \in 1 .. N /\ i < S /\ j < S
          BY <1>1, <1>2, <1>3, <4>2
        <4>5. text[j].kind = "heading" /\ text[j].part = "holding"
          BY <1>5, <1>6, <2>2, <4>2, <4>4 DEF ProseKinds
        <4>6. CASE text[i].part = "page"
          <5>1. text[i].words = <<>>
            BY <1>6, <4>4, <4>6
          <5>2. NamesNoProvision(text[i])
            BY <5>1 DEF NamesNoProvision, Range
          <5> QED  BY <1>1, <4>1, <4>2, <4>4, <5>2
        <4>7. CASE text[i].part = "trailer"
          <5>1. NamesNoProvision(text[i])
            BY <1>1, <4>4, <4>7, TrailerStates
          <5> QED  BY <1>1, <4>1, <4>2, <4>4, <5>1
        <4>8. CASE text[i].part = "holding"
          BY <1>1, <4>1, <4>2, <4>4, <4>8
        <4>9. CASE text[i].part \in {"head", "reasons"}
          <5>1. i # j
            BY <4>5, <4>9
          <5>2. j < i
            BY <4>3, <4>4, <5>1
          <5>3. Rank(text[j]) <= Rank(text[i])
            BY <1>1, <4>4, <4>5, <4>9, <5>2 DEF TextHolds, PartsInOrder
          <5> QED  BY <4>5, <4>9, <5>3 DEF Rank
        <4> QED  BY <1>5, <4>4, <4>6, <4>7, <4>8, <4>9
      <3> QED  BY <2>2, <2>3, <3>1, <3>2
    <2> QED  BY <2>6, <2>7 DEF holding
  <1>10. body \in Seq(R)
    BY <1>3
  <1> HIDE DEF R
  <1> QED  BY <1>8, <1>9, <1>10, HoldingIs

\* An entity is found in lines where one of them names it.
LEMMA EntitiesFound ==
    ASSUME NEW t \in DOMAIN Templates, NEW lines \in Seq(SegmentLines(t)), NEW r
    PROVE  /\ \A e \in EntitiesIn(lines, r) :
                 /\ e = [name |-> e.name, relevance |-> r] /\ e.relevance = r
                 /\ e.name[1] \in {"regulation", "parish", "role", "concept"}
                 /\ e.name[1] = "regulation" =>
                       \E i \in DOMAIN lines : \E w \in Range(lines[i].words) :
                          /\ w[1] = "provision" /\ e.name \in CanonicalRegulations(w)
                          /\ w[3] \in Nat /\ w[4] \in Nat /\ (w[3] = 0 => w[4] = 0)
           /\ \A i \in DOMAIN lines : \A w \in Range(lines[i].words) : w[1] = "provision" =>
                 \A n \in CanonicalRegulations(w) :
                    [name |-> n, relevance |-> r] \in EntitiesIn(lines, r)
  <1> DEFINE words == Words(lines)
             names == MatchRegulations(words) \union MatchParishes(words) \union MatchKeywords(words)
  <1>1. EntitiesIn(lines, r) = {[name |-> n, relevance |-> r] : n \in names}
    BY DEF EntitiesIn
  <1>2. \A n \in MatchParishes(words) : n[1] = "parish"
    <2> TAKE n \in MatchParishes(words)
    <2>1. \E x : n = <<"parish", x>>
      BY DEF MatchParishes
    <2> QED  BY <2>1
  <1>3. \A n \in MatchKeywords(words) : n[1] \in {"role", "concept"}
    BY DEF MatchKeywords, KnownKinds
  <1>4. \A n \in MatchRegulations(words) :
           \E w \in Range(words) : w[1] = "provision" /\ n \in CanonicalRegulations(w)
    BY DEF MatchRegulations
  <1>5. \A w \in Range(words) : w[1] = "provision" => CanonicalRegulations(w) \subseteq MatchRegulations(words)
    BY DEF MatchRegulations
  <1>6. \A w : /\ w \in Range(words) /\ w[1] = "provision" =>
                    /\ \E i \in DOMAIN lines : w \in Range(lines[i].words)
                    /\ w[3] \in Nat /\ w[4] \in Nat /\ (w[3] = 0 => w[4] = 0)
               /\ \A i \in DOMAIN lines : w \in Range(lines[i].words) => w \in Range(words)
    BY ProvisionsOf
  <1> HIDE DEF words
  <1>7. ASSUME NEW n \in MatchRegulations(words)
        PROVE  /\ n[1] = "regulation"
               /\ \E i \in DOMAIN lines : \E w \in Range(lines[i].words) :
                          /\ w[1] = "provision" /\ n \in CanonicalRegulations(w)
                          /\ w[3] \in Nat /\ w[4] \in Nat /\ (w[3] = 0 => w[4] = 0)
    <2>1. PICK w \in Range(words) : w[1] = "provision" /\ n \in CanonicalRegulations(w)
      BY <1>4, <1>7
    <2>2. w[3] \in Nat /\ w[4] \in Nat /\ (w[3] = 0 => w[4] = 0)
      BY <1>6, <2>1
    <2>3. PICK i \in DOMAIN lines : w \in Range(lines[i].words)
      BY <1>6, <2>1
    <2>4. n[1] = "regulation"
      BY <2>1, <2>2, RegulationsOf
    <2> QED  BY <2>1, <2>2, <2>3, <2>4
  <1> HIDE DEF names
  <1>8. ASSUME NEW e \in EntitiesIn(lines, r)
        PROVE  /\ e = [name |-> e.name, relevance |-> r] /\ e.relevance = r
               /\ e.name[1] \in {"regulation", "parish", "role", "concept"}
               /\ e.name[1] = "regulation" =>
                     \E i \in DOMAIN lines : \E w \in Range(lines[i].words) :
                        /\ w[1] = "provision" /\ e.name \in CanonicalRegulations(w)
                        /\ w[3] \in Nat /\ w[4] \in Nat /\ (w[3] = 0 => w[4] = 0)
    <2>1. PICK n \in names : e = [name |-> n, relevance |-> r]
      BY <1>1, <1>8
    <2>2. e.name = n /\ e.relevance = r
      BY <2>1
    <2>3. n[1] \in {"regulation", "parish", "role", "concept"}
          /\ (n[1] = "regulation" => n \in MatchRegulations(words))
      BY <1>2, <1>3, <1>7 DEF names
    <2>4. e.name[1] = "regulation" => e.name \in MatchRegulations(words)
      BY <2>2, <2>3
    <2> QED  BY <1>7, <2>1, <2>2, <2>3, <2>4
  <1>9. ASSUME NEW i \in DOMAIN lines, NEW w \in Range(lines[i].words), w[1] = "provision",
               NEW n \in CanonicalRegulations(w)
        PROVE  [name |-> n, relevance |-> r] \in EntitiesIn(lines, r)
    <2>1. n \in names
      BY <1>5, <1>6, <1>9 DEF names
    <2> QED  BY <1>1, <2>1
  <1> QED  BY <1>8, <1>9

\* What the segments name, each with what it counts for.
FoundIn(segments) ==
    (IF segments.holding = None THEN {} ELSE EntitiesIn(segments.holding, "PRIMARY"))
    \union EntitiesIn(segments.body, "MENTIONED")
    \union UNION {EntitiesIn(a, "MENTIONED") : a \in Range(segments.appendices)}

\* A line with words that name a provision is in the body or in an appendix.
LEMMA ProvisionLines ==
    ASSUME TextHolds, NEW i \in DOMAIN text, NEW w \in Range(text[i].words), w[1] = "provision"
    PROVE  LET segments == SplitDocument(text)
           IN  \/ \E k \in DOMAIN segments.body : segments.body[k] = text[i]
               \/ \E a \in Range(segments.appendices) : \E k \in DOMAIN a : a[k] = text[i]
  <1> DEFINE S == FindTrailerStart(text)
             A == AppendixStart(text)
             N == Len(text)
             R == TextLines(template)
             labels == LinesOf(text, {"label"})
             segments == SplitDocument(text)
  <1>1. /\ N \in Nat /\ DOMAIN text = 1 .. N /\ template \in DOMAIN Templates /\ i \in 1 .. N
        /\ text[i] \in R /\ text \in Seq(R)
    BY TextIsLines DEF TextHolds
  <1>2. /\ S \in 1 .. A /\ A \in 1 .. N + 1
        /\ i < A => text[i].part # "appendix" /\ text[i].kind # "label"
        /\ i >= A => text[i].part \in {"appendix", "page"}
        /\ S <= i /\ i < A => text[i].part \in {"trailer", "page"}
        /\ A <= N => text[A].kind = "label"
    BY <1>1, Cuts
  <1>3. text[i].words # <<>>
    <2>1. text[i].words = <<>> => Range(text[i].words) = {}
      BY DEF Range
    <2> QED  BY <2>1
  <1>4. text[i].part # "page" /\ text[i].kind \notin {"blank", "rule"}
    BY <1>1, <1>3, LineFacts, LineOrigins
  <1>5. text[i].part # "trailer"
    <2>1. text[i].part = "trailer" => NamesNoProvision(text[i])
      BY TrailerStates
    <2> QED  BY <2>1 DEF NamesNoProvision
  <1> HIDE DEF S, A, R
  <1>6. CASE i < S
    <2>1. \E k \in DOMAIN segments.body : segments.body[k] = text[i]
      BY <1>4, <1>6, BodyLines DEF S
    <2> QED  BY <2>1
  <1>7. CASE ~(i < S)
    <2>1. i >= A /\ text[i].part = "appendix" /\ A <= N
      BY <1>1, <1>2, <1>4, <1>5, <1>7
    <2>2. text[i].kind # "label"
      <3> SUFFICES ASSUME text[i].kind = "label"
                   PROVE  FALSE
        OBVIOUS
      <3>1. text[i] \in Templates[template].lines["appendix"]
        BY <1>1, <2>1, LineOrigins DEF Pieces, R
      <3>2. NamesNoProvision(text[i])
        BY <1>1, <3>1, LinesAssumption
      <3> QED  BY <3>2 DEF NamesNoProvision
    <2>3. labels \in SUBSET (1 .. N) /\ A \in labels /\ i \notin labels
      BY <1>1, <1>2, <2>1, <2>2 DEF LinesOf
    <2> DEFINE app == segments.appendices
               c == Cardinality(labels)
               k == Count(labels, i)
    <2>4. /\ c \in Nat /\ app \in Seq(Seq(R)) /\ Len(app) = c
          /\ \A q \in 1 .. Len(app) :
                     \E lo, hi \in Nat :
                        /\ 1 <= lo /\ lo <= hi + 1 /\ hi <= N
                        /\ app[q] = SubSeq(text, lo, hi)
                        /\ \A j \in 1 .. N :
                              (lo <= j /\ j <= hi) <=> (Count(labels, j) = q /\ j \notin labels)
      BY AppendicesAre DEF R
    <2>5. DOMAIN app = 1 .. Len(app)
      BY <2>4, LenProperties
    <2> HIDE DEF labels, app, c
    <2>6. k \in 1 .. c
      <3>1. /\ \A j \in Nat : Count(labels, j) \in Nat
            /\ Count(labels, N) = Cardinality(labels)
            /\ \A x, y \in Nat : x <= y => Count(labels, x) <= Count(labels, y)
        BY <1>1, <2>3, CountSteps
      <3>2. Count(labels, A) \in 1 .. c
        BY <1>1, <2>3, NthOrders DEF c
      <3>3. Count(labels, A) <= k /\ k <= Count(labels, N) /\ k \in Nat
        BY <1>1, <1>2, <2>1, <3>1
      <3> HIDE DEF k
      <3> QED  BY <2>4, <3>1, <3>2, <3>3 DEF c
    <2>7. PICK lo \in Nat, hi \in Nat :
                        /\ 1 <= lo /\ lo <= hi + 1 /\ hi <= N
                        /\ app[k] = SubSeq(text, lo, hi)
                        /\ \A j \in 1 .. N :
                              (lo <= j /\ j <= hi) <=> (Count(labels, j) = k /\ j \notin labels)
      BY <2>4, <2>6
    <2>8. lo <= i /\ i <= hi
      BY <1>1, <2>3, <2>7
    <2> HIDE DEF k
    <2>9. /\ DOMAIN SubSeq(text, lo, hi) = 1 .. hi - lo + 1
          /\ \A q \in 1 .. hi - lo + 1 : SubSeq(text, lo, hi)[q] = text[lo + q - 1]
      BY <1>1, <2>7, CutFacts
    <2>10. i - lo + 1 \in 1 .. hi - lo + 1 /\ lo + (i - lo + 1) - 1 = i
      BY <1>1, <2>7, <2>8
    <2>11. app[k] \in Range(app) /\ i - lo + 1 \in DOMAIN app[k] /\ app[k][i - lo + 1] = text[i]
      BY <2>4, <2>5, <2>6, <2>7, <2>9, <2>10 DEF Range
    <2> QED  BY <2>11 DEF app
  <1> QED  BY <1>6, <1>7

\* A sequence over a set is one over any larger set.
LEMMA SeqWider ==
    ASSUME NEW R, NEW T, R \subseteq T, NEW s \in Seq(R)
    PROVE  s \in Seq(T)
  <1>1. Len(s) \in Nat /\ DOMAIN s = 1 .. Len(s) /\ \A i \in 1 .. Len(s) : s[i] \in R
    BY LenProperties, ElementOfSeq
  <1>2. s \in [1 .. Len(s) -> T]
    BY <1>1, LenProperties
  <1> QED  BY <1>1, <1>2, SeqDef

\* The sections a text names have a bound.
LEMMA SectionsBounded ==
    ASSUME TextHolds
    PROVE  \E N \in Nat : \A i \in DOMAIN text : \A w \in Range(text[i].words) :
               w[1] = "provision" => w[4] <= N
  <1> DEFINE X == AllWords(template)
             P(ws, N) == \A w \in Range(ws) : w[1] = "provision" => w[4] <= N
             G == {ws \in Seq(X) : \E N \in Nat : P(ws, N)}
             none == <<>>
  <1>1. template \in DOMAIN Templates
    BY DEF TextHolds
  <1>2. \A w \in X : w[1] = "provision" => w[4] \in Nat
    <2>1. \A w \in WordsGiven(template) : w[1] = "provision" => w[4] \in Nat
      BY <1>1, LineOrigins DEF WordsGiven
    <2>2. \A k \in {"heading"} \union TrailerFields : <<k>>[1] # "provision"
      BY DEF TrailerFields
    <2>3. <<"gap">>[1] # "provision" /\ <<"---">>[1] # "provision"
      OBVIOUS
    <2> QED  BY <2>1, <2>2, <2>3 DEF AllWords
  <1>3. none \in G
    <2>1. Range(none) = {} /\ none \in Seq(X)
      BY DEF Range
    <2> HIDE DEF none
    <2>2. P(none, 0)
      BY <2>1
    <2> QED  BY <2>1, <2>2
  <1>4. ASSUME NEW ws \in Seq(X), NEW w \in X, ws \in G
        PROVE  Append(ws, w) \in G
    <2>1. PICK N \in Nat : P(ws, N)
      BY <1>4
    <2>2. \A v \in Range(Append(ws, w)) : v \in Range(ws) \/ v = w
      <3> DEFINE u == Append(ws, w)
                 n == Len(ws)
      <3>1. /\ u \in Seq(X) /\ Len(u) = n + 1 /\ n \in Nat
            /\ \A i \in 1 .. n : u[i] = ws[i]
            /\ u[n + 1] = w
        BY AppendProperties, LenProperties
      <3>2. DOMAIN u = 1 .. n + 1 /\ DOMAIN ws = 1 .. n
        BY <3>1, LenProperties
      <3> HIDE DEF u, n
      <3>3. \A i \in 1 .. n + 1 : i \in 1 .. n \/ i = n + 1
        BY <3>1
      <3>4. \A v \in Range(u) : v \in Range(ws) \/ v = w
        BY <3>1, <3>2, <3>3 DEF Range
      <3> QED  BY <3>4 DEF u
    <2>3. PICK M \in Nat : w[1] = "provision" => w[4] <= M
      <3>1. CASE w[1] = "provision"
        BY <1>2, <3>1
      <3>2. CASE w[1] # "provision"
        BY <3>2
      <3> QED  BY <3>1, <3>2
    <2>4. N + M \in Nat /\ P(Append(ws, w), N + M)
      <3>1. ASSUME NEW v \in Range(Append(ws, w)), v[1] = "provision"
            PROVE  v[4] <= N + M
        <4>1. CASE v \in Range(ws)
          <5>1. v[4] <= N
            BY <2>1, <3>1, <4>1
          <5>2. v[4] \in Nat
            <6>1. v \in X
              BY <4>1, ElementOfSeq, LenProperties DEF Range
            <6> QED  BY <1>2, <3>1, <6>1
          <5> QED  BY <5>1, <5>2
        <4>2. CASE v = w
          <5>1. w[4] <= M /\ w[4] \in Nat
            BY <1>2, <2>3, <3>1, <4>2
          <5> QED  BY <4>2, <5>1
        <4> QED  BY <2>2, <3>1, <4>1, <4>2
      <3> QED  BY <3>1
    <2>5. Append(ws, w) \in Seq(X)
      BY AppendProperties
    <2> QED  BY <2>4, <2>5
  <1> HIDE DEF G, none
  <1>5. Seq(X) \subseteq G
    <2>1. none \in G /\ \A s \in Seq(X), x \in X : s \in G => Append(s, x) \in G
      BY <1>3, <1>4
    <2> HIDE DEF X
    <2> QED  BY <2>1, SeqInduction DEF none
  <1>6. text \in Seq(SegmentLines(template))
    <2>1. text \in Seq(TextLines(template))
      BY DEF TextHolds
    <2> QED  BY <2>1, SeqWider DEF SegmentLines
  <1>7. Words(text) \in Seq(X)
    BY <1>1, <1>6, ProvisionsOf
  <1>8. \E N \in Nat : P(Words(text), N)
    BY <1>5, <1>7 DEF G
  <1>9. \A i \in DOMAIN text : \A w \in Range(text[i].words) : w \in Range(Words(text))
    BY <1>1, <1>6, ProvisionsOf
  <1> QED  BY <1>8, <1>9

\* Every provision of the text is found, and every one found is of the text;
\* those of the holding, and they alone, are primary.
LEMMA FoundFacts ==
    ASSUME TextHolds
    PROVE  LET F == FoundIn(SplitDocument(text))
           IN  /\ \A w \in Provisions(WordsIn(NamndsOwn \union {"appendix"})) :
                     /\ w[3] \in Nat /\ w[4] \in Nat /\ (w[3] = 0 => w[4] = 0)
                     /\ \A n \in CanonicalRegulations(w) : [name |-> n, relevance |-> "MENTIONED"] \in F
               /\ \A w \in Provisions(WordsIn({"holding"})) :
                     \A n \in CanonicalRegulations(w) : [name |-> n, relevance |-> "PRIMARY"] \in F
               /\ \A e \in F :
                     /\ e = [name |-> e.name, relevance |-> e.relevance]
                     /\ e.name[1] \in {"regulation", "parish", "role", "concept"}
                     /\ e.name[1] = "regulation" =>
                           \E i \in DOMAIN text : \E w \in Range(text[i].words) :
                              /\ w[1] = "provision" /\ e.name \in CanonicalRegulations(w)
                              /\ w[3] \in Nat /\ w[4] \in Nat /\ (w[3] = 0 => w[4] = 0)
                     /\ e.name[1] = "regulation" /\ e.relevance = "PRIMARY" =>
                           \E w \in Provisions(WordsIn({"holding"})) :
                              /\ e.name \in CanonicalRegulations(w)
                              /\ w[3] \in Nat /\ w[4] \in Nat /\ (w[3] = 0 => w[4] = 0)
  <1> DEFINE seg == SplitDocument(text)
             R == SegmentLines(template)
             F == FoundIn(seg)
             Held == IF seg.holding = None THEN {} ELSE EntitiesIn(seg.holding, "PRIMARY")
             Sized(w) == w[3] \in Nat /\ w[4] \in Nat /\ (w[3] = 0 => w[4] = 0)
             Shape(e) == /\ e = [name |-> e.name, relevance |-> e.relevance]
                         /\ e.name[1] \in {"regulation", "parish", "role", "concept"}
  <1>1. template \in DOMAIN Templates /\ TextLines(template) \subseteq R
    BY DEF TextHolds, SegmentLines
  <1>2. seg.body \in Seq(R)
    <2>1. seg.body \in Seq(TextLines(template))
      BY BodyLines
    <2> HIDE DEF R, seg
    <2> QED  BY <1>1, <2>1, SeqWider
  <1>3. \A a \in Range(seg.appendices) : a \in Seq(TextLines(template)) /\ a \in Seq(R)
    <2> TAKE a \in Range(seg.appendices)
    <2>1. a \in Seq(TextLines(template))
      BY AppendicesAre, ElementOfSeq, LenProperties DEF Range
    <2> HIDE DEF R
    <2> QED  BY <1>1, <2>1, SeqWider
  <1>4. seg.holding # None => seg.holding \in Seq(R)
    BY HoldingHolds
  <1>5. F = Held \union EntitiesIn(seg.body, "MENTIONED")
              \union UNION {EntitiesIn(a, "MENTIONED") : a \in Range(seg.appendices)}
    BY DEF FoundIn
  <1>6. \A k \in DOMAIN seg.body : \E i \in DOMAIN text : seg.body[k] = text[i]
    BY BodyLines
  <1>7. \A a \in Range(seg.appendices) : \A k \in DOMAIN a : \E i \in DOMAIN text : a[k] = text[i]
    <2> TAKE a \in Range(seg.appendices)
    <2>1. PICK k \in 1 .. Len(seg.appendices) : a = seg.appendices[k]
      BY AppendicesAre, LenProperties DEF Range
    <2>2. PICK lo \in Nat, hi \in Nat : /\ 1 <= lo /\ lo <= hi + 1 /\ hi <= Len(text)
                                        /\ a = SubSeq(text, lo, hi)
      BY <2>1, AppendicesAre
    <2>3. text \in Seq(TextLines(template)) /\ DOMAIN text = 1 .. Len(text) /\ Len(text) \in Nat
      BY TextIsLines DEF TextHolds
    <2>4. /\ DOMAIN a = 1 .. hi - lo + 1
          /\ \A q \in 1 .. hi - lo + 1 : a[q] = text[lo + q - 1] /\ lo + q - 1 \in lo .. hi
      BY <2>2, <2>3, CutFacts
    <2>5. \A j \in lo .. hi : j \in DOMAIN text
      BY <2>2, <2>3
    <2> QED  BY <2>4, <2>5
  <1> HIDE DEF seg, R
  <1>8. ASSUME NEW w \in Provisions(WordsIn(NamndsOwn \union {"appendix"}))
        PROVE  /\ Sized(w)
               /\ \A n \in CanonicalRegulations(w) : [name |-> n, relevance |-> "MENTIONED"] \in F
    <2>1. PICK i \in DOMAIN text : w \in Range(text[i].words) /\ w[1] = "provision"
      BY DEF Provisions, WordsIn, LinesIn
    <2>2. Sized(w)
      BY <1>1, <2>1, LineOrigins, TextIsLines
    <2>3. \/ \E k \in DOMAIN seg.body : seg.body[k] = text[i]
          \/ \E a \in Range(seg.appendices) : \E k \in DOMAIN a : a[k] = text[i]
      BY <2>1, ProvisionLines DEF seg
    <2>4. ASSUME NEW n \in CanonicalRegulations(w)
          PROVE  [name |-> n, relevance |-> "MENTIONED"] \in F
      <3>1. CASE \E k \in DOMAIN seg.body : seg.body[k] = text[i]
        <4>1. PICK k \in DOMAIN seg.body : seg.body[k] = text[i]
          BY <3>1
        <4>2. [name |-> n, relevance |-> "MENTIONED"] \in EntitiesIn(seg.body, "MENTIONED")
          BY <1>1, <1>2, <2>1, <4>1, EntitiesFound DEF R
        <4> QED  BY <1>5, <4>2
      <3>2. CASE \E a \in Range(seg.appendices) : \E k \in DOMAIN a : a[k] = text[i]
        <4>1. PICK a \in Range(seg.appendices) : \E k \in DOMAIN a : a[k] = text[i]
          BY <3>2
        <4>2. PICK k \in DOMAIN a : a[k] = text[i]
          BY <4>1
        <4>3. [name |-> n, relevance |-> "MENTIONED"] \in EntitiesIn(a, "MENTIONED")
          BY <1>1, <1>3, <2>1, <4>2, EntitiesFound DEF R
        <4> QED  BY <1>5, <4>3
      <3> QED  BY <2>3, <3>1, <3>2
    <2> QED  BY <2>2, <2>4
  <1>9. ASSUME NEW w \in Provisions(WordsIn({"holding"})), NEW n \in CanonicalRegulations(w)
        PROVE  [name |-> n, relevance |-> "PRIMARY"] \in F
    <2>1. PICK i \in DOMAIN text :
                  text[i].part = "holding" /\ w \in Range(text[i].words) /\ w[1] = "provision"
      BY DEF Provisions, WordsIn, LinesIn
    <2>2. text[i].words # <<>>
      <3>1. text[i].words = <<>> => Range(text[i].words) = {}
        BY DEF Range
      <3> QED  BY <2>1, <3>1
    <2>3. seg.holding # None /\ \E k \in DOMAIN seg.holding : seg.holding[k].words = text[i].words
      BY <2>1, <2>2, HoldingHolds DEF seg
    <2>4. PICK k \in DOMAIN seg.holding : seg.holding[k].words = text[i].words
      BY <2>3
    <2>5. [name |-> n, relevance |-> "PRIMARY"] \in EntitiesIn(seg.holding, "PRIMARY")
      BY <1>1, <1>4, <2>1, <2>3, <2>4, EntitiesFound DEF R
    <2> QED  BY <1>5, <2>3, <2>5
  <1> DEFINE Named(e) == e.name[1] = "regulation" =>
                           \E i \in DOMAIN text : \E w \in Range(text[i].words) :
                              w[1] = "provision" /\ e.name \in CanonicalRegulations(w) /\ Sized(w)
             Primary(e) == e.name[1] = "regulation" /\ e.relevance = "PRIMARY" =>
                           \E w \in Provisions(WordsIn({"holding"})) :
                              e.name \in CanonicalRegulations(w) /\ Sized(w)
  <1>10. ASSUME NEW lines \in Seq(R), \A k \in DOMAIN lines : \E i \in DOMAIN text : lines[k].words = text[i].words,
                NEW r, NEW e \in EntitiesIn(lines, r)
         PROVE  Shape(e) /\ e.relevance = r /\ Named(e)
    <2>1. /\ e = [name |-> e.name, relevance |-> r] /\ e.relevance = r
          /\ e.name[1] \in {"regulation", "parish", "role", "concept"}
          /\ e.name[1] = "regulation" =>
                 \E k \in DOMAIN lines : \E w \in Range(lines[k].words) :
                    w[1] = "provision" /\ e.name \in CanonicalRegulations(w) /\ Sized(w)
      BY <1>1, EntitiesFound DEF R
    <2>2. Shape(e)
      BY <2>1
    <2>3. Named(e)
      <3> SUFFICES ASSUME e.name[1] = "regulation"
                   PROVE  \E i \in DOMAIN text : \E w \in Range(text[i].words) :
                              w[1] = "provision" /\ e.name \in CanonicalRegulations(w) /\ Sized(w)
        OBVIOUS
      <3>1. PICK k \in DOMAIN lines : \E w \in Range(lines[k].words) :
                    w[1] = "provision" /\ e.name \in CanonicalRegulations(w) /\ Sized(w)
        BY <2>1
      <3>2. PICK i \in DOMAIN text : lines[k].words = text[i].words
        BY <1>10
      <3> QED  BY <3>1, <3>2
    <2> QED  BY <2>1, <2>2, <2>3
  <1>11. ASSUME NEW e \in F
         PROVE  Shape(e) /\ Named(e) /\ Primary(e)
    <2>1. CASE e \in EntitiesIn(seg.body, "MENTIONED")
      <3>1. Shape(e) /\ e.relevance = "MENTIONED" /\ Named(e)
        <4>1. \A k \in DOMAIN seg.body : \E i \in DOMAIN text : seg.body[k].words = text[i].words
          BY <1>6
        <4> HIDE DEF Shape, Named
        <4> QED  BY <1>2, <1>10, <2>1, <4>1
      <3> QED  BY <3>1
    <2>2. CASE \E a \in Range(seg.appendices) : e \in EntitiesIn(a, "MENTIONED")
      <3>1. PICK a \in Range(seg.appendices) : e \in EntitiesIn(a, "MENTIONED")
        BY <2>2
      <3>2. Shape(e) /\ e.relevance = "MENTIONED" /\ Named(e)
        <4>1. \A k \in DOMAIN a : \E i \in DOMAIN text : a[k].words = text[i].words
          BY <1>7
        <4> HIDE DEF Shape, Named
        <4> QED  BY <1>3, <1>10, <3>1, <4>1
      <3> QED  BY <3>2
    <2>3. CASE seg.holding # None /\ e \in EntitiesIn(seg.holding, "PRIMARY")
      <3>1. \A k \in DOMAIN seg.holding : \E i \in DOMAIN text :
               /\ seg.holding[k].words = text[i].words
               /\ text[i].part = "holding" \/ NamesNoProvision(text[i])
        BY <2>3, HoldingHolds DEF seg
      <3>2. Shape(e) /\ Named(e)
        <4>1. \A k \in DOMAIN seg.holding : \E i \in DOMAIN text : seg.holding[k].words = text[i].words
          BY <3>1
        <4> HIDE DEF Shape, Named
        <4> QED  BY <1>4, <1>10, <2>3, <4>1
      <3>3. ASSUME e.name[1] = "regulation"
            PROVE  \E w \in Provisions(WordsIn({"holding"})) : e.name \in CanonicalRegulations(w) /\ Sized(w)
        <4>1. PICK k \in DOMAIN seg.holding : \E w \in Range(seg.holding[k].words) :
                      w[1] = "provision" /\ e.name \in CanonicalRegulations(w) /\ Sized(w)
          <5>1. seg.holding \in Seq(R)
            BY <1>4, <2>3
          <5> QED  BY <1>1, <2>3, <3>3, <5>1, EntitiesFound DEF R
        <4>2. PICK w \in Range(seg.holding[k].words) :
                      w[1] = "provision" /\ e.name \in CanonicalRegulations(w) /\ Sized(w)
          BY <4>1
        <4>3. PICK i \in DOMAIN text : /\ seg.holding[k].words = text[i].words
                                       /\ text[i].part = "holding" \/ NamesNoProvision(text[i])
          BY <3>1
        <4>4. text[i].part = "holding"
          BY <4>2, <4>3 DEF NamesNoProvision
        <4>5. w \in Provisions(WordsIn({"holding"}))
          BY <4>2, <4>3, <4>4 DEF Provisions, WordsIn, LinesIn
        <4> QED  BY <4>2, <4>5
      <3> QED  BY <3>2, <3>3
    <2>4. \/ e \in EntitiesIn(seg.body, "MENTIONED")
          \/ \E a \in Range(seg.appendices) : e \in EntitiesIn(a, "MENTIONED")
          \/ seg.holding # None /\ e \in EntitiesIn(seg.holding, "PRIMARY")
      BY <1>5, <1>11
    <2> HIDE DEF Shape, Named, Primary
    <2> QED  BY <2>1, <2>2, <2>3, <2>4
  <1> QED  BY <1>8, <1>9, <1>11 DEF seg

(***************************************************************************)
(* What is found stays found.                                              *)
(***************************************************************************)
\* One entity stays for each name, and it is primary where one of them was.
LEMMA DeduplicatedIs ==
    ASSUME NEW S
    PROVE  /\ DeduplicateEntities(S) \subseteq S
           /\ \A e \in S : e.relevance = "PRIMARY" => e \in DeduplicateEntities(S)
           /\ \A e \in S : \E d \in DeduplicateEntities(S) : d.name = e.name
  <1>1. ASSUME NEW e \in S
        PROVE  \E d \in DeduplicateEntities(S) : d.name = e.name
    <2>1. CASE \E o \in S : o.name = e.name /\ o.relevance = "PRIMARY"
      BY <2>1 DEF DeduplicateEntities
    <2>2. CASE ~\E o \in S : o.name = e.name /\ o.relevance = "PRIMARY"
      BY <2>2 DEF DeduplicateEntities
    <2> QED  BY <2>1, <2>2
  <1> QED  BY <1>1 DEF DeduplicateEntities

\* A provision has its entities among names: its chapter, or each section of it,
\* on its own if the range is short.
Names(w, S) ==
    IF w[3] = 0 THEN \E e \in S : e.name[1] = "regulation" /\ e.name[2] = w[2]
    ELSE \A s \in w[3] .. w[4] :
            \E e \in S : /\ e.name[1] = "regulation" /\ e.name[2] = w[2]
                         /\ e.name[3] <= s /\ s <= e.name[4]
                         /\ w[4] - w[3] < MaxExpandedSections => e.name[3] = e.name[4]

\* Its sections are all primary, if the range is short.
Confers(w, S) ==
    w[3] > 0 /\ w[4] - w[3] < MaxExpandedSections =>
        \A s \in w[3] .. w[4] :
            [name |-> Regulation(w[2], s, s), relevance |-> "PRIMARY"] \in S

\* What stays in spite of other entities, as far as names and relevance go.
LEMMA NamesStay ==
    ASSUME NEW S, NEW T, \A e \in S : e.name[1] = "regulation" => \E d \in T : d.name = e.name,
           \A e \in S : e.name[1] = "regulation" /\ e.relevance = "PRIMARY" => e \in T, NEW w
    PROVE  (Names(w, S) => Names(w, T)) /\ (Confers(w, S) => Confers(w, T))
  <1>1. ASSUME Names(w, S)
        PROVE  Names(w, T)
    <2>1. CASE w[3] = 0
      BY <1>1, <2>1 DEF Names
    <2>2. CASE w[3] # 0
      <3>1. ASSUME NEW s \in w[3] .. w[4]
            PROVE  \E e \in T : /\ e.name[1] = "regulation" /\ e.name[2] = w[2]
                                /\ e.name[3] <= s /\ s <= e.name[4]
                                /\ w[4] - w[3] < MaxExpandedSections => e.name[3] = e.name[4]
        <4>1. PICK e \in S : /\ e.name[1] = "regulation" /\ e.name[2] = w[2]
                             /\ e.name[3] <= s /\ s <= e.name[4]
                             /\ w[4] - w[3] < MaxExpandedSections => e.name[3] = e.name[4]
          BY <1>1, <2>2, <3>1 DEF Names
        <4>2. PICK d \in T : d.name = e.name
          BY <4>1
        <4> QED  BY <4>1, <4>2
      <3> QED  BY <2>2, <3>1 DEF Names
    <2> QED  BY <2>1, <2>2
  <1>2. ASSUME Confers(w, S)
        PROVE  Confers(w, T)
    <2>1. ASSUME NEW s
          PROVE  LET e == [name |-> Regulation(w[2], s, s), relevance |-> "PRIMARY"]
                 IN  e.name[1] = "regulation" /\ e.relevance = "PRIMARY"
      BY DEF Regulation
    <2>2. ASSUME NEW s, [name |-> Regulation(w[2], s, s), relevance |-> "PRIMARY"] \in S
          PROVE  [name |-> Regulation(w[2], s, s), relevance |-> "PRIMARY"] \in T
      BY <2>1, <2>2
    <2> QED  BY <1>2, <2>2 DEF Confers
  <1> QED  BY <1>1, <1>2

\* The rules name every provision of the text, and confer what the holding does.
LEMMA RulesName ==
    ASSUME TextHolds
    PROVE  LET E == ExtractEntities(SplitDocument(text))
           IN  /\ E \subseteq FoundIn(SplitDocument(text))
               /\ \A w \in Provisions(WordsIn(NamndsOwn \union {"appendix"})) : Names(w, E)
               /\ \A w \in Provisions(WordsIn({"holding"})) : Confers(w, E)
  <1> DEFINE F == FoundIn(SplitDocument(text))
             D == DeduplicateEntities(F)
             E == ExtractEntities(SplitDocument(text))
             names == {e.name : e \in D}
  <1>1. E = {e \in D : ~IsSubsumed(e.name, names)}
    BY DEF ExtractEntities, FoundIn, DropSubsumed
  <1>2. /\ D \subseteq F
        /\ \A e \in F : e.relevance = "PRIMARY" => e \in D
        /\ \A e \in F : \E d \in D : d.name = e.name
    BY DeduplicatedIs
  <1>3. /\ \A w \in Provisions(WordsIn(NamndsOwn \union {"appendix"})) :
              /\ w[3] \in Nat /\ w[4] \in Nat /\ (w[3] = 0 => w[4] = 0)
              /\ \A n \in CanonicalRegulations(w) : [name |-> n, relevance |-> "MENTIONED"] \in F
        /\ \A w \in Provisions(WordsIn({"holding"})) :
              \A n \in CanonicalRegulations(w) : [name |-> n, relevance |-> "PRIMARY"] \in F
        /\ \A e \in F : e.name[1] = "regulation" =>
              \E i \in DOMAIN text : \E w \in Range(text[i].words) :
                 /\ w[1] = "provision" /\ e.name \in CanonicalRegulations(w)
                 /\ w[3] \in Nat /\ w[4] \in Nat /\ (w[3] = 0 => w[4] = 0)
    <2> HIDE DEF F
    <2> QED  BY FoundFacts DEF F
  <1>4. PICK N \in Nat : \A i \in DOMAIN text : \A w \in Range(text[i].words) :
                            w[1] = "provision" => w[4] <= N
    BY SectionsBounded
  <1> HIDE DEF F, D, E
  <1>5. AreNames(names, N)
    <2>1. ASSUME NEW n \in names, n[1] = "regulation"
          PROVE  /\ n = Regulation(n[2], n[3], n[4])
                 /\ n[3] \in Nat /\ n[4] \in Nat /\ n[4] <= N /\ (n[3] = 0 => n[4] = 0)
      <3>1. PICK e \in F : e.name = n
        BY <1>2
      <3>2. PICK i \in DOMAIN text : \E w \in Range(text[i].words) :
                 /\ w[1] = "provision" /\ n \in CanonicalRegulations(w)
                 /\ w[3] \in Nat /\ w[4] \in Nat /\ (w[3] = 0 => w[4] = 0)
        BY <1>3, <2>1, <3>1
      <3>3. PICK w \in Range(text[i].words) :
                 /\ w[1] = "provision" /\ n \in CanonicalRegulations(w)
                 /\ w[3] \in Nat /\ w[4] \in Nat /\ (w[3] = 0 => w[4] = 0)
        BY <3>2
      <3>4. /\ n[3] \in Nat /\ n[4] \in Nat /\ n = Regulation(n[2], n[3], n[4])
            /\ n[4] <= w[4] /\ (n[3] = 0 => n[4] = 0)
        BY <3>3, RegulationsOf
      <3>5. w[4] <= N
        BY <1>4, <3>3
      <3> QED  BY <3>3, <3>4, <3>5
    <2> QED  BY <2>1 DEF AreNames
  <1>6. ASSUME NEW n \in names, n[1] = "regulation"
        PROVE  \E d \in E : /\ d.name[1] = "regulation" /\ d.name[2] = n[2]
                            /\ n[3] > 0 => d.name[3] <= n[3] /\ n[4] <= d.name[4]
                            /\ n[3] > 0 /\ n[4] <= n[3] => d.name = n
    <2>1. PICK m \in names :
               /\ ~IsSubsumed(m, names) /\ m[1] = "regulation" /\ m[2] = n[2]
               /\ n[3] > 0 => m[3] <= n[3] /\ n[4] <= m[4]
               /\ n[3] > 0 /\ n[4] <= n[3] => m = n
      <3> HIDE DEF names
      <3> QED  BY <1>5, <1>6, NamesSurvive
    <2>2. PICK d \in D : d.name = m
      OBVIOUS
    <2>3. d \in E
      BY <1>1, <2>1, <2>2
    <2> QED  BY <2>1, <2>2, <2>3
  <1>7. ASSUME NEW n, \E e \in F : e.name = n
        PROVE  n \in names
    BY <1>2, <1>7
  <1>8. ASSUME NEW w \in Provisions(WordsIn(NamndsOwn \union {"appendix"}))
        PROVE  Names(w, E)
    <2>1. w[3] \in Nat /\ w[4] \in Nat /\ (w[3] = 0 => w[4] = 0)
      BY <1>3
    <2>2. \A n \in CanonicalRegulations(w) : n \in names
      <3> TAKE n \in CanonicalRegulations(w)
      <3>1. [name |-> n, relevance |-> "MENTIONED"] \in F
        BY <1>3
      <3>2. [name |-> n, relevance |-> "MENTIONED"].name = n
        OBVIOUS
      <3> QED  BY <1>7, <3>1, <3>2
    <2>3. CASE w[3] = 0
      <3> DEFINE n == Regulation(w[2], 0, 0)
      <3>1. n \in names
        BY <2>1, <2>2, <2>3, RegulationsOf
      <3>2. n[1] = "regulation" /\ n[2] = w[2]
        BY DEF Regulation
      <3> HIDE DEF n, names
      <3>3. PICK d \in E : d.name[1] = "regulation" /\ d.name[2] = n[2]
        BY <1>6, <3>1, <3>2
      <3> QED  BY <2>3, <3>2, <3>3 DEF Names
    <2>4. CASE w[3] # 0
      <3>1. ASSUME NEW s \in w[3] .. w[4]
            PROVE  \E e \in E : /\ e.name[1] = "regulation" /\ e.name[2] = w[2]
                                /\ e.name[3] <= s /\ s <= e.name[4]
                                /\ w[4] - w[3] < MaxExpandedSections => e.name[3] = e.name[4]
        <4>1. PICK n \in CanonicalRegulations(w) :
                    /\ n[3] <= s /\ s <= n[4] /\ 0 < n[3]
                    /\ w[4] - w[3] < MaxExpandedSections => n = Regulation(w[2], s, s)
          <5>1. w[3] > 0
            BY <2>1, <2>4
          <5> QED  BY <2>1, <3>1, <5>1, RegulationsOf
        <4>2. n[1] = "regulation" /\ n[2] = w[2] /\ n[3] \in Nat /\ n[4] \in Nat
          BY <2>1, <4>1, RegulationsOf
        <4>3. n \in names
          BY <2>2
        <4> HIDE DEF names
        <4>4. PICK d \in E : /\ d.name[1] = "regulation" /\ d.name[2] = n[2]
                             /\ n[3] > 0 => d.name[3] <= n[3] /\ n[4] <= d.name[4]
                             /\ n[3] > 0 /\ n[4] <= n[3] => d.name = n
          BY <1>6, <4>2, <4>3
        <4>5. ASSUME w[4] - w[3] < MaxExpandedSections
              PROVE  d.name = n /\ n[3] = n[4]
          <5>1. n[3] = s /\ n[4] = s
            BY <4>1, <4>5 DEF Regulation
          <5> QED  BY <4>1, <4>2, <4>4, <5>1
        <4>6. d.name[3] <= s /\ s <= d.name[4]
          <5>1. PICK e \in F : e.name = d.name
            BY <1>1, <1>2
          <5>3. d.name \in names /\ d.name[1] = "regulation"
            BY <1>7, <4>4, <5>1
          <5>2. d.name[3] \in Nat /\ d.name[4] \in Nat
            BY <1>5, <5>3 DEF AreNames
          <5>4. s \in Nat /\ n[3] > 0
            BY <2>1, <3>1, <4>1, <4>2
          <5>5. d.name[3] <= n[3] /\ n[4] <= d.name[4]
            BY <4>4, <5>4
          <5> QED  BY <4>1, <4>2, <5>2, <5>4, <5>5
        <4> QED  BY <4>2, <4>4, <4>5, <4>6
      <3> HIDE DEF names
      <3> QED  BY <2>4, <3>1 DEF Names
    <2> QED  BY <2>3, <2>4
  <1>9. ASSUME NEW w \in Provisions(WordsIn({"holding"}))
        PROVE  Confers(w, E)
    <2>1. w[3] \in Nat /\ w[4] \in Nat /\ (w[3] = 0 => w[4] = 0)
      <3>1. w \in Provisions(WordsIn(NamndsOwn \union {"appendix"}))
        BY DEF Provisions, WordsIn, LinesIn, NamndsOwn
      <3> QED  BY <1>3, <3>1
    <2>2. ASSUME w[3] > 0, w[4] - w[3] < MaxExpandedSections, NEW s \in w[3] .. w[4]
          PROVE  [name |-> Regulation(w[2], s, s), relevance |-> "PRIMARY"] \in E
      <3> DEFINE n == Regulation(w[2], s, s)
                 e == [name |-> n, relevance |-> "PRIMARY"]
      <3>1. n \in CanonicalRegulations(w)
        BY <2>1, <2>2, RegulationsOf
      <3>2. n[1] = "regulation" /\ n[3] = s /\ n[4] = s
        BY DEF Regulation
      <3>3. e.name = n /\ e.relevance = "PRIMARY"
        OBVIOUS
      <3>4. e \in F
        BY <1>3, <3>1
      <3> HIDE DEF n, e
      <3>5. e \in D
        BY <1>2, <3>3, <3>4
      <3>6. ~IsSubsumed(n, names)
        <4>1. s \in Nat /\ s > 0
          BY <2>1, <2>2
        <4> QED  BY <3>2, <4>1 DEF IsSubsumed, IsRange
      <3> QED  BY <1>1, <3>3, <3>5, <3>6 DEF n, e
    <2> QED  BY <2>2 DEF Confers
  <1>10. E \subseteq F
    BY <1>1, <1>2
  <1> QED  BY <1>8, <1>9, <1>10 DEF E, F

(***************************************************************************)
(* The keywords.                                                           *)
(***************************************************************************)
\* The pieces between the stops of the subject line have its other words.
LEMMA PiecesHold ==
    ASSUME NEW X, NEW trailer, FieldValue(trailer, "subject") \in Seq(X),
           FieldValue(trailer, "subject") # None
    PROVE  UNION {Range(k) : k \in ParseKeywords(trailer)}
             = Range(FieldValue(trailer, "subject")) \ {<<".">>}
  <1> DEFINE value == FieldValue(trailer, "subject")
             N == Len(value)
             stop == <<".">>
             stops == {i \in DOMAIN value : value[i] = stop} \union {0, N + 1}
             next == [i \in stops |-> Min({j \in stops : j > i})]
             pieces == {SubSeq(value, i + 1, next[i] - 1) : i \in stops \ {N + 1}} \ {<<>>}
             words == UNION {Range(k) : k \in pieces}
  <1>1. ParseKeywords(trailer) = pieces
    <2>1. \A i \in stops : next[i] = Min({j \in stops : j > i})
      OBVIOUS
    <2> HIDE DEF next
    <2>2. {SubSeq(value, i + 1, next[i] - 1) : i \in stops \ {N + 1}}
            = {SubSeq(value, i + 1, Min({j \in stops : j > i}) - 1) : i \in stops \ {N + 1}}
      BY <2>1
    <2> QED  BY <2>2 DEF ParseKeywords
  <1>2. N \in Nat /\ DOMAIN value = 1 .. N /\ value \in Seq(X)
    BY LenProperties
  <1> HIDE DEF value, N, stop
  <1>3. \A i \in stops : i \in Nat /\ i <= N + 1
    BY <1>2
  <1>4. ASSUME NEW i \in stops \ {N + 1}
        PROVE  /\ next[i] \in stops /\ next[i] \in Nat /\ i < next[i] /\ i \in Nat /\ next[i] <= N + 1
               /\ \A j \in stops : i < j => next[i] <= j
               /\ LET k == SubSeq(value, i + 1, next[i] - 1)
                  IN  /\ DOMAIN k = 1 .. next[i] - 1 - i
                      /\ \A p \in 1 .. next[i] - 1 - i : k[p] = value[i + p] /\ i + p \in i + 1 .. next[i] - 1
    <2> DEFINE later == {j \in stops : j > i}
               b == next[i] - 1
               k == SubSeq(value, i + 1, b)
    <2>1. later \in SUBSET Nat /\ N + 1 \in later
      BY <1>2, <1>3
    <2>2. next[i] = Min(later)
      OBVIOUS
    <2> HIDE DEF next
    <2>3. next[i] \in later /\ \A j \in later : next[i] <= j
      <3> HIDE DEF later
      <3> QED  BY <2>1, <2>2, LeastExists
    <2>4. next[i] \in stops /\ next[i] \in Nat /\ i < next[i] /\ i \in Nat /\ next[i] <= N + 1
      BY <1>3, <2>3
    <2>5. \A j \in stops : i < j => next[i] <= j
      BY <1>3, <2>3, <2>4
    <2>6. i + 1 \in Nat /\ b \in Nat /\ 1 <= i + 1 /\ i + 1 <= b + 1 /\ b <= N /\ b - (i + 1) + 1 = next[i] - 1 - i
      BY <1>2, <2>4
    <2> HIDE DEF b, stops
    <2>7. /\ DOMAIN k = 1 .. b - (i + 1) + 1
          /\ \A p \in 1 .. b - (i + 1) + 1 : k[p] = value[i + 1 + p - 1] /\ i + 1 + p - 1 \in i + 1 .. b
      BY <1>2, <2>6, CutFacts DEF N
    <2>8. \A p \in Nat : i + 1 + p - 1 = i + p
      BY <2>4
    <2> HIDE DEF k
    <2>10. DOMAIN k = 1 .. next[i] - 1 - i
      BY <2>6, <2>7
    <2>9. \A p \in 1 .. next[i] - 1 - i : k[p] = value[i + p] /\ i + p \in i + 1 .. next[i] - 1
      <3> TAKE p \in 1 .. next[i] - 1 - i
      <3>1. p \in Nat
        BY <2>4
      <3> QED  BY <2>6, <2>7, <2>8, <3>1 DEF b
    <2> QED  BY <2>4, <2>5, <2>9, <2>10 DEF k, b
  <1> HIDE DEF next
  <1>5. ASSUME NEW v \in words
        PROVE  v \in Range(value) \ {stop}
    <2>1. PICK i \in stops \ {N + 1} : v \in Range(SubSeq(value, i + 1, next[i] - 1))
      BY <1>5
    <2>2. PICK p \in 1 .. next[i] - 1 - i : v = value[i + p] /\ i + p \in i + 1 .. next[i] - 1
      BY <1>4, <2>1 DEF Range
    <2>3. i + p \in 1 .. N /\ i < i + p /\ i + p < next[i]
      <3>1. i \in Nat /\ next[i] \in Nat /\ next[i] <= N + 1
        BY <1>4
      <3>2. \A j : j \in i + 1 .. next[i] - 1 => j \in 1 .. N /\ i < j /\ j < next[i]
        BY <1>2, <3>1
      <3> QED  BY <2>2, <3>2
    <2>4. i + p \notin stops
      <3>1. i + p \in stops => next[i] <= i + p
        BY <1>4, <2>3
      <3>2. i \in Nat /\ next[i] \in Nat
        BY <1>4
      <3> QED  BY <2>3, <3>1, <3>2
    <2>5. v # stop
      BY <1>2, <2>2, <2>3, <2>4
    <2>6. v \in Range(value)
      BY <1>2, <2>2, <2>3 DEF Range
    <2> QED  BY <2>5, <2>6
  <1>6. ASSUME NEW v \in Range(value) \ {stop}
        PROVE  v \in words
    <2>1. PICK j \in 1 .. N : v = value[j]
      BY <1>2, <1>6 DEF Range
    <2>2. j \in Nat /\ j # 0 /\ j # N + 1 /\ j \notin stops
      BY <1>2, <1>6, <2>1
    <2> DEFINE earlier == {m \in stops : m < j}
               i == Max(earlier)
    <2>3. earlier \in SUBSET Nat /\ 0 \in earlier /\ \A m \in earlier : m <= j
      BY <1>3, <2>2
    <2>4. i \in earlier /\ \A m \in earlier : m <= i
      <3> HIDE DEF earlier
      <3> QED  BY <2>2, <2>3, GreatestExists
    <2>5. i \in stops /\ i < j /\ i \in Nat /\ i # N + 1 /\ \A m \in stops : m < j => m <= i
      BY <1>2, <2>1, <2>3, <2>4
    <2> HIDE DEF i
    <2>6. i \in stops \ {N + 1}
      BY <2>5
    <2>7. /\ next[i] \in stops /\ next[i] \in Nat /\ i < next[i]
          /\ DOMAIN SubSeq(value, i + 1, next[i] - 1) = 1 .. next[i] - 1 - i
          /\ \A p \in 1 .. next[i] - 1 - i : SubSeq(value, i + 1, next[i] - 1)[p] = value[i + p]
      BY <1>4, <2>6
    <2>8. j < next[i]
      <3>1. ~(next[i] < j)
        BY <2>5, <2>7
      <3>2. next[i] # j
        BY <2>2, <2>7
      <3> QED  BY <2>2, <2>7, <3>1, <3>2
    <2> DEFINE k == SubSeq(value, i + 1, next[i] - 1)
    <2>9. j - i \in 1 .. next[i] - 1 - i /\ i + (j - i) = j
      BY <2>2, <2>5, <2>7, <2>8
    <2>10. v \in Range(k)
      <3>1. j - i \in DOMAIN k /\ k[j - i] = v
        BY <2>1, <2>7, <2>9
      <3> HIDE DEF k
      <3> QED  BY <3>1 DEF Range
    <2>11. k # <<>>
      <3>1. Range(<<>>) = {}
        BY DEF Range
      <3> HIDE DEF k
      <3> QED  BY <2>10, <3>1
    <2>12. k \in pieces
      BY <2>6, <2>11
    <2> HIDE DEF k, pieces
    <2> QED  BY <2>10, <2>12
  <1>7. words = Range(value) \ {stop}
    BY <1>5, <1>6
  <1> QED  BY <1>1, <1>7 DEF value, stop

\* A text has one subject line, which the trailer opens with or comes after, and
\* what is wrapped under it follows it at once.
LEMMA SubjectIs ==
    ASSUME TextHolds, NEW i \in DOMAIN text, text[i].part = "trailer", text[i].kind = "subject"
    PROVE  /\ FindTrailerStart(text) <= i
           /\ \A j \in DOMAIN text :
                 text[j].part = "trailer" /\ text[j].kind = "subject" => j = i
           /\ \A j \in DOMAIN text :
                 /\ text[j].part = "trailer" /\ text[j].kind = "prose" /\ text[j - 1].kind = "subject"
                 => j = i + 1
  <1>1. Len(text) \in Nat /\ DOMAIN text = 1 .. Len(text) /\ i \in Nat
    BY TextIsLines
  <1>2. FindTrailerStart(text) <= i
    <2>1. FindTrailerStart(text) \in Nat /\ (i < FindTrailerStart(text) => text[i].kind # "subject")
      BY <1>1, Cuts
    <2> QED  BY <1>1, <2>1
  <1>3. ASSUME NEW j \in DOMAIN text, text[j].part = "trailer", text[j].kind = "subject"
        PROVE  j = i
    BY <1>3 DEF TextHolds, FieldsOnce
  <1>4. ASSUME NEW j \in DOMAIN text, text[j].part = "trailer", text[j].kind = "prose",
               text[j - 1].kind = "subject"
        PROVE  j = i + 1
    <2>1. j > 1
      BY <1>4 DEF TextHolds, ProseFollowsSubject
    <2>2. j \in Nat /\ j - 1 \in DOMAIN text /\ j - 1 < j
      BY <1>1, <2>1
    <2>3. text[j - 1] \in TextLines(template) /\ template \in DOMAIN Templates
      BY <2>2, TextIsLines DEF TextHolds
    <2>4. text[j - 1].part \in {"trailer", "appendix"}
      BY <1>4, <2>3, LineFacts DEF ProseKinds
    <2>5. text[j - 1].part # "appendix"
      <3>1. text[j - 1].part # "page" /\ text[j].part # "page" =>
                Rank(text[j - 1]) <= Rank(text[j])
        BY <2>2 DEF TextHolds, PartsInOrder
      <3>2. text[j - 1].part = "appendix" => Rank(text[j - 1]) = 5
        BY DEF Rank
      <3>3. Rank(text[j]) = 4
        BY <1>4 DEF Rank
      <3> QED  BY <1>4, <2>4, <3>1, <3>2, <3>3
    <2>6. j - 1 = i
      BY <1>3, <1>4, <2>2, <2>4, <2>5
    <2> QED  BY <1>1, <2>2, <2>6
  <1> QED  BY <1>2, <1>3, <1>4

\* The words a keyword has are those the subject line declares.
LEMMA KeywordsAreDeclared ==
    ASSUME TextHolds
    PROVE  UNION {Range(k) : k \in ParseKeywords(SplitDocument(text).trailer)} = DeclaredWords
  <1> DEFINE trailer == SplitDocument(text).trailer
             value == FieldValue(trailer, "subject")
             N == Len(text)
             X == WordsGiven(template)
             at == {i \in DOMAIN text : text[i].part = "trailer" /\ text[i].kind = "subject"}
             wrapped == {i \in DOMAIN text : /\ text[i].part = "trailer"
                                             /\ text[i].kind = "prose"
                                             /\ text[i - 1].kind = "subject"}
             stop == <<".">>
             all == UNION {Range(text[i].words) : i \in at \union wrapped}
             pieces == UNION {Range(k) : k \in ParseKeywords(trailer)}
  <1>1. DeclaredWords = all \ {stop}
    BY DEF DeclaredWords
  <1>2. N \in Nat /\ DOMAIN text = 1 .. N /\ template \in DOMAIN Templates
    BY TextIsLines DEF TextHolds
  <1>3. \A i \in DOMAIN text : text[i].words \in Seq(X)
    <2> TAKE i \in DOMAIN text
    <2>1. text[i] \in TextLines(template)
      BY TextIsLines
    <2> QED  BY <1>2, <2>1, WordsAreGiven
  <1>4. None \notin Seq(X)
    BY <1>2, NoneAssumption DEF WordsGiven, TextLines
  <1> HIDE DEF X, stop
  <1>5. CASE at = {}
    <2>1. wrapped = {}
      <3>1. ASSUME NEW i \in wrapped
            PROVE  FALSE
        <4>1. PICK j \in 1 .. i - 1 : text[j].part = "trailer" /\ text[j].kind = "subject"
          BY DEF TextHolds, ProseFollowsSubject
        <4>2. j \in DOMAIN text
          BY <1>2, <4>1
        <4> QED  BY <1>5, <4>1, <4>2
      <3> QED  BY <3>1
    <2>2. value = None
      <3>1. \A i \in DOMAIN text : text[i].part = "trailer" => text[i].kind # "subject"
        BY <1>5
      <3>2. "subject" \in TrailerFields
        BY DEF TrailerFields
      <3> QED  BY <3>1, <3>2, FieldIsNone
    <2>3. ParseKeywords(trailer) = {}
      BY <2>2 DEF ParseKeywords
    <2> QED  BY <1>1, <1>5, <2>1, <2>3
  <1>6. CASE at # {}
    <2>1. PICK i \in DOMAIN text : text[i].part = "trailer" /\ text[i].kind = "subject"
      BY <1>6
    <2> DEFINE follows == /\ i + 1 \in DOMAIN text /\ text[i + 1].part = "trailer"
                          /\ text[i + 1].kind = "prose"
    <2>2. /\ FindTrailerStart(text) <= i
          /\ \A j \in DOMAIN text :
                text[j].part = "trailer" /\ text[j].kind = "subject" => j = i
          /\ \A j \in DOMAIN text :
                /\ text[j].part = "trailer" /\ text[j].kind = "prose" /\ text[j - 1].kind = "subject"
                => j = i + 1
      BY <2>1, SubjectIs
    <2>3. at = {i}
      BY <2>1, <2>2
    <2>4. i + 1 \in Nat /\ (i + 1) - 1 = i
      BY <1>2
    <2>5. \A j : j \in wrapped <=> j = i + 1 /\ follows
      BY <2>1, <2>2, <2>4
    <2>6. \/ value = text[i].words /\ ~follows
          \/ follows /\ value = text[i].words \o text[i + 1].words
      <3>1. text[i].kind \in TrailerFields
        BY <2>1 DEF TrailerFields
      <3> QED  BY <2>1, <2>2, <3>1, FieldReads
    <2> DEFINE u == text[i].words
               v == text[i + 1].words
    <2>7. value \in Seq(X) /\ Range(value) = all
      <3>1. CASE value = u /\ ~follows
        <4>1. at \union wrapped = {i}
          BY <2>3, <2>5, <3>1
        <4>2. all = Range(u)
          BY <4>1
        <4> QED  BY <1>3, <3>1, <4>2
      <3>2. CASE follows /\ value = u \o v
        <4>1. at \union wrapped = {i, i + 1}
          BY <2>3, <2>5, <3>2
        <4>2. all = Range(u) \union Range(v)
          BY <4>1
        <4>3. u \in Seq(X) /\ v \in Seq(X)
          BY <1>3, <3>2
        <4> HIDE DEF u, v
        <4>4. u \o v \in Seq(X) /\ Range(u \o v) = Range(u) \union Range(v)
          BY <4>3, ConcatProperties, RangeConcatenation
        <4> QED  BY <3>2, <4>2, <4>4
      <3> QED  BY <2>6, <3>1, <3>2
    <2>8. value # None
      BY <1>4, <2>7
    <2>9. pieces = Range(value) \ {stop}
      <3> HIDE DEF X
      <3> QED  BY <2>7, <2>8, PiecesHold DEF stop
    <2> HIDE DEF pieces, value, all
    <2> QED  BY <1>1, <2>7, <2>9 DEF pieces
  <1> QED  BY <1>5, <1>6

(***************************************************************************)
(* What is stored is grounded.                                             *)
(***************************************************************************)
\* Whatever the strategy, the keywords are those the subject line declares.
LEMMA KeywordsStored ==
    ASSUME NEW found, NEW trailer
    PROVE  LET stored == DeduplicateEntities(Inferred(found) \union DeclaredKeywords(trailer))
           IN  UNION {Range(k[2]) : k \in {e.name : e \in {e \in stored : e.name[1] = "keyword"}}}
                 = UNION {Range(k) : k \in ParseKeywords(trailer)}
  <1> DEFINE declared == DeclaredKeywords(trailer)
             all == Inferred(found) \union declared
             stored == DeduplicateEntities(all)
             names == {e.name : e \in {e \in stored : e.name[1] = "keyword"}}
             entity(k) == [name |-> <<"keyword", k>>, relevance |-> "PRIMARY"]
  <1>1. /\ stored \subseteq all
        /\ \A e \in all : e.relevance = "PRIMARY" => e \in stored
    BY DeduplicatedIs
  <1> HIDE DEF stored
  <1>2. ASSUME NEW k \in ParseKeywords(trailer)
        PROVE  <<"keyword", k>> \in names /\ <<"keyword", k>>[2] = k
    <2>1. entity(k) \in declared
      BY DEF DeclaredKeywords
    <2>2. entity(k).relevance = "PRIMARY" /\ entity(k).name = <<"keyword", k>>
          /\ entity(k).name[1] = "keyword"
      OBVIOUS
    <2>3. entity(k) \in stored
      BY <1>1, <2>1, <2>2
    <2> QED  BY <2>2, <2>3
  <1>3. ASSUME NEW n \in names
        PROVE  n[2] \in ParseKeywords(trailer)
    <2>1. PICK e \in stored : e.name[1] = "keyword" /\ e.name = n
      OBVIOUS
    <2>2. e \in declared
      BY <1>1, <2>1 DEF Inferred
    <2>3. PICK k \in ParseKeywords(trailer) : e = entity(k)
      BY <2>2 DEF DeclaredKeywords
    <2>4. n[2] = k
      BY <2>1, <2>3
    <2> QED  BY <2>4
  <1> HIDE DEF names
  <1>4. UNION {Range(n[2]) : n \in names} = UNION {Range(k) : k \in ParseKeywords(trailer)}
    BY <1>2, <1>3
  <1> QED  BY <1>4 DEF names, stored, all, declared

\* What the rules found stays among what is stored, unless the model alone was
\* asked; with the rules alone, no more regulations do.
LEMMA RulesStored ==
    ASSUME NEW segments, NEW finding, NEW strategy \in {"rules", "fallback"}
    PROVE  LET rules == ExtractEntities(segments)
               stored == DeduplicateEntities(
                             Inferred(Extracted(strategy, segments, finding).entities)
                                 \union DeclaredKeywords(segments.trailer))
           IN  /\ \A e \in rules : e.name[1] = "regulation" =>
                     /\ \E d \in stored : d.name = e.name
                     /\ e.relevance = "PRIMARY" => e \in stored
               /\ strategy = "rules" =>
                     \A e \in stored : e.name[1] = "regulation" => e \in rules
  <1> DEFINE rules == ExtractEntities(segments)
             ruled == ExtractRuleBased(segments)
             found == Extracted(strategy, segments, finding).entities
             declared == DeclaredKeywords(segments.trailer)
             all == Inferred(found) \union declared
             stored == DeduplicateEntities(all)
             merged == DeduplicateEntities(rules \union finding.entities)
  <1>1. ruled.entities = rules
    BY DEF ExtractRuleBased
  <1>2. /\ stored \subseteq all
        /\ \A e \in all : e.relevance = "PRIMARY" => e \in stored
        /\ \A e \in all : \E d \in stored : d.name = e.name
    BY DeduplicatedIs
  <1>3. /\ \A e \in rules \union finding.entities : e.relevance = "PRIMARY" => e \in merged
        /\ \A e \in rules \union finding.entities : \E d \in merged : d.name = e.name
    BY DeduplicatedIs
  <1>4. found = rules \/ (strategy = "fallback" /\ found = merged)
    <2>1. MergeResults(ruled, finding).entities = merged
      BY <1>1 DEF MergeResults
    <2> HIDE DEF rules, ruled, merged
    <2>2. CASE strategy = "rules"
      <3>1. Extracted(strategy, segments, finding) = ruled
        BY <2>2 DEF Extracted, ruled
      <3> QED  BY <1>1, <3>1
    <2>3. CASE strategy = "fallback"
      <3>1. \/ Extracted(strategy, segments, finding) = ruled
            \/ Extracted(strategy, segments, finding) = MergeResults(ruled, finding)
        BY <2>3 DEF Extracted, ruled
      <3> QED  BY <1>1, <2>1, <2>3, <3>1
    <2> QED  BY <2>2, <2>3
  <1> HIDE DEF rules, found, merged, stored
  <1>5. ASSUME NEW e \in rules, e.name[1] = "regulation"
        PROVE  /\ \E d \in stored : d.name = e.name
               /\ e.relevance = "PRIMARY" => e \in stored
    <2>1. \E d \in found : d.name = e.name
      BY <1>3, <1>4
    <2>2. e.relevance = "PRIMARY" => e \in found
      BY <1>3, <1>4
    <2>3. \A d \in found : d.name = e.name => d \in all
      BY <1>5 DEF Inferred
    <2> QED  BY <1>2, <2>1, <2>2, <2>3
  <1>6. ASSUME strategy = "rules", NEW e \in stored, e.name[1] = "regulation"
        PROVE  e \in rules
    <2>1. e \notin declared
      <3>1. ASSUME NEW k, e = [name |-> <<"keyword", k>>, relevance |-> "PRIMARY"]
            PROVE  FALSE
        BY <1>6, <3>1
      <3> QED  BY <3>1 DEF DeclaredKeywords
    <2>2. e \in found
      BY <1>2, <1>6, <2>1 DEF Inferred
    <2> QED  BY <1>4, <1>6, <2>2
  <1> QED  BY <1>5, <1>6 DEF rules, stored, found

\* What is stored is what the rules found, deduplicated, with the declared
\* keywords.
LEMMA EntitiesFollow == Inductive => EntitiesAreGrounded
  <1> DEFINE segments == SplitDocument(text)
             rules == ExtractEntities(segments)
             E == links.entities
             held == Provisions(WordsIn({"holding"}))
             all == Provisions(WordsIn(NamndsOwn \union {"appendix"}))
             keywords == {e.name : e \in {e \in E : e.name[1] = "keyword"}}
             regulations == {e.name : e \in {e \in E : e.name[1] = "regulation"}}
  <1> SUFFICES ASSUME Inductive, step \in {"extracted", "chunked"}
               PROVE  EntitiesAreGrounded
    BY DEF EntitiesAreGrounded
  <1>1. TextHolds
    BY DEF Inductive
  <1>2. PICK strategy \in Given.strategies, finding \in Given.findings :
             /\ E = DeduplicateEntities(Inferred(Extracted(strategy, segments, finding).entities)
                                            \union DeclaredKeywords(segments.trailer))
             /\ links.strategy = strategy
    <2>1. PICK strategy \in Given.strategies, finding \in Given.findings :
             LET found == Extracted(strategy, segments, finding)
             IN  links = [entities |-> DeduplicateEntities(Inferred(found.entities)
                                           \union DeclaredKeywords(segments.trailer)),
                          references |-> found.references \ OwnIdentifiers,
                          strategy |-> strategy]
      BY DEF Inductive, StepsRan
    <2> DEFINE found == Extracted(strategy, segments, finding)
    <2>2. /\ links.entities = DeduplicateEntities(Inferred(found.entities)
                                  \union DeclaredKeywords(segments.trailer))
          /\ links.strategy = strategy
      BY <2>1
    <2> QED  BY <2>2
  <1>3. strategy \in {"rules", "model", "fallback"}
    BY <1>1, MeetingAssumption DEF TextHolds, Given
  <1>4. UNION {Range(k[2]) : k \in keywords} = DeclaredWords
    BY <1>1, <1>2, KeywordsStored, KeywordsAreDeclared
  <1> HIDE DEF segments, E
  <1>5. strategy # "model" =>
            /\ \A e \in rules : e.name[1] = "regulation" =>
                  /\ \E d \in E : d.name = e.name
                  /\ e.relevance = "PRIMARY" => e \in E
            /\ strategy = "rules" => \A e \in E : e.name[1] = "regulation" => e \in rules
    BY <1>2, <1>3, RulesStored
  <1>6. /\ rules \subseteq FoundIn(segments)
        /\ \A w \in all : Names(w, rules)
        /\ \A w \in held : Confers(w, rules)
    BY <1>1, RulesName DEF segments
  <1> HIDE DEF rules, all, held
  <1>7. ASSUME strategy # "model"
        PROVE  (\A w \in all : Names(w, E)) /\ (\A w \in held : Confers(w, E))
    <2>1. /\ \A e \in rules : e.name[1] = "regulation" => \E d \in E : d.name = e.name
          /\ \A e \in rules : e.name[1] = "regulation" /\ e.relevance = "PRIMARY" => e \in E
      BY <1>5, <1>7
    <2>2. \A w : (Names(w, rules) => Names(w, E)) /\ (Confers(w, rules) => Confers(w, E))
      BY <2>1, NamesStay
    <2> QED  BY <1>6, <2>2
  <1>8. ASSUME strategy = "rules", NEW e \in E, e.name[1] = "regulation", e.relevance = "PRIMARY"
        PROVE  \E w \in held : w[2] = e.name[2] /\ w[3] <= e.name[3] /\ e.name[4] <= w[4]
    <2>1. e \in FoundIn(segments)
      BY <1>5, <1>6, <1>8
    <2>2. PICK w \in held : /\ e.name \in CanonicalRegulations(w)
                            /\ w[3] \in Nat /\ w[4] \in Nat /\ (w[3] = 0 => w[4] = 0)
      BY <1>1, <1>8, <2>1, FoundFacts DEF segments, held
    <2> QED  BY <2>2, RegulationsOf
  <1>9. ASSUME NEW w, Names(w, E)
        PROVE  IF w[3] = 0 THEN \E e \in regulations : e[2] = w[2]
               ELSE \A s \in w[3] .. w[4] :
                       \E e \in regulations :
                           /\ e[2] = w[2] /\ e[3] <= s /\ s <= e[4]
                           /\ w[4] - w[3] < MaxExpandedSections => e[3] = e[4]
    <2>1. CASE w[3] = 0
      <3>1. PICK e \in E : e.name[1] = "regulation" /\ e.name[2] = w[2]
        BY <1>9, <2>1 DEF Names
      <3>2. e.name \in regulations
        BY <3>1
      <3> HIDE DEF regulations
      <3> QED  BY <2>1, <3>1, <3>2
    <2>2. CASE w[3] # 0
      <3>1. ASSUME NEW s \in w[3] .. w[4]
            PROVE  \E e \in regulations :
                       /\ e[2] = w[2] /\ e[3] <= s /\ s <= e[4]
                       /\ w[4] - w[3] < MaxExpandedSections => e[3] = e[4]
        <4>1. PICK e \in E : /\ e.name[1] = "regulation" /\ e.name[2] = w[2]
                             /\ e.name[3] <= s /\ s <= e.name[4]
                             /\ w[4] - w[3] < MaxExpandedSections => e.name[3] = e.name[4]
          BY <1>9, <2>2, <3>1 DEF Names
        <4>2. e.name \in regulations
          BY <4>1
        <4> HIDE DEF regulations
        <4> QED  BY <4>1, <4>2
      <3> HIDE DEF regulations
      <3> QED  BY <2>2, <3>1
    <2> QED  BY <2>1, <2>2
  <1>10. strategy # "model" =>
             /\ \A w \in all :
                   IF w[3] = 0 THEN \E e \in regulations : e[2] = w[2]
                   ELSE \A s \in w[3] .. w[4] :
                           \E e \in regulations :
                               /\ e[2] = w[2] /\ e[3] <= s /\ s <= e[4]
                               /\ w[4] - w[3] < MaxExpandedSections => e[3] = e[4]
             /\ \A w \in held : w[3] > 0 /\ w[4] - w[3] < MaxExpandedSections =>
                   \A s \in w[3] .. w[4] :
                       [name |-> Regulation(w[2], s, s), relevance |-> "PRIMARY"] \in E
    <2> HIDE DEF regulations
    <2> QED  BY <1>7, <1>9 DEF Confers
  <1>11. strategy = "rules" =>
             \A e \in E : e.name[1] = "regulation" /\ e.relevance = "PRIMARY" =>
                 \E w \in held : w[2] = e.name[2] /\ w[3] <= e.name[3] /\ e.name[4] <= w[4]
    BY <1>8
  <1> HIDE DEF keywords, regulations
  <1> QED  BY ONLY <1>2, <1>4, <1>10, <1>11, Zenon
           DEF EntitiesAreGrounded, E, held, all, keywords, regulations

\* The keywords are those declared, every provision is among the regulations,
\* and what is primary is the holding's, in every state and for every text.
THEOREM EntitiesHold == Spec => []EntitiesAreGrounded
  <1>1. Inductive => EntitiesAreGrounded
    BY EntitiesFollow
  <1> QED  BY <1>1, InductiveHolds, PTL

(***************************************************************************)
(* The loops of the chunker.                                               *)
(***************************************************************************)
\* A loop computes one thing of each sequence, and goes one round further with
\* each element.
LEMMA LoopHasResult ==
    ASSUME NEW T, NEW S, NEW turn, NEW base, IsTurn(T, S, turn, base)
    PROVE  \E F \in [Seq(S) -> T] :
              /\ F[<<>>] = base
              /\ \A s \in Seq(S), x \in S : F[Append(s, x)] = turn[<<F[s], x>>]
              /\ \A s \in Seq(S) : \A f : Turns(T, f, base, turn, s) => f[Len(s)] = F[s]
  <1> DEFINE one == [s \in Seq(S) |-> CHOOSE f \in [0 .. Len(s) -> T] : Loops(f, base, turn, s)]
             F == [s \in Seq(S) |-> one[s][Len(s)]]
             none == <<>>
  <1>1. ASSUME NEW s \in Seq(S)
        PROVE  one[s] \in [0 .. Len(s) -> T] /\ Loops(one[s], base, turn, s)
    <2>1. \E f \in [0 .. Len(s) -> T] : Loops(f, base, turn, s)
      BY LoopExists DEF IsTurn
    <2> QED  BY <2>1
  <1> HIDE DEF one
  <1>2. F \in [Seq(S) -> T]
    <2>1. \A s \in Seq(S) : Len(s) \in 0 .. Len(s)
      BY LenProperties
    <2> QED  BY <1>1, <2>1
  <1>3. F[none] = base
    <2>1. none \in Seq(S) /\ Len(none) = 0
      BY EmptySeq
    <2> HIDE DEF none
    <2>2. F[none] = one[none][0]
      BY <2>1
    <2> QED  BY <1>1, <2>1, <2>2 DEF Loops
  <1>4. ASSUME NEW s \in Seq(S), NEW x \in S
        PROVE  F[Append(s, x)] = turn[<<F[s], x>>]
    <2>1. Append(s, x) \in Seq(S)
      BY AppendProperties
    <2>2. Loops(one[s], base, turn, s) /\ Loops(one[Append(s, x)], base, turn, Append(s, x))
      BY <1>1, <2>1
    <2>3. one[Append(s, x)][Len(Append(s, x))] = turn[<<one[s][Len(s)], x>>]
      BY <2>2, LoopAppends
    <2> QED  BY <2>1, <2>3
  <1>5. ASSUME NEW s \in Seq(S), NEW f, Turns(T, f, base, turn, s)
        PROVE  f[Len(s)] = F[s]
    <2> DEFINE g == one[s]
    <2>1. Loops(f, base, turn, s)
      BY <1>5, LoopIsTyped
    <2>2. Loops(g, base, turn, s)
      BY <1>1
    <2> HIDE DEF g
    <2> DEFINE N == {n \in Nat : n <= Len(s) => f[n] = g[n]}
    <2>3. 0 \in N
      BY <2>1, <2>2 DEF Loops
    <2>4. ASSUME NEW n \in Nat, n \in N
          PROVE  n + 1 \in N
      <3>1. Len(s) \in Nat
        BY LenProperties
      <3>2. n + 1 <= Len(s) => n + 1 \in 1 .. Len(s) /\ n <= Len(s) /\ (n + 1) - 1 = n
        BY <3>1
      <3>3. n + 1 <= Len(s) =>
                /\ f[n + 1] = turn[<<f[n], s[n + 1]>>] /\ g[n + 1] = turn[<<g[n], s[n + 1]>>]
                /\ f[n] = g[n]
        BY <2>1, <2>2, <2>4, <3>2 DEF Loops
      <3> QED  BY <3>3
    <2>5. Nat \subseteq N
      <3> HIDE DEF N
      <3> QED  BY <2>3, <2>4, SetInduction
    <2>6. f[Len(s)] = g[Len(s)]
      BY <2>5, LenProperties
    <2> QED  BY <2>6 DEF g
  <1> HIDE DEF F
  <1> QED  BY <1>2, <1>3, <1>4, <1>5 DEF none

\* Where words have a length, texts have the sum of it.
LEMMA SizeAppends ==
    ASSUME NEW X, \A w \in X : SizeOf(w) \in Nat
    PROVE  /\ Size(<<>>) = 0
           /\ \A s \in Seq(X) : Size(s) \in Nat
           /\ \A s \in Seq(X), w \in X : Size(Append(s, w)) = Size(s) + SizeOf(w)
  <1> DEFINE turn == [p \in Nat \X X |-> p[1] + SizeOf(p[2])]
  <1>1. turn \in [Nat \X X -> Nat] /\ \A n \in Nat, w \in X : turn[<<n, w>>] = n + SizeOf(w)
    OBVIOUS
  <1> HIDE DEF turn
  <1>2. IsTurn(Nat, X, turn, 0)
    BY <1>1 DEF IsTurn
  <1>3. PICK F \in [Seq(X) -> Nat] :
             /\ F[<<>>] = 0
             /\ \A s \in Seq(X), w \in X : F[Append(s, w)] = turn[<<F[s], w>>]
             /\ \A s \in Seq(X) : \A f : Turns(Nat, f, 0, turn, s) => f[Len(s)] = F[s]
    BY <1>2, LoopHasResult
  <1>4. ASSUME NEW s \in Seq(X)
        PROVE  Size(s) = F[s]
    <2> DEFINE L == Len(s)
               Goes(g) == g = [n \in 0 .. L |-> IF n = 0 THEN 0 ELSE g[n - 1] + SizeOf(s[n])]
               upTo == CHOOSE g : Goes(g)
    <2>1. Size(s) = upTo[L]
      BY DEF Size
    <2>2. L \in Nat /\ \A k \in 1 .. L : s[k] \in X
      BY LenProperties, ElementOfSeq
    <2>3. PICK f \in [0 .. L -> Nat] : Loops(f, 0, turn, s)
      BY <1>1, LoopExists
    <2>4. Goes(f)
      <3>1. ASSUME NEW n \in 0 .. L
            PROVE  f[n] = IF n = 0 THEN 0 ELSE f[n - 1] + SizeOf(s[n])
        <4>1. n # 0 => n \in 1 .. L /\ n - 1 \in 0 .. L
          BY <2>2
        <4>2. n # 0 => f[n] = turn[<<f[n - 1], s[n]>>] /\ f[n - 1] \in Nat
          BY <2>3, <4>1 DEF Loops
        <4> QED  BY <1>1, <2>2, <2>3, <4>1, <4>2 DEF Loops
      <3> QED  BY <3>1
    <2>5. Goes(upTo)
      BY <2>4
    <2> HIDE DEF upTo
    <2>6. Turns(Nat, upTo, 0, turn, s)
      <3>1. upTo[0] = 0
        BY <2>2, <2>5
      <3>2. ASSUME NEW k \in 1 .. L, upTo[k - 1] \in Nat
            PROVE  upTo[k] = turn[<<upTo[k - 1], s[k]>>]
        <4>1. k \in 0 .. L /\ k # 0
          BY <2>2
        <4>2. upTo[k] = upTo[k - 1] + SizeOf(s[k])
          BY <2>5, <4>1
        <4> QED  BY <1>1, <2>2, <3>2, <4>2
      <3> QED  BY <3>1, <3>2 DEF Turns
    <2> QED  BY <1>3, <2>1, <2>6
  <1>5. \A s \in Seq(X), w \in X : Append(s, w) \in Seq(X) /\ <<>> \in Seq(X)
    BY AppendProperties, EmptySeq
  <1>6. Size(<<>>) = 0
    <2>1. <<>> \in Seq(X)
      BY EmptySeq
    <2> QED  BY <1>3, <1>4, <2>1
  <1>7. \A s \in Seq(X) : Size(s) \in Nat
    BY <1>3, <1>4
  <1>8. \A s \in Seq(X), w \in X : Size(Append(s, w)) = Size(s) + SizeOf(w)
    <2> TAKE s \in Seq(X), w \in X
    <2>1. Size(Append(s, w)) = turn[<<F[s], w>>] /\ F[s] \in Nat
      BY <1>3, <1>4, <1>5
    <2> QED  BY <1>1, <1>4, <2>1
  <1> QED  BY <1>6, <1>7, <1>8

\* The length of two texts, one after the other, is the sum of theirs.
LEMMA SizeJoins ==
    ASSUME NEW X, \A w \in X : SizeOf(w) \in Nat, NEW a \in Seq(X), NEW b \in Seq(X)
    PROVE  Size(a \o b) = Size(a) + Size(b)
  <1> DEFINE G == {t \in Seq(X) : Size(a \o t) = Size(a) + Size(t)}
             none == <<>>
  <1>1. /\ Size(none) = 0
        /\ \A s \in Seq(X) : Size(s) \in Nat
        /\ \A s \in Seq(X), w \in X : Size(Append(s, w)) = Size(s) + SizeOf(w)
    BY SizeAppends
  <1>2. none \in G
    <2>1. a \o none = a /\ none \in Seq(X)
      BY ConcatEmptySeq, EmptySeq
    <2> HIDE DEF none
    <2>2. Size(a \o none) = Size(a) /\ Size(a) \in Nat
      BY <1>1, <2>1
    <2>3. Size(a \o none) = Size(a) + Size(none)
      BY <1>1, <2>2
    <2> QED  BY <2>1, <2>3
  <1>3. ASSUME NEW t \in Seq(X), NEW w \in X, t \in G
        PROVE  Append(t, w) \in G
    <2>1. a \o Append(t, w) = Append(a \o t, w) /\ a \o t \in Seq(X) /\ Append(t, w) \in Seq(X)
      BY ConcatAppends, ConcatProperties, AppendProperties
    <2>2. Size(a \o Append(t, w)) = Size(a \o t) + SizeOf(w) /\ Size(Append(t, w)) = Size(t) + SizeOf(w)
      BY <1>1, <2>1
    <2>3. Size(a \o t) = Size(a) + Size(t) /\ Size(a) \in Nat /\ Size(t) \in Nat /\ SizeOf(w) \in Nat
      BY <1>1, <1>3
    <2>4. Size(a \o Append(t, w)) = Size(a) + Size(Append(t, w))
      BY ONLY <2>2, <2>3
    <2> QED  BY <2>1, <2>4
  <1>4. Seq(X) \subseteq G
    <2> HIDE DEF G
    <2> QED  BY <1>2, <1>3, SeqInduction DEF none
  <1> QED  BY <1>4

\* What a scan has made of the words so far.
Scans(X) == [done : Seq(Seq(X)), open : Seq(X)]
NoScan == [done |-> <<>>, open |-> <<>>]

\* Closing a sentence, and one word more.
LEMMA ScanSteps ==
    ASSUME NEW X, NEW scan \in Scans(X)
    PROVE  /\ CloseSentence(scan) \in Scans(X) /\ NoScan \in Scans(X)
           /\ CloseSentence(CloseSentence(scan)) = CloseSentence(scan)
           /\ CloseSentence(NoScan) = NoScan
           /\ \A w \in X : TakeWord(scan, w) \in Scans(X)
  <1> DEFINE none == <<>>
  <1>1. scan.done \in Seq(Seq(X)) /\ scan.open \in Seq(X)
    BY DEF Scans
  <1>2. none \in Seq(X) /\ none \in Seq(Seq(X))
    BY EmptySeq
  <1>3. NoScan \in Scans(X) /\ NoScan.open = none
    BY <1>2 DEF NoScan, Scans
  <1>4. \A z \in Scans(X) :
            /\ CloseSentence(z) \in Scans(X)
            /\ CloseSentence(z) = z \/ CloseSentence(z).open = none
    <2> TAKE z \in Scans(X)
    <2>1. z.done \in Seq(Seq(X)) /\ z.open \in Seq(X)
      BY DEF Scans
    <2>2. Append(z.done, z.open) \in Seq(Seq(X))
      BY <2>1, AppendProperties
    <2> QED  BY <1>2, <2>2 DEF CloseSentence, Scans
  <1>5. \A z : z.open = none => CloseSentence(z) = z
    BY DEF CloseSentence
  <1>6. ASSUME NEW w \in X
        PROVE  TakeWord(scan, w) \in Scans(X)
    <2> DEFINE longer == [scan EXCEPT !.open = Append(@, w)]
    <2>1. Append(scan.open, w) \in Seq(X)
      BY <1>1, AppendProperties
    <2>2. longer \in Scans(X)
      BY <2>1 DEF Scans
    <2> HIDE DEF longer
    <2> QED  BY <1>4, <2>2 DEF TakeWord, longer
  <1> HIDE DEF none
  <1>7. CloseSentence(scan) \in Scans(X) /\ CloseSentence(CloseSentence(scan)) = CloseSentence(scan)
    BY <1>4, <1>5
  <1> QED  BY <1>3, <1>5, <1>6, <1>7

\* The sentences of a text, word by word.
LEMMA TakeWordsAppends ==
    ASSUME NEW X
    PROVE  /\ TakeWords(<<>>) = NoScan
           /\ \A s \in Seq(X) : TakeWords(s) \in Scans(X) /\ SplitSentences(s) \in Seq(Seq(X))
           /\ \A s \in Seq(X), w \in X : TakeWords(Append(s, w)) = TakeWord(TakeWords(s), w)
  <1> DEFINE T == Scans(X)
             turn == [p \in T \X X |-> TakeWord(p[1], p[2])]
  <1>1. /\ turn \in [T \X X -> T]
        /\ \A z \in T, w \in X : turn[<<z, w>>] = TakeWord(z, w)
    BY ScanSteps
  <1>2. NoScan \in T
    BY EmptySeq DEF Scans, NoScan
  <1> HIDE DEF turn, T
  <1>3. IsTurn(T, X, turn, NoScan)
    BY <1>1, <1>2 DEF IsTurn
  <1>4. PICK F \in [Seq(X) -> T] :
             /\ F[<<>>] = NoScan
             /\ \A s \in Seq(X), w \in X : F[Append(s, w)] = turn[<<F[s], w>>]
             /\ \A s \in Seq(X) : \A f : Turns(T, f, NoScan, turn, s) => f[Len(s)] = F[s]
    BY <1>3, LoopHasResult
  <1>5. ASSUME NEW s \in Seq(X)
        PROVE  TakeWords(s) = F[s]
    <2> DEFINE L == Len(s)
               Goes(g) == g = [n \in 0 .. L |-> IF n = 0 THEN NoScan ELSE TakeWord(g[n - 1], s[n])]
               scan == CHOOSE g : Goes(g)
    <2>1. TakeWords(s) = scan[L]
      BY DEF TakeWords, NoScan
    <2>2. L \in Nat /\ \A k \in 1 .. L : s[k] \in X
      BY LenProperties, ElementOfSeq
    <2>3. PICK f \in [0 .. L -> T] : Loops(f, NoScan, turn, s)
      BY <1>1, <1>2, LoopExists
    <2>4. Goes(f)
      <3>1. ASSUME NEW n \in 0 .. L
            PROVE  f[n] = IF n = 0 THEN NoScan ELSE TakeWord(f[n - 1], s[n])
        <4>1. n # 0 => n \in 1 .. L /\ n - 1 \in 0 .. L
          BY <2>2
        <4>2. n # 0 => f[n] = turn[<<f[n - 1], s[n]>>] /\ f[n - 1] \in T
          BY <2>3, <4>1 DEF Loops
        <4> QED  BY <1>1, <2>2, <2>3, <4>1, <4>2 DEF Loops
      <3> QED  BY <3>1
    <2>5. Goes(scan)
      BY <2>4
    <2> HIDE DEF scan
    <2>6. Turns(T, scan, NoScan, turn, s)
      <3>1. scan[0] = NoScan
        BY <2>2, <2>5
      <3>2. ASSUME NEW k \in 1 .. L, scan[k - 1] \in T
            PROVE  scan[k] = turn[<<scan[k - 1], s[k]>>]
        <4>1. k \in 0 .. L /\ k # 0
          BY <2>2
        <4>2. scan[k] = TakeWord(scan[k - 1], s[k])
          BY <2>5, <4>1
        <4> QED  BY <1>1, <2>2, <3>2, <4>2
      <3> QED  BY <3>1, <3>2 DEF Turns
    <2> QED  BY <1>4, <2>1, <2>6
  <1>6. TakeWords(<<>>) = NoScan
    <2>1. <<>> \in Seq(X)
      BY EmptySeq
    <2> QED  BY <1>4, <1>5, <2>1
  <1>7. ASSUME NEW s \in Seq(X)
        PROVE  TakeWords(s) \in Scans(X) /\ SplitSentences(s) \in Seq(Seq(X))
    <2>1. TakeWords(s) \in Scans(X)
      BY <1>4, <1>5 DEF T
    <2>2. CloseSentence(TakeWords(s)) \in Scans(X)
      BY <2>1, ScanSteps
    <2> QED  BY <2>1, <2>2 DEF SplitSentences, Scans
  <1>8. ASSUME NEW s \in Seq(X), NEW w \in X
        PROVE  TakeWords(Append(s, w)) = TakeWord(TakeWords(s), w)
    <2>1. Append(s, w) \in Seq(X)
      BY AppendProperties
    <2>2. TakeWords(Append(s, w)) = turn[<<F[s], w>>] /\ F[s] \in T
      BY <1>4, <1>5, <2>1
    <2> QED  BY <1>1, <1>5, <2>2
  <1> QED  BY <1>6, <1>7, <1>8

\* A sequence whose elements are of a smaller set is one over it.
LEMMA SeqNarrower ==
    ASSUME NEW R, NEW T, NEW s \in Seq(R), \A i \in 1 .. Len(s) : s[i] \in T
    PROVE  s \in Seq(T)
  <1>1. Len(s) \in Nat /\ s = [i \in 1 .. Len(s) |-> s[i]]
    BY LenProperties
  <1>2. s \in [1 .. Len(s) -> T]
    BY <1>1
  <1> QED  BY <1>1, <1>2, SeqDef

\* Empty lines around a text do not change its sentences.
LEMMA GapsFall ==
    ASSUME NEW R, NEW X, \A l \in R : LineWords(l) \in Seq(X),
           NEW pre \in Seq(R), NEW mid \in Seq(R), NEW post \in Seq(R),
           \A l \in Range(pre) \union Range(post) : l.kind = "blank"
    PROVE  SplitSentences(Words((pre \o mid) \o post)) = SplitSentences(Words(mid))
  <1> DEFINE B == {l \in R : l.kind = "blank"}
             gap == <<"gap">>
             Pre == {s \in Seq(B) : TakeWords(Words(s)) = NoScan}
             Mid == {s \in Seq(X) : TakeWords(Words(pre) \o s) = TakeWords(s)}
             Post == {s \in Seq(B) : SplitSentences(Words((pre \o mid) \o s))
                                       = SplitSentences(Words(pre \o mid))}
             none == <<>>
  <1>1. \A l \in B : LineWords(l) = <<gap>>
    BY DEF LineWords, TrailerFields
  <1>2. /\ TakeWords(none) = NoScan
        /\ \A s \in Seq(X) : TakeWords(s) \in Scans(X) /\ SplitSentences(s) \in Seq(Seq(X))
        /\ \A s \in Seq(X), w \in X : TakeWords(Append(s, w)) = TakeWord(TakeWords(s), w)
    BY TakeWordsAppends
  <1>3. /\ Words(none) = none
        /\ \A s \in Seq(R) : Words(s) \in Seq(X)
        /\ \A s \in Seq(R), l \in R : Words(Append(s, l)) = Words(s) \o LineWords(l)
    BY WordsAppend
  <1>4. \A z : TakeWord(z, gap) = CloseSentence(z)
    BY DEF TakeWord
  <1>5. \A s \in Seq(B) : s \in Seq(R)
    BY SeqWider
  <1> HIDE DEF gap
  <1>6. ASSUME NEW s \in Seq(R), NEW l \in B
        PROVE  TakeWords(Words(Append(s, l))) = CloseSentence(TakeWords(Words(s)))
    <2>1. LineWords(l) \in Seq(X) /\ LineWords(l) = <<gap>> /\ l \in R
      BY <1>1
    <2>2. gap \in X
      <3>1. 1 \in 1 .. Len(<<gap>>) /\ <<gap>>[1] = gap
        OBVIOUS
      <3> QED  BY <2>1, <3>1, ElementOfSeq
    <2>3. Words(s) \in Seq(X) /\ Words(Append(s, l)) = Words(s) \o <<gap>>
      BY <1>3, <2>1
    <2>4. Words(s) \o <<gap>> = Append(Words(s), gap)
      BY <2>2, <2>3, AppendIsConcat
    <2> QED  BY <1>2, <1>4, <2>2, <2>3, <2>4
  <1>7. Words(pre) \in Seq(X) /\ TakeWords(Words(pre)) = NoScan
    <2>1. none \in Pre
      <3>1. none \in Seq(B)
        BY EmptySeq
      <3> HIDE DEF none
      <3> QED  BY <1>2, <1>3, <3>1
    <2>2. ASSUME NEW s \in Seq(B), NEW l \in B, s \in Pre
          PROVE  Append(s, l) \in Pre
      <3>1. Append(s, l) \in Seq(B)
        BY AppendProperties
      <3>2. TakeWords(Words(Append(s, l))) = CloseSentence(NoScan)
        BY <1>5, <1>6, <2>2
      <3>3. NoScan \in Scans(X)
        BY EmptySeq DEF Scans, NoScan
      <3> QED  BY <3>1, <3>2, <3>3, ScanSteps
    <2>3. Seq(B) \subseteq Pre
      <3> HIDE DEF Pre, B
      <3> QED  BY <2>1, <2>2, SeqInduction DEF none
    <2>4. pre \in Seq(B)
      <3>1. \A i \in 1 .. Len(pre) : pre[i] \in B
        <4> TAKE i \in 1 .. Len(pre)
        <4>1. pre[i] \in R /\ i \in DOMAIN pre
          BY ElementOfSeq, LenProperties
        <4>2. pre[i] \in Range(pre)
          BY <4>1 DEF Range
        <4> QED  BY <4>1, <4>2
      <3> HIDE DEF B
      <3> QED  BY <3>1, SeqNarrower
    <2> QED  BY <1>3, <2>3, <2>4
  <1>8. \A s \in Seq(X) : TakeWords(Words(pre) \o s) = TakeWords(s)
    <2>1. none \in Mid
      <3>1. Words(pre) \o none = Words(pre) /\ none \in Seq(X)
        BY <1>7, ConcatEmptySeq, EmptySeq
      <3> HIDE DEF none
      <3> QED  BY <1>2, <1>7, <3>1
    <2>2. ASSUME NEW s \in Seq(X), NEW w \in X, s \in Mid
          PROVE  Append(s, w) \in Mid
      <3>1. /\ Words(pre) \o Append(s, w) = Append(Words(pre) \o s, w)
            /\ Words(pre) \o s \in Seq(X) /\ Append(s, w) \in Seq(X)
        BY <1>7, ConcatAppends, ConcatProperties, AppendProperties
      <3>2. TakeWords(Words(pre) \o s) = TakeWords(s)
        BY <2>2
      <3>3. TakeWords(Append(Words(pre) \o s, w)) = TakeWord(TakeWords(Words(pre) \o s), w)
            /\ TakeWords(Append(s, w)) = TakeWord(TakeWords(s), w)
        BY <1>2, <3>1
      <3> QED  BY <3>1, <3>2, <3>3
    <2>3. Seq(X) \subseteq Mid
      <3> HIDE DEF Mid
      <3> QED  BY <2>1, <2>2, SeqInduction DEF none
    <2> QED  BY <2>3
  <1>9. pre \o mid \in Seq(R)
    BY ConcatProperties
  <1>10. SplitSentences(Words((pre \o mid) \o post)) = SplitSentences(Words(pre \o mid))
    <2> DEFINE front == pre \o mid
    <2>1. none \in Post
      <3>1. front \o none = front /\ none \in Seq(B)
        BY <1>9, ConcatEmptySeq, EmptySeq
      <3> HIDE DEF none
      <3> QED  BY <3>1
    <2>2. ASSUME NEW s \in Seq(B), NEW l \in B, s \in Post
          PROVE  Append(s, l) \in Post
      <3>1. Append(s, l) \in Seq(B) /\ s \in Seq(R) /\ l \in R
        BY <1>5, AppendProperties
      <3>2. front \o Append(s, l) = Append(front \o s, l) /\ front \o s \in Seq(R)
        BY <1>9, <3>1, ConcatAppends, ConcatProperties
      <3> DEFINE z == TakeWords(Words(front \o s))
      <3>3. TakeWords(Words(front \o Append(s, l))) = CloseSentence(z)
        BY <1>6, <3>2
      <3>4. z \in Scans(X)
        BY <1>2, <1>3, <3>2
      <3>5. CloseSentence(CloseSentence(z)) = CloseSentence(z)
        <4> HIDE DEF z
        <4> QED  BY <3>4, ScanSteps
      <3>6. SplitSentences(Words(front \o Append(s, l))) = SplitSentences(Words(front \o s))
        BY <3>3, <3>5 DEF SplitSentences
      <3>7. SplitSentences(Words(front \o s)) = SplitSentences(Words(front))
        BY <2>2
      <3> HIDE DEF front
      <3> QED  BY <3>1, <3>6, <3>7 DEF front
    <2>3. Seq(B) \subseteq Post
      <3> HIDE DEF Post, B
      <3> QED  BY <2>1, <2>2, SeqInduction DEF none
    <2>4. post \in Seq(B)
      <3>1. \A i \in 1 .. Len(post) : post[i] \in B
        <4> TAKE i \in 1 .. Len(post)
        <4>1. post[i] \in R /\ i \in DOMAIN post
          BY ElementOfSeq, LenProperties
        <4>2. post[i] \in Range(post)
          BY <4>1 DEF Range
        <4> QED  BY <4>1, <4>2
      <3> HIDE DEF B
      <3> QED  BY <3>1, SeqNarrower
    <2> QED  BY <2>3, <2>4
  <1>11. SplitSentences(Words(pre \o mid)) = SplitSentences(Words(mid))
    <2>1. Words(pre \o mid) = Words(pre) \o Words(mid)
      BY WordsJoin
    <2>2. TakeWords(Words(pre \o mid)) = TakeWords(Words(mid))
      BY <1>3, <1>8, <2>1
    <2> QED  BY <2>2 DEF SplitSentences
  <1> QED  BY <1>10, <1>11

(***************************************************************************)
(* The sections and their lines.                                           *)
(***************************************************************************)
\* What lies between the least and the greatest of adjacent places.
LEMMA CutOfPlaces ==
    ASSUME NEW R, NEW s \in Seq(R), NEW lo \in Nat, NEW hi \in Nat, 1 <= lo, lo <= hi + 1,
           hi <= Len(s), NEW own, \A i : i \in own <=> i \in lo .. hi
    PROVE  Stretch(s, own) = SubSeq(s, lo, hi)
  <1>1. CASE lo <= hi
    <2>1. own \in SUBSET Nat /\ lo \in own /\ hi \in own /\ (\A i \in own : i <= hi /\ lo <= i)
      BY <1>1
    <2>2. Min(own) \in own /\ (\A i \in own : Min(own) <= i)
      BY <2>1, LeastExists
    <2>3. Max(own) \in own /\ (\A i \in own : i <= Max(own))
      BY <2>1, GreatestExists
    <2>4. Min(own) = lo /\ Max(own) = hi
      <3>1. Min(own) \in Nat /\ Max(own) \in Nat
        BY <2>1, <2>2, <2>3
      <3> QED  BY <2>1, <2>2, <2>3, <3>1
    <2> QED  BY <2>1, <2>4 DEF Stretch
  <1>2. CASE ~(lo <= hi)
    <2>1. own = {}
      BY <1>2
    <2>2. Len(SubSeq(s, lo, hi)) = 0 /\ SubSeq(s, lo, hi) \in Seq(R)
      <3>1. hi - lo + 1 = 0
        BY <1>2
      <3> QED  BY <3>1, CutFacts
    <2>3. SubSeq(s, lo, hi) = <<>>
      BY <2>2, EmptySeq
    <2> QED  BY <2>1, <2>3 DEF Stretch
  <1> QED  BY <1>1, <1>2

\* The lines of a section are those of its segment, but for empty ones around
\* them, and so are its sentences.
SegmentOf(k) ==
    IF k = 0 THEN SplitDocument(text).body ELSE SplitDocument(text).appendices[k]

LEMMA SectionsAre ==
    ASSUME TextHolds, NEW k \in 0 .. Cardinality({i \in DOMAIN text : text[i].kind = "label"})
    PROVE  /\ SegmentOf(k) \in Seq(TextLines(template))
           /\ SplitSentences(Words(SectionLines(k))) = SplitSentences(Words(SegmentOf(k)))
  <1> DEFINE R == TextLines(template)
             N == Len(text)
             S == FindTrailerStart(text)
             A == AppendixStart(text)
             labels == LinesOf(text, {"label"})
             opens(i) == \/ text[i].part = "trailer" /\ text[i].kind \in {"subject", "matter"}
                         \/ text[i].part = "appendix"
             counted(i) == Cardinality({j \in 1 .. i : text[j].kind = "label"})
             own == {i \in DOMAIN text : IF k = 0 THEN \A j \in 1 .. i : ~opens(j)
                                         ELSE counted(i) = k /\ text[i].kind # "label"}
  <1>1. N \in Nat /\ DOMAIN text = 1 .. N /\ text \in Seq(R) /\ template \in DOMAIN Templates
    BY TextIsLines DEF TextHolds
  <1>2. SectionLines(k) = Stretch(text, own)
    BY DEF SectionLines
  <1>3. labels = {i \in DOMAIN text : text[i].kind = "label"}
    BY DEF LinesOf
  <1>4. CASE k # 0
    <2>1. k \in 1 .. Cardinality(labels)
      <3>1. Cardinality(labels) \in Nat
        BY AppendicesAre
      <3>2. k \in 0 .. Cardinality(labels)
        BY <1>3
      <3> HIDE DEF labels
      <3> QED  BY ONLY <1>4, <3>1, <3>2
    <2>2. PICK lo, hi \in Nat :
               /\ 1 <= lo /\ lo <= hi + 1 /\ hi <= N
               /\ SplitDocument(text).appendices[k] = SubSeq(text, lo, hi)
               /\ \A i \in 1 .. N : (lo <= i /\ i <= hi) <=> (Count(labels, i) = k /\ i \notin labels)
      BY <2>1, AppendicesAre
    <2>3. ASSUME NEW i \in 1 .. N
          PROVE  counted(i) = Count(labels, i)
      <3>1. \A m : m \in {j \in 1 .. i : text[j].kind = "label"} <=> m \in {j \in labels : j <= i}
        <4> TAKE m
        <4>1. m \in 1 .. i <=> m \in 1 .. N /\ m <= i
          BY <1>1
        <4> QED  BY <1>1, <1>3, <4>1
      <3> HIDE DEF labels
      <3>2. {j \in 1 .. i : text[j].kind = "label"} = {j \in labels : j <= i}
        BY <3>1
      <3> QED  BY <3>2 DEF Count
    <2>4. \A i : i \in own <=> i \in 1 .. N /\ Count(labels, i) = k /\ i \notin labels
      BY <1>1, <1>3, <1>4, <2>3
    <2> HIDE DEF own, labels
    <2>5. \A i : i \in own <=> i \in lo .. hi
      <3> TAKE i
      <3>1. i \in lo .. hi <=> i \in 1 .. N /\ lo <= i /\ i <= hi
        BY <1>1, <2>2
      <3> QED  BY <2>2, <2>4, <3>1
    <2>6. SectionLines(k) = SubSeq(text, lo, hi)
      <3>1. text \in Seq(R) /\ 1 <= lo /\ lo <= hi + 1 /\ hi <= Len(text)
        BY <1>1, <2>2
      <3> HIDE DEF R
      <3>2. Stretch(text, own) = SubSeq(text, lo, hi)
        BY ONLY <2>5, <3>1, lo \in Nat, hi \in Nat, CutOfPlaces
      <3> QED  BY <1>2, <3>2
    <2>7. SubSeq(text, lo, hi) \in Seq(R)
      BY <1>1, <2>2, CutFacts
    <2> QED  BY <1>4, <2>2, <2>6, <2>7 DEF SegmentOf
  <1>5. CASE k = 0
    <2>1. A \in 1 .. N + 1 /\ S \in 1 .. A /\ S \in Nat /\ S <= N + 1
      <3>1. A \in 1 .. N + 1 /\ S \in 1 .. A
        BY Cuts
      <3> QED  BY <1>1, <3>1
    <2>2. \A j \in 1 .. N : j < S => ~opens(j)
      <3> TAKE j \in 1 .. N
      <3>1. j < S => j < A
        BY <1>1, <2>1
      <3> QED  BY <1>1, <3>1, Cuts
    <2>3. S <= N => opens(S)
      <3>1. CASE S < A
        BY <3>1, Cuts
      <3>2. CASE ~(S < A)
        <4>1. S = A
          BY <2>1, <3>2
        <4> QED  BY <4>1, Cuts
      <3> QED  BY <3>1, <3>2
    <2> HIDE DEF opens
    <2>4. \A i : i \in own <=> i \in 1 .. S - 1
      <3> TAKE i
      <3>1. i \in own <=> i \in 1 .. N /\ \A j \in 1 .. i : ~opens(j)
        BY <1>1, <1>5
      <3>2. ASSUME i \in 1 .. S - 1
            PROVE  i \in own
        <4>1. \A j \in 1 .. i : j \in 1 .. N /\ j < S
          BY <1>1, <2>1, <3>2
        <4>2. i \in 1 .. N
          BY <1>1, <2>1, <3>2
        <4> QED  BY <2>2, <3>1, <4>1, <4>2
      <3>3. ASSUME i \in 1 .. N, \A j \in 1 .. i : ~opens(j)
            PROVE  i \in 1 .. S - 1
        <4>1. ~(S <= i)
          <5>1. S <= i => S \in 1 .. i /\ S <= N
            BY <1>1, <2>1, <3>3
          <5> QED  BY <2>3, <3>3, <5>1
        <4> QED  BY <1>1, <2>1, <3>3, <4>1
      <3> QED  BY <3>1, <3>2, <3>3
    <2> HIDE DEF own
    <2>5. SectionLines(k) = SubSeq(text, 1, S - 1)
      <3>1. S - 1 \in Nat /\ 1 <= S - 1 + 1 /\ S - 1 <= N
        BY <1>1, <2>1
      <3> DEFINE lo == 1
                 hi == S - 1
      <3>3. text \in Seq(R) /\ lo \in Nat /\ hi \in Nat /\ 1 <= lo /\ lo <= hi + 1 /\ hi <= Len(text)
        BY <1>1, <3>1
      <3>4. \A i : i \in own <=> i \in lo .. hi
        BY <2>4
      <3> HIDE DEF R, lo, hi
      <3>2. Stretch(text, own) = SubSeq(text, lo, hi)
        BY ONLY <3>3, <3>4, CutOfPlaces
      <3> QED  BY <1>2, <3>2 DEF lo, hi
    <2>6. PICK a, b \in Nat :
               /\ 1 <= a /\ a <= b + 1 /\ b < S
               /\ SplitDocument(text).body = SubSeq(text, a, b)
               /\ SplitDocument(text).body \in Seq(R)
               /\ \A i \in 1 .. S - 1 : text[i].kind # "blank" => a <= i /\ i <= b
      BY BodyIs
    <2> DEFINE pre == SubSeq(text, 1, a - 1)
               mid == SubSeq(text, a, b)
               post == SubSeq(text, b + 1, S - 1)
    <2> HIDE DEF S
    <2>7. /\ a - 1 \in Nat /\ 1 <= a - 1 + 1 /\ a - 1 <= N
          /\ b + 1 \in Nat /\ S - 1 \in Nat /\ 1 <= b + 1 /\ b + 1 <= S - 1 + 1 /\ S - 1 <= N
          /\ b <= N
      BY <1>1, <2>1, <2>6
    <2>8. /\ pre \in Seq(R) /\ DOMAIN pre = 1 .. a - 1 - 1 + 1
          /\ \A i \in 1 .. a - 1 - 1 + 1 : pre[i] = text[1 + i - 1] /\ 1 + i - 1 \in 1 .. a - 1
      BY <1>1, <2>7, CutFacts
    <2>9. /\ post \in Seq(R) /\ DOMAIN post = 1 .. S - 1 - (b + 1) + 1
          /\ \A i \in 1 .. S - 1 - (b + 1) + 1 :
                post[i] = text[b + 1 + i - 1] /\ b + 1 + i - 1 \in b + 1 .. S - 1
      BY <1>1, <2>7, CutFacts
    <2>10. mid \in Seq(R)
      BY <1>1, <2>6, <2>7, CutFacts
    <2>11. (pre \o mid) \o post = SubSeq(text, 1, S - 1)
      <3>3. /\ text \in Seq(R) /\ 1 \in 1 .. Len(text) + 1
            /\ a - 1 \in 1 - 1 .. Len(text) /\ b \in a - 1 .. Len(text)
            /\ b \in 1 - 1 .. Len(text) /\ S - 1 \in b .. Len(text) /\ a - 1 + 1 = a
        BY <1>1, <2>6, <2>7
      <3> HIDE DEF R
      <3>1. pre \o mid = SubSeq(text, 1, b)
        <4>1. SubSeq(text, 1, a - 1) \o SubSeq(text, a - 1 + 1, b) = SubSeq(text, 1, b)
          BY ONLY <3>3, ConcatAdjacentSubSeq
        <4> QED  BY <3>3, <4>1
      <3>2. SubSeq(text, 1, b) \o post = SubSeq(text, 1, S - 1)
        BY ONLY <3>3, ConcatAdjacentSubSeq DEF post
      <3> QED  BY <3>1, <3>2
    <2>12. \A l \in Range(pre) \union Range(post) : l.kind = "blank"
      <3>1. \A j \in 1 .. a - 1 : text[j].kind = "blank"
        <4> TAKE j \in 1 .. a - 1
        <4>1. j \in 1 .. S - 1 /\ ~(a <= j)
          BY <2>1, <2>6
        <4> QED  BY <2>6, <4>1
      <3>2. \A j \in b + 1 .. S - 1 : text[j].kind = "blank"
        <4> TAKE j \in b + 1 .. S - 1
        <4>1. j \in 1 .. S - 1 /\ ~(j <= b)
          BY <2>1, <2>6
        <4> QED  BY <2>6, <4>1
      <3>3. \A l \in Range(pre) : l.kind = "blank"
        <4> HIDE DEF pre
        <4> QED  BY <2>8, <3>1 DEF Range
      <3>4. \A l \in Range(post) : l.kind = "blank"
        <4> HIDE DEF post
        <4> QED  BY <2>9, <3>2 DEF Range
      <3> QED  BY <3>3, <3>4
    <2>13. \A l \in R : LineWords(l) \in Seq(AllWords(template))
      BY <1>1, WordsAreGiven
    <2> HIDE DEF pre, post, mid, R
    <2>14. SplitSentences(Words((pre \o mid) \o post)) = SplitSentences(Words(mid))
      BY <2>8, <2>9, <2>10, <2>12, <2>13, GapsFall
    <2> QED  BY <1>5, <2>5, <2>6, <2>11, <2>14 DEF SegmentOf, mid, R
  <1> QED  BY <1>4, <1>5

(***************************************************************************)
(* What a chunk repeats of the chunk before it.                            *)
(***************************************************************************)
\* The tokens of sentences are the sum of theirs.
LEMMA TokensJoin ==
    ASSUME NEW X, \A w \in X : SizeOf(w) \in Nat
    PROVE  /\ Tokens(<<>>) = 0
           /\ \A s \in Seq(Seq(X)) : Tokens(s) \in Nat
           /\ \A s \in Seq(Seq(X)), t \in Seq(Seq(X)) : Tokens(s \o t) = Tokens(s) + Tokens(t)
           /\ \A s \in Seq(Seq(X)), x \in Seq(X) : Tokens(Append(s, x)) = Tokens(s) + Size(x)
           /\ \A x \in Seq(X) : Size(x) \in Nat /\ Tokens(<<x>>) = Size(x)
  <1> DEFINE Y == Seq(X)
             none == <<>>
  <1>1. /\ FlattenSeq(none) = none
        /\ \A s \in Seq(Y) : FlattenSeq(s) \in Y
        /\ \A s \in Seq(Y), x \in Y : FlattenSeq(Append(s, x)) = FlattenSeq(s) \o x
    BY FlattenAppends
  <1>2. Size(none) = 0 /\ \A s \in Y : Size(s) \in Nat
    BY SizeAppends
  <1>3. \A a \in Y, b \in Y : Size(a \o b) = Size(a) + Size(b)
    BY SizeJoins
  <1>4. \A s \in Seq(Y), t \in Seq(Y) : FlattenSeq(s \o t) = FlattenSeq(s) \o FlattenSeq(t)
    BY FlattenJoins
  <1>5. none \in Seq(Y)
    BY EmptySeq
  <1>6. \A x \in Y : <<x>> = Append(none, x)
    OBVIOUS
  <1> HIDE DEF Y, none
  <1>7. Tokens(none) = 0 /\ \A s \in Seq(Y) : Tokens(s) \in Nat
    BY <1>1, <1>2 DEF Tokens
  <1>8. \A s \in Seq(Y), t \in Seq(Y) : Tokens(s \o t) = Tokens(s) + Tokens(t)
    BY <1>1, <1>3, <1>4 DEF Tokens
  <1>9. \A s \in Seq(Y), x \in Y : Tokens(Append(s, x)) = Tokens(s) + Size(x)
    BY <1>1, <1>3 DEF Tokens
  <1>10. \A x \in Y : Tokens(<<x>>) = Size(x)
    <2> TAKE x \in Y
    <2>1. Tokens(<<x>>) = Tokens(none) + Size(x) /\ Size(x) \in Nat
      BY <1>2, <1>5, <1>6, <1>9
    <2> QED  BY <1>7, <2>1
  <1> QED  BY <1>2, <1>7, <1>8, <1>9, <1>10 DEF Y, none

\* The parts of a sequence that consists of two.
LEMMA ConcatCuts ==
    ASSUME NEW Y, NEW a \in Seq(Y), NEW b \in Seq(Y)
    PROVE  /\ SubSeq(a \o b, 1, Len(a)) = a
           /\ SubSeq(a \o b, Len(a) + 1, Len(a \o b)) = b
           /\ Len(a \o b) = Len(a) + Len(b) /\ a \o b \in Seq(Y)
  <1>1. Len(a) \in Nat /\ Len(b) \in Nat
    BY LenProperties
  <1>2. /\ a \o b \in Seq(Y) /\ Len(a \o b) = Len(a) + Len(b)
        /\ \A i \in 1 .. Len(a) + Len(b) : (a \o b)[i] = IF i <= Len(a) THEN a[i] ELSE b[i - Len(a)]
    BY ConcatProperties
  <1> DEFINE c == a \o b
             l == Len(a)
             m == Len(b)
  <1> HIDE DEF c
  <1>3. SubSeq(c, 1, l) = a
    <2>1. /\ SubSeq(c, 1, l) \in Seq(Y) /\ Len(SubSeq(c, 1, l)) = l - 1 + 1
          /\ \A i \in 1 .. l - 1 + 1 : SubSeq(c, 1, l)[i] = c[1 + i - 1]
      <3>1. c \in Seq(Y) /\ 1 \in Nat /\ l \in Nat /\ 1 <= 1 /\ 1 <= l + 1 /\ l <= Len(c)
        BY <1>1, <1>2 DEF c
      <3> QED  BY ONLY <3>1, CutFacts
    <2>2. \A i \in 1 .. l : SubSeq(c, 1, l)[i] = a[i]
      <3> TAKE i \in 1 .. l
      <3>1. i \in 1 .. l - 1 + 1 /\ 1 + i - 1 = i /\ i \in 1 .. l + m /\ i <= l
        BY <1>1
      <3>2. SubSeq(c, 1, l)[i] = c[i]
        BY <2>1, <3>1
      <3> QED  BY <1>2, <3>1, <3>2 DEF c
    <2>3. Len(SubSeq(c, 1, l)) = l
      BY <1>1, <2>1
    <2> HIDE DEF l
    <2> QED  BY <2>1, <2>2, <2>3, SeqEqual DEF l
  <1>4. SubSeq(c, l + 1, l + m) = b
    <2> DEFINE d == SubSeq(c, l + 1, l + m)
    <2>1. /\ d \in Seq(Y) /\ Len(d) = l + m - (l + 1) + 1
          /\ \A i \in 1 .. l + m - (l + 1) + 1 : d[i] = c[l + 1 + i - 1]
      <3> DEFINE p == l + 1
                 q == l + m
      <3>1. c \in Seq(Y) /\ p \in Nat /\ q \in Nat /\ 1 <= p /\ p <= q + 1 /\ q <= Len(c)
        BY <1>1, <1>2 DEF c
      <3> HIDE DEF p, q
      <3>2. /\ SubSeq(c, p, q) \in Seq(Y) /\ Len(SubSeq(c, p, q)) = q - p + 1
            /\ \A i \in 1 .. q - p + 1 : SubSeq(c, p, q)[i] = c[p + i - 1]
        BY ONLY <3>1, CutFacts
      <3> QED  BY <3>2 DEF p, q
    <2> HIDE DEF d
    <2>2. \A i \in 1 .. m : d[i] = b[i]
      <3> TAKE i \in 1 .. m
      <3>1. /\ i \in 1 .. l + m - (l + 1) + 1 /\ l + 1 + i - 1 = l + i /\ l + i \in 1 .. l + m
            /\ ~(l + i <= l) /\ l + i - l = i
        BY <1>1
      <3>2. d[i] = c[l + i]
        BY <2>1, <3>1
      <3> QED  BY <1>2, <3>1, <3>2 DEF c
    <2>3. Len(d) = m
      BY <1>1, <2>1
    <2> HIDE DEF m
    <2> QED  BY <2>1, <2>2, <2>3, SeqEqual DEF m, d
  <1> QED  BY <1>2, <1>3, <1>4 DEF c

\* The overlap is the longest tail it has room for: any longer one exceeds it.
LEMMA OverlapIs ==
    ASSUME NEW X, \A w \in X : SizeOf(w) \in Nat, NEW s \in Seq(Seq(X)), NEW room \in Nat
    PROVE  \E m \in 0 .. Len(s) :
              /\ ComputeOverlap(s, room) = SubSeq(s, m + 1, Len(s))
              /\ ComputeOverlap(s, room) \in Seq(Seq(X))
              /\ Len(ComputeOverlap(s, room)) = Len(s) - m
              /\ Tokens(ComputeOverlap(s, room)) <= room
              /\ \A j \in 1 .. m : ~(Tokens(SubSeq(s, j, Len(s))) <= room)
  <1> DEFINE L == Len(s)
             fits == {i \in 1 .. L + 1 : Tokens(SubSeq(s, i, L)) <= room}
  <1>1. L \in Nat
    BY LenProperties
  <1>2. L + 1 \in fits
    <2>1. SubSeq(s, L + 1, L) = <<>>
      BY <1>1, SubSeqEmpty
    <2>2. Tokens(<<>>) = 0
      BY TokensJoin
    <2>3. Tokens(SubSeq(s, L + 1, L)) <= room /\ L + 1 \in 1 .. L + 1
      <3> DEFINE t == SubSeq(s, L + 1, L)
                 none == <<>>
      <3>1. t = none /\ Tokens(none) = 0
        BY <2>1, <2>2
      <3> HIDE DEF t, none
      <3>2. Tokens(t) = 0
        BY <3>1
      <3>3. Tokens(t) <= room
        BY <3>2
      <3> QED  BY <1>1, <3>3 DEF t
    <2> QED  BY <2>3
  <1>3. Min(fits) \in fits /\ \A i \in fits : Min(fits) <= i
    <2>1. fits \in SUBSET Nat
      BY <1>1
    <2> HIDE DEF fits
    <2> QED  BY <1>2, <2>1, LeastExists
  <1> DEFINE m == Min(fits) - 1
  <1>4. m \in 0 .. L /\ m + 1 = Min(fits)
    BY <1>1, <1>3
  <1>5. ComputeOverlap(s, room) = SubSeq(s, m + 1, L)
    BY <1>4 DEF ComputeOverlap
  <1>6. SubSeq(s, m + 1, L) \in Seq(Seq(X)) /\ Len(SubSeq(s, m + 1, L)) = L - m
    <2> HIDE DEF m
    <2>1. m + 1 \in Nat /\ L \in Nat /\ 1 <= m + 1 /\ m + 1 <= L + 1 /\ L - (m + 1) + 1 = L - m
      BY <1>1, <1>4
    <2> QED  BY <2>1, CutFacts
  <1>7. Tokens(SubSeq(s, m + 1, L)) <= room
    BY <1>3, <1>4
  <1>8. \A j \in 1 .. m : ~(Tokens(SubSeq(s, j, L)) <= room)
    <2> TAKE j \in 1 .. m
    <2>1. j \in 1 .. L + 1 /\ ~(Min(fits) <= j)
      BY <1>1, <1>4
    <2>2. j \notin fits
      BY <1>3, <2>1
    <2> QED  BY <2>1, <2>2
  <1> HIDE DEF m
  <1> QED  BY <1>4, <1>5, <1>6, <1>7, <1>8

\* A chunk that opens with the overlap of the one before adds what follows it.
LEMMA AddedIs ==
    ASSUME NEW X, \A w \in X : SizeOf(w) \in Nat, passages.budget.overlap \in Nat,
           NEW chunks, NEW i, i # 1,
           NEW before \in Seq(Seq(X)), NEW new \in Seq(Seq(X)),
           chunks[i - 1].sentences = before,
           chunks[i].sentences = ComputeOverlap(before, passages.budget.overlap) \o new
    PROVE  Added(chunks, i) = new
  <1> DEFINE room == passages.budget.overlap
             Y == Seq(X)
             o == ComputeOverlap(before, room)
             now == o \o new
             B == Len(before)
             N == Len(now)
             least == Min({B, N})
             repeats == {k \in 0 .. least :
                            /\ SubSeq(now, 1, k) = SubSeq(before, B - k + 1, B)
                            /\ Tokens(SubSeq(now, 1, k)) <= room}
  <1>1. PICK m \in 0 .. B :
             /\ o = SubSeq(before, m + 1, B) /\ o \in Seq(Y) /\ Len(o) = B - m
             /\ Tokens(o) <= room
             /\ \A j \in 1 .. m : ~(Tokens(SubSeq(before, j, B)) <= room)
    BY OverlapIs
  <1> HIDE DEF o
  <1>2. /\ SubSeq(now, 1, Len(o)) = o /\ SubSeq(now, Len(o) + 1, N) = new
        /\ N = Len(o) + Len(new)
    <2>1. o \in Seq(Y) /\ new \in Seq(Y)
      BY <1>1
    <2> HIDE DEF Y
    <2> QED  BY <2>1, ConcatCuts
  <1>3. B \in Nat /\ N \in Nat /\ Len(o) \in Nat /\ Len(new) \in Nat
    <2>1. B \in Nat /\ Len(o) \in Nat /\ Len(new) \in Nat
      BY <1>1, LenProperties
    <2> QED  BY <1>2, <2>1
  <1> HIDE DEF now, N, B
  <1>4. least \in Nat /\ least <= B /\ Len(o) <= least
    <2>1. {B, N} \in SUBSET Nat /\ {B, N} # {}
      BY <1>3
    <2> DEFINE both == {B, N}
    <2>2. B \in both /\ (least = B \/ least = N) /\ least <= B
      <3> HIDE DEF both
      <3>1. Min(both) \in both /\ \A x \in both : Min(both) <= x
        BY <2>1, LeastExists DEF both
      <3> QED  BY <3>1 DEF both
    <2> HIDE DEF both, least
    <2> QED  BY <1>1, <1>2, <1>3, <2>2
  <1> HIDE DEF least
  <1>5. Len(o) \in repeats
    <2>1. B - Len(o) + 1 = m + 1 /\ Len(o) \in 0 .. least
      BY <1>1, <1>3, <1>4
    <2> QED  BY <1>1, <1>2, <2>1
  <1>6. ASSUME NEW k \in repeats
        PROVE  k <= Len(o)
    <2> SUFFICES ASSUME ~(k <= Len(o))
                 PROVE  FALSE
      OBVIOUS
    <2>1. k \in 0 .. least /\ Tokens(SubSeq(before, B - k + 1, B)) <= room
      BY <1>6
    <2> HIDE DEF repeats
    <2>2. B - k + 1 \in 1 .. m
      BY <1>1, <1>3, <1>4, <2>1
    <2> QED  BY <1>1, <2>1, <2>2
  <1>7. Max(repeats) = Len(o)
    <2>1. \A k \in repeats : k \in Nat
      BY <1>4
    <2> HIDE DEF repeats
    <2>4. repeats \in SUBSET Nat /\ repeats # {}
      BY <1>5, <2>1
    <2>2. Max(repeats) \in repeats /\ \A x \in repeats : x <= Max(repeats)
      BY <1>3, <1>6, <2>4, GreatestExists
    <2>3. Max(repeats) \in Nat /\ Max(repeats) <= Len(o) /\ Len(o) <= Max(repeats)
      BY <1>5, <1>6, <2>1, <2>2
    <2> QED  BY <1>3, <2>3
  <1>8. Added(chunks, i) = SubSeq(now, Max(repeats) + 1, N)
    BY DEF Added, now, N, B, least, o
  <1> QED  BY <1>2, <1>7, <1>8

(***************************************************************************)
(* The chunks of a segment, sentence by sentence.                          *)
(***************************************************************************)
\* The chunks closed so far, and the one that is open.
Making(X) == [chunks : Seq(Seq(Seq(X))), current : Seq(Seq(X))]
Unmade == [chunks |-> <<>>, current |-> <<>>]

\* What a chunk repeats of the one before it.
Before(chunks, i, room) == IF i = 1 THEN <<>> ELSE ComputeOverlap(chunks[i - 1], room)

IsBudget(budget) == budget.max \in Nat /\ budget.overlap \in Nat /\ budget.overlap <= budget.max

\* What each chunk adds to the one before it, news and what is open, are the
\* sentences told, and a chunk fits unless it adds one sentence only.
Told(X, budget, told, make, news, open) ==
    /\ make \in Making(X) /\ news \in Seq(Seq(Seq(X))) /\ open \in Seq(Seq(X))
    /\ Len(news) = Len(make.chunks)
    /\ FlattenSeq(news) \o open = told
    /\ make.current = Before(make.chunks, Len(make.chunks) + 1, budget.overlap) \o open
    /\ Len(open) = 0 \/ Len(open) = 1 \/ Tokens(make.current) <= budget.max
    /\ \A i \in 1 .. Len(news) :
          /\ make.chunks[i] = Before(make.chunks, i, budget.overlap) \o news[i]
          /\ Len(news[i]) = 1 \/ Tokens(make.chunks[i]) <= budget.max

\* The loop over the sentences takes one turn more for one sentence more.
LEMMA TakeSentencesAppends ==
    ASSUME NEW X, \A w \in X : SizeOf(w) \in Nat, NEW budget, IsBudget(budget)
    PROVE  /\ TakeSentences(<<>>, budget) = Unmade
           /\ \A s \in Seq(Seq(X)) : TakeSentences(s, budget) \in Making(X)
           /\ \A s \in Seq(Seq(X)), x \in Seq(X) :
                 TakeSentences(Append(s, x), budget) = TakeSentence(TakeSentences(s, budget), x, budget)
  <1> DEFINE T == Making(X)
             Y == Seq(X)
             turn == [p \in T \X Y |-> TakeSentence(p[1], p[2], budget)]
             none == <<>>
  <1>1. ASSUME NEW z \in T, NEW x \in Y
        PROVE  TakeSentence(z, x, budget) \in T
    <2>1. z.chunks \in Seq(Seq(Y)) /\ z.current \in Seq(Y)
      BY DEF Making
    <2>2. Append(z.chunks, z.current) \in Seq(Seq(Y))
      BY <2>1, AppendProperties
    <2>3. ComputeOverlap(z.current, budget.overlap) \in Seq(Y)
      BY <2>1, OverlapIs DEF IsBudget
    <2>4. <<x>> \in Seq(Y) /\ none \in Seq(Y)
      BY EmptySeq
    <2> HIDE DEF none
    <2>5. \A chunks \in Seq(Seq(Y)) : Append(chunks, <<x>>) \in Seq(Seq(Y))
      BY <2>4, AppendProperties
    <2>6. \A current \in Seq(Y) : Append(current, x) \in Seq(Y)
      BY AppendProperties
    <2> DEFINE full == /\ Tokens(z.current) + Size(x) > budget.max
                       /\ z.current # none
               chunks == IF full THEN Append(z.chunks, z.current) ELSE z.chunks
               current == IF full THEN ComputeOverlap(z.current, budget.overlap) ELSE z.current
    <2>7. TakeSentence(z, x, budget)
             = IF Size(x) > budget.max /\ current = none
               THEN [chunks |-> Append(chunks, <<x>>), current |-> none]
               ELSE [chunks |-> chunks, current |-> Append(current, x)]
      BY DEF TakeSentence, none
    <2>8. chunks \in Seq(Seq(Y)) /\ current \in Seq(Y)
      BY <2>1, <2>2, <2>3
    <2> HIDE DEF chunks, current, Y
    <2>9. /\ Append(chunks, <<x>>) \in Seq(Seq(Y)) /\ Append(current, x) \in Seq(Y)
      BY <2>5, <2>6, <2>8
    <2>10. /\ [chunks |-> Append(chunks, <<x>>), current |-> none] \in T
           /\ [chunks |-> chunks, current |-> Append(current, x)] \in T
      BY <2>4, <2>8, <2>9 DEF Making, Y
    <2> QED  BY <2>7, <2>10
  <1>2. Unmade \in T
    BY EmptySeq DEF Making, Unmade
  <1>3. turn \in [T \X Y -> T] /\ \A z \in T, x \in Y : turn[<<z, x>>] = TakeSentence(z, x, budget)
    BY <1>1
  <1> HIDE DEF turn, T, Y
  <1>4. IsTurn(T, Y, turn, Unmade)
    BY <1>2, <1>3 DEF IsTurn
  <1>5. PICK F \in [Seq(Y) -> T] :
             /\ F[<<>>] = Unmade
             /\ \A s \in Seq(Y), x \in Y : F[Append(s, x)] = turn[<<F[s], x>>]
             /\ \A s \in Seq(Y) : \A f : Turns(T, f, Unmade, turn, s) => f[Len(s)] = F[s]
    BY <1>4, LoopHasResult
  <1>6. ASSUME NEW s \in Seq(Y)
        PROVE  TakeSentences(s, budget) = F[s]
    <2> DEFINE L == Len(s)
               Goes(g) == g = [n \in 0 .. L |-> IF n = 0 THEN Unmade
                                                ELSE TakeSentence(g[n - 1], s[n], budget)]
               loop == CHOOSE g : Goes(g)
    <2>1. TakeSentences(s, budget) = loop[L]
      BY DEF TakeSentences, Unmade
    <2>2. L \in Nat /\ \A k \in 1 .. L : s[k] \in Y
      BY LenProperties, ElementOfSeq
    <2>3. PICK f \in [0 .. L -> T] : Loops(f, Unmade, turn, s)
      BY <1>2, <1>3, LoopExists
    <2>4. Goes(f)
      <3>1. ASSUME NEW n \in 0 .. L
            PROVE  f[n] = IF n = 0 THEN Unmade ELSE TakeSentence(f[n - 1], s[n], budget)
        <4>1. n # 0 => n \in 1 .. L /\ n - 1 \in 0 .. L
          BY <2>2
        <4>2. n # 0 => f[n] = turn[<<f[n - 1], s[n]>>] /\ f[n - 1] \in T
          BY <2>3, <4>1 DEF Loops
        <4> QED  BY <1>3, <2>2, <2>3, <4>1, <4>2 DEF Loops
      <3> QED  BY <3>1
    <2>5. Goes(loop)
      BY <2>4
    <2> HIDE DEF loop
    <2>6. Turns(T, loop, Unmade, turn, s)
      <3>1. loop[0] = Unmade
        BY <2>2, <2>5
      <3>2. ASSUME NEW k \in 1 .. L, loop[k - 1] \in T
            PROVE  loop[k] = turn[<<loop[k - 1], s[k]>>]
        <4>1. k \in 0 .. L /\ k # 0
          BY <2>2
        <4>2. loop[k] = TakeSentence(loop[k - 1], s[k], budget)
          BY <2>5, <4>1
        <4> QED  BY <1>3, <2>2, <3>2, <4>2
      <3> QED  BY <3>1, <3>2 DEF Turns
    <2> QED  BY <1>5, <2>1, <2>6
  <1>7. TakeSentences(<<>>, budget) = Unmade
    <2>1. none \in Seq(Y)
      BY EmptySeq
    <2> QED  BY <1>5, <1>6, <2>1
  <1>8. \A s \in Seq(Y) : TakeSentences(s, budget) \in T
    BY <1>5, <1>6
  <1>9. ASSUME NEW s \in Seq(Y), NEW x \in Y
        PROVE  TakeSentences(Append(s, x), budget) = TakeSentence(TakeSentences(s, budget), x, budget)
    <2>1. Append(s, x) \in Seq(Y)
      BY AppendProperties
    <2>2. TakeSentences(Append(s, x), budget) = turn[<<F[s], x>>] /\ F[s] \in T
      BY <1>5, <1>6, <2>1
    <2> QED  BY <1>3, <1>6, <2>2
  <1> QED  BY <1>7, <1>8, <1>9 DEF T, Y

\* One sentence more in the open chunk.
LEMMA AddedTold ==
    ASSUME NEW X, \A w \in X : SizeOf(w) \in Nat, NEW budget, IsBudget(budget),
           NEW told \in Seq(Seq(X)), NEW make, NEW news, NEW open, NEW x \in Seq(X),
           Told(X, budget, told, make, news, open),
           Len(open) = 0 \/ Tokens(make.current) + Size(x) <= budget.max
    PROVE  Told(X, budget, Append(told, x),
                [chunks |-> make.chunks, current |-> Append(make.current, x)], news, Append(open, x))
  <1> DEFINE Y == Seq(X)
             next == [chunks |-> make.chunks, current |-> Append(make.current, x)]
             b == Before(make.chunks, Len(make.chunks) + 1, budget.overlap)
             joined == FlattenSeq(news)
  <1>1. /\ make.chunks \in Seq(Seq(Y)) /\ make.current \in Seq(Y)
        /\ news \in Seq(Seq(Y)) /\ open \in Seq(Y)
        /\ joined \o open = told /\ make.current = b \o open
    BY DEF Told, Making
  <1>2. next.chunks = make.chunks /\ next.current = Append(make.current, x)
    OBVIOUS
  <1>3. Append(make.current, x) \in Seq(Y) /\ Append(open, x) \in Seq(Y)
    BY <1>1, AppendProperties
  <1>4. next \in Making(X)
    BY <1>1, <1>3 DEF Making
  <1>5. joined \in Seq(Y) /\ b \in Seq(Y)
    <2>1. joined \in Seq(Y)
      BY <1>1, FlattenAppends
    <2>2. b \in Seq(Y)
      <3> DEFINE L == Len(make.chunks)
      <3>1. L \in Nat /\ (L # 0 => L \in 1 .. Len(make.chunks))
        BY <1>1, LenProperties
      <3>2. CASE L = 0
        <4>1. b = <<>>
          BY <3>2 DEF Before
        <4> QED  BY <4>1, EmptySeq
      <3>3. CASE L # 0
        <4>1. make.chunks[L] \in Seq(Y)
          BY <1>1, <3>1, <3>3, ElementOfSeq
        <4>2. L + 1 # 1 /\ (L + 1) - 1 = L
          BY <3>1, <3>3
        <4>3. b = ComputeOverlap(make.chunks[L], budget.overlap)
          BY <4>2 DEF Before
        <4>4. budget.overlap \in Nat
          BY DEF IsBudget
        <4>5. ComputeOverlap(make.chunks[L], budget.overlap) \in Seq(Y)
          BY <4>1, <4>4, OverlapIs
        <4> QED  BY <4>3, <4>5
      <3> QED  BY <3>2, <3>3
    <2> QED  BY <2>1, <2>2
  <1> HIDE DEF b, joined, Y
  <1>6. joined \o Append(open, x) = Append(told, x) /\ Append(make.current, x) = b \o Append(open, x)
    <2>1. x \in Y
      BY DEF Y
    <2>2. joined \o Append(open, x) = Append(joined \o open, x)
      <3>1. joined \in Seq(Y) /\ open \in Seq(Y)
        BY <1>1, <1>5
      <3> QED  BY ONLY <2>1, <3>1, ConcatAppends
    <2>3. b \o Append(open, x) = Append(b \o open, x)
      <3>1. b \in Seq(Y) /\ open \in Seq(Y)
        BY <1>1, <1>5
      <3> QED  BY ONLY <2>1, <3>1, ConcatAppends
    <2> QED  BY <1>1, <2>2, <2>3
  <1>7. Len(Append(open, x)) = 1 \/ Tokens(Append(make.current, x)) <= budget.max
    <2>1. x \in Y /\ Len(Append(open, x)) = Len(open) + 1
      BY <1>1, AppendProperties DEF Y
    <2>2. Tokens(Append(make.current, x)) = Tokens(make.current) + Size(x)
      BY <1>1, TokensJoin DEF Y
    <2> QED  BY <2>1, <2>2
  <1> HIDE DEF next
  <1> QED  BY <1>2, <1>3, <1>4, <1>6, <1>7 DEF Told, b, joined, Y, next

\* The open chunk closed.
LEMMA ClosedTold ==
    ASSUME NEW X, \A w \in X : SizeOf(w) \in Nat, NEW budget, IsBudget(budget),
           NEW told \in Seq(Seq(X)), NEW make, NEW news, NEW open,
           Told(X, budget, told, make, news, open), Len(open) # 0
    PROVE  Told(X, budget, told,
                [chunks |-> Append(make.chunks, make.current),
                 current |-> ComputeOverlap(make.current, budget.overlap)],
                Append(news, open), <<>>)
  <1> DEFINE Y == Seq(X)
             chunks == Append(make.chunks, make.current)
             current == ComputeOverlap(make.current, budget.overlap)
             next == [chunks |-> chunks, current |-> current]
             L == Len(make.chunks)
             none == <<>>
             longer == Append(news, open)
  <1>1. /\ make.chunks \in Seq(Seq(Y)) /\ make.current \in Seq(Y)
        /\ news \in Seq(Seq(Y)) /\ open \in Seq(Y) /\ Len(news) = L
        /\ FlattenSeq(news) \o open = told
        /\ make.current = Before(make.chunks, L + 1, budget.overlap) \o open
    BY DEF Told, Making
  <1>2. next.chunks = chunks /\ next.current = current
    OBVIOUS
  <1>3. L \in Nat
    BY <1>1, LenProperties
  <1>4. /\ chunks \in Seq(Seq(Y)) /\ Len(chunks) = L + 1 /\ chunks[L + 1] = make.current
        /\ \A i \in 1 .. L : chunks[i] = make.chunks[i]
    BY <1>1, AppendProperties
  <1>5. /\ longer \in Seq(Seq(Y)) /\ Len(longer) = L + 1 /\ longer[L + 1] = open
        /\ \A i \in 1 .. L : longer[i] = news[i]
    BY <1>1, AppendProperties
  <1>6. current \in Seq(Y)
    BY <1>1, OverlapIs DEF IsBudget
  <1>7. none \in Seq(Y) /\ Len(none) = 0
    BY EmptySeq
  <1>8. current \o none = current
    BY <1>6, ConcatEmptySeq
  <1>9. FlattenSeq(longer) \o none = told
    <2>1. FlattenSeq(longer) = FlattenSeq(news) \o open
      BY <1>1, FlattenAppends
    <2>2. told \o none = told
      BY ConcatEmptySeq
    <2> HIDE DEF longer
    <2> QED  BY <1>1, <2>1, <2>2
  <1>10. current = Before(chunks, Len(chunks) + 1, budget.overlap)
    <2>1. (L + 1) + 1 # 1 /\ ((L + 1) + 1) - 1 = L + 1
      BY <1>3
    <2> HIDE DEF chunks
    <2> QED  BY <1>4, <2>1 DEF Before
  <1> HIDE DEF chunks, current, none, longer
  <1>11. ASSUME NEW i \in 1 .. L + 1
         PROVE  /\ chunks[i] = Before(chunks, i, budget.overlap) \o longer[i]
                /\ Len(longer[i]) = 1 \/ Tokens(chunks[i]) <= budget.max
    <2>1. Before(chunks, i, budget.overlap) = Before(make.chunks, i, budget.overlap)
      <3>1. i # 1 => i - 1 \in 1 .. L
        BY <1>3
      <3> QED  BY <1>4, <3>1 DEF Before
    <2>2. CASE i \in 1 .. L
      <3>1. /\ make.chunks[i] = Before(make.chunks, i, budget.overlap) \o news[i]
            /\ Len(news[i]) = 1 \/ Tokens(make.chunks[i]) <= budget.max
        BY <1>1, <2>2 DEF Told
      <3> QED  BY <1>4, <1>5, <2>1, <2>2, <3>1
    <2>3. CASE i = L + 1
      <3>1. Len(open) = 1 \/ Tokens(make.current) <= budget.max
        BY DEF Told
      <3> QED  BY <1>1, <1>4, <1>5, <2>1, <2>3, <3>1
    <2>4. i \in 1 .. L \/ i = L + 1
      BY <1>3
    <2> QED  BY <2>2, <2>3, <2>4
  <1>12. next \in Making(X)
    BY <1>4, <1>6 DEF Making, Y
  <1> HIDE DEF next
  <1>13. Told(X, budget, told, next, longer, none)
    BY <1>2, <1>4, <1>5, <1>7, <1>8, <1>9, <1>10, <1>11, <1>12 DEF Told, Y
  <1> QED  BY <1>13 DEF next, longer, none, chunks, current

\* A sentence the overlap has no room for leaves none.
LEMMA GiantLeavesNone ==
    ASSUME NEW X, \A w \in X : SizeOf(w) \in Nat, NEW x \in Seq(X), NEW room \in Nat,
           ~(Size(x) <= room)
    PROVE  ComputeOverlap(<<x>>, room) = <<>>
  <1> DEFINE s == <<x>>
             o == ComputeOverlap(s, room)
  <1>1. s \in Seq(Seq(X)) /\ Len(s) = 1
    OBVIOUS
  <1>2. Tokens(s) = Size(x) /\ SubSeq(s, 1, Len(s)) = s
    BY <1>1, TokensJoin, SubSeqFull
  <1> HIDE DEF s
  <1>3. PICK m \in 0 .. Len(s) :
             /\ o = SubSeq(s, m + 1, Len(s)) /\ o \in Seq(Seq(X)) /\ Len(o) = Len(s) - m
             /\ Tokens(o) <= room
    BY <1>1, OverlapIs
  <1>4. m # 0
    <2> SUFFICES ASSUME m = 0
                 PROVE  FALSE
      OBVIOUS
    <2>1. o = s
      <3>1. m + 1 = 1
        OBVIOUS
      <3> QED  BY <1>2, <1>3, <3>1
    <2> QED  BY <1>2, <1>3, <2>1
  <1> HIDE DEF o
  <1>5. Len(o) = 0
    BY <1>1, <1>3, <1>4
  <1>6. o = <<>>
    BY <1>3, <1>5, EmptySeq
  <1> QED  BY <1>6 DEF o, s

\* Every sentence is in the chunks closed or the one that is open, which is
\* empty where no sentence is.
LEMMA SentencesTold ==
    ASSUME NEW X, \A w \in X : SizeOf(w) \in Nat, NEW budget, IsBudget(budget)
    PROVE  \A s \in Seq(Seq(X)) : \E news \in Seq(Seq(Seq(X))), open \in Seq(Seq(X)) :
              /\ Told(X, budget, s, TakeSentences(s, budget), news, open)
              /\ Len(open) = 0 => TakeSentences(s, budget).current = <<>>
  <1> DEFINE Y == Seq(X)
             Made(s, z, news, open) == /\ Told(X, budget, s, z, news, open)
                                       /\ Len(open) = 0 => z.current = <<>>
             G == {s \in Seq(Y) : \E news \in Seq(Seq(Y)), open \in Seq(Y) :
                                     Made(s, TakeSentences(s, budget), news, open)}
             none == <<>>
  <1>1. /\ TakeSentences(none, budget) = Unmade
        /\ \A s \in Seq(Y) : TakeSentences(s, budget) \in Making(X)
        /\ \A s \in Seq(Y), x \in Y :
              TakeSentences(Append(s, x), budget) = TakeSentence(TakeSentences(s, budget), x, budget)
    BY TakeSentencesAppends
  <1>2. none \in G
    <2>1. none \in Seq(Seq(Y)) /\ none \in Seq(Y) /\ Len(none) = 0 /\ FlattenSeq(none) = none
      BY EmptySeq, FlattenAppends
    <2>2. none \o none = none
      BY <2>1, ConcatEmptySeq
    <2>3. Unmade.chunks = none /\ Unmade.current = none /\ Unmade \in Making(X)
      BY <2>1 DEF Unmade, Making
    <2> HIDE DEF none
    <2>4. Before(none, 1, budget.overlap) = none
      BY DEF Before, none
    <2>5. Len(none) + 1 = 1 /\ \A i \in 1 .. Len(none) : FALSE
      BY <2>1
    <2>6. Told(X, budget, none, Unmade, none, none)
      BY <2>1, <2>2, <2>3, <2>4, <2>5 DEF Told
    <2>7. Made(none, TakeSentences(none, budget), none, none)
      BY <1>1, <2>3, <2>6 DEF none
    <2> HIDE DEF Made
    <2> QED  BY <2>1, <2>7
  <1>3. ASSUME NEW s \in Seq(Y), NEW x \in Y, s \in G
        PROVE  Append(s, x) \in G
    <2> DEFINE z == TakeSentences(s, budget)
               full == /\ Tokens(z.current) + Size(x) > budget.max
                       /\ z.current # none
               chunks == IF full THEN Append(z.chunks, z.current) ELSE z.chunks
               current == IF full THEN ComputeOverlap(z.current, budget.overlap) ELSE z.current
               here == [chunks |-> chunks, current |-> current]
               next == [chunks |-> chunks, current |-> Append(current, x)]
    <2>1. PICK news \in Seq(Seq(Y)), open \in Seq(Y) : Made(s, z, news, open)
      BY <1>3
    <2>2. z \in Making(X)
      BY <1>1
    <2>3. TakeSentences(Append(s, x), budget)
             = IF Size(x) > budget.max /\ current = none
               THEN [chunks |-> Append(chunks, <<x>>), current |-> none]
               ELSE next
      <3>1. TakeSentence(z, x, budget)
               = IF Size(x) > budget.max /\ current = none
                 THEN [chunks |-> Append(chunks, <<x>>), current |-> none]
                 ELSE next
        <4> HIDE DEF z
        <4> QED  BY DEF TakeSentence
      <3> HIDE DEF next, current, chunks
      <3> QED  BY <1>1, <3>1
    <2> HIDE DEF z
    <2>4. /\ z.chunks \in Seq(Seq(Y)) /\ z.current \in Seq(Y)
          /\ z = [chunks |-> z.chunks, current |-> z.current]
      BY <2>2 DEF Making
    <2>5. budget.max \in Nat /\ budget.overlap \in Nat /\ budget.overlap <= budget.max
          /\ Size(x) \in Nat /\ Tokens(z.current) \in Nat
      BY <2>4, TokensJoin DEF IsBudget
    <2>6. none \in Seq(Y) /\ Len(none) = 0 /\ none = <<>>
      BY EmptySeq
    <2> HIDE DEF none
    <2>7. PICK news1 \in Seq(Seq(Y)), open1 \in Seq(Y) :
               /\ Told(X, budget, s, here, news1, open1)
               /\ Len(open1) = 0 \/ Tokens(here.current) + Size(x) <= budget.max
      <3>1. CASE full
        <4>1. Len(open) # 0
          BY <2>1, <3>1 DEF none
        <4>2. here = [chunks |-> Append(z.chunks, z.current),
                      current |-> ComputeOverlap(z.current, budget.overlap)]
          BY <3>1
        <4>3. Told(X, budget, s, [chunks |-> Append(z.chunks, z.current),
                      current |-> ComputeOverlap(z.current, budget.overlap)], Append(news, open), <<>>)
          BY <2>1, <4>1, ClosedTold
        <4>4. Append(news, open) \in Seq(Seq(Y))
          BY <2>1, AppendProperties
        <4> HIDE DEF here, full
        <4>5. Told(X, budget, s, here, Append(news, open), none)
          BY <2>6, <4>2, <4>3
        <4> QED  BY <2>6, <4>4, <4>5
      <3>2. CASE ~full
        <4>1. here = z /\ here.current = z.current
          BY <2>4, <3>2
        <4>2. Len(open) = 0 \/ Tokens(z.current) + Size(x) <= budget.max
          <5>1. CASE z.current = none
            <6> DEFINE b == Before(z.chunks, Len(z.chunks) + 1, budget.overlap)
                       l == Len(z.chunks)
            <6>1. z.current = b \o open
              BY <2>1 DEF Told
            <6>2. b \in Seq(Y)
              <7>1. l \in Nat
                BY <2>4, LenProperties
              <7>2. CASE l = 0
                <8>1. b = none
                  BY <7>2 DEF Before, none
                <8> QED  BY <2>6, <8>1
              <7>3. CASE l # 0
                <8>1. z.chunks[l] \in Seq(Y)
                  <9>1. l \in 1 .. Len(z.chunks)
                    BY <7>1, <7>3
                  <9> QED  BY <2>4, <9>1, ElementOfSeq
                <8>2. l + 1 # 1 /\ (l + 1) - 1 = l
                  BY <7>1, <7>3
                <8>3. b = ComputeOverlap(z.chunks[l], budget.overlap)
                  BY <8>2 DEF Before
                <8>4. ComputeOverlap(z.chunks[l], budget.overlap) \in Seq(Y)
                  BY <2>5, <8>1, OverlapIs
                <8> QED  BY <8>3, <8>4
              <7> QED  BY <7>2, <7>3
            <6> HIDE DEF b
            <6>3. Len(b \o open) = Len(b) + Len(open) /\ Len(b) \in Nat /\ Len(open) \in Nat
              BY <2>1, <6>2, ConcatProperties, LenProperties
            <6> QED  BY <2>6, <5>1, <6>1, <6>3
          <5>2. CASE z.current # none
            BY <2>5, <3>2, <5>2
          <5> QED  BY <5>1, <5>2
        <4> HIDE DEF here, full
        <4> QED  BY <2>1, <4>1, <4>2
      <3> QED  BY <3>1, <3>2
    <2>8. here.chunks = chunks /\ here.current = current
      OBVIOUS
    <2>9. Told(X, budget, Append(s, x), [chunks |-> here.chunks, current |-> Append(here.current, x)],
               news1, Append(open1, x))
      <3> HIDE DEF here
      <3> QED  BY <2>7, AddedTold
    <2>10. Append(open1, x) \in Seq(Y) /\ Len(Append(open1, x)) # 0 /\ Append(s, x) \in Seq(Y)
      <3>1. Len(Append(open1, x)) = Len(open1) + 1 /\ Len(open1) \in Nat
        BY <2>7, AppendProperties, LenProperties
      <3> QED  BY <2>7, <3>1, AppendProperties
    <2> HIDE DEF here, chunks, current
    <2>11. Told(X, budget, Append(s, x), next, news1, Append(open1, x))
      BY <2>8, <2>9
    <2>12. CASE ~(Size(x) > budget.max /\ current = none)
      <3>1. TakeSentences(Append(s, x), budget) = next
        BY <2>3, <2>12
      <3> HIDE DEF next
      <3>2. Made(Append(s, x), TakeSentences(Append(s, x), budget), news1, Append(open1, x))
        BY <2>10, <2>11, <3>1
      <3> HIDE DEF Made
      <3> QED  BY <2>7, <2>10, <3>2
    <2>13. CASE Size(x) > budget.max /\ current = none
      <3> DEFINE last == [chunks |-> Append(chunks, <<x>>), current |-> none]
                 newer == Append(news1, Append(open1, x))
      <3>1. TakeSentences(Append(s, x), budget) = last
        BY <2>3, <2>13
      <3>2. Append(current, x) = <<x>>
        BY <2>13 DEF none
      <3>3. next.chunks = chunks /\ next.current = <<x>>
        BY <3>2
      <3>4. Append(s, x) \in Seq(Seq(X))
        BY <2>10
      <3> HIDE DEF next
      <3>5. Told(X, budget, Append(s, x),
                 [chunks |-> Append(next.chunks, next.current),
                  current |-> ComputeOverlap(next.current, budget.overlap)],
                 newer, <<>>)
        BY <2>10, <2>11, <3>4, ClosedTold
      <3>6. ComputeOverlap(<<x>>, budget.overlap) = <<>>
        <4>1. ~(Size(x) <= budget.overlap)
          BY <2>5, <2>13
        <4> QED  BY <2>5, <4>1, GiantLeavesNone
      <3>7. [chunks |-> Append(next.chunks, next.current),
             current |-> ComputeOverlap(next.current, budget.overlap)] = last
        BY <2>6, <3>3, <3>6
      <3>8. newer \in Seq(Seq(Y))
        BY <2>7, <2>10, AppendProperties
      <3>9. last.current = none
        OBVIOUS
      <3> HIDE DEF last, newer
      <3>10. Made(Append(s, x), TakeSentences(Append(s, x), budget), newer, none)
        BY <2>6, <3>1, <3>5, <3>7, <3>9
      <3> HIDE DEF Made
      <3> QED  BY <2>6, <2>10, <3>8, <3>10
    <2> QED  BY <2>12, <2>13
  <1>4. Seq(Y) \subseteq G
    <2> HIDE DEF G, Y
    <2> QED  BY <1>2, <1>3, SeqInduction DEF none
  <1> QED  BY <1>4

\* The chunks of a text add its sentences one after another.
LEMMA TextTold ==
    ASSUME NEW X, \A w \in X : SizeOf(w) \in Nat, NEW budget, IsBudget(budget), NEW words \in Seq(X)
    PROVE  LET made == SplitIntoChunks(words, budget)
           IN  /\ made \in Seq(Seq(Seq(X)))
               /\ \E news \in Seq(Seq(Seq(X))) :
                     /\ Len(news) = Len(made)
                     /\ FlattenSeq(news) = SplitSentences(words)
                     /\ \A i \in 1 .. Len(made) :
                           /\ made[i] = Before(made, i, budget.overlap) \o news[i]
                           /\ Len(news[i]) = 1 \/ Tokens(made[i]) <= budget.max
  <1> DEFINE Y == Seq(X)
             s == SplitSentences(words)
             end == TakeSentences(s, budget)
             made == SplitIntoChunks(words, budget)
             Tells(chunks, news) ==
                /\ Len(news) = Len(chunks)
                /\ FlattenSeq(news) = s
                /\ \A i \in 1 .. Len(chunks) :
                      /\ chunks[i] = Before(chunks, i, budget.overlap) \o news[i]
                      /\ Len(news[i]) = 1 \/ Tokens(chunks[i]) <= budget.max
             none == <<>>
  <1>1. s \in Seq(Y)
    BY TakeWordsAppends
  <1>2. made = IF end.current = none THEN end.chunks ELSE Append(end.chunks, end.current)
    BY DEF SplitIntoChunks
  <1> HIDE DEF s, made
  <1>3. PICK news \in Seq(Seq(Y)), open \in Seq(Y) :
             Told(X, budget, s, end, news, open) /\ (Len(open) = 0 => end.current = none)
    BY <1>1, SentencesTold
  <1> HIDE DEF end
  <1>4. ASSUME NEW make, NEW more, Told(X, budget, s, make, more, none)
        PROVE  make.chunks \in Seq(Seq(Y)) /\ more \in Seq(Seq(Y)) /\ Tells(make.chunks, more)
    <2>1. /\ make.chunks \in Seq(Seq(Y)) /\ more \in Seq(Seq(Y)) /\ Len(more) = Len(make.chunks)
          /\ FlattenSeq(more) \o none = s
      BY <1>4 DEF Told, Making
    <2>2. FlattenSeq(more) \o none = FlattenSeq(more)
      <3>1. FlattenSeq(more) \in Seq(Y)
        BY <2>1, FlattenAppends
      <3> QED  BY <3>1, ConcatEmptySeq
    <2>3. \A i \in 1 .. Len(more) :
              /\ make.chunks[i] = Before(make.chunks, i, budget.overlap) \o more[i]
              /\ Len(more[i]) = 1 \/ Tokens(make.chunks[i]) <= budget.max
      BY <1>4 DEF Told
    <2> QED  BY <2>1, <2>2, <2>3
  <1>5. CASE end.current = none
    <2>1. open = none
      <3> DEFINE b == Before(end.chunks, Len(end.chunks) + 1, budget.overlap)
                 l == Len(end.chunks)
      <3>1. end.current = b \o open /\ end.chunks \in Seq(Seq(Y))
        BY <1>3 DEF Told, Making
      <3>2. b \in Seq(Y)
        <4>1. l \in Nat
          BY <3>1, LenProperties
        <4>2. CASE l = 0
          <5>1. b = none
            BY <4>2 DEF Before
          <5> QED  BY <5>1, EmptySeq
        <4>3. CASE l # 0
          <5>1. end.chunks[l] \in Seq(Y)
            <6>1. l \in 1 .. Len(end.chunks)
              BY <4>1, <4>3
            <6> QED  BY <3>1, <6>1, ElementOfSeq
          <5>2. l + 1 # 1 /\ (l + 1) - 1 = l
            BY <4>1, <4>3
          <5>3. b = ComputeOverlap(end.chunks[l], budget.overlap)
            BY <5>2 DEF Before
          <5>4. ComputeOverlap(end.chunks[l], budget.overlap) \in Seq(Y)
            BY <5>1, OverlapIs DEF IsBudget
          <5> QED  BY <5>3, <5>4
        <4> QED  BY <4>2, <4>3
      <3> HIDE DEF b
      <3> QED  BY <1>3, <1>5, <3>1, <3>2, ConcatEqualIffEmpty
    <2> HIDE DEF none, Tells
    <2>2. Told(X, budget, s, end, news, none)
      BY <1>3, <2>1
    <2>3. made = end.chunks
      BY <1>2, <1>5
    <2>4. made \in Seq(Seq(Y)) /\ Tells(made, news)
      BY <1>4, <2>2, <2>3
    <2> QED  BY <1>3, <2>4 DEF Tells, made, s
  <1>6. CASE end.current # none
    <2> DEFINE make == [chunks |-> Append(end.chunks, end.current),
                        current |-> ComputeOverlap(end.current, budget.overlap)]
               more == Append(news, open)
    <2>1. Told(X, budget, s, make, more, none)
      <3>1. Len(open) # 0
        BY <1>3, <1>6
      <3> QED  BY <1>1, <1>3, <3>1, ClosedTold
    <2>2. make.chunks = made
      BY <1>2, <1>6
    <2> HIDE DEF none, Tells, make, more
    <2>3. made \in Seq(Seq(Y)) /\ more \in Seq(Seq(Y)) /\ Tells(made, more)
      BY <1>4, <2>1, <2>2
    <2> QED  BY <2>3 DEF Tells, made, s
  <1> QED  BY <1>5, <1>6

\* Among blocks that are joined, each is what lies between the first and the
\* last of its elements.
LEMMA BlockIsStretch ==
    ASSUME NEW R, NEW blocks \in Seq(Seq(R)), NEW k \in 1 .. Len(blocks),
           \A j \in 1 .. Len(blocks) : \A r \in Range(blocks[j]) : r.section = j - 1
    PROVE  LET whole == FlattenSeq(blocks)
           IN  Stretch(whole, {i \in DOMAIN whole : whole[i].section = k - 1}) = blocks[k]
  <1> DEFINE Y == Seq(R)
             N == Len(blocks)
             front == SubSeq(blocks, 1, k - 1)
             back == SubSeq(blocks, k + 1, N)
             pre == FlattenSeq(front)
             mid == blocks[k]
             post == FlattenSeq(back)
             whole == FlattenSeq(blocks)
             at == {i \in DOMAIN whole : whole[i].section = k - 1}
             lo == Len(pre) + 1
             hi == Len(pre) + Len(mid)
  <1>1. N \in Nat /\ \A j \in 1 .. N : blocks[j] \in Y
    BY LenProperties, ElementOfSeq
  <1>2. /\ front \in Seq(Y) /\ Len(front) = k - 1
        /\ \A j \in 1 .. k - 1 : front[j] = blocks[j]
    <2> DEFINE a == 1
               b == k - 1
    <2>1. blocks \in Seq(Y) /\ a \in Nat /\ b \in Nat /\ 1 <= a /\ a <= b + 1 /\ b <= Len(blocks)
      BY <1>1
    <2> HIDE DEF a, b, Y
    <2>2. /\ SubSeq(blocks, a, b) \in Seq(Y) /\ Len(SubSeq(blocks, a, b)) = b - a + 1
          /\ \A j \in 1 .. b - a + 1 : SubSeq(blocks, a, b)[j] = blocks[a + j - 1]
      BY ONLY <2>1, CutFacts
    <2>3. b - a + 1 = k - 1 /\ \A j \in 1 .. k - 1 : a + j - 1 = j
      BY <1>1 DEF a, b
    <2> QED  BY <2>2, <2>3 DEF a, b
  <1>3. /\ back \in Seq(Y) /\ Len(back) = N - k
        /\ \A j \in 1 .. N - k : back[j] = blocks[k + j]
    <2> DEFINE a == k + 1
               b == N
    <2>1. blocks \in Seq(Y) /\ a \in Nat /\ b \in Nat /\ 1 <= a /\ a <= b + 1 /\ b <= Len(blocks)
      BY <1>1
    <2> HIDE DEF a, b, Y
    <2>2. /\ SubSeq(blocks, a, b) \in Seq(Y) /\ Len(SubSeq(blocks, a, b)) = b - a + 1
          /\ \A j \in 1 .. b - a + 1 : SubSeq(blocks, a, b)[j] = blocks[a + j - 1]
      BY ONLY <2>1, CutFacts
    <2>3. b - a + 1 = N - k /\ \A j \in 1 .. N - k : a + j - 1 = k + j
      BY <1>1 DEF a, b
    <2> QED  BY <2>2, <2>3 DEF a, b
  <1>4. blocks = (front \o <<mid>>) \o back
    <2>1. k \in 1 .. N /\ 1 \in 1 .. N /\ k - 1 \in 0 .. N /\ N \in k .. N /\ k \in 1 .. Len(blocks)
      BY <1>1
    <2> HIDE DEF Y, N
    <2>2. SubSeq(blocks, 1, k) = front \o <<mid>>
      <3>1. 1 \in 1 .. Len(blocks) /\ k \in 1 .. Len(blocks)
        BY <2>1 DEF N
      <3> QED  BY <3>1, SubSeqRecursiveSecond
    <2>3. SubSeq(blocks, 1, k) \o back = SubSeq(blocks, 1, N)
      <3> DEFINE n == N
                 one == 1
      <3>1. /\ blocks \in Seq(Y) /\ one \in 1 .. Len(blocks) + 1 /\ k \in one - 1 .. Len(blocks)
            /\ n \in k .. Len(blocks)
        BY <1>1, <2>1 DEF N, Y
      <3> HIDE DEF n, one
      <3>2. SubSeq(blocks, one, k) \o SubSeq(blocks, k + 1, n) = SubSeq(blocks, one, n)
        BY ONLY <3>1, ConcatAdjacentSubSeq
      <3> QED  BY <3>2 DEF n, one
    <2>4. SubSeq(blocks, 1, N) = blocks
      BY SubSeqFull DEF N
    <2> QED  BY <2>2, <2>3, <2>4
  <1>5. /\ pre \in Y /\ post \in Y /\ mid \in Y
        /\ whole = (pre \o mid) \o post
    <2>1. pre \in Y /\ post \in Y /\ mid \in Y
      BY <1>1, <1>2, <1>3, FlattenAppends
    <2>2. <<mid>> \in Seq(Y) /\ front \o <<mid>> \in Seq(Y)
      <3>1. <<mid>> \in Seq(Y)
        BY <2>1
      <3> HIDE DEF Y
      <3> QED  BY <1>2, <3>1, ConcatProperties
    <2>3. FlattenSeq(<<mid>>) = mid
      <3>1. [j \in 1 .. 1 |-> mid] = <<mid>>
        BY SMT
      <3> QED  BY <2>1, <3>1, FlattenFew
    <2>4. FlattenSeq(front \o <<mid>>) = pre \o FlattenSeq(<<mid>>)
      BY <1>2, <2>2, FlattenJoins
    <2>5. FlattenSeq((front \o <<mid>>) \o back) = FlattenSeq(front \o <<mid>>) \o post
      BY <1>3, <2>2, FlattenJoins
    <2> QED  BY <1>4, <2>1, <2>3, <2>4, <2>5
  <1>6. \A r \in Range(pre) : r.section # k - 1
    <2>1. Range(pre) = UNION {Range(front[j]) : j \in 1 .. Len(front)}
      BY <1>2, FlattenRange
    <2>2. ASSUME NEW j \in 1 .. k - 1, NEW r \in Range(front[j])
          PROVE  r.section # k - 1
      <3>1. front[j] = blocks[j] /\ j \in 1 .. Len(blocks) /\ j - 1 # k - 1
        BY <1>1, <1>2
      <3> QED  BY <2>2, <3>1
    <2> HIDE DEF pre, front
    <2> QED  BY <1>2, <2>1, <2>2
  <1>7. \A r \in Range(post) : r.section # k - 1
    <2>1. Range(post) = UNION {Range(back[j]) : j \in 1 .. Len(back)}
      BY <1>3, FlattenRange
    <2>2. ASSUME NEW j \in 1 .. N - k, NEW r \in Range(back[j])
          PROVE  r.section # k - 1
      <3>1. back[j] = blocks[k + j] /\ k + j \in 1 .. Len(blocks) /\ k + j - 1 # k - 1
        BY <1>1, <1>3
      <3> QED  BY <2>2, <3>1
    <2> HIDE DEF post, back
    <2> QED  BY <1>3, <2>1, <2>2
  <1>8. \A r \in Range(mid) : r.section = k - 1
    OBVIOUS
  <1> HIDE DEF pre, mid, post, whole, Y
  <1>9. /\ Len(pre) \in Nat /\ Len(mid) \in Nat /\ Len(post) \in Nat
        /\ pre \o mid \in Y /\ whole \in Y
        /\ Len(whole) = Len(pre) + Len(mid) + Len(post)
        /\ \A i \in 1 .. Len(pre) + Len(mid) + Len(post) :
              whole[i] = IF i <= Len(pre) THEN pre[i]
                         ELSE IF i <= Len(pre) + Len(mid) THEN mid[i - Len(pre)]
                         ELSE post[i - (Len(pre) + Len(mid))]
    <2>1. Len(pre) \in Nat /\ Len(mid) \in Nat /\ Len(post) \in Nat
      BY <1>5, LenProperties DEF Y
    <2>2. /\ pre \o mid \in Y /\ Len(pre \o mid) = Len(pre) + Len(mid)
          /\ \A i \in 1 .. Len(pre) + Len(mid) :
                (pre \o mid)[i] = IF i <= Len(pre) THEN pre[i] ELSE mid[i - Len(pre)]
      BY <1>5, ConcatProperties DEF Y
    <2> DEFINE two == pre \o mid
    <2> HIDE DEF two
    <2>3. /\ whole \in Y /\ Len(whole) = Len(two) + Len(post)
          /\ \A i \in 1 .. Len(two) + Len(post) :
                whole[i] = IF i <= Len(two) THEN two[i] ELSE post[i - Len(two)]
      BY <1>5, <2>2, ConcatProperties DEF Y, two
    <2>4. ASSUME NEW i \in 1 .. Len(pre) + Len(mid) + Len(post)
          PROVE  whole[i] = IF i <= Len(pre) THEN pre[i]
                            ELSE IF i <= Len(pre) + Len(mid) THEN mid[i - Len(pre)]
                            ELSE post[i - (Len(pre) + Len(mid))]
      <3>1. i \in 1 .. Len(two) + Len(post) /\ Len(two) = Len(pre) + Len(mid)
        BY <2>1, <2>2 DEF two
      <3>2. i <= Len(two) => two[i] = IF i <= Len(pre) THEN pre[i] ELSE mid[i - Len(pre)]
        BY <2>1, <2>2, <3>1 DEF two
      <3>3. i <= Len(pre) => i <= Len(two)
        BY <2>1, <3>1
      <3> QED  BY <2>3, <3>1, <3>2, <3>3
    <2> QED  BY <2>1, <2>2, <2>3, <2>4 DEF two
  <1>10. \A i \in 1 .. Len(pre) + Len(mid) + Len(post) :
             whole[i].section = k - 1 <=> lo <= i /\ i <= hi
    <2> TAKE i \in 1 .. Len(pre) + Len(mid) + Len(post)
    <2>1. DOMAIN pre = 1 .. Len(pre) /\ DOMAIN mid = 1 .. Len(mid) /\ DOMAIN post = 1 .. Len(post)
      BY <1>5, LenProperties DEF Y
    <2>2. CASE i <= Len(pre)
      <3>1. i \in DOMAIN pre /\ whole[i] = pre[i] /\ ~(lo <= i)
        BY <1>9, <2>1, <2>2
      <3>2. pre[i] \in Range(pre)
        BY <3>1 DEF Range
      <3> QED  BY <1>6, <3>1, <3>2
    <2>3. CASE lo <= i /\ i <= hi
      <3>1. i - Len(pre) \in DOMAIN mid /\ ~(i <= Len(pre))
        BY <1>9, <2>1, <2>3
      <3>2. whole[i] = mid[i - Len(pre)]
        BY <1>9, <2>3, <3>1
      <3>3. mid[i - Len(pre)] \in Range(mid)
        BY <3>1 DEF Range
      <3> QED  BY <1>8, <2>3, <3>2, <3>3
    <2>4. CASE ~(i <= hi)
      <3>1. i - (Len(pre) + Len(mid)) \in DOMAIN post /\ ~(i <= Len(pre)) /\ ~(i <= Len(pre) + Len(mid))
        BY <1>9, <2>1, <2>4
      <3>2. whole[i] = post[i - (Len(pre) + Len(mid))]
        BY <1>9, <3>1
      <3>3. post[i - (Len(pre) + Len(mid))] \in Range(post)
        BY <3>1 DEF Range
      <3> QED  BY <1>7, <2>4, <3>2, <3>3
    <2> QED  BY <1>9, <2>2, <2>3, <2>4
  <1>11. \A i : i \in at <=> i \in lo .. hi
    <2>1. DOMAIN whole = 1 .. Len(pre) + Len(mid) + Len(post)
      BY <1>9, LenProperties DEF Y
    <2> TAKE i
    <2>2. i \in lo .. hi <=> i \in 1 .. Len(pre) + Len(mid) + Len(post) /\ lo <= i /\ i <= hi
      BY <1>9
    <2> QED  BY <1>10, <2>1, <2>2
  <1> HIDE DEF at
  <1>12. Stretch(whole, at) = SubSeq(whole, lo, hi)
    <2>1. /\ whole \in Seq(R) /\ lo \in Nat /\ hi \in Nat /\ 1 <= lo /\ lo <= hi + 1
          /\ hi <= Len(whole)
      BY <1>9 DEF Y
    <2> HIDE DEF lo, hi
    <2> QED  BY ONLY <1>11, <2>1, CutOfPlaces
  <1>13. SubSeq(whole, lo, hi) = mid
    <2>1. whole \in Seq(R) /\ lo \in Nat /\ hi \in Nat /\ 1 <= lo /\ lo <= hi + 1 /\ hi <= Len(whole)
      BY <1>9 DEF Y
    <2>2. hi - lo + 1 = Len(mid) /\ \A i \in 1 .. Len(mid) : lo + i - 1 = Len(pre) + i
      BY <1>9
    <2>3. \A i \in 1 .. Len(mid) : whole[Len(pre) + i] = mid[i]
      <3> TAKE i \in 1 .. Len(mid)
      <3>1. /\ Len(pre) + i \in 1 .. Len(pre) + Len(mid) + Len(post)
            /\ ~(Len(pre) + i <= Len(pre)) /\ Len(pre) + i <= Len(pre) + Len(mid)
            /\ Len(pre) + i - Len(pre) = i
        BY <1>9
      <3> QED  BY <1>9, <3>1
    <2> HIDE DEF lo, hi
    <2>4. /\ SubSeq(whole, lo, hi) \in Seq(R) /\ Len(SubSeq(whole, lo, hi)) = hi - lo + 1
          /\ \A i \in 1 .. hi - lo + 1 : SubSeq(whole, lo, hi)[i] = whole[lo + i - 1]
      BY ONLY <2>1, CutFacts
    <2>5. \A i \in 1 .. Len(mid) : SubSeq(whole, lo, hi)[i] = mid[i]
      BY <2>2, <2>3, <2>4
    <2>6. mid \in Seq(R) /\ Len(SubSeq(whole, lo, hi)) = Len(mid)
      BY <1>5, <2>2, <2>4 DEF Y
    <2> QED  BY ONLY <2>4, <2>5, <2>6, SeqEqual
  <1> QED  BY <1>12, <1>13 DEF at, whole, mid

(***************************************************************************)
(* The summary and the passages.                                           *)
(***************************************************************************)
\* What a summary is cut to has room in the reserve.
LEMMA SummaryFits ==
    ASSUME NEW X, \A w \in X : SizeOf(w) \in Nat, NEW words \in Seq(X), NEW max \in Nat
    PROVE  Size(TruncateSummary(words, max)) \in Nat /\ Size(TruncateSummary(words, max)) <= max
  <1> DEFINE Y == Seq(X)
             s == SplitSentences(words)
             none == <<>>
             whole == {i \in 0 .. Len(s) : Tokens(SubSeq(s, 1, i)) <= max}
             parts == {i \in 0 .. Len(words) : Size(SubSeq(words, 1, i)) <= max}
  <1>1. s \in Seq(Y) /\ Len(s) \in Nat /\ Len(words) \in Nat
    <2>1. s \in Seq(Y)
      BY TakeWordsAppends
    <2> HIDE DEF s
    <2> QED  BY <2>1, LenProperties
  <1> HIDE DEF s
  <1>2. Tokens(none) = 0 /\ Size(none) = 0 /\ \A x \in Y : Size(x) \in Nat
    BY TokensJoin, SizeAppends
  <1>3. SubSeq(s, 1, 0) = none /\ SubSeq(words, 1, 0) = none
    BY SubSeqEmpty
  <1> HIDE DEF none
  <1>4. Max(whole) \in whole
    <2>1. 0 \in whole
      <3>1. Tokens(SubSeq(s, 1, 0)) = 0
        BY <1>2, <1>3
      <3> QED  BY <1>1, <3>1
    <2>2. \A i \in whole : i \in Nat /\ i <= Len(s)
      BY <1>1
    <2> HIDE DEF whole
    <2>3. whole \in SUBSET Nat /\ whole # {}
      BY <2>1, <2>2
    <2> QED  BY <1>1, <2>2, <2>3, GreatestExists
  <1>5. Max(parts) \in parts
    <2>1. 0 \in parts
      <3>1. Size(SubSeq(words, 1, 0)) = 0
        BY <1>2, <1>3
      <3> QED  BY <1>1, <3>1
    <2>2. \A i \in parts : i \in Nat /\ i <= Len(words)
      BY <1>1
    <2> HIDE DEF parts
    <2>3. parts \in SUBSET Nat /\ parts # {}
      BY <2>1, <2>2
    <2> QED  BY <1>1, <2>2, <2>3, GreatestExists
  <1> DEFINE cut == TruncateSummary(words, max)
             k == Max(whole)
  <1>6. cut = IF Size(words) <= max THEN words
              ELSE IF k > 0 THEN FlattenSeq(SubSeq(s, 1, k))
              ELSE SubSeq(words, 1, Max(parts))
    BY DEF TruncateSummary, LongestPrefix, s
  <1>7. Size(FlattenSeq(SubSeq(s, 1, k))) <= max /\ Size(SubSeq(words, 1, Max(parts))) <= max
    BY <1>4, <1>5 DEF Tokens
  <1>8. FlattenSeq(SubSeq(s, 1, k)) \in Y /\ SubSeq(words, 1, Max(parts)) \in Y
    <2>1. k \in Nat /\ k <= Len(s) /\ Max(parts) \in Nat /\ Max(parts) <= Len(words)
      BY <1>1, <1>4, <1>5
    <2> DEFINE m == Max(parts)
               one == 1
    <2> HIDE DEF k, m, parts, whole
    <2>2. /\ one \in Nat /\ 1 <= one /\ one <= k + 1 /\ one <= m + 1 /\ m \in Nat /\ m <= Len(words)
      BY <2>1 DEF m
    <2> HIDE DEF one
    <2>3. SubSeq(s, one, k) \in Seq(Y)
      <3>1. s \in Seq(Y) /\ k \in Nat /\ k <= Len(s)
        BY <1>1, <2>1
      <3> HIDE DEF Y
      <3> QED  BY ONLY <2>2, <3>1, CutFacts
    <2>4. SubSeq(words, one, m) \in Seq(X)
      <3>1. words \in Seq(X)
        OBVIOUS
      <3> QED  BY ONLY <2>2, <3>1, CutFacts
    <2>5. FlattenSeq(SubSeq(s, one, k)) \in Y
      BY <2>3, FlattenAppends
    <2> QED  BY <2>4, <2>5 DEF one, m
  <1> HIDE DEF k, parts, cut
  <1> QED  BY <1>2, <1>6, <1>7, <1>8 DEF cut

\* The words of a text that have a length: all that its lines consist of.
Sized(t) == {w \in AllWords(t) : SizeOf(w) \in Nat}

LEMMA LinesAreSized ==
    ASSUME NEW t \in DOMAIN Templates, NEW l \in TextLines(t)
    PROVE  LineWords(l) \in Seq(Sized(t))
  <1>1. l \in SegmentLines(t)
    BY DEF SegmentLines
  <1>2. /\ LineWords(l) \in Seq(AllWords(t))
        /\ \A w \in Range(LineWords(l)) : w[1] = "run" => w[2] \in Nat
    BY <1>1, SegmentLineWords
  <1>3. \A i \in 1 .. Len(LineWords(l)) : LineWords(l)[i] \in Sized(t)
    <2> TAKE i \in 1 .. Len(LineWords(l))
    <2> DEFINE w == LineWords(l)[i]
    <2>1. w \in AllWords(t) /\ i \in DOMAIN LineWords(l)
      BY <1>2, ElementOfSeq, LenProperties
    <2>2. w \in Range(LineWords(l))
      BY <2>1 DEF Range
    <2> HIDE DEF w
    <2>3. w[1] = "run" => w[2] \in Nat
      BY <1>2, <2>2
    <2>4. SizeOf(w) \in Nat
      BY <2>3 DEF SizeOf
    <2>5. w \in Sized(t)
      BY <2>1, <2>4 DEF Sized
    <2> QED  BY <2>5 DEF w
  <1> QED  BY <1>2, <1>3, SeqNarrower

\* The budget leaves the overlap less than a chunk.
LEMMA BudgetIs ==
    ASSUME NEW window \in Nat, VerifyWindow(window)
    PROVE  LET budget == ComputeBudget(window)
           IN  /\ IsBudget(budget) /\ budget.summary = SummaryReserve
               /\ budget.max + SpecialTokens + PrefixTokens + SeparatorTokens + SummaryReserve
                     + SafetyMargin = window
               /\ {SpecialTokens, PrefixTokens, SeparatorTokens, SummaryReserve, SafetyMargin}
                     \subseteq Nat
  <1> DEFINE max == window - FixedOverhead
             o == max \div OverlapShare
  <1>1. /\ SpecialTokens \in Nat /\ PrefixTokens \in Nat /\ SeparatorTokens \in Nat
        /\ SummaryReserve \in Nat /\ SafetyMargin \in Nat /\ OverlapShare \in Nat /\ OverlapShare # 0
    BY BoundsAssumption
  <1>2. /\ max \in Nat
        /\ max + SpecialTokens + PrefixTokens + SeparatorTokens + SummaryReserve + SafetyMargin = window
    BY <1>1 DEF VerifyWindow, FixedOverhead
  <1> HIDE DEF max
  <1>3. o \in Nat /\ o <= max
    BY <1>1, <1>2
  <1> HIDE DEF o
  <1>4. ComputeBudget(window) = [max |-> max, overlap |-> o, summary |-> SummaryReserve]
    BY DEF ComputeBudget, max, o
  <1> QED  BY <1>1, <1>2, <1>3, <1>4 DEF IsBudget

\* The chunks of a segment as they are stored.
Stored(made, section) == [i \in DOMAIN made |-> [sentences |-> made[i], section |-> section]]

\* The chunks stored for a section are those of its segment.
LEMMA SectionChunksAre ==
    ASSUME TextHolds, NEW budget, IsBudget(budget),
           NEW k \in 0 .. Cardinality({i \in DOMAIN text : text[i].kind = "label"})
    PROVE  LET whole == SplitDocumentIntoChunks(SplitDocument(text), budget)
               made == SplitIntoChunks(Words(SegmentOf(k)), budget)
           IN  /\ Words(SegmentOf(k)) \in Seq(Sized(template))
               /\ Stretch(whole, {i \in DOMAIN whole : whole[i].section = k}) = Stored(made, k)
  <1> DEFINE R == TextLines(template)
             X == Sized(template)
             Y == Seq(X)
             Rec == [sentences : Seq(Y), section : Nat]
             segments == SplitDocument(text)
             app == segments.appendices
             labels == LinesOf(text, {"label"})
             K == Cardinality(labels)
             of(j) == Stored(SplitIntoChunks(Words(SegmentOf(j)), budget), j)
             first == of(0)
             rest == [j \in 1 .. K |-> of(j)]
             blocks == <<first>> \o rest
             whole == SplitDocumentIntoChunks(segments, budget)
  <1>1. template \in DOMAIN Templates
    BY DEF TextHolds
  <1>2. labels = {i \in DOMAIN text : text[i].kind = "label"}
    BY DEF LinesOf
  <1>3. K \in Nat /\ app \in Seq(Seq(R)) /\ Len(app) = K /\ DOMAIN app = 1 .. K
    <2>1. K \in Nat /\ app \in Seq(Seq(R)) /\ Len(app) = K
      BY AppendicesAre
    <2> HIDE DEF app, R, K
    <2> QED  BY <2>1, LenProperties
  <1>4. k \in 0 .. K
    BY <1>2
  <1>5. \A l \in R : LineWords(l) \in Y
    BY <1>1, LinesAreSized
  <1>6. \A w \in X : SizeOf(w) \in Nat
    BY DEF Sized
  <1>7. ASSUME NEW j \in 0 .. K
        PROVE  Words(SegmentOf(j)) \in Y
    <2>1. j \in 0 .. Cardinality({i \in DOMAIN text : text[i].kind = "label"})
      BY <1>2
    <2>2. SegmentOf(j) \in Seq(R)
      BY <2>1, SectionsAre
    <2> QED  BY <1>5, <2>2, WordsAppend
  <1> HIDE DEF X, Y, R, labels, K
  <1>8. ASSUME NEW j \in 0 .. K
        PROVE  of(j) \in Seq(Rec) /\ \A r \in Range(of(j)) : r.section = j
    <2> DEFINE made == SplitIntoChunks(Words(SegmentOf(j)), budget)
               g == of(j)
    <2>1. made \in Seq(Seq(Y))
      <3>1. Words(SegmentOf(j)) \in Seq(X)
        BY <1>7 DEF Y
      <3>2. made \in Seq(Seq(Seq(X)))
        BY <1>6, <3>1, TextTold
      <3> QED  BY <3>2 DEF Y
    <2>2. /\ DOMAIN made = 1 .. Len(made) /\ Len(made) \in Nat
          /\ \A i \in 1 .. Len(made) : made[i] \in Seq(Y)
      <3> HIDE DEF made
      <3> QED  BY <2>1, LenProperties, ElementOfSeq
    <2>3. j \in Nat
      BY <1>3
    <2>4. g = [i \in DOMAIN made |-> [sentences |-> made[i], section |-> j]]
      BY DEF Stored
    <2> HIDE DEF made, g
    <2>5. \A i \in 1 .. Len(made) : g[i] \in Rec /\ g[i].section = j
      BY <2>2, <2>3, <2>4
    <2>6. DOMAIN g = 1 .. Len(made)
      BY <2>2, <2>4
    <2> HIDE DEF Rec
    <2>7. g \in Seq(Rec)
      <3>1. g \in [1 .. Len(made) -> Rec]
        BY <2>2, <2>4, <2>5, <2>6
      <3> QED  BY <2>2, <3>1, SeqDef
    <2>8. \A r \in Range(g) : r.section = j
      BY <2>5, <2>6 DEF Range
    <2> QED  BY <2>7, <2>8 DEF g
  <1>9. whole = first \o FlattenSeq(rest)
    <2>1. SegmentOf(0) = segments.body /\ \A j \in 1 .. K : SegmentOf(j) = app[j]
      <3>1. 0 = 0 /\ \A j \in 1 .. K : j # 0
        BY <1>3
      <3> QED  BY <3>1 DEF SegmentOf
    <2> DEFINE block(lines, section) == Stored(SplitIntoChunks(Words(lines), budget), section)
    <2>2. whole = block(segments.body, 0) \o FlattenSeq([j \in DOMAIN app |-> block(app[j], j)])
      BY DEF SplitDocumentIntoChunks, Stored
    <2>3. [j \in DOMAIN app |-> block(app[j], j)] = rest
      BY <1>3, <2>1
    <2> QED  BY <2>1, <2>2, <2>3
  <1> HIDE DEF whole
  <1>10. first \in Seq(Rec) /\ \A j \in 1 .. K : rest[j] \in Seq(Rec)
    <2>1. 0 \in 0 .. K /\ \A j \in 1 .. K : j \in 0 .. K
      BY <1>3
    <2> HIDE DEF Rec
    <2> QED  BY <1>8, <2>1
  <1>11. rest \in Seq(Seq(Rec)) /\ Len(rest) = K
    <2>1. rest \in [1 .. K -> Seq(Rec)] /\ DOMAIN rest = 1 .. K
      BY <1>10
    <2> HIDE DEF rest, Rec
    <2>2. rest \in Seq(Seq(Rec))
      BY <1>3, <2>1, SeqDef
    <2> QED  BY <1>3, <2>1, <2>2, LenProperties
  <1>12. /\ <<first>> \in Seq(Seq(Rec)) /\ Len(<<first>>) = 1 /\ <<first>>[1] = first
         /\ FlattenSeq(<<first>>) = first
    <2> HIDE DEF first, Rec
    <2>1. [j \in 1 .. 1 |-> first] = <<first>>
      BY SMT
    <2>2. <<first>> \in Seq(Seq(Rec)) /\ Len(<<first>>) = 1 /\ <<first>>[1] = first
      BY <1>10
    <2> QED  BY <1>10, <2>1, <2>2, FlattenFew
  <1> DEFINE one == <<first>>
  <1>13. /\ blocks \in Seq(Seq(Rec)) /\ Len(blocks) = 1 + K
         /\ blocks[1] = of(0) /\ \A j \in 1 .. K : blocks[j + 1] = of(j)
         /\ FlattenSeq(blocks) = whole
    <2>1. one \in Seq(Seq(Rec)) /\ Len(one) = 1 /\ one[1] = of(0) /\ FlattenSeq(one) = first
      BY <1>12
    <2>2. \A j \in 1 .. K : rest[j] = of(j)
      OBVIOUS
    <2> HIDE DEF one, rest, Rec, first
    <2>3. /\ one \o rest \in Seq(Seq(Rec)) /\ Len(one \o rest) = Len(one) + Len(rest)
          /\ \A i \in 1 .. Len(one) + Len(rest) :
                (one \o rest)[i] = IF i <= Len(one) THEN one[i] ELSE rest[i - Len(one)]
      BY <1>11, <2>1, ConcatProperties
    <2>4. FlattenSeq(one \o rest) = first \o FlattenSeq(rest)
      BY <1>11, <2>1, FlattenJoins
    <2>5. 1 \in 1 .. 1 + K /\ \A j \in 1 .. K : j + 1 \in 1 .. 1 + K /\ ~(j + 1 <= 1) /\ (j + 1) - 1 = j
      BY <1>3
    <2>6. blocks = one \o rest
      BY DEF one
    <2> DEFINE joined == one \o rest
    <2> HIDE DEF joined, blocks
    <2>7. joined[1] = one[1] /\ \A j \in 1 .. K : joined[j + 1] = rest[j]
      <3>1. \A i \in 1 .. 1 + K : joined[i] = IF i <= 1 THEN one[i] ELSE rest[i - 1]
        BY <1>11, <2>1, <2>3 DEF joined
      <3>2. joined[1] = one[1]
        BY <2>5, <3>1
      <3>3. ASSUME NEW j \in 1 .. K
            PROVE  joined[j + 1] = rest[j]
        <4>1. joined[j + 1] = rest[(j + 1) - 1] /\ (j + 1) - 1 = j
          BY <2>5, <3>1
        <4> QED  BY <4>1
      <3> QED  BY <3>2, <3>3
    <2> QED  BY <1>9, <1>11, <2>1, <2>2, <2>3, <2>4, <2>6, <2>7 DEF joined
  <1>14. \A j \in 1 .. Len(blocks) : blocks[j] = of(j - 1) /\ j - 1 \in 0 .. K
    <2> TAKE j \in 1 .. Len(blocks)
    <2> HIDE DEF blocks
    <2>1. j = 1 \/ (j - 1 \in 1 .. K /\ (j - 1) + 1 = j)
      BY <1>3, <1>13
    <2>2. j - 1 \in 0 .. K /\ (j = 1 => j - 1 = 0)
      BY <1>3, <1>13
    <2>3. CASE j = 1
      BY <1>13, <2>2, <2>3
    <2>4. CASE j # 1
      <3>1. blocks[(j - 1) + 1] = of(j - 1)
        BY <1>13, <2>1, <2>4
      <3> QED  BY <2>1, <2>2, <2>4, <3>1
    <2> QED  BY <2>3, <2>4
  <1>15. \A j \in 1 .. Len(blocks) : \A r \in Range(blocks[j]) : r.section = j - 1
    BY <1>8, <1>14
  <1>16. k + 1 \in 1 .. Len(blocks) /\ (k + 1) - 1 = k
    <2> HIDE DEF blocks
    <2> QED  BY <1>3, <1>4, <1>13
  <1>17. Stretch(whole, {i \in DOMAIN whole : whole[i].section = k}) = blocks[k + 1]
    <2> DEFINE n == k + 1
    <2> HIDE DEF blocks, Rec, n
    <2>1. blocks \in Seq(Seq(Rec)) /\ n \in 1 .. Len(blocks) /\ n - 1 = k
      BY <1>13, <1>16 DEF n
    <2>2. Stretch(FlattenSeq(blocks), {i \in DOMAIN FlattenSeq(blocks) : FlattenSeq(blocks)[i].section = n - 1})
             = blocks[n]
      BY ONLY <1>15, <2>1, BlockIsStretch
    <2> QED  BY <1>13, <2>1, <2>2 DEF n
  <1>18. blocks[k + 1] = of(k)
    BY <1>14, <1>16
  <1>19. Words(SegmentOf(k)) \in Seq(X)
    BY <1>4, <1>7 DEF Y
  <1> QED  BY <1>17, <1>18, <1>19 DEF X, whole

\* The chunks stored hold the text, section by section, and fit.
LEMMA ChunksFollow == Inductive => ChunksCoverTheText
  <1> SUFFICES ASSUME Inductive, step = "chunked"
               PROVE  /\ Size(passages.summary) <= SummaryReserve
                      /\ \A k \in 0 .. Cardinality({i \in DOMAIN text : text[i].kind = "label"}) :
                            LET at == {i \in DOMAIN passages.chunks : passages.chunks[i].section = k}
                                chunks == Stretch(passages.chunks, at)
                            IN  /\ FlattenSeq([i \in DOMAIN chunks |-> Added(chunks, i)])
                                      = SplitSentences(Words(SectionLines(k)))
                                /\ \A i \in DOMAIN chunks :
                                      LET new == Added(chunks, i)
                                      IN  \/ Len(new) = 1 /\ Tokens(new) > passages.budget.max
                                          \/ /\ Tokens(new) <= passages.budget.max
                                             /\ PassageTokens(passages.summary, chunks[i]) + SafetyMargin
                                                   <= passages.window
                                                      + IF Len(new) = 1 THEN passages.budget.overlap ELSE 0
    BY DEF ChunksCoverTheText
  <1>1. TextHolds /\ template \in DOMAIN Templates
    BY DEF Inductive, TextHolds
  <1>2. PICK window \in Given.windows, summary \in Given.summaries :
             /\ VerifyWindow(window)
             /\ passages = [summary |-> TruncateSummary(summary, ComputeBudget(window).summary),
                            chunks |-> SplitDocumentIntoChunks(SplitDocument(text), ComputeBudget(window)),
                            budget |-> ComputeBudget(window), window |-> window]
    BY DEF Inductive, StepsRan
  <1>3. /\ window \in Nat /\ summary \in Seq(Range(summary))
        /\ \A w \in Range(summary) : w[1] = "run" => w[2] \in Nat
    BY <1>1, MeetingAssumption DEF Given
  <1> DEFINE budget == ComputeBudget(window)
             whole == SplitDocumentIntoChunks(SplitDocument(text), budget)
             short == TruncateSummary(summary, budget.summary)
             X == Sized(template)
             Y == Seq(X)
  <1>4. /\ passages.summary = short /\ passages.chunks = whole
        /\ passages.budget = budget /\ passages.window = window
    BY <1>2
  <1>5. /\ IsBudget(budget) /\ budget.summary = SummaryReserve
        /\ budget.max + SpecialTokens + PrefixTokens + SeparatorTokens + SummaryReserve
              + SafetyMargin = window
        /\ SpecialTokens \in Nat /\ PrefixTokens \in Nat /\ SeparatorTokens \in Nat
        /\ SummaryReserve \in Nat /\ SafetyMargin \in Nat
        /\ budget.max \in Nat /\ budget.overlap \in Nat
    <2>1. IsBudget(budget) /\ budget.summary = SummaryReserve
          /\ budget.max + SpecialTokens + PrefixTokens + SeparatorTokens + SummaryReserve
                + SafetyMargin = window
          /\ {SpecialTokens, PrefixTokens, SeparatorTokens, SummaryReserve, SafetyMargin} \subseteq Nat
      BY <1>2, <1>3, BudgetIs
    <2> HIDE DEF budget
    <2> QED  BY <2>1 DEF IsBudget
  <1>6. Size(short) \in Nat /\ Size(short) <= SummaryReserve
    <2>1. \A w \in Range(summary) : SizeOf(w) \in Nat
      BY <1>3 DEF SizeOf
    <2>2. /\ Size(TruncateSummary(summary, SummaryReserve)) \in Nat
          /\ Size(TruncateSummary(summary, SummaryReserve)) <= SummaryReserve
      BY <1>3, <1>5, <2>1, SummaryFits
    <2> QED  BY <1>5, <2>2
  <1>7. \A w \in X : SizeOf(w) \in Nat
    BY DEF Sized
  <1> HIDE DEF budget, whole, short
  <1>8. ASSUME NEW k \in 0 .. Cardinality({i \in DOMAIN text : text[i].kind = "label"})
        PROVE  LET chunks == Stretch(whole, {i \in DOMAIN whole : whole[i].section = k})
               IN  /\ FlattenSeq([i \in DOMAIN chunks |-> Added(chunks, i)])
                         = SplitSentences(Words(SectionLines(k)))
                   /\ \A i \in DOMAIN chunks :
                         LET new == Added(chunks, i)
                         IN  \/ Len(new) = 1 /\ Tokens(new) > budget.max
                             \/ /\ Tokens(new) <= budget.max
                                /\ PassageTokens(short, chunks[i]) + SafetyMargin
                                      <= window + IF Len(new) = 1 THEN budget.overlap ELSE 0
    <2> DEFINE chunks == Stretch(whole, {i \in DOMAIN whole : whole[i].section = k})
               words == Words(SegmentOf(k))
               made == SplitIntoChunks(words, budget)
    <2>1. words \in Seq(X) /\ chunks = Stored(made, k)
      BY <1>1, <1>5, SectionChunksAre DEF whole
    <2>2. SplitSentences(words) = SplitSentences(Words(SectionLines(k)))
      BY <1>1, SectionsAre
    <2> HIDE DEF chunks, words
    <2>3. made \in Seq(Seq(Y))
      BY <1>5, <1>7, <2>1, TextTold
    <2>4. PICK news \in Seq(Seq(Y)) :
               /\ Len(news) = Len(made)
               /\ FlattenSeq(news) = SplitSentences(words)
               /\ \A i \in 1 .. Len(made) :
                     /\ made[i] = Before(made, i, budget.overlap) \o news[i]
                     /\ Len(news[i]) = 1 \/ Tokens(made[i]) <= budget.max
      BY <1>5, <1>7, <2>1, TextTold
    <2> HIDE DEF made
    <2>5. /\ Len(made) \in Nat /\ DOMAIN made = 1 .. Len(made)
          /\ \A i \in 1 .. Len(made) : made[i] \in Seq(Y) /\ news[i] \in Seq(Y)
          /\ news = [i \in 1 .. Len(made) |-> news[i]]
      <3>1. Len(made) \in Nat /\ DOMAIN made = 1 .. Len(made) /\ news \in [1 .. Len(news) -> Seq(Y)]
        BY <2>3, <2>4, LenProperties
      <3>2. \A i \in 1 .. Len(made) : made[i] \in Seq(Y) /\ news[i] \in Seq(Y)
        BY <2>3, <2>4, ElementOfSeq
      <3> HIDE DEF Y
      <3> QED  BY <2>4, <3>1, <3>2
    <2>6. /\ DOMAIN chunks = 1 .. Len(made)
          /\ \A i \in 1 .. Len(made) : chunks[i].sentences = made[i]
      BY <2>1, <2>5 DEF Stored
    <2>7. \A i \in 1 .. Len(made) : Before(made, i, budget.overlap) \in Seq(Y)
                                    /\ Tokens(Before(made, i, budget.overlap)) <= budget.overlap
      <3> TAKE i \in 1 .. Len(made)
      <3>1. CASE i = 1
        <4>1. Before(made, i, budget.overlap) = <<>>
          BY <3>1 DEF Before
        <4>2. <<>> \in Seq(Y) /\ Tokens(<<>>) = 0
          BY <1>7, EmptySeq, TokensJoin
        <4> DEFINE none == <<>>
        <4>3. Before(made, i, budget.overlap) = none /\ none \in Seq(Y) /\ Tokens(none) = 0
          BY <4>1, <4>2
        <4> HIDE DEF none, Y
        <4> QED  BY <1>5, <4>3
      <3>2. CASE i # 1
        <4>1. i - 1 \in 1 .. Len(made)
          BY <2>5, <3>2
        <4>2. made[i - 1] \in Seq(Y)
          BY <2>5, <4>1
        <4>3. /\ ComputeOverlap(made[i - 1], budget.overlap) \in Seq(Y)
              /\ Tokens(ComputeOverlap(made[i - 1], budget.overlap)) <= budget.overlap
          BY <1>5, <1>7, <4>2, OverlapIs
        <4>4. Before(made, i, budget.overlap) = ComputeOverlap(made[i - 1], budget.overlap)
          BY <3>2 DEF Before
        <4> QED  BY <4>3, <4>4
      <3> QED  BY <3>1, <3>2
    <2>8. ASSUME NEW i \in 1 .. Len(made)
          PROVE  Added(chunks, i) = news[i]
      <3>1. CASE i = 1
        <4>1. Added(chunks, i) = made[i]
          BY <2>6, <3>1 DEF Added
        <4>2. Before(made, i, budget.overlap) = <<>>
          BY <3>1 DEF Before
        <4>3. <<>> \o news[i] = news[i]
          BY <2>5, ConcatEmptySeq
        <4> QED  BY <2>4, <4>1, <4>2, <4>3
      <3>2. CASE i # 1
        <4>1. i - 1 \in 1 .. Len(made)
          BY <2>5, <3>2
        <4> DEFINE before == made[i - 1]
                   new == news[i]
                   room == passages.budget.overlap
        <4>2. /\ before \in Seq(Seq(X)) /\ new \in Seq(Seq(X))
              /\ chunks[i - 1].sentences = before
          BY <2>5, <2>6, <4>1
        <4>3. room = budget.overlap /\ room \in Nat
          BY <1>4, <1>5
        <4>4. chunks[i].sentences = ComputeOverlap(before, room) \o new
          BY <2>4, <2>6, <3>2, <4>3 DEF Before
        <4> HIDE DEF before, new
        <4>5. Added(chunks, i) = new
          BY <1>7, <3>2, <4>2, <4>3, <4>4, AddedIs
        <4> QED  BY <4>5 DEF new
      <3> QED  BY <3>1, <3>2
    <2>9. FlattenSeq([i \in DOMAIN chunks |-> Added(chunks, i)])
             = SplitSentences(Words(SectionLines(k)))
      <3>1. [i \in DOMAIN chunks |-> Added(chunks, i)] = [i \in 1 .. Len(made) |-> news[i]]
        BY <2>6, <2>8
      <3> QED  BY <2>2, <2>4, <2>5, <3>1
    <2>10. ASSUME NEW i \in 1 .. Len(made)
           PROVE  \/ Len(news[i]) = 1 /\ Tokens(news[i]) > budget.max
                  \/ /\ Tokens(news[i]) <= budget.max
                     /\ PassageTokens(short, chunks[i]) + SafetyMargin
                           <= window + IF Len(news[i]) = 1 THEN budget.overlap ELSE 0
      <3> DEFINE new == news[i]
                 now == made[i]
                 b == Before(made, i, budget.overlap)
                 max == budget.max
                 room == budget.overlap
                 extra == IF Len(new) = 1 THEN room ELSE 0
      <3>1. Tokens(now) = Tokens(b) + Tokens(new) /\ Tokens(b) \in Nat /\ Tokens(new) \in Nat
        <4>1. now = b \o new /\ b \in Seq(Y) /\ new \in Seq(Y)
          BY <2>4, <2>5, <2>7
        <4> HIDE DEF now, b, new
        <4> QED  BY <1>7, <4>1, TokensJoin
      <3>2. Tokens(b) <= room
        BY <2>7
      <3>3. Len(new) = 1 \/ Tokens(now) <= max
        BY <2>4
      <3>4. PassageTokens(short, chunks[i])
               = SpecialTokens + PrefixTokens + Size(short) + SeparatorTokens + Tokens(now)
        BY <2>6 DEF PassageTokens
      <3>5. max \in Nat /\ room \in Nat
            /\ max + SpecialTokens + PrefixTokens + SeparatorTokens + SummaryReserve + SafetyMargin = window
        BY <1>5
      <3> HIDE DEF new, now, b, max, room
      <3>6. CASE Tokens(new) > max
        <4>1. Len(new) = 1
          BY <3>1, <3>3, <3>5, <3>6
        <4> QED  BY <3>6, <4>1 DEF new, max
      <3>7. CASE ~(Tokens(new) > max)
        <4>1. Tokens(new) <= max
          BY <3>1, <3>5, <3>7
        <4>2. Tokens(now) <= max + extra
          BY <3>1, <3>2, <3>3, <3>5, <4>1
        <4>3. extra \in Nat
          BY <3>5
        <4> HIDE DEF extra
        <4> DEFINE t == Tokens(now)
                   z == Size(short)
                   p == PassageTokens(short, chunks[i])
        <4>4. p = SpecialTokens + PrefixTokens + z + SeparatorTokens + t /\ t \in Nat /\ z \in Nat
              /\ z <= SummaryReserve /\ t <= max + extra
          BY <1>6, <3>1, <3>4, <4>2
        <4> HIDE DEF t, z, p
        <4>5. /\ SpecialTokens \in Nat /\ PrefixTokens \in Nat /\ SeparatorTokens \in Nat
              /\ SummaryReserve \in Nat /\ SafetyMargin \in Nat
          BY <1>5
        <4>6. p + SafetyMargin <= window + extra
          BY ONLY <3>5, <4>3, <4>4, <4>5
        <4> QED  BY <4>1, <4>6 DEF p, extra, new, max, room
      <3> QED  BY <3>6, <3>7
    <2>11. \A i \in DOMAIN chunks :
              LET new == Added(chunks, i)
              IN  \/ Len(new) = 1 /\ Tokens(new) > budget.max
                  \/ /\ Tokens(new) <= budget.max
                     /\ PassageTokens(short, chunks[i]) + SafetyMargin
                           <= window + IF Len(new) = 1 THEN budget.overlap ELSE 0
      BY <2>6, <2>8, <2>10
    <2> QED  BY <2>9, <2>11 DEF chunks
  <1> QED  BY <1>4, <1>6, <1>8

\* Each section's chunks hold its sentences, and fit the window but for the
\* overlap, in every state and for every text, window and summary.
THEOREM ChunksHold == Spec => []ChunksCoverTheText
  <1>1. Inductive => ChunksCoverTheText
    BY ChunksFollow
  <1> QED  BY <1>1, InductiveHolds, PTL

=============================================================================
