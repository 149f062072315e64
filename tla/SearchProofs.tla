---------------------------- MODULE SearchProofs ----------------------------
(***************************************************************************)
(* Theorems about Search: for every corpus and vocabulary, any similarity  *)
(* and text rank, every limit, and a pipeline that commits what it likes   *)
(* between any two statements of a request.                                *)
(***************************************************************************)
EXTENDS Search, NaturalsInduction, WellFoundedInduction, FiniteSetTheorems,
        SequenceTheorems, TLAPS

(***************************************************************************)
(* The inductive invariant.                                                *)
(***************************************************************************)
\* A decision has the rows of its last chunk run, unless two were at it together, and
\* what it is tagged with is an entity.
CorpusHolds ==
    \A d \in Docs :
        /\ docs[d].raced \/ docs[d].sets \subseteq {docs[d].last}
        /\ IsFiniteSet(docs[d].sets)
        /\ docs[d].labels \subseteq entities

\* A chunk that may answer the request.
InQuestion(c) ==
    /\ c[1] \in request.candidates
    /\ c[2] = "body" \/ request.appendices \/ request.widened

\* A chunk that is there, or was when a statement of the request ran.
OfOneChunking(c) == c[3] \in docs[c[1]].sets \/ c[1] \in request.rechunked

\* What an arm may return.
ArmRankings == {r \in Seq(Passages) : IsInjective(r) /\ Len(r) <= ArmLimit}

\* What the statements of a search have returned so far.
ArmsHold ==
    /\ request.rankings \in Seq(ArmRankings)
    /\ request.candidates \subseteq request.matched
    /\ request.widened => request.silent
    /\ \A c \in Seen(request.rankings) : InQuestion(c) /\ OfOneChunking(c)

HitsHold ==
    /\ request.hits = <<>> \/ request.hits = Hits(request.rankings)
    /\ ~request.done => request.hits = <<>>

\* The listing as the database orders it now.
Earlier == {p \in Docs \X Docs : Newer(p[1], p[2])}

Listed == Arranged(Matching(NoFilter), Earlier)

PageOf(all, n) == FirstOf(SubSeq(all, (n - 1) * PageLimit + 1, Len(all)), PageLimit)

\* The pages read are the pages of all, to the last when the client is done.
PagesAre(all) ==
    /\ \A n \in 1 .. Len(request.pages) : request.pages[n] = PageOf(all, n)
    /\ request.done <=> Len(request.pages) * PageLimit >= Len(all) /\ request.pages # <<>>

\* The entities of a type, or all of them, as the database orders them now.
CitedMore == {p \in Labels \X Labels : MoreCited(p[1], p[2])}

ListedEntities(f) == Arranged(ListEntities(f), CitedMore)

\* The order of the entities leaves nothing free.
Settled(f) == f # NoFilter \/ Untied(ListEntities(NoFilter))

\* The pages read of a corpus that has not moved are the pages it has now.
PagesHold ==
    /\ request.kind = "listing" /\ ~request.moved => PagesAre(Listed)
    /\ request.kind = "vocabulary" /\ ~request.moved /\ Settled(request.filter) =>
           PagesAre(ListedEntities(request.filter))

Inductive ==
    /\ TypeOK
    /\ CorpusHolds
    /\ ArmsHold
    /\ HitsHold
    /\ PagesHold

(***************************************************************************)
(* Loops.                                                                  *)
(***************************************************************************)
\* Induction over the natural numbers, of membership in a set.
LEMMA SetInduction ==
    ASSUME NEW S, 0 \in S, \A n \in Nat : n \in S => n + 1 \in S
    PROVE  Nat \subseteq S
  <1> DEFINE T == Nat \ S
             R == OpToRel(<, Nat)
  <1>1. SUFFICES ASSUME T # {}
                 PROVE  FALSE
    OBVIOUS
  <1>2. \E x \in T : \A y \in T : <<y, x>> \notin R
    <2>1. IsWellFoundedOn(R, Nat)
      BY NatLessThanWellFounded
    <2> HIDE DEF R
    <2> QED  BY <1>1, <2>1, WFMin
  <1>3. PICK x \in T : \A y \in T : ~(y < x)
    BY <1>2 DEF OpToRel
  <1>4. x # 0 /\ x - 1 \in Nat /\ x - 1 < x
    BY <1>3
  <1>5. x - 1 \in S /\ (x - 1) + 1 = x
    BY <1>3, <1>4
  <1> QED  BY <1>3, <1>4, <1>5

\* What a loop over s makes of base, when step is one round of it.
Loops(f, base, step, s) ==
    /\ f[0] = base
    /\ \A k \in 1 .. Len(s) : f[k] = step[<<f[k - 1], s[k]>>]

LEMMA LoopExists ==
    ASSUME NEW T, NEW S, NEW step \in [T \X S -> T], NEW base \in T, NEW s \in Seq(S)
    PROVE  \E f \in [0 .. Len(s) -> T] : Loops(f, base, step, s)
  <1>1. Len(s) \in Nat /\ \A k \in 1 .. Len(s) : s[k] \in S
    BY LenProperties, ElementOfSeq
  <1> DEFINE Upto(n) ==
                \E f \in [0 .. n -> T] :
                    f[0] = base /\ \A k \in 1 .. n : f[k] = step[<<f[k - 1], s[k]>>]
             N == {n \in Nat : n <= Len(s) => Upto(n)}
  <1>2. 0 \in N
    <2>1. [k \in 0 .. 0 |-> base] \in [0 .. 0 -> T]
      OBVIOUS
    <2>2. [k \in 0 .. 0 |-> base][0] = base
      OBVIOUS
    <2>3. 1 .. 0 = {}
      OBVIOUS
    <2>4. Upto(0)
      BY <2>1, <2>2, <2>3
    <2> QED  BY <2>4
  <1>3. ASSUME NEW n \in Nat, n \in N
        PROVE  n + 1 \in N
    <2> SUFFICES ASSUME n + 1 <= Len(s)
                 PROVE  Upto(n + 1)
      OBVIOUS
    <2>1. n <= Len(s) /\ n + 1 \in 1 .. Len(s)
      BY <1>1
    <2>2. PICK f \in [0 .. n -> T] :
                  f[0] = base /\ \A k \in 1 .. n : f[k] = step[<<f[k - 1], s[k]>>]
      BY <1>3, <2>1
    <2> DEFINE last == step[<<f[n], s[n + 1]>>]
               g == [k \in 0 .. n + 1 |-> IF k <= n THEN f[k] ELSE last]
    <2>3. f[n] \in T /\ s[n + 1] \in S
      BY <1>1, <2>1, <2>2
    <2>4. last \in T
      BY <2>3
    <2> HIDE DEF last
    <2>5. g \in [0 .. n + 1 -> T] /\ g[0] = base
      BY <2>2, <2>4
    <2>6. ASSUME NEW k \in 1 .. n + 1
          PROVE  g[k] = step[<<g[k - 1], s[k]>>]
      <3>1. CASE k <= n
        <4>1. k \in 1 .. n /\ k \in 0 .. n + 1 /\ k - 1 \in 0 .. n + 1 /\ k - 1 <= n
          BY <3>1
        <4>2. g[k] = f[k] /\ g[k - 1] = f[k - 1]
          BY <3>1, <4>1
        <4> QED  BY <2>2, <4>1, <4>2
      <3>2. CASE ~(k <= n)
        <4>1. k = n + 1 /\ k - 1 = n /\ k \in 0 .. n + 1 /\ k - 1 \in 0 .. n + 1
          BY <3>2
        <4>2. g[k] = last /\ g[k - 1] = f[n]
          BY <3>2, <4>1
        <4> QED  BY <4>1, <4>2 DEF last
      <3> QED  BY <3>1, <3>2
    <2> QED  BY <2>5, <2>6
  <1>4. Nat \subseteq N
    <2> HIDE DEF N
    <2> QED  BY <1>2, <1>3, SetInduction
  <1>5. Upto(Len(s))
    BY <1>1, <1>4
  <1> QED  BY <1>5 DEF Loops

\* The members of a sequence.
LEMMA Members ==
    ASSUME NEW S, NEW s \in Seq(S)
    PROVE  /\ \A x : x \in ToSet(s) <=> \E i \in 1 .. Len(s) : s[i] = x
           /\ ToSet(s) \subseteq S
  <1>1. DOMAIN s = 1 .. Len(s) /\ \A i \in 1 .. Len(s) : s[i] \in S
    BY LenProperties, ElementOfSeq
  <1> QED  BY <1>1 DEF ToSet

\* Of naturals there is a least.
LEMMA LeastOf ==
    ASSUME NEW S \in SUBSET Nat, S # {}
    PROVE  Min(S) \in S /\ \A x \in S : Min(S) <= x
  <1> DEFINE N == {n \in Nat : \A m \in 0 .. n : m \notin S}
  <1>1. ASSUME \A m \in S : \E x \in S : x < m
        PROVE  FALSE
    <2>1. 0 \in N
      BY <1>1
    <2>2. ASSUME NEW n \in Nat, n \in N
          PROVE  n + 1 \in N
      <3>1. n + 1 \notin S
        BY <1>1, <2>2
      <3> QED  BY <2>2, <3>1
    <2>3. Nat \subseteq N
      <3> HIDE DEF N
      <3> QED  BY <2>1, <2>2, SetInduction
    <2>4. \A n \in Nat : n \notin S
      BY <2>3
    <2> QED  BY <2>4
  <1>2. \E m \in S : \A x \in S : m <= x
    BY <1>1
  <1> QED  BY <1>2 DEF Min

(***************************************************************************)
(* Sets in a total order.                                                  *)
(***************************************************************************)
TotalOrder(S, before) ==
    /\ \A a \in S : <<a, a>> \notin before
    /\ \A a, b \in S : a = b \/ <<a, b>> \in before \/ <<b, a>> \in before
    /\ \A a, b, c \in S : <<a, b>> \in before /\ <<b, c>> \in before => <<a, c>> \in before

Below(S, before, a) == {b \in S : <<b, a>> \in before}

\* In a total order the number of those before tells a member from the others.
LEMMA PlacesAre ==
    ASSUME NEW S, IsFiniteSet(S), NEW before, TotalOrder(S, before)
    PROVE  /\ \A a \in S : Cardinality(Below(S, before, a)) \in 0 .. Cardinality(S) - 1
           /\ \A a, b \in S : <<a, b>> \in before =>
                  Cardinality(Below(S, before, a)) < Cardinality(Below(S, before, b))
           /\ \A n \in 1 .. Cardinality(S) :
                  \E a \in S : Cardinality(Below(S, before, a)) = n - 1
  <1> DEFINE Place(a) == Cardinality(Below(S, before, a))
  <1>1. Cardinality(S) \in Nat
    BY FS_CardinalityType
  <1>2. \A a \in S : IsFiniteSet(Below(S, before, a)) /\ Place(a) \in Nat
    <2>1. \A a \in S : Below(S, before, a) \in SUBSET S
      BY DEF Below
    <2> QED  BY <2>1, FS_Subset, FS_CardinalityType
  <1>3. ASSUME NEW a \in S
        PROVE  Place(a) \in 0 .. Cardinality(S) - 1
    <2>1. Below(S, before, a) \in SUBSET S /\ Below(S, before, a) # S
      BY DEF Below, TotalOrder
    <2>2. Place(a) <= Cardinality(S) /\ Place(a) # Cardinality(S)
      BY <2>1, FS_Subset
    <2> QED  BY <1>1, <1>2, <2>2
  <1>4. ASSUME NEW a \in S, NEW b \in S, <<a, b>> \in before
        PROVE  Place(a) < Place(b)
    <2>1. /\ Below(S, before, a) \in SUBSET Below(S, before, b)
          /\ a \in Below(S, before, b) /\ a \notin Below(S, before, a)
      BY <1>4 DEF Below, TotalOrder
    <2>2. Place(a) <= Place(b) /\ Place(a) # Place(b)
      BY <1>2, <2>1, FS_Subset
    <2> QED  BY <1>2, <2>2
  <1> DEFINE f == [a \in S |-> Place(a) + 1]
             R == 1 .. Cardinality(S)
  <1>5. f \in [S -> R]
    BY <1>1, <1>3
  <1>6. \A a, b \in S : f[a] = f[b] => a = b
    <2>1. \A a, b \in S : Place(a) = Place(b) => <<a, b>> \notin before /\ <<b, a>> \notin before
      BY <1>2, <1>4
    <2>2. \A a, b \in S : f[a] = f[b] => Place(a) = Place(b)
      BY <1>2
    <2> HIDE DEF f, Place
    <2> QED  BY <2>1, <2>2 DEF TotalOrder
  <1>7. IsFiniteSet(R) /\ Cardinality(R) = Cardinality(S)
    <2>1. /\ IsFiniteSet(1 .. Cardinality(S))
          /\ Cardinality(1 .. Cardinality(S)) =
                 IF 1 > Cardinality(S) THEN 0 ELSE Cardinality(S) - 1 + 1
      BY <1>1, FS_Interval
    <2> QED  BY <1>1, <2>1
  <1>8. f \in Surjection(S, R)
    <2>1. f \in Injection(S, R)
      <3> HIDE DEF f, R
      <3> QED  BY <1>5, <1>6 DEF Injection, IsInjective
    <2> HIDE DEF f, R
    <2> QED  BY <1>7, <2>1, FS_Injection
  <1>9. ASSUME NEW n \in 1 .. Cardinality(S)
        PROVE  \E a \in S : Place(a) = n - 1
    <2>1. PICK a \in S : f[a] = n
      <3> HIDE DEF f
      <3> QED  BY <1>8 DEF Surjection
    <2> QED  BY <1>2, <2>1
  <1> HIDE DEF Place
  <1> QED  BY <1>3, <1>4, <1>9 DEF Place

\* A set that is arranged has each member at one place, and in the order.
LEMMA ArrangedIs ==
    ASSUME NEW S, IsFiniteSet(S), NEW before, TotalOrder(S, before)
    PROVE  /\ Cardinality(S) \in Nat
           /\ Arranged(S, before) \in [1 .. Cardinality(S) -> S]
           /\ Arranged(S, before) \in Seq(S)
           /\ Len(Arranged(S, before)) = Cardinality(S)
           /\ \A m, n \in 1 .. Cardinality(S) : m < n =>
                  <<Arranged(S, before)[m], Arranged(S, before)[n]>> \in before
           /\ \A m, n \in 1 .. Cardinality(S) :
                  Arranged(S, before)[m] = Arranged(S, before)[n] => m = n
           /\ \A a \in S : \E n \in 1 .. Cardinality(S) : Arranged(S, before)[n] = a
           /\ \A n \in 1 .. Cardinality(S) :
                  Cardinality(Below(S, before, Arranged(S, before)[n])) = n - 1
  <1> DEFINE Place(a) == Cardinality(Below(S, before, a))
             all == Arranged(S, before)
  <1>1. Cardinality(S) \in Nat
    BY FS_CardinalityType
  <1>2. /\ \A a \in S : Place(a) \in 0 .. Cardinality(S) - 1
        /\ \A a, b \in S : <<a, b>> \in before => Place(a) < Place(b)
        /\ \A n \in 1 .. Cardinality(S) : \E a \in S : Place(a) = n - 1
    BY PlacesAre
  <1>3. all = [n \in 1 .. Cardinality(S) |-> CHOOSE a \in S : Place(a) = n - 1]
    BY DEF Arranged, Below
  <1> HIDE DEF Place, all
  <1>4. \A n \in 1 .. Cardinality(S) : all[n] \in S /\ Place(all[n]) = n - 1
    BY <1>2, <1>3
  <1>5. all \in [1 .. Cardinality(S) -> S]
    BY <1>3, <1>4
  <1>6. all \in Seq(S) /\ Len(all) = Cardinality(S)
    BY <1>1, <1>5
  <1>7. ASSUME NEW m \in 1 .. Cardinality(S), NEW n \in 1 .. Cardinality(S), m < n
        PROVE  <<all[m], all[n]>> \in before
    <2>1. Place(all[m]) < Place(all[n]) /\ all[m] # all[n]
      BY <1>1, <1>4, <1>7
    <2>2. ~(Place(all[n]) < Place(all[m]))
      BY <1>1, <1>4, <1>7
    <2> QED  BY <1>2, <1>4, <2>1, <2>2 DEF TotalOrder
  <1>8. \A m, n \in 1 .. Cardinality(S) : all[m] = all[n] => m = n
    BY <1>1, <1>4
  <1>9. ASSUME NEW a \in S
        PROVE  \E n \in 1 .. Cardinality(S) : all[n] = a
    <2>1. Place(a) + 1 \in 1 .. Cardinality(S) /\ Place(a) \in Nat
      BY <1>1, <1>2
    <2>2. all[Place(a) + 1] \in S /\ Place(all[Place(a) + 1]) = Place(a)
      BY <1>4, <2>1
    <2>3. \A b \in S : Place(b) = Place(a) => <<a, b>> \notin before /\ <<b, a>> \notin before
      BY <1>1, <1>2
    <2>4. \A b \in S : Place(b) = Place(a) => b = a
      BY <2>3 DEF TotalOrder
    <2> QED  BY <2>1, <2>2, <2>4
  <1> QED  BY <1>1, <1>4, <1>5, <1>6, <1>7, <1>8, <1>9 DEF Place, all

\* A total order leaves one way to arrange a set.
LEMMA OrderedIsArranged ==
    ASSUME NEW S, IsFiniteSet(S), NEW before, TotalOrder(S, before),
           NEW s \in [1 .. Cardinality(S) -> S],
           \A i, j \in 1 .. Cardinality(S) : i # j => s[i] # s[j],
           \A i, j \in 1 .. Cardinality(S) : i < j => <<s[j], s[i]>> \notin before
    PROVE  s = Arranged(S, before)
  <1> DEFINE R == 1 .. Cardinality(S)
             all == Arranged(S, before)
  <1>1. Cardinality(S) \in Nat
    BY FS_CardinalityType
  <1>2. IsFiniteSet(R) /\ Cardinality(R) = Cardinality(S)
    <2>1. /\ IsFiniteSet(1 .. Cardinality(S))
          /\ Cardinality(1 .. Cardinality(S)) =
                 IF 1 > Cardinality(S) THEN 0 ELSE Cardinality(S) - 1 + 1
      BY <1>1, FS_Interval
    <2> QED  BY <1>1, <2>1
  <1>3. \A a \in S : \E n \in R : s[n] = a
    <2>1. s \in Injection(R, S)
      BY DEF Injection, IsInjective
    <2> HIDE DEF R
    <2>2. s \in Surjection(R, S)
      BY <1>2, <2>1, FS_Injection
    <2> QED  BY <2>2 DEF Surjection
  <1>4. ASSUME NEW n \in R
        PROVE  Cardinality(Below(S, before, s[n])) = n - 1
    <2> DEFINE L == 1 .. n - 1
               g == [j \in L |-> s[j]]
    <2>1. n \in Nat /\ n - 1 \in Nat /\ L \subseteq R
      BY <1>1
    <2>2. \A j \in L : s[j] \in Below(S, before, s[n])
      <3>1. \A j \in L : j \in R /\ j < n /\ j # n
        BY <2>1
      <3>2. \A j \in L : s[j] \in S /\ s[n] \in S /\ s[j] # s[n]
        BY <3>1
      <3>3. \A j \in L : <<s[n], s[j]>> \notin before
        BY <3>1
      <3> HIDE DEF L
      <3> QED  BY <3>2, <3>3 DEF Below, TotalOrder
    <2>3. ASSUME NEW b \in Below(S, before, s[n])
          PROVE  \E j \in L : s[j] = b
      <3>1. PICK j \in R : s[j] = b
        BY <1>3 DEF Below
      <3>2. <<s[j], s[n]>> \in before /\ s[n] \in S
        BY <3>1 DEF Below
      <3>3. j # n
        BY <3>2 DEF TotalOrder
      <3>4. ~(n < j)
        BY <3>2
      <3>5. j \in L
        BY <1>1, <3>3, <3>4
      <3> QED  BY <3>1, <3>5
    <2>4. g \in [L -> Below(S, before, s[n])]
      BY <2>2
    <2>5. \A i, j \in L : g[i] = g[j] => i = j
      BY <2>1
    <2>6. g \in Bijection(L, Below(S, before, s[n]))
      <3>1. \A b \in Below(S, before, s[n]) : \E j \in L : g[j] = b
        BY <2>3
      <3> HIDE DEF g, L
      <3> QED  BY <2>4, <2>5, <3>1 DEF Bijection, Injection, Surjection, IsInjective
    <2>7. ExistsBijection(1 .. n - 1, Below(S, before, s[n]))
      BY <2>6 DEF ExistsBijection
    <2> QED  BY <2>1, <2>7, FS_CountingElements
  <1>5. /\ all \in [R -> S]
        /\ \A n \in R : Cardinality(Below(S, before, all[n])) = n - 1
    BY ArrangedIs
  <1>6. ASSUME NEW n \in R
        PROVE  s[n] = all[n]
    <2>1. s[n] \in S /\ all[n] \in S
      BY <1>5
    <2>2. Cardinality(Below(S, before, s[n])) = Cardinality(Below(S, before, all[n]))
      BY <1>4, <1>5
    <2>3. n - 1 \in Int
      BY <1>1
    <2>4. ~(n - 1 < n - 1)
      BY <2>3
    <2>5. <<s[n], all[n]>> \notin before /\ <<all[n], s[n]>> \notin before
      BY <1>4, <1>5, <2>1, <2>4, PlacesAre
    <2> HIDE DEF all
    <2> QED  BY <2>1, <2>5 DEF TotalOrder
  <1>7. s \in [R -> S]
    OBVIOUS
  <1> HIDE DEF all, R
  <1>8. s = [n \in R |-> s[n]] /\ all = [n \in R |-> all[n]]
    BY <1>5, <1>7
  <1>9. s = all
    BY <1>6, <1>8
  <1> QED  BY <1>9 DEF all

(***************************************************************************)
(* Fusion.                                                                 *)
(***************************************************************************)
\* The denominator is a multiple of each rank's.
LEMMA DenominatorIs ==
    \A r \in 1 .. ArmLimit : \E q \in Nat \ {0} : Denominator = (RrfK + r) * q
  <1>1. ArmLimit \in Nat /\ RrfK \in Nat
    BY LimitsAssumption
  <1> DEFINE Product(f) ==
                f = [n \in 0 .. ArmLimit |-> IF n = 0 THEN 1 ELSE f[n - 1] * (RrfK + n)]
             product == CHOOSE f : Product(f)
             step == [x \in Nat \X Nat |-> x[1] * x[2]]
             factors == [n \in 1 .. ArmLimit |-> RrfK + n]
  <1>2. factors \in Seq(Nat) /\ Len(factors) = ArmLimit
    BY <1>1
  <1>3. PICK g \in [0 .. ArmLimit -> Nat] : Loops(g, 1, step, factors)
    <2>1. step \in [Nat \X Nat -> Nat]
      OBVIOUS
    <2> HIDE DEF step, factors
    <2>2. \E f \in [0 .. Len(factors) -> Nat] : Loops(f, 1, step, factors)
      BY <1>2, <2>1, LoopExists
    <2> QED  BY <1>2, <2>2
  <1>4. Product(g)
    <2>1. ASSUME NEW n \in 0 .. ArmLimit, n # 0
          PROVE  g[n] = g[n - 1] * (RrfK + n)
      <3>1. n \in 1 .. ArmLimit /\ n - 1 \in 0 .. ArmLimit /\ RrfK + n \in Nat
        BY <1>1, <2>1
      <3>2. g[n] = step[<<g[n - 1], factors[n]>>]
        BY <1>2, <1>3, <3>1 DEF Loops
      <3>3. factors[n] = RrfK + n
        BY <3>1
      <3> QED  BY <3>1, <3>2, <3>3
    <2> HIDE DEF step, factors
    <2>2. g[0] = 1 /\ g = [n \in 0 .. ArmLimit |-> g[n]]
      BY <1>3 DEF Loops
    <2> QED  BY <2>1, <2>2
  <1>5. Product(product)
    BY <1>4
  <1>6. Denominator = product[ArmLimit]
    BY DEF Denominator
  <1> HIDE DEF product
  <1>7. /\ product[0] = 1
        /\ \A n \in Nat : n + 1 <= ArmLimit => product[n + 1] = product[n] * (RrfK + (n + 1))
    <2>1. \A n \in Nat : n + 1 <= ArmLimit =>
              n + 1 \in 0 .. ArmLimit /\ n + 1 # 0 /\ (n + 1) - 1 = n
      BY <1>1
    <2> QED  BY <1>1, <1>5, <2>1
  <1> HIDE DEF Product
  <1> DEFINE Good(n) ==
                /\ product[n] \in Nat \ {0}
                /\ \A r \in 1 .. n : \E q \in Nat \ {0} : product[n] = (RrfK + r) * q
             N == {n \in Nat : n <= ArmLimit => Good(n)}
  <1>8. 0 \in N
    BY <1>7
  <1>9. ASSUME NEW n \in Nat, n \in N
        PROVE  n + 1 \in N
    <2> SUFFICES ASSUME n + 1 <= ArmLimit
                 PROVE  Good(n + 1)
      OBVIOUS
    <2> DEFINE k == RrfK + (n + 1)
               p == product[n]
    <2>1. Good(n) /\ k \in Nat \ {0} /\ product[n + 1] = p * k
      <3>1. n <= ArmLimit
        BY <1>1
      <3>2. product[n + 1] = product[n] * k
        BY <1>7
      <3> HIDE DEF Good
      <3> QED  BY <1>1, <1>9, <3>1, <3>2
    <2>2. p \in Nat \ {0}
      BY <2>1
    <2> HIDE DEF k, p
    <2>3. p * k \in Nat \ {0} /\ p * k = k * p
      BY <2>1, <2>2
    <2>4. ASSUME NEW r \in 1 .. n + 1
          PROVE  \E q \in Nat \ {0} : product[n + 1] = (RrfK + r) * q
      <3>1. CASE r = n + 1
        BY <2>1, <2>2, <2>3, <3>1 DEF k
      <3>2. CASE r # n + 1
        <4>1. r \in 1 .. n
          BY <3>2
        <4>2. PICK q \in Nat \ {0} : p = (RrfK + r) * q
          BY <2>1, <4>1 DEF p
        <4> DEFINE f == RrfK + r
        <4>3. f \in Nat /\ p = f * q
          BY <1>1, <4>2
        <4> HIDE DEF f
        <4>4. q * k \in Nat \ {0} /\ (f * q) * k = f * (q * k)
          BY <2>1, <4>3
        <4> QED  BY <2>1, <4>3, <4>4 DEF f
      <3> QED  BY <3>1, <3>2
    <2> QED  BY <2>1, <2>3, <2>4
  <1>10. Nat \subseteq N
    <2> HIDE DEF N
    <2> QED  BY <1>8, <1>9, SetInduction
  <1>11. Good(ArmLimit)
    <2>1. ArmLimit \in N
      BY <1>1, <1>10
    <2> HIDE DEF Good
    <2> QED  BY <1>1, <2>1
  <1> QED  BY <1>6, <1>11

\* A better rank weighs more.
LEMMA WeightIs ==
    /\ \A r \in 1 .. ArmLimit : Weight(r) \in Nat /\ Weight(r) > 0
    /\ \A r, s \in 1 .. ArmLimit : r < s => Weight(r) > Weight(s)
  <1>1. ArmLimit \in Nat /\ RrfK \in Nat
    BY LimitsAssumption
  <1>2. \A r \in 1 .. ArmLimit :
            Weight(r) \in Nat \ {0} /\ Denominator = (RrfK + r) * Weight(r)
    <2>1. ASSUME NEW r \in 1 .. ArmLimit
          PROVE  Weight(r) \in Nat \ {0} /\ Denominator = (RrfK + r) * Weight(r)
      <3>1. PICK q \in Nat \ {0} : Denominator = (RrfK + r) * q
        BY DenominatorIs
      <3> DEFINE k == RrfK + r
      <3>2. k \in Nat \ {0}
        BY <1>1
      <3> HIDE DEF k
      <3>3. (k * q) \div k = q
        BY <3>2
      <3>4. Weight(r) = q
        BY <3>1, <3>3 DEF Weight, k
      <3> QED  BY <3>1, <3>4
    <2> QED  BY <2>1
  <1>3. ASSUME NEW r \in 1 .. ArmLimit, NEW s \in 1 .. ArmLimit, r < s
        PROVE  Weight(r) > Weight(s)
    <2> DEFINE a == RrfK + r
               b == RrfK + s
               x == Weight(r)
               y == Weight(s)
    <2>1. a \in Nat \ {0} /\ b \in Nat \ {0} /\ a < b
      BY <1>1, <1>3
    <2>2. x \in Nat \ {0} /\ y \in Nat \ {0} /\ a * x = b * y
      BY <1>2
    <2> HIDE DEF a, b, x, y
    <2>3. ASSUME x <= y
          PROVE  FALSE
      <3>1. a * x <= a * y
        BY <2>1, <2>2, <2>3
      <3>2. a * y < b * y
        BY <2>1, <2>2
      <3> QED  BY <2>1, <2>2, <3>1, <3>2
    <2> QED  BY <2>2, <2>3 DEF x, y
  <1> QED  BY <1>2, <1>3

\* The places of a ranking.
LEMMA RanksAre ==
    ASSUME NEW r \in ArmRankings
    PROVE  /\ r \in Seq(Passages) /\ Len(r) \in Nat /\ Len(r) <= ArmLimit
           /\ ToSet(r) \subseteq Passages
           /\ \A c \in ToSet(r) : RankIn(r, c) \in 1 .. Len(r) /\ r[RankIn(r, c)] = c
           /\ \A c \in ToSet(r) : RankIn(r, c) \in 1 .. ArmLimit
           /\ \A c : Adds(r, c) \in Nat
           /\ \A c \in ToSet(r) : Adds(r, c) = Weight(RankIn(r, c)) /\ Adds(r, c) > 0
  <1>1. r \in Seq(Passages) /\ Len(r) \in Nat /\ Len(r) <= ArmLimit /\ DOMAIN r = 1 .. Len(r)
    BY LenProperties DEF ArmRankings
  <1>2. \A x : x \in ToSet(r) <=> \E i \in 1 .. Len(r) : r[i] = x
    BY <1>1, Members
  <1>3. ToSet(r) \subseteq Passages
    BY <1>1, Members
  <1>4. \A c \in ToSet(r) : RankIn(r, c) \in 1 .. Len(r) /\ r[RankIn(r, c)] = c
    BY <1>1, <1>2 DEF RankIn
  <1>5. ArmLimit \in Nat
    BY LimitsAssumption
  <1>6. \A c \in ToSet(r) : RankIn(r, c) \in 1 .. ArmLimit
    BY <1>1, <1>4, <1>5
  <1>7. \A c \in ToSet(r) :
            Adds(r, c) = Weight(RankIn(r, c)) /\ Adds(r, c) \in Nat /\ Adds(r, c) > 0
    BY <1>6, WeightIs DEF Adds
  <1>8. \A c : c \notin ToSet(r) => Adds(r, c) = 0
    BY DEF Adds
  <1> QED  BY <1>1, <1>3, <1>4, <1>6, <1>7, <1>8

\* A score is a sum over the rankings.
LEMMA ScoreIs ==
    ASSUME NEW rankings \in Seq(ArmRankings), NEW c
    PROVE  \E sum \in [0 .. Len(rankings) -> Nat] :
               /\ sum[0] = 0
               /\ \A n \in 1 .. Len(rankings) : sum[n] = sum[n - 1] + Adds(rankings[n], c)
               /\ Score(rankings, c) = sum[Len(rankings)]
  <1>1. Len(rankings) \in Nat /\ \A n \in 1 .. Len(rankings) : rankings[n] \in ArmRankings
    BY LenProperties, ElementOfSeq
  <1> DEFINE Sum(f) == f = [n \in 0 .. Len(rankings) |->
                                IF n = 0 THEN 0 ELSE f[n - 1] + Adds(rankings[n], c)]
             upTo == CHOOSE f : Sum(f)
             step == [x \in Nat \X ArmRankings |-> x[1] + Adds(x[2], c)]
  <1>2. step \in [Nat \X ArmRankings -> Nat]
    BY RanksAre
  <1>3. PICK g \in [0 .. Len(rankings) -> Nat] : Loops(g, 0, step, rankings)
    <2> HIDE DEF step
    <2> QED  BY <1>2, LoopExists
  <1>4. \A n \in 1 .. Len(rankings) : g[n] = g[n - 1] + Adds(rankings[n], c)
    <2>1. ASSUME NEW n \in 1 .. Len(rankings)
          PROVE  g[n] = g[n - 1] + Adds(rankings[n], c)
      <3>1. n - 1 \in 0 .. Len(rankings) /\ g[n] = step[<<g[n - 1], rankings[n]>>]
        <4> HIDE DEF step
        <4> QED  BY <1>1, <1>3 DEF Loops
      <3>2. <<g[n - 1], rankings[n]>> \in Nat \X ArmRankings
        BY <1>1, <3>1
      <3> QED  BY <3>1, <3>2
    <2> QED  BY <2>1
  <1>5. g[0] = 0
    BY <1>3 DEF Loops
  <1>6. Sum(g)
    <2>1. \A n \in 0 .. Len(rankings) : n # 0 => n \in 1 .. Len(rankings)
      BY <1>1
    <2>2. g = [n \in 0 .. Len(rankings) |-> g[n]]
      OBVIOUS
    <2> HIDE DEF step
    <2> QED  BY <1>4, <1>5, <2>1, <2>2
  <1>7. Sum(upTo)
    BY <1>6
  <1>8. Score(rankings, c) = upTo[Len(rankings)]
    BY DEF Score
  <1> HIDE DEF upTo
  <1> DEFINE N == {n \in Nat : n <= Len(rankings) => upTo[n] = g[n]}
  <1>9. 0 \in N
    BY <1>1, <1>5, <1>7
  <1>10. ASSUME NEW n \in Nat, n \in N
         PROVE  n + 1 \in N
    <2> SUFFICES ASSUME n + 1 <= Len(rankings)
                 PROVE  upTo[n + 1] = g[n + 1]
      OBVIOUS
    <2>1. /\ n + 1 \in 0 .. Len(rankings) /\ n + 1 \in 1 .. Len(rankings)
          /\ n + 1 # 0 /\ (n + 1) - 1 = n /\ n <= Len(rankings)
      BY <1>1
    <2>2. upTo[n + 1] = upTo[n] + Adds(rankings[n + 1], c)
      BY <1>7, <2>1
    <2>3. upTo[n] = g[n]
      BY <1>10, <2>1
    <2>4. g[n + 1] = g[n] + Adds(rankings[n + 1], c)
      BY <1>4, <2>1
    <2> QED  BY <2>2, <2>3, <2>4
  <1>11. Nat \subseteq N
    <2> HIDE DEF N
    <2> QED  BY <1>9, <1>10, SetInduction
  <1>12. upTo[Len(rankings)] = g[Len(rankings)]
    BY <1>1, <1>11
  <1> QED  BY <1>4, <1>5, <1>8, <1>12

\* A chunk that every ranking that holds another holds, and earlier.
BeatsIn(rankings, a, b) ==
    /\ \E i \in 1 .. Len(rankings) : b \in ToSet(rankings[i])
    /\ \A i \in 1 .. Len(rankings) : b \in ToSet(rankings[i]) =>
          a \in ToSet(rankings[i]) /\ RankIn(rankings[i], a) < RankIn(rankings[i], b)

LEMMA BeatingScoresMore ==
    ASSUME NEW rankings \in Seq(ArmRankings), NEW a, NEW b, BeatsIn(rankings, a, b)
    PROVE  Score(rankings, a) > Score(rankings, b)
  <1>1. Len(rankings) \in Nat /\ \A n \in 1 .. Len(rankings) : rankings[n] \in ArmRankings
    BY LenProperties, ElementOfSeq
  <1>2. PICK f \in [0 .. Len(rankings) -> Nat] :
               /\ f[0] = 0
               /\ \A n \in 1 .. Len(rankings) : f[n] = f[n - 1] + Adds(rankings[n], a)
               /\ Score(rankings, a) = f[Len(rankings)]
    BY ScoreIs
  <1>3. PICK g \in [0 .. Len(rankings) -> Nat] :
               /\ g[0] = 0
               /\ \A n \in 1 .. Len(rankings) : g[n] = g[n - 1] + Adds(rankings[n], b)
               /\ Score(rankings, b) = g[Len(rankings)]
    BY ScoreIs
  <1>4. ASSUME NEW n \in 1 .. Len(rankings)
        PROVE  /\ Adds(rankings[n], a) \in Nat /\ Adds(rankings[n], b) \in Nat
               /\ Adds(rankings[n], a) >= Adds(rankings[n], b)
               /\ b \in ToSet(rankings[n]) => Adds(rankings[n], a) > Adds(rankings[n], b)
    <2>1. Adds(rankings[n], a) \in Nat /\ Adds(rankings[n], b) \in Nat
      BY <1>1, RanksAre
    <2>2. CASE b \in ToSet(rankings[n])
      <3>1. a \in ToSet(rankings[n]) /\ RankIn(rankings[n], a) < RankIn(rankings[n], b)
        BY <2>2 DEF BeatsIn
      <3>2. /\ RankIn(rankings[n], a) \in 1 .. ArmLimit
            /\ RankIn(rankings[n], b) \in 1 .. ArmLimit
            /\ Adds(rankings[n], a) = Weight(RankIn(rankings[n], a))
            /\ Adds(rankings[n], b) = Weight(RankIn(rankings[n], b))
        BY <1>1, <2>2, <3>1, RanksAre
      <3>3. Adds(rankings[n], a) > Adds(rankings[n], b)
        BY <3>1, <3>2, WeightIs
      <3> QED  BY <2>1, <3>3
    <2>3. CASE b \notin ToSet(rankings[n])
      <3>1. Adds(rankings[n], b) = 0
        BY <2>3 DEF Adds
      <3> QED  BY <2>1, <2>3, <3>1
    <2> QED  BY <2>2, <2>3
  <1> DEFINE Good(n) ==
                /\ f[n] >= g[n]
                /\ (\E i \in 1 .. n : b \in ToSet(rankings[i])) => f[n] > g[n]
             N == {n \in Nat : n <= Len(rankings) => Good(n)}
  <1>5. 0 \in N
    BY <1>1, <1>2, <1>3
  <1>6. ASSUME NEW n \in Nat, n \in N
        PROVE  n + 1 \in N
    <2> SUFFICES ASSUME n + 1 <= Len(rankings)
                 PROVE  Good(n + 1)
      OBVIOUS
    <2>1. /\ n \in 0 .. Len(rankings) /\ n + 1 \in 1 .. Len(rankings)
          /\ (n + 1) - 1 = n /\ n <= Len(rankings)
      BY <1>1
    <2>2. Good(n)
      <3> HIDE DEF Good
      <3> QED  BY <1>6, <2>1
    <2>3. /\ f[n + 1] = f[n] + Adds(rankings[n + 1], a)
          /\ g[n + 1] = g[n] + Adds(rankings[n + 1], b)
          /\ f[n] \in Nat /\ g[n] \in Nat
      BY <1>2, <1>3, <2>1
    <2>4. /\ Adds(rankings[n + 1], a) \in Nat /\ Adds(rankings[n + 1], b) \in Nat
          /\ Adds(rankings[n + 1], a) >= Adds(rankings[n + 1], b)
          /\ b \in ToSet(rankings[n + 1]) => Adds(rankings[n + 1], a) > Adds(rankings[n + 1], b)
      BY <1>4, <2>1
    <2>5. f[n + 1] >= g[n + 1]
      BY <2>2, <2>3, <2>4
    <2>6. ASSUME NEW i \in 1 .. n + 1, b \in ToSet(rankings[i])
          PROVE  f[n + 1] > g[n + 1]
      <3>1. CASE i = n + 1
        BY <2>2, <2>3, <2>4, <2>6, <3>1
      <3>2. CASE i # n + 1
        <4>1. i \in 1 .. n
          BY <3>2
        <4>2. f[n] > g[n]
          BY <2>2, <2>6, <4>1
        <4> QED  BY <2>3, <2>4, <4>2
      <3> QED  BY <3>1, <3>2
    <2> QED  BY <2>5, <2>6
  <1>7. Nat \subseteq N
    <2> HIDE DEF N
    <2> QED  BY <1>5, <1>6, SetInduction
  <1>8. Good(Len(rankings))
    <2>1. Len(rankings) \in N
      BY <1>1, <1>7
    <2> HIDE DEF Good
    <2> QED  BY <1>1, <2>1
  <1> QED  BY <1>2, <1>3, <1>8 DEF BeatsIn

(***************************************************************************)
(* What was found, in order.                                               *)
(***************************************************************************)
\* What the rankings hold between them, which is finitely much.
LEMMA SeenIs ==
    ASSUME NEW rankings \in Seq(ArmRankings)
    PROVE  /\ \A c : c \in Seen(rankings) <=> \E i \in 1 .. Len(rankings) : c \in ToSet(rankings[i])
           /\ Seen(rankings) \subseteq Passages
           /\ IsFiniteSet(Seen(rankings))
  <1>1. /\ Len(rankings) \in Nat /\ DOMAIN rankings = 1 .. Len(rankings)
        /\ \A n \in 1 .. Len(rankings) : rankings[n] \in ArmRankings
    BY LenProperties, ElementOfSeq
  <1>2. \A c : c \in Seen(rankings) <=> \E i \in 1 .. Len(rankings) : c \in ToSet(rankings[i])
    BY <1>1 DEF Seen
  <1>3. Seen(rankings) \subseteq Passages
    BY <1>1, <1>2, RanksAre
  <1> DEFINE Upto(n) == UNION {ToSet(rankings[i]) : i \in 1 .. n}
             N == {n \in Nat : n <= Len(rankings) => IsFiniteSet(Upto(n))}
  <1>4. 0 \in N
    <2>1. Upto(0) = {}
      OBVIOUS
    <2> QED  BY <2>1, FS_EmptySet
  <1>5. ASSUME NEW n \in Nat, n \in N
        PROVE  n + 1 \in N
    <2> SUFFICES ASSUME n + 1 <= Len(rankings)
                 PROVE  IsFiniteSet(Upto(n + 1))
      OBVIOUS
    <2>1. n <= Len(rankings) /\ n + 1 \in 1 .. Len(rankings)
      BY <1>1
    <2>2. IsFiniteSet(Upto(n))
      <3> HIDE DEF Upto
      <3> QED  BY <1>5, <2>1
    <2>3. Upto(n + 1) = Upto(n) \union ToSet(rankings[n + 1])
      <3>1. 1 .. n + 1 = (1 .. n) \union {n + 1}
        OBVIOUS
      <3> QED  BY <3>1
    <2>4. IsFiniteSet(ToSet(rankings[n + 1]))
      <3> DEFINE r == rankings[n + 1]
      <3>1. r \in Seq(Passages) /\ Len(r) \in Nat
        BY <1>1, <2>1, RanksAre
      <3> HIDE DEF r
      <3>2. r \in [1 .. Len(r) -> ToSet(r)] /\ \A x \in ToSet(r) : \E i \in 1 .. Len(r) : r[i] = x
        BY <3>1, Members, LenProperties
      <3>3. r \in Surjection(1 .. Len(r), ToSet(r))
        BY <3>2 DEF Surjection
      <3>4. ExistsSurjection(1 .. Len(r), ToSet(r))
        BY <3>3 DEF ExistsSurjection
      <3>5. IsFiniteSet(ToSet(r))
        BY <3>1, <3>4, FS_NatSurjection
      <3> QED  BY <3>5 DEF r
    <2> HIDE DEF Upto
    <2> QED  BY <2>2, <2>3, <2>4, FS_Union
  <1>6. Nat \subseteq N
    <2> HIDE DEF N
    <2> QED  BY <1>4, <1>5, SetInduction
  <1>7. IsFiniteSet(Upto(Len(rankings)))
    BY <1>1, <1>6
  <1>8. Seen(rankings) = Upto(Len(rankings))
    BY <1>1 DEF Seen
  <1> QED  BY <1>2, <1>3, <1>7, <1>8

\* The fused list leaves no two chunks in a tie.
LEMMA AheadIsTotal ==
    ASSUME NEW rankings \in Seq(ArmRankings)
    PROVE  TotalOrder(Seen(rankings), Ahead(rankings))
  <1> DEFINE S == Seen(rankings)
             Points(c) == Score(rankings, c)
             At(c) == FirstSeen(rankings, c)
             Rank(c) == RankIn(rankings[At(c)], c)
  <1>1. /\ Len(rankings) \in Nat /\ DOMAIN rankings = 1 .. Len(rankings)
        /\ \A n \in 1 .. Len(rankings) : rankings[n] \in ArmRankings
    BY LenProperties, ElementOfSeq
  <1>2. ASSUME NEW c \in S
        PROVE  /\ Points(c) \in Nat
               /\ At(c) \in 1 .. Len(rankings)
               /\ Rank(c) \in Nat /\ rankings[At(c)][Rank(c)] = c
    <2>1. Points(c) \in Nat
      <3>1. PICK sum \in [0 .. Len(rankings) -> Nat] : Score(rankings, c) = sum[Len(rankings)]
        BY ScoreIs
      <3> QED  BY <1>1, <3>1
    <2> DEFINE holding == {i \in DOMAIN rankings : c \in ToSet(rankings[i])}
    <2>2. holding \in SUBSET Nat /\ holding # {}
      BY <1>1, SeenIs
    <2>3. At(c) \in holding
      <3> HIDE DEF holding
      <3>1. Min(holding) \in holding
        BY <2>2, LeastOf
      <3> QED  BY <3>1 DEF FirstSeen, holding
    <2>4. At(c) \in 1 .. Len(rankings) /\ c \in ToSet(rankings[At(c)])
      BY <1>1, <2>3
    <2> HIDE DEF At, Points, holding
    <2>5. Rank(c) \in 1 .. Len(rankings[At(c)]) /\ rankings[At(c)][Rank(c)] = c
      BY <1>1, <2>4, RanksAre
    <2> QED  BY <2>1, <2>4, <2>5
  <1>3. \A a, b \in S : <<a, b>> \in Ahead(rankings) <=>
            \/ Points(a) > Points(b)
            \/ Points(a) = Points(b) /\ At(a) < At(b)
            \/ Points(a) = Points(b) /\ At(a) = At(b)
               /\ RankIn(rankings[At(a)], a) < RankIn(rankings[At(a)], b)
    BY DEF Ahead
  <1> HIDE DEF S, Points, At, Rank
  <1>4. \A a, b \in S : <<a, b>> \in Ahead(rankings) <=>
            \/ Points(a) > Points(b)
            \/ Points(a) = Points(b) /\ At(a) < At(b)
            \/ Points(a) = Points(b) /\ At(a) = At(b) /\ Rank(a) < Rank(b)
    BY <1>3 DEF Rank
  <1>5. \A c \in S : Points(c) \in Nat /\ At(c) \in Nat /\ Rank(c) \in Nat
    BY <1>1, <1>2
  <1>6. \A a, b \in S : At(a) = At(b) /\ Rank(a) = Rank(b) => a = b
    BY <1>2
  <1>7. \A a \in S : <<a, a>> \notin Ahead(rankings)
    BY <1>4, <1>5
  <1>8. ASSUME NEW a \in S, NEW b \in S
        PROVE  a = b \/ <<a, b>> \in Ahead(rankings) \/ <<b, a>> \in Ahead(rankings)
    <2>1. \/ Points(a) > Points(b) \/ Points(b) > Points(a)
          \/ Points(a) = Points(b)
      BY <1>5
    <2>2. At(a) < At(b) \/ At(b) < At(a) \/ At(a) = At(b)
      BY <1>5
    <2>3. Rank(a) < Rank(b) \/ Rank(b) < Rank(a) \/ Rank(a) = Rank(b)
      BY <1>5
    <2> QED  BY <1>4, <1>6, <2>1, <2>2, <2>3
  <1>9. \A a, b, c \in S : <<a, b>> \in Ahead(rankings) /\ <<b, c>> \in Ahead(rankings) =>
                               <<a, c>> \in Ahead(rankings)
    BY <1>4, <1>5
  <1> QED  BY <1>7, <1>8, <1>9 DEF TotalOrder, S

\* A decision's passages: all that was found of it, the best ones first.
LEMMA PassagesAre ==
    ASSUME NEW rankings \in Seq(ArmRankings), NEW d \in DocsOf(rankings)
    PROVE  /\ PassagesOf(rankings, d) \in Seq(Passages)
           /\ Len(PassagesOf(rankings, d)) \in Nat \ {0}
           /\ ToSet(PassagesOf(rankings, d)) = FoundOf(rankings, d)
           /\ \A m, n \in 1 .. Len(PassagesOf(rankings, d)) : m < n =>
                  <<PassagesOf(rankings, d)[m], PassagesOf(rankings, d)[n]>> \in Ahead(rankings)
           /\ Cardinality(FoundOf(rankings, d)) \in Nat
  <1> DEFINE S == FoundOf(rankings, d)
             ahead == Ahead(rankings)
             all == Arranged(S, ahead)
  <1>1. S \in SUBSET Seen(rankings) /\ S # {}
    BY DEF FoundOf, DocsOf
  <1>2. IsFiniteSet(S) /\ S \subseteq Passages
    BY <1>1, SeenIs, FS_Subset
  <1>3. TotalOrder(S, ahead)
    <2> HIDE DEF S, ahead
    <2>1. TotalOrder(Seen(rankings), ahead)
      BY AheadIsTotal DEF ahead
    <2> QED  BY <1>1, <2>1 DEF TotalOrder
  <1> HIDE DEF S, ahead
  <1>4. /\ Cardinality(S) \in Nat
        /\ all \in [1 .. Cardinality(S) -> S] /\ all \in Seq(S) /\ Len(all) = Cardinality(S)
        /\ \A m, n \in 1 .. Cardinality(S) : m < n => <<all[m], all[n]>> \in ahead
        /\ \A a \in S : \E n \in 1 .. Cardinality(S) : all[n] = a
    BY <1>2, <1>3, ArrangedIs
  <1> HIDE DEF all
  <1>5. Cardinality(S) # 0
    BY <1>1, <1>2, FS_EmptySet
  <1>6. ToSet(all) = S
    <2>1. \A x : x \in ToSet(all) <=> \E i \in 1 .. Len(all) : all[i] = x
      BY <1>4, Members
    <2> QED  BY <1>4, <2>1
  <1>7. all \in Seq(Passages)
    BY <1>2, <1>4, SeqMonotonic
  <1>8. PassagesOf(rankings, d) = all
    BY DEF PassagesOf, all, S, ahead
  <1> QED  BY <1>4, <1>5, <1>6, <1>7, <1>8 DEF S, ahead

\* Nor does the ranking of decisions.
LEMMA DecisionsAreRanked ==
    ASSUME NEW rankings \in Seq(ArmRankings)
    PROVE  /\ DocsOf(rankings) \subseteq Docs
           /\ IsFiniteSet(DocsOf(rankings))
           /\ TotalOrder(DocsOf(rankings), AheadOf(rankings))
  <1> DEFINE S == DocsOf(rankings)
             Best(d) == Score(rankings, PassagesOf(rankings, d)[1])
             Count(d) == Cardinality(FoundOf(rankings, d))
  <1>1. S \subseteq Docs
    BY SeenIs DEF DocsOf, Passages
  <1>2. IsFiniteSet(S)
    BY <1>1, CorpusAssumption, FS_Subset
  <1>3. \A d \in S : d \in Nat /\ Best(d) \in Nat /\ Count(d) \in Nat
    <2>1. \A c : Score(rankings, c) \in Nat
      <3>1. Len(rankings) \in Nat
        BY LenProperties
      <3>2. \A c : \E sum \in [0 .. Len(rankings) -> Nat] : Score(rankings, c) = sum[Len(rankings)]
        BY ScoreIs
      <3> QED  BY <3>1, <3>2
    <2> QED  BY <1>1, <2>1, PassagesAre, CorpusAssumption
  <1>4. \A d, e \in S : <<d, e>> \in AheadOf(rankings) <=>
            \/ Best(d) > Best(e)
            \/ Best(d) = Best(e) /\ Count(d) > Count(e)
            \/ Best(d) = Best(e) /\ Count(d) = Count(e) /\ d < e
    BY DEF AheadOf
  <1> HIDE DEF S, Best, Count
  <1>5. \A d \in S : <<d, d>> \notin AheadOf(rankings)
    BY <1>3, <1>4
  <1>6. ASSUME NEW d \in S, NEW e \in S
        PROVE  d = e \/ <<d, e>> \in AheadOf(rankings) \/ <<e, d>> \in AheadOf(rankings)
    <2>1. Best(d) > Best(e) \/ Best(e) > Best(d) \/ Best(d) = Best(e)
      BY <1>3
    <2>2. Count(d) > Count(e) \/ Count(e) > Count(d) \/ Count(d) = Count(e)
      BY <1>3
    <2>3. d < e \/ e < d \/ d = e
      BY <1>3
    <2> QED  BY <1>4, <2>1, <2>2, <2>3
  <1>7. \A d, e, f \in S : <<d, e>> \in AheadOf(rankings) /\ <<e, f>> \in AheadOf(rankings) =>
                               <<d, f>> \in AheadOf(rankings)
    BY <1>3, <1>4
  <1> QED  BY <1>1, <1>2, <1>5, <1>6, <1>7 DEF TotalOrder, S

LEMMA ScoresAreNumbers ==
    ASSUME NEW rankings \in Seq(ArmRankings), NEW c
    PROVE  Score(rankings, c) \in Nat
  <1>1. Len(rankings) \in Nat
    BY LenProperties
  <1>2. PICK sum \in [0 .. Len(rankings) -> Nat] : Score(rankings, c) = sum[Len(rankings)]
    BY ScoreIs
  <1> QED  BY <1>1, <1>2

LEMMA FirstOfIs ==
    ASSUME NEW S, NEW s \in Seq(S), NEW n \in Nat
    PROVE  /\ FirstOf(s, n) \in Seq(S)
           /\ Len(FirstOf(s, n)) \in Nat
           /\ Len(FirstOf(s, n)) = IF n <= Len(s) THEN n ELSE Len(s)
           /\ \A i \in 1 .. Len(FirstOf(s, n)) : i \in 1 .. Len(s) /\ FirstOf(s, n)[i] = s[i]
  <1> DEFINE m == Min({n, Len(s)})
  <1>1. Len(s) \in Nat /\ \A i \in 1 .. Len(s) : s[i] \in S
    BY LenProperties, ElementOfSeq
  <1>2. m = IF n <= Len(s) THEN n ELSE Len(s)
    <2>1. {n, Len(s)} \in SUBSET Nat /\ {n, Len(s)} # {}
      BY <1>1
    <2>2. m \in {n, Len(s)} /\ \A x \in {n, Len(s)} : m <= x
      BY <2>1, LeastOf
    <2> QED  BY <1>1, <2>2
  <1> HIDE DEF m
  <1>3. m \in Nat /\ m <= Len(s)
    BY <1>1, <1>2
  <1>4. FirstOf(s, n) = SubSeq(s, 1, m)
    BY DEF FirstOf, m
  <1>5. /\ SubSeq(s, 1, m) \in Seq(S)
        /\ Len(SubSeq(s, 1, m)) = m
        /\ \A i \in 1 .. m : SubSeq(s, 1, m)[i] = s[i]
    <2>1. \A i \in 1 .. m : s[i] \in S
      BY <1>1, <1>3
    <2>2. /\ SubSeq(s, 1, m) \in Seq(S)
          /\ Len(SubSeq(s, 1, m)) = IF 1 <= m THEN m - 1 + 1 ELSE 0
          /\ \A i \in 1 .. m - 1 + 1 : SubSeq(s, 1, m)[i] = s[1 + i - 1]
      BY <1>3, <2>1, SubSeqProperties
    <2> QED  BY <1>3, <2>2
  <1> QED  BY <1>1, <1>2, <1>3, <1>4, <1>5

\* An answer lists decisions in their order, each with all that was found of it.
LEMMA HitsAre ==
    ASSUME NEW rankings \in Seq(ArmRankings)
    PROVE  /\ Hits(rankings) \in Seq([doc : Docs, chunks : Seq(Passages)])
           /\ Len(Hits(rankings)) \in Nat
           /\ \A i \in 1 .. Len(Hits(rankings)) :
                  /\ Hits(rankings)[i].doc \in DocsOf(rankings)
                  /\ Hits(rankings)[i].chunks = PassagesOf(rankings, Hits(rankings)[i].doc)
           /\ \A i, j \in 1 .. Len(Hits(rankings)) : i < j =>
                  <<Hits(rankings)[i].doc, Hits(rankings)[j].doc>> \in AheadOf(rankings)
  <1> DEFINE D == DocsOf(rankings)
             all == RankedDocuments(rankings)
             ranked == FirstOf(all, SearchLimit)
             hits == Hits(rankings)
  <1>1. D \subseteq Docs /\ IsFiniteSet(D) /\ TotalOrder(D, AheadOf(rankings))
    BY DecisionsAreRanked
  <1>2. /\ all \in Seq(D) /\ Len(all) = Cardinality(D)
        /\ \A m, n \in 1 .. Len(all) : m < n => <<all[m], all[n]>> \in AheadOf(rankings)
    BY <1>1, ArrangedIs DEF RankedDocuments
  <1>3. SearchLimit \in Nat
    BY LimitsAssumption
  <1> HIDE DEF all, D
  <1>4. /\ ranked \in Seq(D) /\ Len(ranked) \in Nat
        /\ \A i \in 1 .. Len(ranked) : i \in 1 .. Len(all) /\ ranked[i] = all[i]
    BY <1>2, <1>3, FirstOfIs
  <1>5. hits = [i \in DOMAIN ranked |->
                    [doc |-> ranked[i], chunks |-> PassagesOf(rankings, ranked[i])]]
    BY DEF Hits, all
  <1> HIDE DEF ranked, hits
  <1>6. DOMAIN ranked = 1 .. Len(ranked) /\ \A i \in 1 .. Len(ranked) : ranked[i] \in D
    BY <1>4, LenProperties, ElementOfSeq
  <1>7. \A i \in 1 .. Len(ranked) : PassagesOf(rankings, ranked[i]) \in Seq(Passages)
    BY <1>6, PassagesAre DEF D
  <1>8. hits \in [1 .. Len(ranked) -> [doc : Docs, chunks : Seq(Passages)]]
    BY <1>1, <1>5, <1>6, <1>7
  <1>9. hits \in Seq([doc : Docs, chunks : Seq(Passages)]) /\ Len(hits) = Len(ranked)
    <2> DEFINE R == [doc : Docs, chunks : Seq(Passages)]
    <2>1. hits \in [1 .. Len(ranked) -> R]
      BY <1>8
    <2> HIDE DEF R
    <2>2. hits \in Seq(R) /\ Len(hits) = Len(ranked)
      BY <1>4, <2>1
    <2> QED  BY <2>2 DEF R
  <1>10. \A i \in 1 .. Len(hits) :
             /\ hits[i].doc = ranked[i]
             /\ hits[i].chunks = PassagesOf(rankings, ranked[i])
    BY <1>5, <1>6, <1>9
  <1>11. \A i, j \in 1 .. Len(hits) : i < j => <<hits[i].doc, hits[j].doc>> \in AheadOf(rankings)
    BY <1>2, <1>4, <1>9, <1>10
  <1> QED  BY <1>4, <1>6, <1>9, <1>10, <1>11 DEF hits, D

\* A passage of an answer is of its decision, and was found.
LEMMA HitChunksAre ==
    ASSUME NEW rankings \in Seq(ArmRankings), NEW i \in 1 .. Len(Hits(rankings))
    PROVE  /\ Hits(rankings)[i].chunks \in Seq(Passages)
           /\ Len(Hits(rankings)[i].chunks) \in Nat \ {0}
           /\ ToSet(Hits(rankings)[i].chunks) # {}
           /\ \A c \in ToSet(Hits(rankings)[i].chunks) :
                  c \in Seen(rankings) /\ c[1] = Hits(rankings)[i].doc
  <1> DEFINE h == Hits(rankings)[i]
  <1>1. h.doc \in DocsOf(rankings) /\ h.chunks = PassagesOf(rankings, h.doc)
    BY HitsAre
  <1> HIDE DEF h
  <1>2. /\ h.chunks \in Seq(Passages) /\ Len(h.chunks) \in Nat \ {0}
        /\ ToSet(h.chunks) = FoundOf(rankings, h.doc)
    BY <1>1, PassagesAre
  <1>3. FoundOf(rankings, h.doc) # {}
    BY <1>1 DEF FoundOf, DocsOf
  <1> QED  BY <1>2, <1>3 DEF FoundOf, h

\* No passage is put after one it beats, and no decision after one whose every
\* passage one of its own beats.
LEMMA HitsAreFair ==
    ASSUME NEW rankings \in Seq(ArmRankings),
           NEW i \in 1 .. Len(Hits(rankings)), NEW j \in 1 .. Len(Hits(rankings))
    PROVE  /\ \A m, n \in 1 .. Len(Hits(rankings)[i].chunks) : m < n =>
                  ~BeatsIn(rankings, Hits(rankings)[i].chunks[n], Hits(rankings)[i].chunks[m])
           /\ j < i => ~\E a \in ToSet(Hits(rankings)[i].chunks) :
                  \A b \in ToSet(Hits(rankings)[j].chunks) : BeatsIn(rankings, a, b)
  <1> DEFINE P(k) == Hits(rankings)[k].chunks
             Points(c) == Score(rankings, c)
  <1>1. ASSUME NEW k \in 1 .. Len(Hits(rankings))
        PROVE  /\ Hits(rankings)[k].doc \in DocsOf(rankings)
               /\ P(k) = PassagesOf(rankings, Hits(rankings)[k].doc)
               /\ P(k) \in Seq(Passages) /\ Len(P(k)) \in Nat \ {0}
               /\ \A m, n \in 1 .. Len(P(k)) : m < n =>
                      <<P(k)[m], P(k)[n]>> \in Ahead(rankings)
    <2>1. Hits(rankings)[k].doc \in DocsOf(rankings)
          /\ P(k) = PassagesOf(rankings, Hits(rankings)[k].doc)
      BY HitsAre
    <2> QED  BY <2>1, PassagesAre
  <1>2. \A c : Points(c) \in Nat
    BY ScoresAreNumbers
  <1>3. \A a, b : <<a, b>> \in Ahead(rankings) => Points(a) >= Points(b)
    <2>1. ASSUME NEW a, NEW b, <<a, b>> \in Ahead(rankings)
          PROVE  Points(a) > Points(b) \/ Points(a) = Points(b)
      BY <2>1 DEF Ahead
    <2> HIDE DEF Points
    <2> QED  BY <1>2, <2>1
  <1>4. \A a, b : BeatsIn(rankings, a, b) => Points(a) > Points(b)
    BY BeatingScoresMore
  <1> HIDE DEF Points
  <1>5. ASSUME NEW m \in 1 .. Len(P(i)), NEW n \in 1 .. Len(P(i)), m < n,
               BeatsIn(rankings, P(i)[n], P(i)[m])
        PROVE  FALSE
    <2>1. Points(P(i)[m]) >= Points(P(i)[n])
      BY <1>1, <1>3, <1>5
    <2>2. Points(P(i)[n]) > Points(P(i)[m])
      BY <1>4, <1>5
    <2> QED  BY <1>2, <2>1, <2>2
  <1>6. ASSUME j < i, NEW a \in ToSet(P(i)), \A b \in ToSet(P(j)) : BeatsIn(rankings, a, b)
        PROVE  FALSE
    <2> DEFINE top == P(i)[1]
               other == P(j)[1]
    <2>1. 1 \in 1 .. Len(P(i)) /\ 1 \in 1 .. Len(P(j))
      BY <1>1
    <2>2. other \in ToSet(P(j))
      BY <1>1, <2>1, Members
    <2>3. PICK n \in 1 .. Len(P(i)) : P(i)[n] = a
      BY <1>1, <1>6, Members
    <2>4. Points(top) >= Points(a)
      <3>1. CASE n = 1
        BY <1>2, <2>3, <3>1
      <3>2. CASE n # 1
        <4>1. 1 < n
          BY <3>2
        <4> QED  BY <1>1, <1>3, <2>1, <2>3, <4>1
      <3> QED  BY <3>1, <3>2
    <2>5. Points(a) > Points(other)
      BY <1>4, <1>6, <2>2
    <2>6. Points(top) > Points(other)
      BY <1>2, <2>4, <2>5
    <2>7. <<Hits(rankings)[j].doc, Hits(rankings)[i].doc>> \in AheadOf(rankings)
      BY <1>6, HitsAre
    <2>8. Points(other) > Points(top) \/ Points(other) = Points(top)
      <3>1. P(i) = PassagesOf(rankings, Hits(rankings)[i].doc)
            /\ P(j) = PassagesOf(rankings, Hits(rankings)[j].doc)
        BY <1>1
      <3> DEFINE d == Hits(rankings)[j].doc
                 e == Hits(rankings)[i].doc
                 Best(x) == Score(rankings, PassagesOf(rankings, x)[1])
      <3>2. <<d, e>> \in AheadOf(rankings)
        BY <2>7
      <3> HIDE DEF d, e
      <3>3. Best(d) > Best(e) \/ Best(d) = Best(e)
        BY <3>2 DEF AheadOf
      <3> QED  BY <3>1, <3>3 DEF d, e, Points
    <2> QED  BY <1>2, <2>6, <2>8
  <1> QED  BY <1>5, <1>6

(***************************************************************************)
(* The statements of a search.                                             *)
(***************************************************************************)
\* The phrasings kept are phrasings.
LEMMA QueriesAre ==
    ASSUME NEW question \in Queries, NEW extra \in Variants
    PROVE  DedupeQueries(question, extra) \in Seq(Phrasings)
  <1>1. question \in Phrasings /\ extra \in Seq(Phrasings)
    BY QueriesAssumption
  <1>2. Len(extra) \in Nat /\ \A n \in 1 .. Len(extra) : extra[n] \in Phrasings
    BY <1>1, LenProperties, ElementOfSeq
  <1> DEFINE Loop(f) == f = [n \in 0 .. Len(extra) |->
                                IF n = 0 THEN <<question>> ELSE TakeVariant(f[n - 1], extra[n])]
             upTo == CHOOSE f : Loop(f)
             step == [x \in Seq(Phrasings) \X Phrasings |-> TakeVariant(x[1], x[2])]
  <1>3. step \in [Seq(Phrasings) \X Phrasings -> Seq(Phrasings)]
    <2>1. \A kept \in Seq(Phrasings), q \in Phrasings : TakeVariant(kept, q) \in Seq(Phrasings)
      BY AppendProperties DEF TakeVariant
    <2> QED  BY <2>1
  <1>4. <<question>> \in Seq(Phrasings)
    BY <1>1
  <1>5. PICK g \in [0 .. Len(extra) -> Seq(Phrasings)] : Loops(g, <<question>>, step, extra)
    <2> HIDE DEF step
    <2> QED  BY <1>1, <1>3, <1>4, LoopExists
  <1>6. Loop(g)
    <2>1. ASSUME NEW n \in 0 .. Len(extra), n # 0
          PROVE  g[n] = TakeVariant(g[n - 1], extra[n])
      <3>1. n \in 1 .. Len(extra) /\ n - 1 \in 0 .. Len(extra)
        BY <1>2, <2>1
      <3>2. <<g[n - 1], extra[n]>> \in Seq(Phrasings) \X Phrasings
        BY <1>2, <3>1
      <3>3. g[n] = step[<<g[n - 1], extra[n]>>]
        <4> HIDE DEF step
        <4> QED  BY <1>5, <3>1 DEF Loops
      <3> QED  BY <3>2, <3>3
    <2> HIDE DEF step
    <2>2. g[0] = <<question>> /\ g = [n \in 0 .. Len(extra) |-> g[n]]
      BY <1>5 DEF Loops
    <2> QED  BY <2>1, <2>2
  <1>7. Loop(upTo)
    BY <1>6
  <1>8. DedupeQueries(question, extra) = upTo[Len(extra)]
    BY DEF DedupeQueries
  <1> HIDE DEF upTo
  <1> DEFINE N == {n \in Nat : n <= Len(extra) => upTo[n] \in Seq(Phrasings)}
  <1>9. 0 \in N
    BY <1>2, <1>4, <1>7
  <1>10. ASSUME NEW n \in Nat, n \in N
         PROVE  n + 1 \in N
    <2> SUFFICES ASSUME n + 1 <= Len(extra)
                 PROVE  upTo[n + 1] \in Seq(Phrasings)
      OBVIOUS
    <2>1. /\ n + 1 \in 0 .. Len(extra) /\ n + 1 \in 1 .. Len(extra)
          /\ n + 1 # 0 /\ (n + 1) - 1 = n /\ n <= Len(extra)
      BY <1>2
    <2>2. upTo[n + 1] = TakeVariant(upTo[n], extra[n + 1])
      BY <1>7, <2>1
    <2>3. upTo[n] \in Seq(Phrasings) /\ extra[n + 1] \in Phrasings
      BY <1>2, <1>10, <2>1
    <2> HIDE DEF Loop
    <2> QED  BY <2>2, <2>3, AppendProperties DEF TakeVariant
  <1>11. Nat \subseteq N
    <2> HIDE DEF N
    <2> QED  BY <1>9, <1>10, SetInduction
  <1>12. upTo[Len(extra)] \in Seq(Phrasings)
    BY <1>2, <1>11
  <1> QED  BY <1>8, <1>12

\* The filter's decisions are of the corpus, and those kept are the filter's.
LEMMA NarrowedAre ==
    ASSUME NEW f, NEW found \in Narrowed(f)
    PROVE  /\ Matching(f) \subseteq Docs
           /\ found \subseteq IF f = NoFilter THEN Docs ELSE Matching(f)
  <1>1. Matching(f) \subseteq Docs
    BY DEF Matching
  <1> HIDE DEF Matching
  <1> QED  BY <1>1 DEF Narrowed, kSubset

\* There are so many chunks in the table.
LEMMA ChunksAre ==
    ASSUME TypeOK, CorpusHolds
    PROVE  /\ IsFiniteSet(Chunks)
           /\ Chunks \subseteq Passages
           /\ \A c \in Chunks : c[3] \in docs[c[1]].sets
  <1>1. \A d \in Docs : docs[d].sets \subseteq Nat /\ IsFiniteSet(docs[d].sets)
    BY DEF TypeOK, Documents, CorpusHolds
  <1>2. \A c \in Chunks :
            \E d \in Docs : \E s \in Sections : \E v \in docs[d].sets : c = <<d, s, v>>
    BY DEF Chunks
  <1>3. \A c \in Chunks : c[3] \in docs[c[1]].sets
    BY <1>2
  <1>4. Chunks \subseteq Passages
    BY <1>1, <1>2 DEF Passages
  <1>5. IsFiniteSet(Sections)
    <2>1. IsFiniteSet({"body"})
      BY FS_Singleton
    <2>2. IsFiniteSet({"body"} \union {"appendix"})
      BY <2>1, FS_AddElement
    <2>3. Sections = {"body"} \union {"appendix"}
      BY DEF Sections
    <2> QED  BY <2>2, <2>3
  <1> DEFINE All == {docs[d].sets : d \in Docs}
             V == UNION All
             P == (Docs \X Sections) \X V
             f == [p \in P |-> <<p[1][1], p[1][2], p[2]>>]
             T == {f[p] : p \in P}
  <1>6. IsFiniteSet(V)
    <2> DEFINE g == [d \in Docs |-> docs[d].sets]
    <2>1. g \in [Docs -> All] /\ \A t \in All : \E d \in Docs : g[d] = t
      OBVIOUS
    <2>2. g \in Surjection(Docs, All)
      <3> HIDE DEF g, All
      <3> QED  BY <2>1 DEF Surjection
    <2>3. IsFiniteSet(All)
      <3> HIDE DEF g, All
      <3> QED  BY <2>2, CorpusAssumption, FS_Surjection
    <2>4. \A t \in All : IsFiniteSet(t)
      BY <1>1
    <2> HIDE DEF All
    <2> QED  BY <2>3, <2>4, FS_UNION
  <1>7. IsFiniteSet(P)
    <2>1. IsFiniteSet(Docs \X Sections)
      BY <1>5, CorpusAssumption, FS_Product
    <2> HIDE DEF V
    <2> QED  BY <1>6, <2>1, FS_Product
  <1>8. IsFiniteSet(T)
    <2>1. f \in [P -> T] /\ \A t \in T : \E p \in P : f[p] = t
      OBVIOUS
    <2> HIDE DEF f, T, P
    <2>2. f \in Surjection(P, T)
      BY <2>1 DEF Surjection
    <2> QED  BY <1>7, <2>2, FS_Surjection
  <1>9. Chunks \in SUBSET T
    <2>1. ASSUME NEW c \in Chunks
          PROVE  c \in T
      <3>1. PICK d \in Docs : \E s \in Sections : \E v \in docs[d].sets : c = <<d, s, v>>
        BY <1>2
      <3>2. PICK s \in Sections, v \in docs[d].sets : c = <<d, s, v>>
        BY <3>1
      <3>3. <<<<d, s>>, v>> \in P /\ f[<<<<d, s>>, v>>] = c
        BY <3>2
      <3> HIDE DEF f, P
      <3> QED  BY <3>3
    <2> QED  BY <2>1
  <1>10. IsFiniteSet(Chunks)
    <2> HIDE DEF T
    <2> QED  BY <1>8, <1>9, FS_Subset
  <1> QED  BY <1>3, <1>4, <1>10

\* An arm returns chunks that are in question and in the table, each once.
LEMMA ArmsReturn ==
    ASSUME TypeOK, CorpusHolds,
           NEW S \in SUBSET InScope, NEW score, NEW ranking \in Ranking(S, score)
    PROVE  /\ ranking \in ArmRankings
           /\ \A c \in ToSet(ranking) : InQuestion(c) /\ OfOneChunking(c)
  <1>1. InScope \subseteq Chunks /\ \A c \in InScope : InQuestion(c)
    BY DEF InScope, InQuestion
  <1>2. IsFiniteSet(S) /\ Cardinality(S) \in Nat
    BY <1>1, ChunksAre, FS_Subset, FS_CardinalityType
  <1> DEFINE k == Min({ArmLimit, Cardinality(S)})
  <1>3. k \in Nat /\ k <= ArmLimit
    <2>1. {ArmLimit, Cardinality(S)} \in SUBSET Nat /\ {ArmLimit, Cardinality(S)} # {}
      BY <1>2, LimitsAssumption
    <2>2. k \in {ArmLimit, Cardinality(S)} /\ \A x \in {ArmLimit, Cardinality(S)} : k <= x
      BY <2>1, LeastOf
    <2> HIDE DEF k
    <2> QED  BY <2>1, <2>2
  <1>4. ranking \in [1 .. k -> S] /\ IsInjective(ranking)
    BY DEF Ranking
  <1> HIDE DEF k
  <1>5. ranking \in Seq(S) /\ Len(ranking) = k
    BY <1>3, <1>4
  <1>6. ranking \in Seq(Passages)
    BY <1>1, <1>5, ChunksAre, SeqMonotonic
  <1>7. ranking \in ArmRankings
    BY <1>3, <1>4, <1>5, <1>6 DEF ArmRankings
  <1>8. ToSet(ranking) \subseteq S
    BY <1>5, Members
  <1>9. \A c \in S : InQuestion(c) /\ OfOneChunking(c)
    BY <1>1, ChunksAre DEF OfOneChunking
  <1> QED  BY <1>7, <1>8, <1>9

(***************************************************************************)
(* The listing.                                                            *)
(***************************************************************************)
\* Without a filter it is of what has text.
LEMMA AllMatch ==
    /\ Matching(NoFilter) = {d \in Docs : docs[d].parsed}
    /\ Matching(NoFilter)' = {d \in Docs : docs'[d].parsed}
  <1>1. \A d \in Docs :
            (CASE NoFilter = NoFilter -> TRUE
               [] NoFilter[1] = "category" -> docs[d].category = NoFilter[2]
               [] NoFilter[1] = "keyword" -> <<"keyword", NoFilter[2]>> \in docs[d].labels
               [] NoFilter[1] = "type" -> \E l \in docs[d].labels : l[1] = NoFilter[2]) = TRUE
    BY DEF NoFilter
  <1>2. \A d \in Docs :
            (CASE NoFilter = NoFilter -> TRUE
               [] NoFilter[1] = "category" -> docs'[d].category = NoFilter[2]
               [] NoFilter[1] = "keyword" -> <<"keyword", NoFilter[2]>> \in docs'[d].labels
               [] NoFilter[1] = "type" -> \E l \in docs'[d].labels : l[1] = NoFilter[2]) = TRUE
    BY DEF NoFilter
  <1> QED  BY <1>1, <1>2 DEF Matching

\* Its order, newest first and then by identifier, leaves nothing free.
LEMMA ListingIsOrdered ==
    ASSUME TypeOK
    PROVE  /\ Matching(NoFilter) = {d \in Docs : docs[d].parsed}
           /\ IsFiniteSet(Matching(NoFilter))
           /\ TotalOrder(Matching(NoFilter), Earlier)
  <1>1. Matching(NoFilter) = {d \in Docs : docs[d].parsed}
    BY AllMatch
  <1>2. IsFiniteSet(Matching(NoFilter))
    <2>1. Matching(NoFilter) \in SUBSET Docs
      BY <1>1
    <2> QED  BY <2>1, CorpusAssumption, FS_Subset
  <1> DEFINE Date(d) == docs[d].date
  <1>3. \A d \in Docs : d \in Nat /\ (Date(d) = None \/ (Date(d) \in Int /\ Date(d) # None))
    <2>1. \A d \in Docs : d \in Nat /\ Date(d) \in Dates \union {None}
      BY CorpusAssumption DEF TypeOK, Documents
    <2> HIDE DEF Date
    <2> QED  BY <2>1, CorpusAssumption
  <1>4. \A d, e \in Docs :
            <<d, e>> \in Earlier <=>
                \/ Date(d) # None /\ (Date(e) = None \/ Date(d) > Date(e))
                \/ Date(d) = Date(e) /\ d < e
    BY DEF Earlier, Newer
  <1> HIDE DEF Date
  <1>5. \A d \in Docs : <<d, d>> \notin Earlier
    BY <1>3, <1>4
  <1>6. ASSUME NEW d \in Docs, NEW e \in Docs
        PROVE  d = e \/ <<d, e>> \in Earlier \/ <<e, d>> \in Earlier
    <2>1. CASE Date(d) = Date(e)
      BY <1>3, <1>4, <2>1
    <2>2. CASE Date(d) # Date(e) /\ (Date(d) = None \/ Date(e) = None)
      BY <1>4, <2>2
    <2>3. CASE Date(d) # Date(e) /\ Date(d) # None /\ Date(e) # None
      <3>1. Date(d) > Date(e) \/ Date(e) > Date(d)
        BY <1>3, <2>3
      <3> QED  BY <1>4, <2>3, <3>1
    <2> QED  BY <2>1, <2>2, <2>3
  <1>7. ASSUME NEW d \in Docs, NEW e \in Docs, NEW f \in Docs,
               <<d, e>> \in Earlier, <<e, f>> \in Earlier
        PROVE  <<d, f>> \in Earlier
    <2>1. CASE Date(d) = Date(e)
      BY <1>3, <1>4, <1>7, <2>1
    <2>2. CASE Date(d) # Date(e) /\ Date(e) = Date(f)
      BY <1>3, <1>4, <1>7, <2>2
    <2>3. CASE Date(d) # Date(e) /\ Date(e) # Date(f)
      <3>1. /\ Date(d) # None /\ (Date(e) = None \/ Date(d) > Date(e))
            /\ Date(e) # None /\ (Date(f) = None \/ Date(e) > Date(f))
        BY <1>4, <1>7, <2>3
      <3>2. CASE Date(f) = None
        BY <1>4, <3>1, <3>2
      <3>3. CASE Date(f) # None
        <4>1. Date(d) > Date(f)
          BY <1>3, <3>1, <3>3
        <4> QED  BY <1>4, <3>1, <4>1
      <3> QED  BY <3>2, <3>3
    <2> QED  BY <2>1, <2>2, <2>3
  <1>8. Matching(NoFilter) \subseteq Docs
    BY <1>1
  <1> HIDE DEF Matching, Earlier
  <1> QED  BY <1>1, <1>2, <1>5, <1>6, <1>7, <1>8 DEF TotalOrder

\* A set in a total order makes one list, which holds each member once.
LEMMA ListsAre ==
    ASSUME NEW T, NEW S \in SUBSET T, IsFiniteSet(S), NEW before, TotalOrder(S, before)
    PROVE  /\ Arranged(S, before) \in Seq(T)
           /\ IsInjective(Arranged(S, before))
           /\ ToSet(Arranged(S, before)) = S
  <1> DEFINE all == Arranged(S, before)
  <1>1. /\ all \in Seq(S) /\ Len(all) = Cardinality(S)
        /\ \A m, n \in 1 .. Cardinality(S) : all[m] = all[n] => m = n
        /\ \A a \in S : \E n \in 1 .. Cardinality(S) : all[n] = a
    BY ArrangedIs
  <1> HIDE DEF all
  <1>2. all \in Seq(T)
    BY <1>1, SeqMonotonic
  <1>3. DOMAIN all = 1 .. Cardinality(S)
    BY <1>1, LenProperties
  <1>4. /\ \A x : x \in ToSet(all) <=> \E i \in 1 .. Len(all) : all[i] = x
        /\ ToSet(all) \subseteq S
    BY <1>1, Members
  <1> QED  BY <1>1, <1>2, <1>3, <1>4 DEF IsInjective, all

LEMMA ListedIs ==
    ASSUME TypeOK
    PROVE  /\ Listed \in Seq(Docs)
           /\ IsInjective(Listed)
           /\ ToSet(Listed) = Matching(NoFilter)
           /\ Ordered(Matching(NoFilter), Newer) \subseteq {Listed}
  <1> DEFINE S == Matching(NoFilter)
  <1>1. S \in SUBSET Docs /\ IsFiniteSet(S) /\ TotalOrder(S, Earlier)
    BY ListingIsOrdered
  <1> HIDE DEF S
  <1>2. Listed \in Seq(Docs) /\ IsInjective(Listed) /\ ToSet(Listed) = S
    BY <1>1, ListsAre DEF Listed, S
  <1>3. ASSUME NEW all \in Ordered(S, Newer)
        PROVE  all = Listed
    <2>1. /\ all \in [1 .. Cardinality(S) -> S]
          /\ \A i, j \in 1 .. Cardinality(S) : i # j => all[i] # all[j]
          /\ \A i, j \in DOMAIN all : i < j => ~Newer(all[j], all[i])
      BY DEF Ordered, SetToSeqs
    <2>2. \A i, j \in 1 .. Cardinality(S) : i < j => <<all[j], all[i]>> \notin Earlier
      BY <2>1 DEF Earlier
    <2>3. all = Arranged(S, Earlier)
      <3> HIDE DEF Earlier
      <3> QED  BY <1>1, <2>1, <2>2, OrderedIsArranged
    <2> QED  BY <2>3 DEF Listed, S
  <1> QED  BY <1>2, <1>3 DEF S

\* An entity has a number of decisions and a name; its type and name tell it apart.
LEMMA EntitiesAre ==
    /\ \A e : Cardinality(DocumentsFor(e)) \in Nat
    /\ \A e \in Labels : e[2] \in Nat
    /\ \A e, f \in Labels : e[1] = f[1] /\ e[2] = f[2] => e = f
  <1>1. \A e : DocumentsFor(e) \in SUBSET Docs
    BY DEF DocumentsFor
  <1>2. \A e : IsFiniteSet(DocumentsFor(e))
    BY <1>1, CorpusAssumption, FS_Subset
  <1>3. \A e, f \in Labels : e[1] = f[1] /\ e[2] = f[2] => e = f
    <2>1. ASSUME NEW e \in Labels, NEW f \in Labels, e[1] = f[1], e[2] = f[2]
          PROVE  e = f
      <3>1. e = <<e[1], e[2]>> /\ f = <<f[1], f[2]>>
        BY CorpusAssumption
      <3> QED  BY <2>1, <3>1
    <2> QED  BY <2>1
  <1> QED  BY <1>2, <1>3, FS_CardinalityType, CorpusAssumption

\* Within a type, and where no two tie, their order leaves nothing free.
LEMMA EntitiesAreOrdered ==
    ASSUME TypeOK, NEW f, Settled(f)
    PROVE  /\ ListEntities(f) \in SUBSET Labels
           /\ IsFiniteSet(ListEntities(f))
           /\ TotalOrder(ListEntities(f), CitedMore)
  <1> DEFINE S == ListEntities(f)
             Count(e) == Cardinality(DocumentsFor(e))
  <1>1. S \in SUBSET Labels
    BY DEF ListEntities, TypeOK
  <1>2. IsFiniteSet(S)
    BY <1>1, CorpusAssumption, FS_Subset
  <1>3. \A e \in Labels : Count(e) \in Nat /\ e[2] \in Nat
    BY EntitiesAre
  <1>4. \A d, e \in Labels :
            <<d, e>> \in CitedMore <=>
                \/ Count(d) > Count(e)
                \/ Count(d) = Count(e) /\ d[2] < e[2]
    BY DEF CitedMore, MoreCited
  <1>5. \A d, e \in S : d = e \/ Count(d) # Count(e) \/ d[2] # e[2]
    <2>1. CASE f # NoFilter
      <3>1. \A d, e \in S : d[1] = e[1]
        BY <2>1 DEF ListEntities
      <3> HIDE DEF S
      <3> QED  BY <1>1, <3>1, EntitiesAre
    <2>2. CASE f = NoFilter
      <3>1. Untied(S)
        BY <2>2 DEF Settled
      <3>2. \A d, e \in S : d = e \/ MoreCited(d, e) \/ MoreCited(e, d)
        <4> HIDE DEF S
        <4> QED  BY <3>1 DEF Untied
      <3>3. \A d, e \in Labels : MoreCited(d, e) => Count(d) > Count(e) \/ d[2] < e[2]
        BY DEF MoreCited
      <3> HIDE DEF Count, S
      <3> QED  BY <1>1, <1>3, <3>2, <3>3
    <2> QED  BY <2>1, <2>2
  <1> HIDE DEF Count, S
  <1>6. \A d \in S : <<d, d>> \notin CitedMore
    BY <1>1, <1>3, <1>4
  <1>7. ASSUME NEW d \in S, NEW e \in S
        PROVE  d = e \/ <<d, e>> \in CitedMore \/ <<e, d>> \in CitedMore
    <2>1. /\ d \in Labels /\ e \in Labels /\ Count(d) \in Nat /\ Count(e) \in Nat
          /\ d[2] \in Nat /\ e[2] \in Nat
      BY <1>1, <1>3
    <2>2. CASE Count(d) # Count(e)
      <3>1. Count(d) > Count(e) \/ Count(e) > Count(d)
        BY <2>1, <2>2
      <3> QED  BY <1>4, <2>1, <3>1
    <2>3. CASE Count(d) = Count(e) /\ d[2] # e[2]
      <3>1. d[2] < e[2] \/ e[2] < d[2]
        BY <2>1, <2>3
      <3> QED  BY <1>4, <2>1, <2>3, <3>1
    <2> QED  BY <1>5, <2>2, <2>3
  <1>8. \A c, d, e \in S :
            <<c, d>> \in CitedMore /\ <<d, e>> \in CitedMore => <<c, e>> \in CitedMore
    BY <1>1, <1>3, <1>4
  <1> QED  BY <1>1, <1>2, <1>6, <1>7, <1>8 DEF TotalOrder, S

LEMMA ListedEntitiesAre ==
    ASSUME TypeOK, NEW f, Settled(f)
    PROVE  /\ ListedEntities(f) \in Seq(Labels)
           /\ IsInjective(ListedEntities(f))
           /\ ToSet(ListedEntities(f)) = ListEntities(f)
           /\ Ordered(ListEntities(f), MoreCited) \subseteq {ListedEntities(f)}
  <1> DEFINE S == ListEntities(f)
  <1>1. S \in SUBSET Labels /\ IsFiniteSet(S) /\ TotalOrder(S, CitedMore)
    BY EntitiesAreOrdered
  <1> HIDE DEF S
  <1>2. /\ ListedEntities(f) \in Seq(Labels) /\ IsInjective(ListedEntities(f))
        /\ ToSet(ListedEntities(f)) = S
    BY <1>1, ListsAre DEF ListedEntities, S
  <1>3. ASSUME NEW all \in Ordered(S, MoreCited)
        PROVE  all = ListedEntities(f)
    <2>1. /\ all \in [1 .. Cardinality(S) -> S]
          /\ \A i, j \in 1 .. Cardinality(S) : i # j => all[i] # all[j]
          /\ \A i, j \in DOMAIN all : i < j => ~MoreCited(all[j], all[i])
      BY DEF Ordered, SetToSeqs
    <2>2. \A i, j \in 1 .. Cardinality(S) : i < j => <<all[j], all[i]>> \notin CitedMore
      BY <2>1 DEF CitedMore
    <2>3. all = Arranged(S, CitedMore)
      <3> HIDE DEF CitedMore
      <3> QED  BY <1>1, <2>1, <2>2, OrderedIsArranged
    <2> QED  BY <2>3 DEF ListedEntities, S
  <1> QED  BY <1>2, <1>3 DEF S

\* They are the same while no decision is tagged anew.
LEMMA EntitiesStay ==
    ASSUME CorpusHolds, entities \subseteq entities',
           \A d \in Docs : docs'[d].labels = docs[d].labels /\ docs'[d].labels \subseteq entities
    PROVE  /\ \A f : ListedEntities(f)' = ListedEntities(f)
           /\ Untied(ListEntities(NoFilter))' <=> Untied(ListEntities(NoFilter))
  <1>1. \A e : DocumentsFor(e)' = DocumentsFor(e)
    BY DEF DocumentsFor
  <1>2. \A e : DocumentsFor(e) # {} => e \in entities
    BY DEF DocumentsFor
  <1> HIDE DEF DocumentsFor
  <1>3. \A f : ListEntities(f)' = ListEntities(f)
    BY <1>1, <1>2 DEF ListEntities
  <1>4. \A e, f : MoreCited(e, f)' <=> MoreCited(e, f)
    BY <1>1 DEF MoreCited
  <1>5. CitedMore' = CitedMore
    BY <1>4 DEF CitedMore
  <1> HIDE DEF ListEntities, CitedMore, MoreCited
  <1>6. ASSUME NEW f
        PROVE  ListedEntities(f)' = ListedEntities(f)
    <2>1. ListEntities(f)' = ListEntities(f)
      BY <1>3
    <2> QED  BY <1>5, <2>1 DEF ListedEntities, Arranged
  <1>7. Untied(ListEntities(NoFilter))' <=> Untied(ListEntities(NoFilter))
    BY <1>3, <1>4 DEF Untied
  <1> QED  BY <1>6, <1>7

\* A page follows the ones before it.
LEMMA PagesJoin ==
    ASSUME NEW S, NEW s \in Seq(S), NEW m \in Nat, NEW p \in Nat
    PROVE  /\ FirstOf(SubSeq(s, m + 1, Len(s)), p) \in Seq(S)
           /\ FirstOf(s, m) \o FirstOf(SubSeq(s, m + 1, Len(s)), p) = FirstOf(s, m + p)
  <1> DEFINE rest == SubSeq(s, m + 1, Len(s))
             a == FirstOf(s, m)
             b == FirstOf(rest, p)
             c == FirstOf(s, m + p)
  <1>1. Len(s) \in Nat /\ \A i \in 1 .. Len(s) : s[i] \in S
    BY LenProperties, ElementOfSeq
  <1>2. /\ rest \in Seq(S)
        /\ Len(rest) = IF m + 1 <= Len(s) THEN Len(s) - m ELSE 0
        /\ \A i \in 1 .. Len(rest) : rest[i] = s[m + i]
    <2>1. \A i \in m + 1 .. Len(s) : s[i] \in S
      BY <1>1
    <2>2. /\ rest \in Seq(S)
          /\ Len(rest) = IF m + 1 <= Len(s) THEN Len(s) - (m + 1) + 1 ELSE 0
          /\ \A i \in 1 .. Len(s) - (m + 1) + 1 : rest[i] = s[m + 1 + i - 1]
      BY <1>1, <2>1, SubSeqProperties
    <2> HIDE DEF rest
    <2>3. \A i \in 1 .. Len(rest) : i \in 1 .. Len(s) - (m + 1) + 1 /\ m + 1 + i - 1 = m + i
      BY <1>1, <2>2
    <2> QED  BY <1>1, <2>2, <2>3
  <1> HIDE DEF rest
  <1>3. /\ a \in Seq(S) /\ Len(a) = IF m <= Len(s) THEN m ELSE Len(s)
        /\ \A i \in 1 .. Len(a) : a[i] = s[i]
    BY FirstOfIs
  <1>4. /\ b \in Seq(S) /\ Len(b) = IF p <= Len(rest) THEN p ELSE Len(rest)
        /\ \A i \in 1 .. Len(b) : i \in 1 .. Len(rest) /\ b[i] = rest[i]
    BY <1>2, FirstOfIs
  <1>5. /\ c \in Seq(S) /\ Len(c) = IF m + p <= Len(s) THEN m + p ELSE Len(s)
        /\ \A i \in 1 .. Len(c) : c[i] = s[i]
    <2>1. m + p \in Nat
      OBVIOUS
    <2> QED  BY <2>1, FirstOfIs
  <1> HIDE DEF a, b, c
  <1>6. /\ a \o b \in Seq(S) /\ Len(a \o b) = Len(a) + Len(b)
        /\ \A i \in 1 .. Len(a) + Len(b) : (a \o b)[i] = IF i <= Len(a) THEN a[i] ELSE b[i - Len(a)]
    <2>1. a \in Seq(S) /\ b \in Seq(S)
      BY <1>3, <1>4
    <2> QED  BY <2>1, ConcatProperties
  <1>7. Len(a) + Len(b) = Len(c)
    <2>1. CASE m + p <= Len(s)
      <3>1. m <= Len(s) /\ p <= Len(rest)
        BY <1>1, <1>2, <2>1
      <3> QED  BY <1>3, <1>4, <1>5, <2>1, <3>1
    <2>2. CASE ~(m + p <= Len(s)) /\ m + 1 <= Len(s)
      <3>1. m <= Len(s) /\ Len(rest) = Len(s) - m /\ ~(p <= Len(rest))
        BY <1>1, <1>2, <2>2
      <3> QED  BY <1>1, <1>3, <1>4, <1>5, <2>2, <3>1
    <2>3. CASE ~(m + p <= Len(s)) /\ ~(m + 1 <= Len(s))
      <3>1. Len(rest) = 0
        BY <1>2, <2>3
      <3>2. Len(b) = 0
        BY <1>4, <3>1
      <3>3. Len(a) = Len(s)
        BY <1>1, <1>3, <2>3
      <3> QED  BY <1>1, <1>5, <2>3, <3>2, <3>3
    <2> QED  BY <2>1, <2>2, <2>3
  <1>8. ASSUME NEW i \in 1 .. Len(c)
        PROVE  (a \o b)[i] = c[i]
    <2>1. CASE i <= Len(a)
      <3>1. i \in 1 .. Len(a)
        BY <1>1, <1>3, <2>1
      <3> QED  BY <1>3, <1>5, <1>6, <1>7, <2>1, <3>1
    <2>2. CASE ~(i <= Len(a))
      <3>1. m <= Len(s) /\ Len(a) = m /\ i - m \in 1 .. Len(b)
        BY <1>1, <1>2, <1>3, <1>4, <1>5, <1>7, <2>2
      <3>2. b[i - m] = s[m + (i - m)] /\ m + (i - m) = i
        BY <1>2, <1>4, <3>1
      <3> QED  BY <1>5, <1>6, <1>7, <2>2, <3>1, <3>2
    <2> QED  BY <2>1, <2>2
  <1>9. a \o b = c
    BY <1>5, <1>6, <1>7, <1>8, SeqEqual
  <1> QED  BY <1>4, <1>9 DEF a, b, c, rest

(***************************************************************************)
(* Every step preserves the invariant.                                     *)
(***************************************************************************)
LEMMA NothingSeen == Seen(<<>>) = {}
  <1>1. DOMAIN <<>> = {}
    OBVIOUS
  <1> QED  BY <1>1 DEF Seen

LEMMA NoRequestIs ==
    /\ NoRequest \in RequestRecords
    /\ <<>> \in Seq(ArmRankings)
  <1> DEFINE Q == Seq(Phrasings)
             R == Seq(Seq(Passages))
             H == Seq([doc : Docs, chunks : Seq(Passages)])
             P == Seq(Seq(Docs \union Labels))
  <1>1. <<>> \in Q /\ <<>> \in R /\ <<>> \in H /\ <<>> \in P /\ <<>> \in Seq(ArmRankings)
    BY EmptySeq
  <1>2. NoFilter \in Filters
    BY DEF Filters
  <1> HIDE DEF Q, R, H, P
  <1>3. RequestRecords =
            [kind : {"none", "search", "listing", "vocabulary"}, done : BOOLEAN,
             queries : Q, vectors : Nat, filter : Filters, appendices : BOOLEAN, matched : SUBSET Docs,
             candidates : SUBSET Docs, widened : BOOLEAN, rankings : R, silent : BOOLEAN,
             hits : H, pages : P, moved : BOOLEAN, rechunked : SUBSET Docs]
    BY DEF RequestRecords, Q, R, H, P
  <1> HIDE DEF Filters, NoFilter
  <1> QED  BY <1>1, <1>2, <1>3 DEF NoRequest

LEMMA Initially == Init => Inductive
  <1> SUFFICES ASSUME Init
               PROVE  Inductive
    OBVIOUS
  <1>1. \A d \in Docs :
            \/ docs[d] = Fresh
            \/ \E c \in Categories, t \in Dates : docs[d] = Ready(c, t, Labels)
    BY DEF Init
  <1>2. TypeOK
    <2>1. Fresh \in Documents
      BY DEF Fresh, Documents
    <2>2. \A c \in Categories, t \in Dates : Ready(c, t, Labels) \in Documents
      BY DEF Ready, Documents
    <2>3. \A d \in Docs : docs[d] \in Documents
      BY <1>1, <2>1, <2>2
    <2>4. docs \in [Docs -> Documents]
      BY <2>3 DEF Init
    <2>5. entities \subseteq Labels
      BY <2>3 DEF Init, Documents
    <2> QED  BY <2>4, <2>5, NoRequestIs DEF Init, TypeOK
  <1>3. CorpusHolds
    <2>1. Fresh.sets = {}
      BY DEF Fresh
    <2>2. \A c, t : Ready(c, t, Labels).sets = {1} /\ Ready(c, t, Labels).last = 1
      BY DEF Ready
    <2>3. \A d \in Docs : docs[d].sets = {} \/ (docs[d].sets = {1} /\ docs[d].last = 1)
      BY <1>1, <2>1, <2>2
    <2>4. IsFiniteSet({}) /\ IsFiniteSet({1})
      BY FS_EmptySet, FS_Singleton
    <2>5. \A d \in Docs : docs[d].sets \subseteq {docs[d].last} /\ IsFiniteSet(docs[d].sets)
      BY <2>3, <2>4
    <2>6. \A d \in Docs : docs[d].labels \subseteq entities
      BY DEF Init
    <2> QED  BY <2>5, <2>6 DEF CorpusHolds
  <1>4. ArmsHold
    BY NoRequestIs, NothingSeen DEF Init, NoRequest, ArmsHold
  <1>5. HitsHold
    BY DEF Init, NoRequest, HitsHold
  <1>6. PagesHold
    BY DEF Init, NoRequest, PagesHold
  <1> QED  BY <1>2, <1>3, <1>4, <1>5, <1>6 DEF Inductive

\* A request asked anew has found nothing.
LEMMA AskingHolds ==
    ASSUME Inductive, NEW asked \in RequestRecords, request' = asked,
           asked.rankings = <<>>, asked.candidates = {}, asked.hits = <<>>, asked.pages = <<>>,
           ~asked.widened, ~asked.done,
           requests' = requests + 1, UNCHANGED <<docs, entities, changes>>
    PROVE  Inductive'
  <1>1. TypeOK'
    BY DEF Inductive, TypeOK
  <1>2. CorpusHolds'
    BY DEF Inductive, CorpusHolds
  <1>3. ArmsHold'
    BY NoRequestIs, NothingSeen DEF ArmsHold
  <1>4. HitsHold'
    BY DEF HitsHold
  <1>5. PagesHold'
    <2>1. Len(<<>>) = 0 /\ 1 .. 0 = {}
      OBVIOUS
    <2> QED  BY <2>1 DEF PagesHold, PagesAre
  <1> QED  BY <1>1, <1>2, <1>3, <1>4, <1>5 DEF Inductive

LEMMA StartSearchHolds ==
    ASSUME Inductive, NEW question \in Queries, NEW extra \in Variants, NEW f \in Filters,
           NEW appendices \in BOOLEAN, StartSearch(question, extra, f, appendices)
    PROVE  Inductive'
  <1>1. DedupeQueries(question, extra) \in Seq(Phrasings)
    BY QueriesAre
  <1>2. PICK vectors \in {1, Len(DedupeQueries(question, extra))} :
            request' = [NoRequest EXCEPT !.kind = "search", !.done = FALSE,
                                         !.queries = DedupeQueries(question, extra),
                                         !.vectors = vectors,
                                         !.filter = f, !.appendices = appendices]
    BY DEF StartSearch
  <1> DEFINE asked == [NoRequest EXCEPT !.kind = "search", !.done = FALSE,
                                        !.queries = DedupeQueries(question, extra),
                                        !.vectors = vectors,
                                        !.filter = f, !.appendices = appendices]
  <1>3. vectors \in Nat
    BY <1>1, <1>2, LenProperties
  <1>4. asked \in RequestRecords
    BY <1>1, <1>3, NoRequestIs DEF RequestRecords
  <1>5. /\ asked.rankings = <<>> /\ asked.candidates = {} /\ asked.hits = <<>>
        /\ asked.pages = <<>> /\ ~asked.widened /\ ~asked.done
    BY DEF NoRequest
  <1>6. request' = asked /\ requests' = requests + 1 /\ UNCHANGED <<docs, entities, changes>>
    BY <1>2 DEF StartSearch
  <1> HIDE DEF asked
  <1> QED  BY <1>4, <1>5, <1>6, AskingHolds

LEMMA StartVocabularyHolds ==
    ASSUME Inductive, NEW f \in EntityTypes, StartVocabulary(f)
    PROVE  Inductive'
  <1> DEFINE asked == [NoRequest EXCEPT !.kind = "vocabulary", !.done = FALSE, !.filter = f]
  <1>1. f \in Filters
    BY DEF EntityTypes, Filters
  <1>2. asked \in RequestRecords
    BY <1>1, NoRequestIs DEF RequestRecords
  <1>3. /\ asked.rankings = <<>> /\ asked.candidates = {} /\ asked.hits = <<>>
        /\ asked.pages = <<>> /\ ~asked.widened /\ ~asked.done
    BY DEF NoRequest
  <1>4. request' = asked /\ requests' = requests + 1 /\ UNCHANGED <<docs, entities, changes>>
    BY DEF StartVocabulary
  <1> HIDE DEF asked
  <1> QED  BY <1>2, <1>3, <1>4, AskingHolds

LEMMA StartListingHolds ==
    ASSUME Inductive, StartListing
    PROVE  Inductive'
  <1> DEFINE asked == [NoRequest EXCEPT !.kind = "listing", !.done = FALSE]
  <1>1. asked \in RequestRecords
    BY NoRequestIs DEF RequestRecords
  <1>2. /\ asked.rankings = <<>> /\ asked.candidates = {} /\ asked.hits = <<>>
        /\ asked.pages = <<>> /\ ~asked.widened /\ ~asked.done
    BY DEF NoRequest
  <1>3. request' = asked /\ requests' = requests + 1 /\ UNCHANGED <<docs, entities, changes>>
    BY DEF StartListing
  <1> HIDE DEF asked
  <1> QED  BY <1>1, <1>2, <1>3, AskingHolds

LEMMA FindCandidatesHolds ==
    ASSUME Inductive, FindCandidates
    PROVE  Inductive'
  <1> DEFINE matched == IF request.filter = NoFilter THEN Docs ELSE Matching(request.filter)
  <1>1. PICK found \in Narrowed(request.filter) :
            request' = [request EXCEPT
              !.matched = matched,
              !.candidates = found,
              !.queries = IF found = {} THEN FirstOf(@, 1) ELSE @,
              !.done = found = {}]
    BY DEF FindCandidates
  <1>2. matched \subseteq Docs /\ found \subseteq matched
    BY NarrowedAre
  <1> HIDE DEF matched
  <1>3. request \in RequestRecords /\ request.queries \in Seq(Phrasings)
    BY DEF Inductive, TypeOK, RequestRecords
  <1>4. FirstOf(request.queries, 1) \in Seq(Phrasings)
    BY <1>3, FirstOfIs
  <1>5. request' \in RequestRecords
    BY <1>1, <1>2, <1>3, <1>4 DEF RequestRecords
  <1>6. /\ request.kind = "search" /\ ~request.done /\ request.rankings = <<>>
        /\ UNCHANGED <<docs, entities, changes, requests>>
    BY DEF FindCandidates
  <1>7. /\ request'.candidates = found /\ request'.matched = matched
        /\ request'.rankings = <<>> /\ request'.hits = request.hits
        /\ request'.widened = request.widened /\ request'.silent = request.silent
        /\ request'.kind = "search"
    BY <1>1, <1>3, <1>6 DEF RequestRecords
  <1>8. TypeOK'
    BY <1>5, <1>6 DEF Inductive, TypeOK
  <1>9. CorpusHolds'
    BY <1>6 DEF Inductive, CorpusHolds
  <1>10. ArmsHold'
    BY <1>2, <1>7, NoRequestIs, NothingSeen DEF Inductive, ArmsHold
  <1>11. HitsHold'
    BY <1>6, <1>7 DEF Inductive, HitsHold
  <1>12. PagesHold'
    BY <1>7 DEF PagesHold
  <1> QED  BY <1>8, <1>9, <1>10, <1>11, <1>12 DEF Inductive

LEMMA RunArmHolds ==
    ASSUME Inductive, RunArm
    PROVE  Inductive'
  <1> DEFINE rankings == request.rankings
  <1>1. PICK ranking : /\ \E S \in SUBSET InScope : \E score : ranking \in Ranking(S, score)
                       /\ request' = [request EXCEPT !.rankings = Append(@, ranking)]
    <2>1. \A q : VectorHits(q) \in SUBSET InScope /\ TextHits(q) \in SUBSET InScope
      BY DEF VectorHits, TextHits
    <2>2. PICK ranking \in ArmReturns(Len(request.rankings) + 1) :
              request' = [request EXCEPT !.rankings = Append(@, ranking)]
      BY DEF RunArm
    <2>3. \E q : \/ ranking \in Ranking(VectorHits(q), Similarity[q])
                 \/ ranking \in Ranking(TextHits(q), TextRank[q])
      BY <2>2 DEF ArmReturns
    <2> QED  BY <2>1, <2>2, <2>3
  <1>2. /\ ranking \in ArmRankings
        /\ \A c \in ToSet(ranking) : InQuestion(c) /\ OfOneChunking(c)
    BY <1>1, ArmsReturn DEF Inductive
  <1>3. /\ request \in RequestRecords
        /\ rankings \in Seq(ArmRankings)
        /\ request.kind = "search" /\ ~request.done
        /\ UNCHANGED <<docs, entities, changes, requests>>
    BY DEF Inductive, TypeOK, ArmsHold, RunArm
  <1>4. /\ Append(rankings, ranking) \in Seq(ArmRankings)
        /\ \A c : c \in Seen(Append(rankings, ranking)) <=>
                     c \in Seen(rankings) \/ c \in ToSet(ranking)
    <2> HIDE DEF rankings
    <2> DEFINE more == Append(rankings, ranking)
    <2>1. /\ more \in Seq(ArmRankings) /\ Len(rankings) \in Nat /\ Len(more) = Len(rankings) + 1
          /\ \A i \in 1 .. Len(rankings) : more[i] = rankings[i]
          /\ more[Len(rankings) + 1] = ranking
      BY <1>2, <1>3, AppendProperties, LenProperties
    <2> HIDE DEF more
    <2>2. /\ \A c : c \in Seen(more) <=> \E i \in 1 .. Len(more) : c \in ToSet(more[i])
          /\ \A c : c \in Seen(rankings) <=> \E i \in 1 .. Len(rankings) : c \in ToSet(rankings[i])
      BY <1>3, <2>1, SeenIs
    <2>3. \A i : i \in 1 .. Len(more) <=> i \in 1 .. Len(rankings) \/ i = Len(rankings) + 1
      BY <2>1
    <2>4. \A c : c \in Seen(more) <=> c \in Seen(rankings) \/ c \in ToSet(ranking)
      BY <2>1, <2>2, <2>3
    <2> QED  BY <2>1, <2>4 DEF more
  <1>5. Append(rankings, ranking) \in Seq(Seq(Passages))
    <2>1. ArmRankings \subseteq Seq(Passages)
      BY DEF ArmRankings
    <2> QED  BY <1>4, <2>1, SeqMonotonic
  <1>6. request' \in RequestRecords
    <2> DEFINE H == Seq([doc : Docs, chunks : Seq(Passages)])
               R == Seq(Seq(Passages))
    <2>1. Append(rankings, ranking) \in R
      BY <1>5
    <2> HIDE DEF R
    <2> QED  BY <1>1, <1>3, <2>1 DEF RequestRecords, R
  <1>7. /\ request'.rankings = Append(rankings, ranking)
        /\ request'.candidates = request.candidates /\ request'.matched = request.matched
        /\ request'.widened = request.widened /\ request'.silent = request.silent
        /\ request'.appendices = request.appendices /\ request'.rechunked = request.rechunked
        /\ request'.hits = request.hits /\ request'.kind = "search" /\ ~request'.done
    BY <1>1, <1>3 DEF RequestRecords
  <1> HIDE DEF rankings
  <1>8. TypeOK'
    BY <1>3, <1>6 DEF Inductive, TypeOK
  <1>9. CorpusHolds'
    BY <1>3 DEF Inductive, CorpusHolds
  <1>10. \A c \in Seen(Append(rankings, ranking)) : InQuestion(c) /\ OfOneChunking(c)
    BY <1>2, <1>4 DEF Inductive, ArmsHold, rankings
  <1>11. \A c : (InQuestion(c) => InQuestion(c)') /\ (OfOneChunking(c) => OfOneChunking(c)')
    BY <1>3, <1>7 DEF InQuestion, OfOneChunking
  <1>12. ArmsHold'
    BY <1>4, <1>7, <1>10, <1>11 DEF Inductive, ArmsHold
  <1>13. HitsHold'
    BY <1>3, <1>7 DEF Inductive, HitsHold
  <1>14. PagesHold'
    BY <1>7 DEF PagesHold
  <1> QED  BY <1>8, <1>9, <1>12, <1>13, <1>14 DEF Inductive

LEMMA WidenHolds ==
    ASSUME Inductive, Widen
    PROVE  Inductive'
  <1>1. /\ request' = [request EXCEPT !.rankings = <<>>, !.widened = TRUE, !.silent = TRUE]
        /\ request.kind = "search" /\ ~request.done /\ request \in RequestRecords
        /\ UNCHANGED <<docs, entities, changes, requests>>
    BY DEF Inductive, TypeOK, Widen, ArmsRan
  <1>2. request' \in RequestRecords
    <2> DEFINE R == Seq(Seq(Passages))
    <2>1. <<>> \in R
      BY EmptySeq
    <2> HIDE DEF R
    <2> QED  BY <1>1, <2>1 DEF RequestRecords, R
  <1>3. /\ request'.rankings = <<>> /\ request'.silent
        /\ request'.candidates = request.candidates /\ request'.matched = request.matched
        /\ request'.hits = request.hits /\ request'.kind = "search"
    BY <1>1 DEF RequestRecords
  <1>4. TypeOK'
    BY <1>1, <1>2 DEF Inductive, TypeOK
  <1>5. CorpusHolds'
    BY <1>1 DEF Inductive, CorpusHolds
  <1>6. ArmsHold'
    BY <1>3, NoRequestIs, NothingSeen DEF Inductive, ArmsHold
  <1>7. HitsHold'
    BY <1>1, <1>3 DEF Inductive, HitsHold
  <1>8. PagesHold'
    BY <1>3 DEF PagesHold
  <1> QED  BY <1>4, <1>5, <1>6, <1>7, <1>8 DEF Inductive

LEMMA RespondHolds ==
    ASSUME Inductive, Respond
    PROVE  Inductive'
  <1>1. /\ request' = [request EXCEPT !.done = TRUE, !.hits = Hits(request.rankings)]
        /\ request.kind = "search" /\ request \in RequestRecords
        /\ request.rankings \in Seq(ArmRankings)
        /\ UNCHANGED <<docs, entities, changes, requests>>
    BY DEF Inductive, TypeOK, ArmsHold, Respond, ArmsRan
  <1>2. request' \in RequestRecords
    <2> DEFINE H == Seq([doc : Docs, chunks : Seq(Passages)])
               hits == Hits(request.rankings)
    <2>1. hits \in H
      BY <1>1, HitsAre
    <2> HIDE DEF H, hits
    <2> QED  BY <1>1, <2>1 DEF RequestRecords, H, hits
  <1>3. /\ request'.rankings = request.rankings
        /\ request'.candidates = request.candidates /\ request'.matched = request.matched
        /\ request'.widened = request.widened /\ request'.silent = request.silent
        /\ request'.appendices = request.appendices /\ request'.rechunked = request.rechunked
        /\ request'.hits = Hits(request.rankings) /\ request'.kind = "search" /\ request'.done
    BY <1>1 DEF RequestRecords
  <1>4. TypeOK'
    BY <1>1, <1>2 DEF Inductive, TypeOK
  <1>5. CorpusHolds'
    BY <1>1 DEF Inductive, CorpusHolds
  <1>6. ArmsHold'
    <2>1. \A c : (InQuestion(c) => InQuestion(c)') /\ (OfOneChunking(c) => OfOneChunking(c)')
      BY <1>1, <1>3 DEF InQuestion, OfOneChunking
    <2> QED  BY <1>3, <2>1 DEF Inductive, ArmsHold
  <1>7. HitsHold'
    BY <1>3 DEF HitsHold
  <1>8. PagesHold'
    BY <1>3 DEF PagesHold
  <1> QED  BY <1>4, <1>5, <1>6, <1>7, <1>8 DEF Inductive

\* A page that is read of a list is the list's next.
LEMMA NextPageHolds ==
    ASSUME Inductive, NEW all \in Seq(Docs \union Labels),
           request.kind \in {"listing", "vocabulary"}, ~request.done,
           request' = NextPage(all), UNCHANGED <<docs, entities, changes, requests>>
    PROVE  /\ TypeOK' /\ CorpusHolds' /\ ArmsHold' /\ HitsHold'
           /\ PagesAre(all) => PagesAre(all)'
           /\ request'.kind = request.kind /\ request'.moved = request.moved
           /\ request'.filter = request.filter
  <1> DEFINE Rows == Docs \union Labels
             k == Len(request.pages)
             page == FirstOf(SubSeq(all, k * PageLimit + 1, Len(all)), PageLimit)
             pages == Append(request.pages, page)
             read == k * PageLimit + PageLimit >= Len(all)
  <1>1. request' = [request EXCEPT !.pages = pages, !.done = read]
    BY DEF NextPage
  <1>2. /\ request \in RequestRecords
        /\ request.pages \in Seq(Seq(Rows)) /\ k \in Nat
        /\ PageLimit \in Nat \ {0} /\ k * PageLimit \in Nat
    <2>1. request \in RequestRecords /\ request.pages \in Seq(Seq(Rows))
      BY DEF Inductive, TypeOK, RequestRecords
    <2>2. k \in Nat
      BY <2>1, LenProperties
    <2>3. PageLimit \in Nat \ {0} /\ k * PageLimit \in Nat
      BY <2>2, LimitsAssumption
    <2> QED  BY <2>1, <2>2, <2>3
  <1>3. all \in Seq(Rows)
    OBVIOUS
  <1> HIDE DEF Rows
  <1>4. page \in Seq(Rows)
    BY <1>2, <1>3, PagesJoin
  <1>5. /\ pages \in Seq(Seq(Rows)) /\ Len(pages) = k + 1 /\ pages # <<>>
        /\ \A n \in 1 .. k : pages[n] = request.pages[n]
        /\ pages[k + 1] = page
    <2> HIDE DEF page
    <2>1. /\ pages \in Seq(Seq(Rows)) /\ Len(pages) = k + 1
          /\ \A n \in 1 .. k : pages[n] = request.pages[n]
          /\ pages[k + 1] = page
      BY <1>2, <1>4, AppendProperties
    <2>2. pages # <<>>
      <3>1. Len(<<>>) = 0 /\ Len(pages) # 0
        BY <1>2, <2>1
      <3> HIDE DEF pages
      <3> QED  BY <3>1
    <2> QED  BY <2>1, <2>2
  <1>6. (k + 1) * PageLimit = k * PageLimit + PageLimit
    BY <1>2
  <1>7. read \in BOOLEAN
    OBVIOUS
  <1>8. PageOf(all, k + 1) = page
    <2>1. (k + 1) - 1 = k
      BY <1>2
    <2> QED  BY <2>1 DEF PageOf
  <1>9. read <=> Len(pages) * PageLimit >= Len(all)
    <2> HIDE DEF pages
    <2> QED  BY <1>5, <1>6
  <1> HIDE DEF pages, page, read
  <1>10. request' \in RequestRecords
    <2> DEFINE P == Seq(Seq(Docs \union Labels))
    <2>1. pages \in P
      BY <1>5 DEF Rows
    <2> HIDE DEF P
    <2> QED  BY <1>1, <1>2, <1>7, <2>1 DEF RequestRecords, P
  <1>11. /\ request'.rankings = request.rankings
         /\ request'.candidates = request.candidates /\ request'.matched = request.matched
         /\ request'.widened = request.widened /\ request'.silent = request.silent
         /\ request'.appendices = request.appendices /\ request'.rechunked = request.rechunked
         /\ request'.hits = request.hits /\ request'.kind = request.kind
         /\ request'.filter = request.filter
         /\ request'.moved = request.moved /\ request'.pages = pages /\ request'.done = read
    BY <1>1, <1>2 DEF RequestRecords
  <1>12. TypeOK'
    BY <1>10 DEF Inductive, TypeOK
  <1>13. CorpusHolds'
    BY DEF Inductive, CorpusHolds
  <1>14. ArmsHold'
    <2>1. \A c : (InQuestion(c) => InQuestion(c)') /\ (OfOneChunking(c) => OfOneChunking(c)')
      BY <1>11 DEF InQuestion, OfOneChunking
    <2> QED  BY <1>11, <2>1 DEF Inductive, ArmsHold
  <1>15. HitsHold'
    BY <1>11 DEF Inductive, HitsHold
  <1>16. PagesAre(all) => PagesAre(all)'
    <2> SUFFICES ASSUME PagesAre(all)
                 PROVE  /\ \A n \in 1 .. Len(pages) : pages[n] = PageOf(all, n)
                        /\ read <=> Len(pages) * PageLimit >= Len(all)
      <3>1. \A n : PageOf(all, n)' = PageOf(all, n)
        BY DEF PageOf, FirstOf
      <3> QED  BY <1>5, <1>11, <3>1 DEF PagesAre
    <2>1. \A n \in 1 .. k : request.pages[n] = PageOf(all, n)
      BY <1>2 DEF PagesAre
    <2>2. \A n \in 1 .. Len(pages) : n \in 1 .. k \/ n = k + 1
      BY <1>2, <1>5
    <2> HIDE DEF k
    <2> QED  BY <1>5, <1>8, <1>9, <2>1, <2>2
  <1> QED  BY <1>11, <1>12, <1>13, <1>14, <1>15, <1>16

LEMMA ReadPageHolds ==
    ASSUME Inductive, ReadPage
    PROVE  Inductive'
  <1>1. PICK all \in Ordered(Matching(NoFilter), Newer) : request' = NextPage(all)
    BY DEF ReadPage
  <1>2. /\ request.kind = "listing" /\ ~request.done
        /\ UNCHANGED <<docs, entities, changes, requests>>
    BY DEF ReadPage
  <1>3. all = Listed /\ Listed \in Seq(Docs)
    BY ListedIs DEF Inductive
  <1>4. all \in Seq(Docs \union Labels)
    <2> HIDE DEF Listed
    <2> QED  BY <1>3, SeqMonotonic
  <1>5. /\ TypeOK' /\ CorpusHolds' /\ ArmsHold' /\ HitsHold'
        /\ PagesAre(all) => PagesAre(all)'
        /\ request'.kind = request.kind /\ request'.moved = request.moved
    BY <1>1, <1>2, <1>4, NextPageHolds
  <1>6. Listed' = Listed
    <2>1. docs' = docs
      BY <1>2
    <2>2. Matching(NoFilter)' = Matching(NoFilter)
      BY <2>1, AllMatch
    <2>3. Earlier' = Earlier
      BY <2>1 DEF Earlier, Newer
    <2> HIDE DEF Matching, Earlier
    <2> QED  BY <2>2, <2>3 DEF Listed, Arranged
  <1> HIDE DEF Listed
  <1>7. PagesHold'
    <2> SUFFICES ASSUME ~request.moved
                 PROVE  PagesAre(Listed)'
      BY <1>2, <1>5 DEF PagesHold
    <2>1. PagesAre(Listed)
      BY <1>2 DEF Inductive, PagesHold
    <2>2. PagesAre(all)'
      BY <1>3, <1>5, <2>1
    <2> QED  BY <1>3, <1>6, <2>2 DEF PagesAre, PageOf
  <1> QED  BY <1>5, <1>7 DEF Inductive

LEMMA ReadEntitiesHolds ==
    ASSUME Inductive, ReadEntities
    PROVE  Inductive'
  <1>1. PICK all \in Ordered(ListEntities(request.filter), MoreCited) : request' = NextPage(all)
    BY DEF ReadEntities
  <1>2. /\ request.kind = "vocabulary" /\ ~request.done
        /\ UNCHANGED <<docs, entities, changes, requests>>
    BY DEF ReadEntities
  <1> DEFINE listed == ListedEntities(request.filter)
  <1>3. all \in Seq(Docs \union Labels)
    <2> DEFINE S == ListEntities(request.filter)
    <2>1. S \in SUBSET Labels
      BY DEF ListEntities, Inductive, TypeOK
    <2>2. IsFiniteSet(S) /\ Cardinality(S) \in Nat
      BY <2>1, CorpusAssumption, FS_Subset, FS_CardinalityType
    <2>3. all \in [1 .. Cardinality(S) -> S]
      BY DEF Ordered, SetToSeqs
    <2> HIDE DEF S
    <2>4. all \in Seq(S)
      BY <2>2, <2>3
    <2> QED  BY <2>1, <2>4, SeqMonotonic
  <1>4. /\ TypeOK' /\ CorpusHolds' /\ ArmsHold' /\ HitsHold'
        /\ PagesAre(all) => PagesAre(all)'
        /\ request'.kind = request.kind /\ request'.moved = request.moved
        /\ request'.filter = request.filter
    BY <1>1, <1>2, <1>3, NextPageHolds
  <1>5. /\ \A f : ListedEntities(f)' = ListedEntities(f)
        /\ Untied(ListEntities(NoFilter))' <=> Untied(ListEntities(NoFilter))
    <2>1. entities \subseteq entities'
      BY <1>2
    <2>2. \A d \in Docs : docs'[d].labels = docs[d].labels /\ docs'[d].labels \subseteq entities
      BY <1>2 DEF Inductive, CorpusHolds
    <2> QED  BY <2>1, <2>2, EntitiesStay DEF Inductive
  <1>6. PagesHold'
    <2> SUFFICES ASSUME ~request.moved, Settled(request.filter)
                 PROVE  PagesAre(listed)'
      <3>1. Settled(request.filter)' => Settled(request.filter)
        <4> HIDE DEF Untied
        <4> QED  BY <1>4, <1>5 DEF Settled
      <3> QED  BY <1>2, <1>4, <3>1 DEF PagesHold
    <2>1. all = listed
      BY ListedEntitiesAre DEF Inductive
    <2>2. PagesAre(listed)
      BY <1>2 DEF Inductive, PagesHold
    <2>3. listed' = listed
      BY <1>4, <1>5
    <2> HIDE DEF listed
    <2>4. PagesAre(all)'
      BY <1>4, <2>1, <2>2
    <2> QED  BY <2>1, <2>3, <2>4 DEF PagesAre, PageOf
  <1> QED  BY <1>4, <1>6 DEF Inductive

\* What a step of the pipeline commits leaves a request what it found, and says of
\* it what has changed under it.
LEMMA CommitsHold ==
    ASSUME Inductive, NEW d \in Docs, NEW next \in Documents, Commits(d, next),
           next.raced \/ next.sets \subseteq {next.last}, IsFiniteSet(next.sets),
           next.labels \subseteq entities',
           entities \subseteq entities', entities' \subseteq Labels
    PROVE  Inductive'
  <1>1. /\ docs \in [Docs -> Documents] /\ docs' = [docs EXCEPT ![d] = next]
        /\ changes' = changes + 1 /\ requests' = requests /\ changes \in Nat
        /\ requests \in Nat /\ request \in RequestRecords
    BY DEF Inductive, TypeOK, Commits
  <1>2. /\ docs' \in [Docs -> Documents]
        /\ docs'[d] = next
        /\ \A e \in Docs : e # d => docs'[e] = docs[e]
    BY <1>1
  <1> DEFINE moved == request.moved \/ Moves(d, next)
             rechunked == IF next.sets # docs[d].sets THEN request.rechunked \union {d}
                                                      ELSE request.rechunked
  <1>3. request' = [request EXCEPT !.moved = moved, !.rechunked = rechunked]
    BY DEF Commits
  <1>4. request.moved \in BOOLEAN /\ request.rechunked \subseteq Docs
    BY <1>1 DEF RequestRecords
  <1>5. moved \in BOOLEAN /\ rechunked \subseteq Docs /\ request.rechunked \subseteq rechunked
    BY <1>4 DEF Moves
  <1>6. next.sets # docs[d].sets => d \in rechunked
    OBVIOUS
  <1>7. ~moved =>
            /\ ~request.moved
            /\ IF request.kind = "vocabulary" THEN next.labels = docs[d].labels
               ELSE next.parsed = docs[d].parsed /\ next.date = docs[d].date
    BY DEF Moves
  <1> HIDE DEF moved, rechunked
  <1>8. request' \in RequestRecords
    BY <1>1, <1>3, <1>5 DEF RequestRecords
  <1>9. /\ request'.rankings = request.rankings
        /\ request'.candidates = request.candidates /\ request'.matched = request.matched
        /\ request'.widened = request.widened /\ request'.silent = request.silent
        /\ request'.appendices = request.appendices /\ request'.rechunked = rechunked
        /\ request'.hits = request.hits /\ request'.kind = request.kind
        /\ request'.moved = moved /\ request'.pages = request.pages
        /\ request'.done = request.done /\ request'.filter = request.filter
    BY <1>1, <1>3 DEF RequestRecords
  <1>10. TypeOK'
    BY <1>1, <1>2, <1>8 DEF TypeOK
  <1>11. CorpusHolds'
    <2>1. ASSUME NEW e \in Docs
          PROVE  /\ docs'[e].raced \/ docs'[e].sets \subseteq {docs'[e].last}
                 /\ IsFiniteSet(docs'[e].sets)
                 /\ docs'[e].labels \subseteq entities'
      <3>1. CASE e = d
        BY <1>2, <3>1
      <3>2. CASE e # d
        BY <1>2, <3>2 DEF Inductive, CorpusHolds
      <3> QED  BY <3>1, <3>2
    <2> QED  BY <2>1 DEF CorpusHolds
  <1>12. ArmsHold'
    <2>1. \A c : InQuestion(c) => InQuestion(c)'
      BY <1>9 DEF InQuestion
    <2>2. ASSUME NEW c \in Seen(request.rankings)
          PROVE  OfOneChunking(c)'
      <3>1. OfOneChunking(c)
        BY DEF Inductive, ArmsHold
      <3>2. c[1] \in Docs
        <4>1. c \in Passages
          BY SeenIs DEF Inductive, ArmsHold
        <4> QED  BY <4>1 DEF Passages
      <3>3. CASE c[1] \in request.rechunked
        BY <1>5, <1>9, <3>3 DEF OfOneChunking
      <3>4. CASE c[1] \notin request.rechunked /\ c[1] = d
        <4>1. c[3] \in docs[d].sets
          BY <3>1, <3>4 DEF OfOneChunking
        <4> QED  BY <1>2, <1>6, <1>9, <3>4, <4>1 DEF OfOneChunking
      <3>5. CASE c[1] \notin request.rechunked /\ c[1] # d
        BY <1>2, <3>1, <3>2, <3>5 DEF OfOneChunking
      <3> QED  BY <3>3, <3>4, <3>5
    <2> QED  BY <1>9, <2>1, <2>2 DEF Inductive, ArmsHold
  <1>13. HitsHold'
    BY <1>9 DEF Inductive, HitsHold
  <1>14. PagesHold'
    <2> SUFFICES ASSUME ~moved
                 PROVE  PagesHold'
      BY <1>9 DEF PagesHold
    <2>1. CASE request.kind = "listing"
      <3>1. \A e \in Docs : docs'[e].parsed = docs[e].parsed /\ docs'[e].date = docs[e].date
        BY <1>2, <1>7, <2>1
      <3>2. Matching(NoFilter)' = Matching(NoFilter)
        BY <3>1, AllMatch
      <3>3. Earlier' = Earlier
        BY <3>1 DEF Earlier, Newer
      <3>4. Listed' = Listed
        <4> HIDE DEF Matching, Earlier
        <4> QED  BY <3>2, <3>3 DEF Listed, Arranged
      <3> HIDE DEF Listed
      <3>5. PagesAre(Listed)
        BY <1>7, <2>1 DEF Inductive, PagesHold
      <3> QED  BY <1>9, <2>1, <3>4, <3>5 DEF PagesHold, PagesAre, PageOf
    <2>2. CASE request.kind = "vocabulary"
      <3>1. \A e \in Docs : docs'[e].labels = docs[e].labels /\ docs'[e].labels \subseteq entities
        BY <1>2, <1>7, <2>2 DEF Inductive, CorpusHolds
      <3>2. /\ \A f : ListedEntities(f)' = ListedEntities(f)
            /\ Untied(ListEntities(NoFilter))' <=> Untied(ListEntities(NoFilter))
        BY <3>1, EntitiesStay DEF Inductive
      <3>3. Settled(request.filter)' => Settled(request.filter)
        <4> HIDE DEF Untied
        <4> QED  BY <1>9, <3>2 DEF Settled
      <3> DEFINE listed == ListedEntities(request.filter)
      <3>4. listed' = listed
        BY <1>9, <3>2
      <3> SUFFICES ASSUME Settled(request.filter)'
                   PROVE  PagesAre(listed)'
        BY <1>9, <2>2 DEF PagesHold
      <3>5. PagesAre(listed)
        BY <1>7, <2>2, <3>3 DEF Inductive, PagesHold
      <3> HIDE DEF listed
      <3> QED  BY <1>9, <3>4, <3>5 DEF PagesAre, PageOf
    <2>3. CASE request.kind \notin {"listing", "vocabulary"}
      BY <1>9, <2>3 DEF PagesHold
    <2> QED  BY <2>1, <2>2, <2>3
  <1> QED  BY <1>10, <1>11, <1>12, <1>13, <1>14 DEF Inductive

LEMMA PipelineHolds ==
    ASSUME Inductive, Pipeline
    PROVE  Inductive'
  <1>1. PICK d \in Docs :
            Parse(d) \/ Describe(d) \/ Extract(d) \/ Chunk(d) \/ ChunkRaced(d) \/ Embed(d)
    BY DEF Pipeline
  <1> DEFINE row == docs[d]
  <1>2. /\ row \in Documents /\ entities \subseteq Labels
        /\ row.raced \/ row.sets \subseteq {row.last}
        /\ IsFiniteSet(row.sets) /\ row.labels \subseteq entities
    BY DEF Inductive, TypeOK, CorpusHolds
  <1>3. /\ row.last \in Nat /\ row.last + 1 \in Nat
        /\ row.sets \subseteq Nat /\ row.embedded \subseteq Nat
    BY <1>2 DEF Documents
  <1>4. CASE Parse(d)
    <2> DEFINE next == [row EXCEPT !.parsed = TRUE]
    <2>1. /\ next \in Documents /\ next.sets = row.sets /\ next.last = row.last
          /\ next.raced = row.raced /\ next.labels = row.labels
      BY <1>2 DEF Documents
    <2>2. Commits(d, next) /\ entities' = entities
      BY <1>4 DEF Parse
    <2> HIDE DEF next, row
    <2> QED  BY <1>2, <2>1, <2>2, CommitsHold
  <1>5. CASE Describe(d)
    <2>1. PICK c \in Categories \union {None}, t \in Dates \union {None} :
              Commits(d, [row EXCEPT !.category = IF c = None THEN @ ELSE c,
                                     !.date = IF t = None THEN @ ELSE t])
      BY <1>5 DEF Describe
    <2> DEFINE next == [row EXCEPT !.category = IF c = None THEN @ ELSE c,
                                   !.date = IF t = None THEN @ ELSE t]
    <2>2. /\ next \in Documents /\ next.sets = row.sets /\ next.last = row.last
          /\ next.raced = row.raced /\ next.labels = row.labels
      BY <1>2 DEF Documents
    <2>3. Commits(d, next) /\ entities' = entities
      BY <1>5, <2>1 DEF Describe
    <2> HIDE DEF next, row
    <2> QED  BY <1>2, <2>2, <2>3, CommitsHold
  <1>6. CASE Extract(d)
    <2>1. PICK labels \in SUBSET Labels :
              /\ Commits(d, [row EXCEPT !.labels = labels])
              /\ entities' = entities \union labels
      BY <1>6 DEF Extract, Relinked
    <2> DEFINE next == [row EXCEPT !.labels = labels]
    <2>2. /\ next \in Documents /\ next.sets = row.sets /\ next.last = row.last
          /\ next.raced = row.raced /\ next.labels = labels
      BY <1>2 DEF Documents
    <2>3. /\ Commits(d, next) /\ labels \subseteq entities'
          /\ entities \subseteq entities' /\ entities' \subseteq Labels
      BY <1>2, <2>1
    <2> HIDE DEF next, row
    <2> QED  BY <1>2, <2>2, <2>3, CommitsHold
  <1>7. CASE Chunk(d)
    <2> DEFINE next == [row EXCEPT !.sets = {row.last + 1}, !.embedded = {},
                                   !.last = @ + 1, !.raced = FALSE]
    <2>1. /\ next \in Documents /\ next.sets = {row.last + 1} /\ next.last = row.last + 1
          /\ next.labels = row.labels
      BY <1>2, <1>3 DEF Documents
    <2>2. IsFiniteSet({row.last + 1})
      BY FS_Singleton
    <2>3. Commits(d, next) /\ entities' = entities
      BY <1>7 DEF Chunk
    <2> HIDE DEF next, row
    <2> QED  BY <1>2, <2>1, <2>2, <2>3, CommitsHold
  <1>8. CASE ChunkRaced(d)
    <2>1. PICK n \in row.sets :
              LET kept == {s \in row.sets : s >= n}
              IN  Commits(d, [row EXCEPT !.sets = kept \union {row.last + 1},
                                         !.embedded = @ \intersect kept,
                                         !.last = @ + 1, !.raced = TRUE])
      BY <1>8 DEF ChunkRaced
    <2> DEFINE kept == {s \in row.sets : s >= n}
               more == kept \union {row.last + 1}
               next == [row EXCEPT !.sets = more,
                                   !.embedded = @ \intersect kept,
                                   !.last = @ + 1, !.raced = TRUE]
    <2>2. kept \in SUBSET row.sets /\ kept \subseteq Nat
      BY <1>3
    <2>3. Commits(d, next) /\ entities' = entities
      BY <1>8, <2>1 DEF ChunkRaced
    <2> HIDE DEF kept
    <2>4. IsFiniteSet(more) /\ more \subseteq Nat
      <3>1. IsFiniteSet(kept)
        BY <1>2, <2>2, FS_Subset
      <3> QED  BY <1>3, <2>2, <3>1, FS_AddElement
    <2>5. row.embedded \intersect kept \subseteq Nat
      BY <1>3
    <2> HIDE DEF more
    <2>6. next \in Documents /\ next.sets = more /\ next.raced /\ next.labels = row.labels
      BY <1>2, <1>3, <2>4, <2>5 DEF Documents
    <2> HIDE DEF next, row
    <2> QED  BY <1>2, <2>3, <2>4, <2>6, CommitsHold
  <1>9. CASE Embed(d)
    <2>1. PICK read \in SUBSET row.sets : Commits(d, [row EXCEPT !.embedded = @ \union read])
      BY <1>9 DEF Embed
    <2> DEFINE next == [row EXCEPT !.embedded = @ \union read]
    <2>2. /\ next \in Documents /\ next.sets = row.sets /\ next.last = row.last
          /\ next.raced = row.raced /\ next.labels = row.labels
      BY <1>2, <1>3 DEF Documents
    <2>3. Commits(d, next) /\ entities' = entities
      BY <1>9, <2>1 DEF Embed
    <2> HIDE DEF next, row
    <2> QED  BY <1>2, <2>2, <2>3, CommitsHold
  <1> QED  BY <1>1, <1>4, <1>5, <1>6, <1>7, <1>8, <1>9

LEMMA StutterHolds ==
    ASSUME Inductive, UNCHANGED vars
    PROVE  Inductive'
  <1>1. UNCHANGED <<docs, entities, changes, request, requests>>
    BY DEF vars
  <1>2. TypeOK' /\ CorpusHolds'
    BY <1>1 DEF Inductive, TypeOK, CorpusHolds
  <1>3. ArmsHold'
    BY <1>1 DEF Inductive, ArmsHold, InQuestion, OfOneChunking
  <1>4. HitsHold'
    BY <1>1 DEF Inductive, HitsHold
  <1>5. PagesHold'
    <2>1. Listed' = Listed /\ request' = request
      BY <1>1 DEF Listed, Arranged, Matching, Earlier, Newer
    <2>2. /\ \A f : ListedEntities(f)' = ListedEntities(f)
          /\ Untied(ListEntities(NoFilter))' <=> Untied(ListEntities(NoFilter))
      BY <1>1, EntitiesStay DEF Inductive, CorpusHolds
    <2>3. ListedEntities(request.filter)' = ListedEntities(request.filter)
      BY <2>1, <2>2
    <2>4. Settled(request.filter)' <=> Settled(request.filter)
      <3> HIDE DEF Untied
      <3> QED  BY <2>1, <2>2 DEF Settled
    <2> HIDE DEF Listed, ListedEntities
    <2> QED  BY <2>1, <2>3, <2>4 DEF Inductive, PagesHold, PagesAre, PageOf
  <1> QED  BY <1>2, <1>3, <1>4, <1>5 DEF Inductive

(***************************************************************************)
(* What the invariant says.                                                *)
(***************************************************************************)
\* An answer is the hits of the rankings, none or all.
LEMMA AnswerIs ==
    ASSUME Inductive, NEW i \in DOMAIN request.hits
    PROVE  /\ request.hits = Hits(request.rankings)
           /\ request.rankings \in Seq(ArmRankings)
           /\ DOMAIN request.hits = 1 .. Len(Hits(request.rankings))
           /\ DOMAIN request.hits[i].chunks = 1 .. Len(request.hits[i].chunks)
           /\ request.hits[i].chunks \in Seq(Passages)
           /\ ToSet(request.hits[i].chunks) # {}
           /\ \A c \in ToSet(request.hits[i].chunks) :
                  /\ c[1] = request.hits[i].doc
                  /\ InQuestion(c) /\ OfOneChunking(c)
  <1> DEFINE rankings == request.rankings
             hits == Hits(rankings)
  <1>1. request.hits = hits
    <2>1. DOMAIN <<>> = {}
      OBVIOUS
    <2> QED  BY <2>1 DEF Inductive, HitsHold
  <1>2. rankings \in Seq(ArmRankings) /\ \A c \in Seen(rankings) : InQuestion(c) /\ OfOneChunking(c)
    BY DEF Inductive, ArmsHold
  <1> HIDE DEF rankings
  <1>3. DOMAIN hits = 1 .. Len(hits)
    <2>1. hits \in Seq([doc : Docs, chunks : Seq(Passages)])
      BY <1>2, HitsAre
    <2> HIDE DEF hits
    <2> QED  BY <2>1, LenProperties
  <1>4. /\ hits[i].chunks \in Seq(Passages) /\ ToSet(hits[i].chunks) # {}
        /\ \A c \in ToSet(hits[i].chunks) : c \in Seen(rankings) /\ c[1] = hits[i].doc
    BY <1>1, <1>2, <1>3, HitChunksAre
  <1> HIDE DEF hits
  <1>5. DOMAIN hits[i].chunks = 1 .. Len(hits[i].chunks)
    BY <1>4, LenProperties
  <1> QED  BY <1>1, <1>2, <1>3, <1>4, <1>5 DEF hits, rankings

LEMMA ScopeIsKept == Inductive => AnswersAreInScope
  <1> SUFFICES ASSUME Inductive, NEW i \in DOMAIN request.hits
               PROVE  /\ request.hits[i].doc \in request.matched
                      /\ \A j \in DOMAIN request.hits[i].chunks :
                            request.hits[i].chunks[j][2] = "appendix" =>
                                request.appendices \/ request.silent
    BY DEF AnswersAreInScope, FilterIsKept, AppendixWhenBodyIsSilent
  <1> DEFINE chunks == request.hits[i].chunks
             doc == request.hits[i].doc
  <1>1. /\ chunks \in Seq(Passages) /\ DOMAIN chunks = 1 .. Len(chunks)
        /\ ToSet(chunks) # {}
        /\ \A c \in ToSet(chunks) : c[1] = doc /\ InQuestion(c)
    BY AnswerIs
  <1>2. request.candidates \subseteq request.matched /\ (request.widened => request.silent)
    BY DEF Inductive, ArmsHold
  <1> HIDE DEF chunks, doc
  <1>3. doc \in request.matched
    BY <1>1, <1>2 DEF InQuestion
  <1>4. \A j \in DOMAIN chunks : chunks[j] \in ToSet(chunks)
    BY <1>1, Members
  <1>5. ASSUME NEW j \in DOMAIN chunks, chunks[j][2] = "appendix"
        PROVE  request.appendices \/ request.silent
    <2>1. InQuestion(chunks[j]) /\ "appendix" # "body"
      BY <1>1, <1>4
    <2> QED  BY <1>2, <1>5, <2>1 DEF InQuestion
  <1> QED  BY <1>3, <1>5 DEF chunks, doc

LEMMA FusionHolds == Inductive => FusionIsFair
  <1> SUFFICES ASSUME Inductive, NEW i \in DOMAIN request.hits, NEW j \in DOMAIN request.hits
               PROVE  /\ \A m, n \in DOMAIN request.hits[i].chunks :
                            m < n => ~Beats(request.hits[i].chunks[n], request.hits[i].chunks[m])
                      /\ j < i => ~\E a \in ToSet(request.hits[i].chunks) :
                                        \A b \in ToSet(request.hits[j].chunks) : Beats(a, b)
    BY DEF FusionIsFair
  <1> DEFINE rankings == request.rankings
             hits == Hits(rankings)
  <1>1. /\ request.hits = hits /\ rankings \in Seq(ArmRankings)
        /\ i \in 1 .. Len(hits) /\ j \in 1 .. Len(hits)
        /\ DOMAIN hits[i].chunks = 1 .. Len(hits[i].chunks)
    BY AnswerIs
  <1>2. \A a, b : Beats(a, b) => BeatsIn(rankings, a, b)
    <2>1. DOMAIN rankings = 1 .. Len(rankings)
      BY <1>1, LenProperties
    <2> QED  BY <2>1 DEF Beats, BeatsIn
  <1>3. /\ \A m, n \in 1 .. Len(hits[i].chunks) : m < n =>
               ~BeatsIn(rankings, hits[i].chunks[n], hits[i].chunks[m])
        /\ j < i => ~\E a \in ToSet(hits[i].chunks) :
               \A b \in ToSet(hits[j].chunks) : BeatsIn(rankings, a, b)
    <2> HIDE DEF rankings
    <2> QED  BY <1>1, HitsAreFair
  <1> HIDE DEF hits, rankings
  <1> QED  BY <1>1, <1>2, <1>3

LEMMA ChunkingHolds == Inductive => OneChunkingEach
  <1> SUFFICES ASSUME Inductive, NEW i \in DOMAIN request.hits,
                      request.hits[i].doc \notin request.rechunked,
                      ~docs[request.hits[i].doc].raced
               PROVE  Cardinality({c[3] : c \in ToSet(request.hits[i].chunks)}) = 1
    BY DEF OneChunkingEach
  <1> DEFINE C == ToSet(request.hits[i].chunks)
             doc == request.hits[i].doc
  <1>1. C # {} /\ \A c \in C : c[1] = doc /\ InQuestion(c) /\ OfOneChunking(c)
    BY AnswerIs
  <1>2. doc \in Docs
    <2>1. \A c \in C : c[1] \in request.candidates
      BY <1>1 DEF InQuestion
    <2>2. request.candidates \subseteq Docs
      BY DEF Inductive, TypeOK, RequestRecords
    <2> HIDE DEF C, doc
    <2> QED  BY <1>1, <2>1, <2>2
  <1>3. doc \notin request.rechunked /\ ~docs[doc].raced
    OBVIOUS
  <1> HIDE DEF C, doc
  <1>4. \A c \in C : c[3] \in docs[doc].sets
    BY <1>1, <1>3 DEF OfOneChunking
  <1>5. docs[doc].sets \subseteq {docs[doc].last}
    BY <1>2, <1>3 DEF Inductive, CorpusHolds
  <1>6. {c[3] : c \in C} = {docs[doc].last}
    BY <1>1, <1>4, <1>5
  <1> QED  BY <1>6, FS_Singleton DEF C

\* The pages of a sequence, one after another, are the sequence as far as they go.
LEMMA PagesFlatten ==
    ASSUME NEW S, NEW s \in Seq(S), NEW pages \in Seq(Seq(S)), pages # <<>>,
           \A n \in 1 .. Len(pages) : pages[n] = PageOf(s, n)
    PROVE  FlattenSeq(pages) = FirstOf(s, Len(pages) * PageLimit)
  <1>1. Len(pages) \in Nat \ {0} /\ PageLimit \in Nat
    <2>1. Len(pages) \in Nat /\ Len(pages) # 0
      BY LenProperties, EmptySeq
    <2> QED  BY <2>1, LimitsAssumption
  <1> DEFINE L == Len(pages)
             Goes(f) == f = [i \in 1 .. L |-> IF i = 1 THEN pages[i] ELSE f[i - 1] \o pages[i]]
             flatten == CHOOSE f : Goes(f)
             upTo == [i \in 1 .. L |-> FirstOf(s, i * PageLimit)]
  <1>2. FlattenSeq(pages) = flatten[L]
    BY <1>1 DEF FlattenSeq
  <1>3. \A i \in 1 .. L : pages[i] = FirstOf(SubSeq(s, (i - 1) * PageLimit + 1, Len(s)), PageLimit)
    BY DEF PageOf
  <1>4. ASSUME NEW i \in 1 .. L
        PROVE  /\ (i - 1) * PageLimit \in Nat
               /\ FirstOf(s, (i - 1) * PageLimit) \o pages[i] = FirstOf(s, i * PageLimit)
    <2> DEFINE m == (i - 1) * PageLimit
    <2>1. m \in Nat /\ m + PageLimit = i * PageLimit
      BY <1>1
    <2>2. pages[i] = FirstOf(SubSeq(s, m + 1, Len(s)), PageLimit)
      BY <1>3
    <2> HIDE DEF m
    <2>3. m \in Nat /\ PageLimit \in Nat
      BY <1>1, <2>1
    <2>4. FirstOf(s, m) \o FirstOf(SubSeq(s, m + 1, Len(s)), PageLimit) = FirstOf(s, m + PageLimit)
      BY <2>3, PagesJoin
    <2> QED  BY <2>1, <2>2, <2>4 DEF m
  <1>5. pages[1] = FirstOf(s, 1 * PageLimit)
    <2>1. 1 \in 1 .. L /\ (1 - 1) * PageLimit + 1 = 1 /\ 1 * PageLimit = PageLimit
      BY <1>1
    <2>2. pages[1] = FirstOf(SubSeq(s, 1, Len(s)), PageLimit)
      BY <1>3, <2>1
    <2> QED  BY <2>1, <2>2, SubSeqFull
  <1>6. Goes(upTo)
    <2>1. ASSUME NEW i \in 1 .. L, i # 1
          PROVE  upTo[i] = upTo[i - 1] \o pages[i]
      <3>1. i - 1 \in 1 .. L
        BY <1>1, <2>1
      <3> QED  BY <1>4, <3>1
    <2>2. 1 \in 1 .. L
      BY <1>1
    <2>3. upTo = [i \in 1 .. L |-> upTo[i]] /\ upTo[1] = pages[1]
      BY <1>5, <2>2
    <2> HIDE DEF upTo
    <2> QED  BY <2>1, <2>3
  <1>7. Goes(flatten)
    BY <1>6
  <1> HIDE DEF flatten
  <1> DEFINE N == {n \in Nat : n + 1 <= L => flatten[n + 1] = upTo[n + 1]}
  <1>8. 0 \in N
    <2>1. 0 + 1 = 1 /\ 1 \in 1 .. L
      BY <1>1
    <2>2. flatten[1] = pages[1] /\ upTo[1] = pages[1]
      BY <1>5, <1>7, <2>1
    <2> HIDE DEF upTo
    <2> QED  BY <2>1, <2>2
  <1>9. ASSUME NEW n \in Nat, n \in N
        PROVE  n + 1 \in N
    <2> SUFFICES ASSUME (n + 1) + 1 <= L
                 PROVE  flatten[(n + 1) + 1] = upTo[(n + 1) + 1]
      OBVIOUS
    <2> DEFINE i == (n + 1) + 1
    <2>1. i \in 1 .. L /\ i # 1 /\ i - 1 = n + 1 /\ n + 1 \in 1 .. L /\ n + 1 <= L
      BY <1>1
    <2>2. flatten[n + 1] = upTo[n + 1]
      <3> HIDE DEF upTo
      <3> QED  BY <1>9, <2>1
    <2> HIDE DEF i
    <2>3. flatten[i] = flatten[i - 1] \o pages[i] /\ upTo[i] = upTo[i - 1] \o pages[i]
      BY <1>6, <1>7, <2>1
    <2> HIDE DEF upTo
    <2> QED  BY <2>1, <2>2, <2>3 DEF i
  <1>10. Nat \subseteq N
    <2> HIDE DEF N
    <2> QED  BY <1>8, <1>9, SetInduction
  <1>11. flatten[L] = upTo[L]
    <2>1. L - 1 \in Nat /\ (L - 1) + 1 = L /\ L <= L
      BY <1>1
    <2>2. L - 1 \in N
      BY <1>10, <2>1
    <2> HIDE DEF upTo, L
    <2> QED  BY <2>1, <2>2
  <1>12. L \in 1 .. L
    BY <1>1
  <1> QED  BY <1>2, <1>11, <1>12

\* All the pages of a list hold what it holds.
LEMMA PagesCover ==
    ASSUME NEW T, NEW all \in Seq(T), NEW pages \in Seq(Seq(T)), pages # <<>>,
           IsInjective(all), Len(pages) * PageLimit >= Len(all),
           \A n \in 1 .. Len(pages) : pages[n] = PageOf(all, n)
    PROVE  FlattenSeq(pages) = all
  <1> DEFINE k == Len(pages) * PageLimit
  <1>1. FlattenSeq(pages) = FirstOf(all, k)
    BY PagesFlatten
  <1>2. k \in Nat /\ Len(all) \in Nat /\ k >= Len(all)
    BY LenProperties, LimitsAssumption
  <1> HIDE DEF k
  <1>3. /\ FirstOf(all, k) \in Seq(T)
        /\ Len(FirstOf(all, k)) = IF k <= Len(all) THEN k ELSE Len(all)
        /\ \A i \in 1 .. Len(FirstOf(all, k)) : FirstOf(all, k)[i] = all[i]
    BY <1>2, FirstOfIs
  <1>4. Len(FirstOf(all, k)) = Len(all)
    BY <1>2, <1>3
  <1>5. FirstOf(all, k) = all
    BY <1>3, <1>4, SeqEqual
  <1> QED  BY <1>1, <1>5

LEMMA PagesArePartition == Inductive => PagesPartition
  <1> SUFFICES ASSUME Inductive, request.kind = "listing", request.done, ~request.moved
               PROVE  Partition(Matching(NoFilter))
    BY DEF PagesPartition
  <1>1. /\ request.pages \in Seq(Seq(Docs \union Labels)) /\ request.pages # <<>>
        /\ Len(request.pages) * PageLimit >= Len(Listed)
        /\ \A n \in 1 .. Len(request.pages) : request.pages[n] = PageOf(Listed, n)
    BY DEF Inductive, TypeOK, RequestRecords, PagesHold, PagesAre
  <1>2. Listed \in Seq(Docs) /\ IsInjective(Listed) /\ ToSet(Listed) = Matching(NoFilter)
    BY ListedIs DEF Inductive
  <1> HIDE DEF Listed
  <1>3. Listed \in Seq(Docs \union Labels)
    BY <1>2, SeqMonotonic
  <1>4. FlattenSeq(request.pages) = Listed
    BY <1>1, <1>2, <1>3, PagesCover
  <1> QED  BY <1>2, <1>4 DEF Partition

LEMMA VocabularyHolds == Inductive => VocabularyPagesPartition
  <1> DEFINE f == request.filter
             listed == ListedEntities(f)
  <1> SUFFICES ASSUME Inductive, request.kind = "vocabulary", request.done, ~request.moved,
                      Settled(f)
               PROVE  Partition(ListEntities(f))
    BY DEF VocabularyPagesPartition, Settled
  <1>1. /\ request.pages \in Seq(Seq(Docs \union Labels)) /\ request.pages # <<>>
        /\ Len(request.pages) * PageLimit >= Len(listed)
        /\ \A n \in 1 .. Len(request.pages) : request.pages[n] = PageOf(listed, n)
    BY DEF Inductive, TypeOK, RequestRecords, PagesHold, PagesAre
  <1>2. listed \in Seq(Labels) /\ IsInjective(listed) /\ ToSet(listed) = ListEntities(f)
    BY ListedEntitiesAre DEF Inductive
  <1> HIDE DEF listed
  <1>3. listed \in Seq(Docs \union Labels)
    BY <1>2, SeqMonotonic
  <1>4. FlattenSeq(request.pages) = listed
    BY <1>1, <1>2, <1>3, PagesCover
  <1> QED  BY <1>2, <1>4 DEF Partition

(***************************************************************************)
(* The theorems.                                                           *)
(***************************************************************************)
\* Whatever the pipeline commits between the statements of a request, the rankings
\* are of chunks in question, an answer is what fusion makes of them, and the pages
\* read of an unmoved corpus are its pages.
THEOREM InductiveHolds == Spec => []Inductive
  <1>1. Init => Inductive
    BY Initially
  <1>2. ASSUME Inductive, [Next]_vars
        PROVE  Inductive'
    <2>1. CASE \E q \in Queries, extra \in Variants, f \in Filters, appendices \in BOOLEAN :
                  StartSearch(q, extra, f, appendices)
      BY <1>2, <2>1, StartSearchHolds
    <2>2. CASE StartListing \/ \E f \in EntityTypes : StartVocabulary(f)
      BY <1>2, <2>2, StartListingHolds, StartVocabularyHolds
    <2>3. CASE Advance
      BY <1>2, <2>3, FindCandidatesHolds, RunArmHolds, WidenHolds, RespondHolds, ReadPageHolds,
         ReadEntitiesHolds DEF Advance
    <2>4. CASE Pipeline
      BY <1>2, <2>4, PipelineHolds
    <2>5. CASE UNCHANGED vars
      BY <1>2, <2>5, StutterHolds
    <2> QED  BY <1>2, <2>1, <2>2, <2>3, <2>4, <2>5 DEF Next
  <1> QED  BY <1>1, <1>2, PTL DEF Spec

\* The rows, the request and what was made of its rankings stay of their types.
THEOREM TypeCorrect == Spec => []TypeOK
  <1>1. Inductive => TypeOK
    BY DEF Inductive
  <1> QED  BY <1>1, InductiveHolds, PTL

\* An answer is of decisions the filter matched, and quotes the appealed decision
\* only for a caller who asked for it or when the nämnd's own text had nothing.
THEOREM AnswersStayInScope == Spec => []AnswersAreInScope
  BY ScopeIsKept, InductiveHolds, PTL

\* No passage and no decision is listed after one that every ranking which found it
\* put behind: the sums of reciprocal ranks keep what the rankings agree on.
THEOREM FusionStaysFair == Spec => []FusionIsFair
  BY FusionHolds, InductiveHolds, PTL

\* The passages an answer quotes of a decision are of one chunking, unless it was
\* chunked again while the search ran, or its last two chunk runs were at it together.
THEOREM ChunkingsDoNotMix == Spec => []OneChunkingEach
  BY ChunkingHolds, InductiveHolds, PTL

\* The pages of the vocabulary hold each entity of a type once, and each of all types
\* where no two tie, however the pipeline commits what the counts are not of.
THEOREM VocabularyPagesArePartitions == Spec => []VocabularyPagesPartition
  BY VocabularyHolds, InductiveHolds, PTL

\* The pages of a listing hold every decision once, however the corpus changes in
\* what the listing is not ordered or filtered by.
THEOREM PagesArePartitions == Spec => []PagesPartition
  BY PagesArePartition, InductiveHolds, PTL
=============================================================================
