--------------------------- MODULE ChatAgentProofs ---------------------------
(***************************************************************************)
(* Theorems about ChatAgent: for every corpus, whatever searches, readers  *)
(* and models answer, every bound on a turn's loop and its budgets, and    *)
(* any number of turns of a conversation, in sequence or at once.          *)
(***************************************************************************)
EXTENDS ChatAgent, NaturalsInduction, WellFoundedInduction, FiniteSetTheorems,
        SequenceTheorems, TLAPS

(***************************************************************************)
(* The inductive invariant.                                                *)
(***************************************************************************)
\* A handle has one entry; a passage or a decision has one handle.
InOrder(pad) ==
    \A e, f \in ToSet(pad) :
        /\ e.key = f.key => e = f
        /\ e.key[1] \in {"c", "d"} /\ e.key[1] = f.key[1] /\ e.value = f.value => e = f

\* What is shown of a count is one query's.
ShowsItsQuery(result) ==
    result.sql = result.rows /\ result.answered = (result.rows # NoStatement)

CountsHold(pad) == \A e \in ToSet(pad) : e.key = Sql => ShowsItsQuery(e.value.result)

WellKept(pad) == InOrder(pad) /\ CountsHold(pad)

\* The pad's readings and counts were gathered by these turns.
AskedBy(pad, who) == \A e \in ToSet(pad) : e.key[1] \in {"r", "sql"} => e.value.asked \in who

\* The decision of every passage found is on the pad.
OwnersKnown(pad, found) ==
    \A c \in found : \E e \in ToSet(pad) : e.key[1] = "d" /\ e.value = OwnerOf(c)

\* The rows at hand are those of the last statement that ran.
RowsAreOfTheLast(run) ==
    LET ok == {i \in DOMAIN run.attempts : run.attempts[i].ok}
    IN  /\ ok = {} => run.rows = NoStatement
        /\ ok # {} => \E i \in ok : (\A j \in ok : i >= j) /\ run.attempts[i].sql = run.rows

\* What is cited is on the pad.
CitedIsKnown(pad) ==
    \A e \in ToSet(pad) : e.key = Selection =>
        \A h \in ToSet(e.value) : \E f \in ToSet(pad) : f.key = h

\* What a turn has gathered agrees with its place.
TurnHolds(r) ==
    /\ WellKept(r.pad)
    /\ OwnersKnown(r.pad, r.found)
    /\ r.found # {} => r.at \in {"looping", "counting", "writing"}
    /\ r.consulted = r.read
    /\ IsFiniteSet(r.read) /\ Cardinality(r.read) <= MaxDocumentsRead
    /\ RowsAreOfTheLast(r.run)
    /\ r.answered => r.at = "writing" /\ CitedIsKnown(r.pad)

\* A turn has read the context, and will replace it.
Holding(t) ==
    turn[t].at \in {"planning", "looping", "counting", "writing", "saving", "saved"}

\* Without a row there is at most the first turn's, and it did not get far.
RowAgrees ==
    /\ row \in {"none", "flushed"} =>
          \A t \in Turns : ~turn[t].done /\ (t # 1 => turn[t].at = "idle")
    /\ row = "none" => turn[1].at \in {"idle", "gone"}
    /\ row = "flushed" => turn[1].at = "opened"

\* Evidence is of turns that were stored, or of the one that holds it.
EvidenceIsOwned ==
    /\ AskedBy(context, ToSet(history))
    /\ \A t \in Turns : AskedBy(turn[t].pad, ToSet(history) \union {t})

\* A turn that is alone with the context has all the cases it carries.
CasesAreCarried ==
    ~overlapped => \A t \in Turns : Holding(t) => CasesOf(context) \subseteq CasesOf(turn[t].pad)

Inductive ==
    /\ TypeOK
    /\ WellKept(context)
    /\ \A t \in Turns : TurnHolds(turn[t])
    /\ RowAgrees
    /\ EvidenceIsOwned
    /\ CasesAreCarried
    /\ TurnsAreRemembered

(***************************************************************************)
(* Loops.                                                                  *)
(***************************************************************************)
\* Induction over the natural numbers, of membership in a set.
LEMMA SetInduction ==
    ASSUME NEW S, 0 \in S, \A n \in Nat : n \in S => n + 1 \in S
    PROVE  Nat \subseteq S
  <1> DEFINE T == Nat \ S
             R == OpToRel(<, Nat)
  <1>1. SUFFICES ASSUME T # {}
                 PROVE  FALSE
    OBVIOUS
  <1>2. \E x \in T : \A y \in T : <<y, x>> \notin R
    <2>1. IsWellFoundedOn(R, Nat)
      BY NatLessThanWellFounded
    <2> HIDE DEF R
    <2> QED  BY <1>1, <2>1, WFMin
  <1>3. PICK x \in T : \A y \in T : ~(y < x)
    BY <1>2 DEF OpToRel
  <1>4. x # 0 /\ x - 1 \in Nat /\ x - 1 < x
    BY <1>3
  <1>5. x - 1 \in S /\ (x - 1) + 1 = x
    BY <1>3, <1>4
  <1> QED  BY <1>3, <1>4, <1>5

\* What a loop over s makes of base, when step is one round of it.
Loops(f, base, step, s) ==
    /\ f[0] = base
    /\ \A k \in 1 .. Len(s) : f[k] = step[<<f[k - 1], s[k]>>]

LEMMA LoopExists ==
    ASSUME NEW T, NEW S, NEW step \in [T \X S -> T], NEW base \in T, NEW s \in Seq(S)
    PROVE  \E f \in [0 .. Len(s) -> T] : Loops(f, base, step, s)
  <1>1. Len(s) \in Nat /\ \A k \in 1 .. Len(s) : s[k] \in S
    BY LenProperties, ElementOfSeq
  <1> DEFINE Upto(n) ==
                \E f \in [0 .. n -> T] :
                    f[0] = base /\ \A k \in 1 .. n : f[k] = step[<<f[k - 1], s[k]>>]
             N == {n \in Nat : n <= Len(s) => Upto(n)}
  <1>2. 0 \in N
    <2>1. [k \in 0 .. 0 |-> base] \in [0 .. 0 -> T]
      OBVIOUS
    <2>2. [k \in 0 .. 0 |-> base][0] = base
      OBVIOUS
    <2>3. 1 .. 0 = {}
      OBVIOUS
    <2>4. Upto(0)
      BY <2>1, <2>2, <2>3
    <2> QED  BY <2>4
  <1>3. ASSUME NEW n \in Nat, n \in N
        PROVE  n + 1 \in N
    <2> SUFFICES ASSUME n + 1 <= Len(s)
                 PROVE  Upto(n + 1)
      OBVIOUS
    <2>1. n <= Len(s) /\ n + 1 \in 1 .. Len(s)
      BY <1>1
    <2>2. PICK f \in [0 .. n -> T] :
                  f[0] = base /\ \A k \in 1 .. n : f[k] = step[<<f[k - 1], s[k]>>]
      BY <1>3, <2>1
    <2> DEFINE last == step[<<f[n], s[n + 1]>>]
               g == [k \in 0 .. n + 1 |-> IF k <= n THEN f[k] ELSE last]
    <2>3. f[n] \in T /\ s[n + 1] \in S
      BY <1>1, <2>1, <2>2
    <2>4. last \in T
      BY <2>3
    <2> HIDE DEF last
    <2>5. g \in [0 .. n + 1 -> T] /\ g[0] = base
      BY <2>2, <2>4
    <2>6. ASSUME NEW k \in 1 .. n + 1
          PROVE  g[k] = step[<<g[k - 1], s[k]>>]
      <3>1. CASE k <= n
        <4>1. k \in 1 .. n /\ k \in 0 .. n + 1 /\ k - 1 \in 0 .. n + 1 /\ k - 1 <= n
          BY <3>1
        <4>2. g[k] = f[k] /\ g[k - 1] = f[k - 1]
          BY <3>1, <4>1
        <4> QED  BY <2>2, <4>1, <4>2
      <3>2. CASE ~(k <= n)
        <4>1. k = n + 1 /\ k - 1 = n /\ k \in 0 .. n + 1 /\ k - 1 \in 0 .. n + 1
          BY <3>2
        <4>2. g[k] = last /\ g[k - 1] = f[n]
          BY <3>2, <4>1
        <4> QED  BY <4>1, <4>2 DEF last
      <3> QED  BY <3>1, <3>2
    <2> QED  BY <2>5, <2>6
  <1>4. Nat \subseteq N
    <2> HIDE DEF N
    <2> QED  BY <1>2, <1>3, SetInduction
  <1>5. Upto(Len(s))
    BY <1>1, <1>4
  <1> QED  BY <1>5 DEF Loops

\* The members of a sequence.
LEMMA Members ==
    ASSUME NEW S, NEW s \in Seq(S)
    PROVE  /\ \A x : x \in ToSet(s) <=> \E i \in 1 .. Len(s) : s[i] = x
           /\ ToSet(s) \subseteq S
  <1>1. DOMAIN s = 1 .. Len(s) /\ \A i \in 1 .. Len(s) : s[i] \in S
    BY LenProperties, ElementOfSeq
  <1> QED  BY <1>1 DEF ToSet

LEMMA AppendMembers ==
    ASSUME NEW S, NEW s \in Seq(S), NEW e \in S
    PROVE  /\ Append(s, e) \in Seq(S)
           /\ ToSet(Append(s, e)) = ToSet(s) \union {e}
  <1>1. /\ Append(s, e) \in Seq(S)
        /\ Len(s) \in Nat /\ Len(Append(s, e)) = Len(s) + 1
        /\ \A i \in 1 .. Len(s) : Append(s, e)[i] = s[i]
        /\ Append(s, e)[Len(s) + 1] = e
    BY AppendProperties, LenProperties
  <1> DEFINE a == Append(s, e)
  <1>2. \A x : x \in ToSet(a) <=> \E i \in 1 .. Len(s) + 1 : a[i] = x
    <2> HIDE DEF a
    <2>1. a \in Seq(S) /\ Len(a) = Len(s) + 1
      BY <1>1 DEF a
    <2> QED  BY <2>1, Members
  <1>3. \A x : x \in ToSet(s) <=> \E i \in 1 .. Len(s) : s[i] = x
    BY Members
  <1> HIDE DEF a
  <1>4. \A x : x \in ToSet(a) <=> x \in ToSet(s) \union {e}
    BY <1>1, <1>2, <1>3 DEF a
  <1> QED  BY <1>1, <1>4 DEF a

\* Those(s, S) has the members of s that are in S.
LEMMA ThoseAre ==
    ASSUME NEW R, NEW s \in Seq(R), NEW S
    PROVE  /\ Those(s, S) \in Seq(R)
           /\ ToSet(Those(s, S)) = ToSet(s) \intersect S
  <1>1. Len(s) \in Nat /\ \A k \in 1 .. Len(s) : s[k] \in R
    BY LenProperties, ElementOfSeq
  <1> DEFINE Loop(f) == f = [n \in 0 .. Len(s) |->
                                IF n = 0 THEN <<>>
                                ELSE IF s[n] \in S THEN Append(f[n - 1], s[n])
                                ELSE f[n - 1]]
             upTo == CHOOSE f : Loop(f)
             step == [x \in Seq(R) \X R |-> IF x[2] \in S THEN Append(x[1], x[2]) ELSE x[1]]
  <1>2. step \in [Seq(R) \X R -> Seq(R)]
    BY AppendProperties
  <1>3. PICK g \in [0 .. Len(s) -> Seq(R)] : Loops(g, <<>>, step, s)
    <2> HIDE DEF step
    <2> QED  BY <1>2, LoopExists, EmptySeq
  <1>4. Loop(g)
    <2>1. ASSUME NEW n \in 0 .. Len(s), n # 0
          PROVE  g[n] = IF s[n] \in S THEN Append(g[n - 1], s[n]) ELSE g[n - 1]
      <3>1. n \in 1 .. Len(s) /\ n - 1 \in 0 .. Len(s)
        BY <1>1, <2>1
      <3>2. <<g[n - 1], s[n]>> \in Seq(R) \X R /\ g[n] = step[<<g[n - 1], s[n]>>]
        BY <1>1, <1>3, <3>1 DEF Loops
      <3> QED  BY <3>2
    <2> HIDE DEF step
    <2>2. g[0] = <<>> /\ g = [n \in 0 .. Len(s) |-> g[n]]
      BY <1>3 DEF Loops
    <2> QED  BY <2>1, <2>2
  <1>5. Loop(upTo)
    BY <1>4
  <1>6. Those(s, S) = upTo[Len(s)]
    BY DEF Those
  <1> HIDE DEF upTo
  <1> DEFINE Good(n) ==
                /\ upTo[n] \in Seq(R)
                /\ \A x : x \in ToSet(upTo[n]) <=> \E i \in 1 .. n : s[i] = x /\ x \in S
             N == {n \in Nat : n <= Len(s) => Good(n)}
  <1>7. 0 \in N
    <2>1. upTo[0] = <<>>
      BY <1>1, <1>5
    <2>2. upTo[0] \in Seq(R) /\ Len(upTo[0]) = 0
      BY <2>1, EmptySeq
    <2>3. \A x : x \notin ToSet(upTo[0])
      BY <2>2, Members
    <2> QED  BY <2>2, <2>3
  <1>8. ASSUME NEW n \in Nat, n \in N
        PROVE  n + 1 \in N
    <2> SUFFICES ASSUME n + 1 <= Len(s)
                 PROVE  Good(n + 1)
      OBVIOUS
    <2>1. Good(n) /\ n + 1 \in 1 .. Len(s) /\ s[n + 1] \in R
      BY <1>1, <1>8
    <2>2. upTo[n + 1] = IF s[n + 1] \in S THEN Append(upTo[n], s[n + 1]) ELSE upTo[n]
      <3>1. n + 1 \in 0 .. Len(s) /\ n + 1 # 0 /\ (n + 1) - 1 = n
        BY <1>1, <2>1
      <3> QED  BY <1>5, <3>1
    <2>3. /\ Append(upTo[n], s[n + 1]) \in Seq(R)
          /\ ToSet(Append(upTo[n], s[n + 1])) = ToSet(upTo[n]) \union {s[n + 1]}
      BY <2>1, AppendMembers
    <2>4. \A i \in 1 .. n + 1 : i \in 1 .. n \/ i = n + 1
      OBVIOUS
    <2>5. 1 .. n \subseteq 1 .. n + 1 /\ n + 1 \in 1 .. n + 1
      OBVIOUS
    <2> HIDE DEF Loop
    <2>6. upTo[n + 1] \in Seq(R)
      BY <2>1, <2>2, <2>3
    <2>7. ASSUME NEW x
          PROVE  x \in ToSet(upTo[n + 1]) <=> \E i \in 1 .. n + 1 : s[i] = x /\ x \in S
      BY <2>1, <2>2, <2>3, <2>4, <2>5
    <2> QED  BY <2>6, <2>7
  <1>9. Nat \subseteq N
    <2> HIDE DEF N
    <2> QED  BY <1>7, <1>8, SetInduction
  <1>10. Good(Len(s))
    BY <1>1, <1>9
  <1>11. \A x : x \in ToSet(s) <=> \E i \in 1 .. Len(s) : s[i] = x
    BY Members
  <1> QED  BY <1>6, <1>10, <1>11

(***************************************************************************)
(* The pad as the set of its entries.                                      *)
(***************************************************************************)
Entry(key, value) == [key |-> key, value |-> value]

\* The first component of a key says what its value is.
LEMMA EntryKinds ==
    ASSUME NEW e \in Entries
    PROVE  /\ e = Entry(e.key, e.value)
           /\ e.key[1] \in {"c", "d", "r", "sql", "selection", "cases"}
           /\ e.key[1] \in {"c", "d", "r"} => e.key \in {e.key[1]} \X Nat
           /\ e.key[1] = "c" => e.value \in Chunks
           /\ e.key[1] = "d" => e.value \in Decisions
           /\ e.key[1] = "r" => e.value \in ReadingRecords
           /\ e.key[1] = "sql" => e.key = Sql /\ e.value \in [asked : Turns, result : Results]
           /\ e.key[1] = "selection" => e.key = Selection /\ e.value \in Seq({"c"} \X Nat)
           /\ e.key[1] = "cases" => e.key = Cases /\ e.value \in SUBSET Decisions
  <1>1. Sql[1] = "sql" /\ Selection[1] = "selection" /\ Cases[1] = "cases"
    BY DEF Sql, Selection, Cases
  <1>2. e = Entry(e.key, e.value)
    BY DEF Entries, Entry
  <1> HIDE DEF Sql, Selection, Cases
  <1>3. CASE e \in [key : {"c"} \X Nat, value : Chunks]
    BY <1>2, <1>3
  <1>4. CASE e \in [key : {"d"} \X Nat, value : Decisions]
    BY <1>2, <1>4
  <1>5. CASE e \in [key : {"r"} \X Nat, value : ReadingRecords]
    BY <1>2, <1>5
  <1>6. CASE e \in [key : {Sql}, value : [asked : Turns, result : Results]]
    BY <1>1, <1>2, <1>6
  <1>7. CASE e \in [key : {Selection}, value : Seq({"c"} \X Nat)]
    BY <1>1, <1>2, <1>7
  <1>8. CASE e \in [key : {Cases}, value : SUBSET Decisions]
    BY <1>1, <1>2, <1>8
  <1> QED  BY <1>3, <1>4, <1>5, <1>6, <1>7, <1>8 DEF Entries

LEMMA KeysAre ==
    ASSUME NEW pad \in Seq(Entries)
    PROVE  Keys(pad) = {e.key : e \in ToSet(pad)}
  <1>1. DOMAIN pad = 1 .. Len(pad)
    BY LenProperties
  <1>2. \A x : x \in ToSet(pad) <=> \E i \in 1 .. Len(pad) : pad[i] = x
    BY Members
  <1>3. \A k : k \in Keys(pad) <=> \E i \in 1 .. Len(pad) : pad[i].key = k
    BY <1>1 DEF Keys
  <1>4. \A k : k \in Keys(pad) <=> \E e \in ToSet(pad) : e.key = k
    BY <1>2, <1>3
  <1> QED  BY <1>4

\* What is looked up is an entry's value.
LEMMA Lookup ==
    ASSUME NEW pad \in Seq(Entries)
    PROVE  /\ \A k \in Keys(pad) : Entry(k, Get(pad, k)) \in ToSet(pad)
           /\ InOrder(pad) => \A e \in ToSet(pad) : e.key \in Keys(pad) /\ Get(pad, e.key) = e.value
  <1>1. Keys(pad) = {e.key : e \in ToSet(pad)}
    BY KeysAre
  <1>2. \A e \in ToSet(pad) : e \in Entries
    BY Members
  <1>3. ASSUME NEW k \in Keys(pad)
        PROVE  Entry(k, Get(pad, k)) \in ToSet(pad)
    <2> DEFINE e == CHOOSE e \in ToSet(pad) : e.key = k
    <2>1. e \in ToSet(pad) /\ e.key = k
      BY <1>1
    <2>2. Get(pad, k) = e.value
      BY DEF Get
    <2> HIDE DEF e
    <2>3. e = Entry(e.key, e.value)
      BY <1>2, <2>1, EntryKinds
    <2> QED  BY <2>1, <2>2, <2>3
  <1>4. ASSUME InOrder(pad), NEW e \in ToSet(pad)
        PROVE  e.key \in Keys(pad) /\ Get(pad, e.key) = e.value
    <2>1. e.key \in Keys(pad)
      BY <1>1
    <2> DEFINE f == Entry(e.key, Get(pad, e.key))
    <2>2. f \in ToSet(pad) /\ f.key = e.key /\ f.value = Get(pad, e.key)
      BY <1>3, <2>1 DEF Entry
    <2> HIDE DEF f
    <2>3. f = e
      BY <1>4, <2>2 DEF InOrder
    <2> QED  BY <2>1, <2>2, <2>3
  <1> QED  BY <1>3, <1>4

\* Remembering replaces the entry of its key, if there is one, and no other.
LEMMA RememberIs ==
    ASSUME NEW pad \in Seq(Entries), NEW key, NEW value, Entry(key, value) \in Entries
    PROVE  /\ Remember(pad, key, value) \in Seq(Entries)
           /\ ToSet(Remember(pad, key, value)) =
                  {e \in ToSet(pad) : e.key # key} \union {Entry(key, value)}
  <1> DEFINE new == Entry(key, value)
             after == Remember(pad, key, value)
  <1>1. Len(pad) \in Nat /\ DOMAIN pad = 1 .. Len(pad) /\ \A i \in 1 .. Len(pad) : pad[i] \in Entries
    BY LenProperties, ElementOfSeq
  <1>2. \A x : x \in ToSet(pad) <=> \E i \in 1 .. Len(pad) : pad[i] = x
    BY Members
  <1>3. \A k : k \in Keys(pad) <=> \E i \in 1 .. Len(pad) : pad[i].key = k
    BY <1>1 DEF Keys
  <1>4. new.key = key
    BY DEF Entry
  <1>5. CASE key \in Keys(pad)
    <2>1. after = [i \in 1 .. Len(pad) |-> IF pad[i].key = key THEN new ELSE pad[i]]
      BY <1>1, <1>5 DEF Remember, Entry
    <2> HIDE DEF new, after
    <2>2. \A i \in 1 .. Len(pad) : after[i] = (IF pad[i].key = key THEN new ELSE pad[i])
      BY <2>1
    <2>3. after \in [1 .. Len(pad) -> Entries]
      BY <1>1, <2>1, <2>2 DEF new
    <2>4. after \in Seq(Entries)
      BY <1>1, <2>3
    <2>5. Len(after) = Len(pad)
      BY <1>1, <2>3, <2>4, LenProperties
    <2>6. \A x : x \in ToSet(after) <=> \E i \in 1 .. Len(pad) : after[i] = x
      BY <2>4, <2>5, Members
    <2>7. PICK i \in 1 .. Len(pad) : pad[i].key = key
      BY <1>3, <1>5
    <2>8. \A x : x \in ToSet(after) <=> (x \in ToSet(pad) /\ x.key # key) \/ x = new
      BY <1>2, <2>2, <2>6, <2>7
    <2>9. ToSet(after) = {e \in ToSet(pad) : e.key # key} \union {new}
      BY <2>8
    <2> QED  BY <2>4, <2>9 DEF new, after
  <1>6. CASE key \notin Keys(pad)
    <2>1. after = Append(pad, new)
      BY <1>6 DEF Remember, Entry
    <2>2. after \in Seq(Entries) /\ ToSet(after) = ToSet(pad) \union {new}
      BY <2>1, AppendMembers
    <2>3. \A e \in ToSet(pad) : e.key # key
      BY <1>2, <1>3, <1>6
    <2> HIDE DEF new, after
    <2>4. ToSet(after) = {e \in ToSet(pad) : e.key # key} \union {new}
      BY <2>2, <2>3
    <2> QED  BY <2>2, <2>4 DEF new, after
  <1> QED  BY <1>5, <1>6

\* The handle minted is one nothing has.
LEMMA NextHandleIsNew ==
    ASSUME NEW pad \in Seq(Entries), NEW prefix \in {"c", "d", "r"}
    PROVE  NextHandle(pad, prefix) \in {prefix} \X Nat /\ NextHandle(pad, prefix) \notin Keys(pad)
  <1> DEFINE Places(n) == {i \in 1 .. n : pad[i].key[1] = prefix}
             Numbers(n) == {0} \union {pad[i].key[2] : i \in Places(n)}
             Greatest(n) == \E m \in Numbers(n) : \A x \in Numbers(n) : m \in Nat /\ m >= x
             N == {n \in Nat : n <= Len(pad) => Greatest(n)}
  <1>1. Len(pad) \in Nat /\ DOMAIN pad = 1 .. Len(pad) /\ \A i \in 1 .. Len(pad) : pad[i] \in Entries
    BY LenProperties, ElementOfSeq
  <1>2. \A i \in 1 .. Len(pad) : pad[i].key[1] = prefix =>
            /\ pad[i].key = <<prefix, pad[i].key[2]>>
            /\ pad[i].key[2] \in Nat
    BY <1>1, EntryKinds
  <1>3. 0 \in N
    <2>1. Numbers(0) = {0}
      OBVIOUS
    <2> QED  BY <2>1
  <1>4. ASSUME NEW n \in Nat, n \in N
        PROVE  n + 1 \in N
    <2> SUFFICES ASSUME n + 1 <= Len(pad)
                 PROVE  Greatest(n + 1)
      OBVIOUS
    <2>1. PICK m \in Numbers(n) : \A x \in Numbers(n) : m \in Nat /\ m >= x
      BY <1>1, <1>4
    <2>2. m \in Nat
      BY <2>1
    <2>3. CASE pad[n + 1].key[1] = prefix
      <3> DEFINE last == pad[n + 1].key[2]
      <3>1. last \in Nat
        BY <1>1, <1>2, <2>3
      <3>2. Numbers(n + 1) = Numbers(n) \union {last}
        <4>1. Places(n + 1) = Places(n) \union {n + 1}
          BY <2>3
        <4> QED  BY <4>1
      <3> HIDE DEF Numbers, last
      <3>3. \A x \in Numbers(n) : x \in Nat
        BY <1>1, <1>2 DEF Numbers
      <3>4. CASE m >= last
        BY <2>1, <2>2, <3>1, <3>2, <3>4
      <3>5. CASE ~(m >= last)
        BY <2>1, <2>2, <3>1, <3>2, <3>3, <3>5
      <3> QED  BY <3>4, <3>5
    <2>4. CASE pad[n + 1].key[1] # prefix
      <3>1. Places(n + 1) = Places(n)
        BY <2>4
      <3>2. Numbers(n + 1) = Numbers(n)
        BY <3>1
      <3> QED  BY <2>1, <3>2
    <2> QED  BY <2>3, <2>4
  <1>5. Greatest(Len(pad))
    <2>1. Nat \subseteq N
      <3> HIDE DEF N
      <3> QED  BY <1>3, <1>4, SetInduction
    <2>2. Len(pad) \in N
      BY <1>1, <2>1
    <2> HIDE DEF Greatest
    <2> QED  BY <1>1, <2>2
  <1> DEFINE nums == {0} \union {k[2] : k \in HandlesOf(pad, prefix)}
  <1>6. nums = Numbers(Len(pad))
    <2>1. \A k : k \in HandlesOf(pad, prefix) <=>
                    \E i \in 1 .. Len(pad) : pad[i].key = k /\ pad[i].key[1] = prefix
      BY <1>1 DEF HandlesOf, Keys
    <2>2. \A x : x \in {k[2] : k \in HandlesOf(pad, prefix)} <=>
                    \E i \in 1 .. Len(pad) : pad[i].key[2] = x /\ pad[i].key[1] = prefix
      BY <2>1
    <2> QED  BY <2>2
  <1>7. /\ Max(nums) \in Nat
        /\ \A x \in nums : Max(nums) >= x
    <2>1. \E m \in nums : \A x \in nums : m \in Nat /\ m >= x
      BY <1>5, <1>6
    <2>2. PICK m \in nums : m \in Nat /\ \A x \in nums : m >= x
      BY <2>1
    <2>3. Max(nums) \in nums /\ \A x \in nums : Max(nums) >= x
      <3> HIDE DEF nums
      <3> QED  BY <2>2 DEF Max
    <2>4. \A x \in Numbers(Len(pad)) : x \in Nat
      BY <1>2
    <2> QED  BY <1>6, <2>3, <2>4
  <1>8. NextHandle(pad, prefix) = <<prefix, 1 + Max(nums)>>
    BY DEF NextHandle
  <1>9. ASSUME NextHandle(pad, prefix) \in Keys(pad)
        PROVE  FALSE
    <2>1. NextHandle(pad, prefix) \in HandlesOf(pad, prefix)
      BY <1>8, <1>9 DEF HandlesOf
    <2>2. NextHandle(pad, prefix)[2] \in nums
      BY <2>1
    <2> HIDE DEF nums
    <2>3. 1 + Max(nums) \in nums
      BY <1>8, <2>2
    <2> QED  BY <1>7, <2>3
  <1> HIDE DEF nums
  <1> QED  BY <1>7, <1>8, <1>9

(***************************************************************************)
(* Passages and decisions are put on the pad.                              *)
(***************************************************************************)
Pad == {pad \in Seq(Entries) : InOrder(pad)}

Has(pad, prefix, value) == \E e \in ToSet(pad) : e.key[1] = prefix /\ e.value = value

\* after has what the pad had, and more passages and decisions.
Extends(pad, after) ==
    /\ after \in Pad
    /\ ToSet(pad) \subseteq ToSet(after)
    /\ \A e \in ToSet(after) \ ToSet(pad) : e.key[1] \in {"c", "d"}

LEMMA ExtendsIsTransitive ==
    ASSUME NEW p, NEW q, NEW r, Extends(p, q), Extends(q, r)
    PROVE  Extends(p, r)
  BY DEF Extends

LEMMA HasAHandle ==
    ASSUME NEW pad \in Pad, NEW prefix, NEW value
    PROVE  Has(pad, prefix, value) <=> HandlesFor(pad, prefix, value) # {}
  <1>1. pad \in Seq(Entries) /\ InOrder(pad)
    BY DEF Pad
  <1>2. ASSUME NEW k \in HandlesFor(pad, prefix, value)
        PROVE  Has(pad, prefix, value)
    <2>1. k \in Keys(pad) /\ k[1] = prefix /\ Get(pad, k) = value
      BY DEF HandlesFor, HandlesOf
    <2>2. Entry(k, Get(pad, k)) \in ToSet(pad)
      BY <1>1, <2>1, Lookup
    <2> QED  BY <2>1, <2>2 DEF Has, Entry
  <1>3. ASSUME NEW e \in ToSet(pad), e.key[1] = prefix, e.value = value
        PROVE  e.key \in HandlesFor(pad, prefix, value)
    <2>1. e.key \in Keys(pad) /\ Get(pad, e.key) = e.value
      BY <1>1, Lookup
    <2> QED  BY <1>3, <2>1 DEF HandlesFor, HandlesOf
  <1> QED  BY <1>2, <1>3 DEF Has

\* A new handle for what has none keeps the pad in order.
LEMMA MintKeepsOrder ==
    ASSUME NEW pad \in Pad, NEW prefix \in {"c", "d", "r"}, NEW value,
           \A k \in {prefix} \X Nat : Entry(k, value) \in Entries,
           prefix \in {"c", "d"} => ~Has(pad, prefix, value)
    PROVE  LET after == Remember(pad, NextHandle(pad, prefix), value)
               new == Entry(NextHandle(pad, prefix), value)
           IN  /\ after \in Pad
               /\ ToSet(after) = ToSet(pad) \union {new}
               /\ new.key[1] = prefix /\ new.value = value
               /\ new \notin ToSet(pad)
  <1> DEFINE k == NextHandle(pad, prefix)
             after == Remember(pad, k, value)
             new == Entry(k, value)
  <1>1. pad \in Seq(Entries) /\ InOrder(pad)
    BY DEF Pad
  <1>2. k \in {prefix} \X Nat /\ k \notin Keys(pad)
    BY <1>1, NextHandleIsNew
  <1>3. new \in Entries /\ new.key = k /\ new.value = value /\ k[1] = prefix
    BY <1>2 DEF Entry
  <1> HIDE DEF k
  <1>4. \A e \in ToSet(pad) : e.key # k
    BY <1>1, <1>2, KeysAre
  <1>5. after \in Seq(Entries) /\ ToSet(after) = {e \in ToSet(pad) : e.key # k} \union {new}
    BY <1>1, <1>3, RememberIs
  <1> HIDE DEF after, new
  <1>6. ToSet(after) = ToSet(pad) \union {new}
    BY <1>4, <1>5
  <1>7. \A e \in ToSet(pad) : e.key[1] \in {"c", "d"} /\ e.key[1] = prefix => e.value # value
    BY DEF Has
  <1>8. InOrder(after)
    BY <1>1, <1>3, <1>4, <1>6, <1>7 DEF InOrder
  <1> QED  BY <1>3, <1>4, <1>5, <1>6, <1>8 DEF Pad, after, new, k

LEMMA DecisionIsRemembered ==
    ASSUME NEW pad \in Pad, NEW d \in Decisions
    PROVE  /\ Extends(pad, RememberDecision(pad, d))
           /\ Has(RememberDecision(pad, d), "d", d)
  <1>1. CASE HandlesFor(pad, "d", d) # {}
    BY <1>1, HasAHandle DEF RememberDecision, Extends
  <1>2. CASE HandlesFor(pad, "d", d) = {}
    <2>1. \A k \in {"d"} \X Nat : Entry(k, d) \in Entries
      BY DEF Entry, Entries
    <2>2. ~Has(pad, "d", d)
      BY <1>2, HasAHandle
    <2>3. RememberDecision(pad, d) = Remember(pad, NextHandle(pad, "d"), d)
      BY <1>2 DEF RememberDecision
    <2> QED  BY <2>1, <2>2, <2>3, MintKeepsOrder DEF Extends, Has
  <1> QED  BY <1>1, <1>2

LEMMA ChunkIsRemembered ==
    ASSUME NEW pad \in Pad, NEW c \in Chunks
    PROVE  /\ Extends(pad, RememberChunk(pad, c))
           /\ Has(RememberChunk(pad, c), "c", c)
  <1>1. CASE HandlesFor(pad, "c", c) # {}
    BY <1>1, HasAHandle DEF RememberChunk, Extends
  <1>2. CASE HandlesFor(pad, "c", c) = {}
    <2>1. \A k \in {"c"} \X Nat : Entry(k, c) \in Entries
      BY DEF Entry, Entries
    <2>2. ~Has(pad, "c", c)
      BY <1>2, HasAHandle
    <2>3. RememberChunk(pad, c) = Remember(pad, NextHandle(pad, "c"), c)
      BY <1>2 DEF RememberChunk
    <2> QED  BY <2>1, <2>2, <2>3, MintKeepsOrder DEF Extends, Has
  <1> QED  BY <1>1, <1>2

LEMMA ChunksAreRemembered ==
    ASSUME NEW pad \in Pad, NEW chunks \in Seq(Chunks)
    PROVE  /\ Extends(pad, RememberChunks(pad, chunks))
           /\ \A c \in ToSet(chunks) : Has(RememberChunks(pad, chunks), "c", c)
  <1>1. Len(chunks) \in Nat /\ \A k \in 1 .. Len(chunks) : chunks[k] \in Chunks
    BY LenProperties, ElementOfSeq
  <1> DEFINE Loop(f) == f = [n \in 0 .. Len(chunks) |->
                                IF n = 0 THEN pad ELSE RememberChunk(f[n - 1], chunks[n])]
             upTo == CHOOSE f : Loop(f)
             step == [x \in Pad \X Chunks |-> RememberChunk(x[1], x[2])]
  <1>2. step \in [Pad \X Chunks -> Pad]
    BY ChunkIsRemembered DEF Extends
  <1>3. PICK g \in [0 .. Len(chunks) -> Pad] : Loops(g, pad, step, chunks)
    <2> HIDE DEF step
    <2> QED  BY <1>2, LoopExists
  <1>4. Loop(g)
    <2>1. ASSUME NEW n \in 0 .. Len(chunks), n # 0
          PROVE  g[n] = RememberChunk(g[n - 1], chunks[n])
      <3>1. n \in 1 .. Len(chunks) /\ n - 1 \in 0 .. Len(chunks)
        BY <1>1, <2>1
      <3>2. <<g[n - 1], chunks[n]>> \in Pad \X Chunks /\ g[n] = step[<<g[n - 1], chunks[n]>>]
        BY <1>1, <1>3, <3>1 DEF Loops
      <3> QED  BY <3>2
    <2> HIDE DEF step
    <2>2. g[0] = pad /\ g = [n \in 0 .. Len(chunks) |-> g[n]]
      BY <1>3 DEF Loops
    <2> QED  BY <2>1, <2>2
  <1>5. Loop(upTo)
    BY <1>4
  <1>6. RememberChunks(pad, chunks) = upTo[Len(chunks)]
    BY DEF RememberChunks
  <1> HIDE DEF upTo
  <1> DEFINE Good(n) ==
                /\ Extends(pad, upTo[n])
                /\ \A k \in 1 .. n : Has(upTo[n], "c", chunks[k])
             N == {n \in Nat : n <= Len(chunks) => Good(n)}
  <1>7. 0 \in N
    <2>1. upTo[0] = pad
      BY <1>1, <1>5
    <2>2. Extends(pad, pad)
      BY DEF Extends
    <2> QED  BY <2>1, <2>2
  <1>8. ASSUME NEW n \in Nat, n \in N
        PROVE  n + 1 \in N
    <2> SUFFICES ASSUME n + 1 <= Len(chunks)
                 PROVE  Good(n + 1)
      OBVIOUS
    <2>1. Good(n) /\ n + 1 \in 1 .. Len(chunks) /\ chunks[n + 1] \in Chunks
      BY <1>1, <1>8
    <2>2. upTo[n + 1] = RememberChunk(upTo[n], chunks[n + 1])
      <3>1. n + 1 \in 0 .. Len(chunks) /\ n + 1 # 0 /\ (n + 1) - 1 = n
        BY <1>1, <2>1
      <3> QED  BY <1>5, <3>1
    <2> HIDE DEF Loop
    <2>3. upTo[n] \in Pad
      BY <2>1 DEF Extends
    <2>4. Extends(upTo[n], upTo[n + 1]) /\ Has(upTo[n + 1], "c", chunks[n + 1])
      BY <2>1, <2>2, <2>3, ChunkIsRemembered
    <2>5. Extends(pad, upTo[n + 1])
      BY <2>1, <2>4, ExtendsIsTransitive
    <2>6. ASSUME NEW k \in 1 .. n + 1
          PROVE  Has(upTo[n + 1], "c", chunks[k])
      <3>1. k \in 1 .. n \/ k = n + 1
        OBVIOUS
      <3> QED  BY <2>1, <2>4, <3>1 DEF Has, Extends
    <2> QED  BY <2>5, <2>6
  <1>9. Nat \subseteq N
    <2> HIDE DEF N
    <2> QED  BY <1>7, <1>8, SetInduction
  <1>10. Good(Len(chunks))
    BY <1>1, <1>9
  <1>11. \A c \in ToSet(chunks) : \E k \in 1 .. Len(chunks) : chunks[k] = c
    BY Members
  <1> QED  BY <1>6, <1>10, <1>11

Hits == [doc : Decisions, chunks : Seq(Chunks)]

LEMMA HitIsRemembered ==
    ASSUME NEW pad \in Pad, NEW hit \in Hits
    PROVE  /\ Extends(pad, RememberHit(pad, hit))
           /\ Has(RememberHit(pad, hit), "d", hit.doc)
  <1> DEFINE first == RememberDecision(pad, hit.doc)
  <1>1. hit.doc \in Decisions /\ hit.chunks \in Seq(Chunks)
    BY DEF Hits
  <1>2. Extends(pad, first) /\ Has(first, "d", hit.doc)
    BY <1>1, DecisionIsRemembered
  <1> HIDE DEF first
  <1>3. Extends(first, RememberChunks(first, hit.chunks))
    BY <1>1, <1>2, ChunksAreRemembered DEF Extends
  <1>4. RememberHit(pad, hit) = RememberChunks(first, hit.chunks)
    BY DEF RememberHit, first
  <1>5. Extends(pad, RememberChunks(first, hit.chunks))
    BY <1>2, <1>3, ExtendsIsTransitive
  <1> QED  BY <1>2, <1>3, <1>4, <1>5 DEF Has, Extends

LEMMA OutcomeIsRemembered ==
    ASSUME NEW pad \in Pad, NEW outcome \in Seq(Hits)
    PROVE  /\ Extends(pad, RememberOutcome(pad, outcome))
           /\ \A hit \in ToSet(outcome) : Has(RememberOutcome(pad, outcome), "d", hit.doc)
  <1>1. Len(outcome) \in Nat /\ \A k \in 1 .. Len(outcome) : outcome[k] \in Hits
    BY LenProperties, ElementOfSeq
  <1> DEFINE Loop(f) == f = [n \in 0 .. Len(outcome) |->
                                IF n = 0 THEN pad ELSE RememberHit(f[n - 1], outcome[n])]
             upTo == CHOOSE f : Loop(f)
             step == [x \in Pad \X Hits |-> RememberHit(x[1], x[2])]
  <1>2. step \in [Pad \X Hits -> Pad]
    BY HitIsRemembered DEF Extends
  <1>3. PICK g \in [0 .. Len(outcome) -> Pad] : Loops(g, pad, step, outcome)
    <2> HIDE DEF step
    <2> QED  BY <1>2, LoopExists
  <1>4. Loop(g)
    <2>1. ASSUME NEW n \in 0 .. Len(outcome), n # 0
          PROVE  g[n] = RememberHit(g[n - 1], outcome[n])
      <3>1. n \in 1 .. Len(outcome) /\ n - 1 \in 0 .. Len(outcome)
        BY <1>1, <2>1
      <3>2. <<g[n - 1], outcome[n]>> \in Pad \X Hits /\ g[n] = step[<<g[n - 1], outcome[n]>>]
        BY <1>1, <1>3, <3>1 DEF Loops
      <3> QED  BY <3>2
    <2> HIDE DEF step
    <2>2. g[0] = pad /\ g = [n \in 0 .. Len(outcome) |-> g[n]]
      BY <1>3 DEF Loops
    <2> QED  BY <2>1, <2>2
  <1>5. Loop(upTo)
    BY <1>4
  <1>6. RememberOutcome(pad, outcome) = upTo[Len(outcome)]
    BY DEF RememberOutcome
  <1> HIDE DEF upTo
  <1> DEFINE Good(n) ==
                /\ Extends(pad, upTo[n])
                /\ \A k \in 1 .. n : Has(upTo[n], "d", outcome[k].doc)
             N == {n \in Nat : n <= Len(outcome) => Good(n)}
  <1>7. 0 \in N
    <2>1. upTo[0] = pad
      BY <1>1, <1>5
    <2>2. Extends(pad, pad)
      BY DEF Extends
    <2> QED  BY <2>1, <2>2
  <1>8. ASSUME NEW n \in Nat, n \in N
        PROVE  n + 1 \in N
    <2> SUFFICES ASSUME n + 1 <= Len(outcome)
                 PROVE  Good(n + 1)
      OBVIOUS
    <2>1. Good(n) /\ n + 1 \in 1 .. Len(outcome) /\ outcome[n + 1] \in Hits
      BY <1>1, <1>8
    <2>2. upTo[n + 1] = RememberHit(upTo[n], outcome[n + 1])
      <3>1. n + 1 \in 0 .. Len(outcome) /\ n + 1 # 0 /\ (n + 1) - 1 = n
        BY <1>1, <2>1
      <3> QED  BY <1>5, <3>1
    <2> HIDE DEF Loop
    <2>3. upTo[n] \in Pad
      BY <2>1 DEF Extends
    <2>4. Extends(upTo[n], upTo[n + 1]) /\ Has(upTo[n + 1], "d", outcome[n + 1].doc)
      BY <2>1, <2>2, <2>3, HitIsRemembered
    <2>5. Extends(pad, upTo[n + 1])
      BY <2>1, <2>4, ExtendsIsTransitive
    <2>6. ASSUME NEW k \in 1 .. n + 1
          PROVE  Has(upTo[n + 1], "d", outcome[k].doc)
      <3>1. k \in 1 .. n \/ k = n + 1
        OBVIOUS
      <3> QED  BY <2>1, <2>4, <3>1 DEF Has, Extends
    <2> QED  BY <2>5, <2>6
  <1>9. Nat \subseteq N
    <2> HIDE DEF N
    <2> QED  BY <1>7, <1>8, SetInduction
  <1>10. Good(Len(outcome))
    BY <1>1, <1>9
  <1>11. \A hit \in ToSet(outcome) : \E k \in 1 .. Len(outcome) : outcome[k] = hit
    BY Members
  <1> QED  BY <1>6, <1>10, <1>11

\* A passage is owned by the decision that has it.
LEMMA OwnerIs ==
    ASSUME NEW d \in Decisions, NEW c \in ToSet(ChunksOf[d])
    PROVE  OwnerOf(c) = d /\ c \in Chunks
  <1>1. \A e \in Decisions : c \in ToSet(ChunksOf[e]) => e = d
    BY CorpusAssumption
  <1> QED  BY <1>1 DEF OwnerOf, Chunks

\* The cases of a pad are those in the entry that lists them.
LEMMA CasesAre ==
    ASSUME NEW pad \in Pad
    PROVE  /\ \A d : d \in CasesOf(pad) <=> \E e \in ToSet(pad) : e.key = Cases /\ d \in e.value
           /\ CasesOf(pad) \subseteq Decisions
  <1>1. pad \in Seq(Entries) /\ InOrder(pad)
    BY DEF Pad
  <1>2. Cases[1] = "cases"
    BY DEF Cases
  <1> HIDE DEF Cases
  <1>3. CASE Cases \in Keys(pad)
    <2> DEFINE e == Entry(Cases, Get(pad, Cases))
    <2>1. e \in ToSet(pad) /\ e.key = Cases /\ e.value = CasesOf(pad)
      BY <1>1, <1>3, Lookup DEF Entry, CasesOf
    <2> HIDE DEF e
    <2>2. \A f \in ToSet(pad) : f.key = Cases => f = e
      BY <1>1, <2>1 DEF InOrder
    <2>3. e \in Entries
      BY <1>1, <2>1, Members
    <2>4. e.value \in SUBSET Decisions
      BY <1>2, <2>1, <2>3, EntryKinds
    <2> QED  BY <2>1, <2>2, <2>4
  <1>4. CASE Cases \notin Keys(pad)
    <2>1. \A f \in ToSet(pad) : f.key # Cases
      BY <1>1, <1>4, KeysAre
    <2> QED  BY <1>4, <2>1 DEF CasesOf
  <1> QED  BY <1>3, <1>4

(***************************************************************************)
(* What tools do to the pad.                                               *)
(***************************************************************************)
\* Turn t's tool keeps what the model was shown, and what it adds is t's.
Gathers(pad, after, t) ==
    /\ after \in Pad
    /\ CountsHold(after)
    /\ \A e \in ToSet(pad) : e.key[1] \in {"c", "d", "r"} => e \in ToSet(after)
    /\ CasesOf(pad) \subseteq CasesOf(after)
    /\ \A e \in ToSet(after) \ ToSet(pad) : e.key[1] \in {"r", "sql"} => e.value.asked = t

LEMMA ReplaceKeepsOrder ==
    ASSUME NEW pad \in Pad, NEW key, NEW value, Entry(key, value) \in Entries,
           key[1] \notin {"c", "d"}
    PROVE  /\ Remember(pad, key, value) \in Pad
           /\ ToSet(Remember(pad, key, value)) =
                  {e \in ToSet(pad) : e.key # key} \union {Entry(key, value)}
           /\ Entry(key, value).key = key /\ Entry(key, value).value = value
  <1>1. pad \in Seq(Entries) /\ InOrder(pad)
    BY DEF Pad
  <1> DEFINE after == Remember(pad, key, value)
             new == Entry(key, value)
  <1>2. new.key = key /\ new.value = value
    BY DEF Entry
  <1>3. after \in Seq(Entries) /\ ToSet(after) = {e \in ToSet(pad) : e.key # key} \union {new}
    BY <1>1, RememberIs
  <1> HIDE DEF after, new
  <1>4. InOrder(after)
    BY <1>1, <1>2, <1>3 DEF InOrder
  <1> QED  BY <1>2, <1>3, <1>4 DEF Pad, after, new

LEMMA ExtendingGathers ==
    ASSUME NEW pad \in Pad, CountsHold(pad), NEW after, Extends(pad, after), NEW t
    PROVE  Gathers(pad, after, t)
  <1>1. after \in Pad /\ ToSet(pad) \subseteq ToSet(after)
    BY DEF Extends
  <1>2. Sql[1] = "sql"
    BY DEF Sql
  <1>3. CountsHold(after)
    BY <1>1, <1>2 DEF Extends, CountsHold
  <1>4. CasesOf(pad) \subseteq CasesOf(after)
    BY <1>1, CasesAre
  <1> QED  BY <1>1, <1>3, <1>4 DEF Extends, Gathers

LEMMA LesserOfTwo ==
    ASSUME NEW a \in Nat, NEW b \in Nat
    PROVE  Min({a, b}) \in Nat /\ Min({a, b}) <= a /\ Min({a, b}) <= b
  <1>1. CASE a <= b
    <2>1. a \in {a, b} /\ \A y \in {a, b} : a <= y
      BY <1>1
    <2>2. Min({a, b}) \in {a, b} /\ \A y \in {a, b} : Min({a, b}) <= y
      BY <2>1 DEF Min
    <2> QED  BY <2>2
  <1>2. CASE ~(a <= b)
    <2>1. b \in {a, b} /\ \A y \in {a, b} : b <= y
      BY <1>2
    <2>2. Min({a, b}) \in {a, b} /\ \A y \in {a, b} : Min({a, b}) <= y
      BY <2>1 DEF Min
    <2> QED  BY <2>2
  <1> QED  BY <1>1, <1>2

\* A reading carries passages of the decision it read.
LEMMA PassagesAreItsOwn ==
    ASSUME NEW d \in Decisions, NEW indices \in IndexLists
    PROVE  /\ PassagesRead(d, indices) \in Seq(Chunks)
           /\ ToSet(PassagesRead(d, indices)) \subseteq ToSet(ChunksOf[d])
  <1> DEFINE there == Those(indices, DOMAIN ChunksOf[d])
             places == [k \in DOMAIN there |-> k]
             once == Those(places, {k \in DOMAIN there : \A j \in 1 .. k - 1 : there[j] # there[k]})
             most == Min({Len(once), MaxPerReading})
             read == [n \in 1 .. most |-> ChunksOf[d][there[once[n]]]]
  <1>1. PassagesRead(d, indices) = read
    BY DEF PassagesRead
  <1>2. ChunksOf[d] \in Seq(Chunks) /\ indices \in Seq(Nat)
    BY CorpusAssumption, CallsAssumption
  <1>3. there \in Seq(Nat) /\ ToSet(there) \subseteq DOMAIN ChunksOf[d]
    BY <1>2, ThoseAre
  <1> HIDE DEF there
  <1>4. /\ Len(there) \in Nat /\ DOMAIN there = 1 .. Len(there)
        /\ \A k \in 1 .. Len(there) : there[k] \in DOMAIN ChunksOf[d]
    <2>1. Len(there) \in Nat /\ DOMAIN there = 1 .. Len(there)
      BY <1>3, LenProperties
    <2>2. \A k \in 1 .. Len(there) : there[k] \in ToSet(there)
      BY <1>3, Members
    <2> QED  BY <1>3, <2>1, <2>2
  <1>5. places \in Seq(1 .. Len(there))
    BY <1>4
  <1>6. once \in Seq(1 .. Len(there))
    <2> HIDE DEF places
    <2> QED  BY <1>5, ThoseAre
  <1> HIDE DEF once
  <1>7. /\ Len(once) \in Nat
        /\ \A n \in 1 .. Len(once) : once[n] \in 1 .. Len(there)
    BY <1>6, LenProperties, ElementOfSeq
  <1>8. most \in Nat /\ most <= Len(once)
    BY <1>7, LesserOfTwo, BoundsAssumption
  <1> HIDE DEF most
  <1>9. \A n \in 1 .. most : read[n] \in ToSet(ChunksOf[d])
    <2>1. \A n \in 1 .. most : n \in 1 .. Len(once)
      BY <1>7, <1>8
    <2>2. \A n \in 1 .. most : there[once[n]] \in DOMAIN ChunksOf[d]
      BY <1>4, <1>7, <2>1
    <2> QED  BY <2>2 DEF ToSet
  <1>10. ToSet(ChunksOf[d]) \subseteq Chunks
    BY DEF Chunks
  <1>11. read \in [1 .. most -> Chunks]
    BY <1>9, <1>10
  <1>12. read \in Seq(Chunks) /\ DOMAIN read = 1 .. most
    BY <1>8, <1>11
  <1> HIDE DEF read
  <1>13. ToSet(read) \subseteq ToSet(ChunksOf[d])
    BY <1>9, <1>12 DEF ToSet
  <1> QED  BY <1>1, <1>12, <1>13

LEMMA ReadingGathers ==
    ASSUME NEW pad \in Pad, CountsHold(pad), NEW t \in Turns, NEW d \in Decisions,
           NEW passages \in Seq(Chunks)
    PROVE  Gathers(pad, AddReading(pad, t, d, passages), t)
  <1> DEFINE filled == RememberChunks(pad, passages)
             HandleOf(c) == CHOOSE h \in HandlesFor(filled, "c", c) : TRUE
             handles == [k \in DOMAIN passages |-> HandleOf(passages[k])]
             reading == [of |-> d, asked |-> t, handles |-> handles]
             after == Remember(filled, NextHandle(filled, "r"), reading)
  <1>1. AddReading(pad, t, d, passages) = after
    BY DEF AddReading
  <1>2. Extends(pad, filled) /\ \A c \in ToSet(passages) : Has(filled, "c", c)
    BY ChunksAreRemembered
  <1> HIDE DEF filled
  <1>3. filled \in Pad /\ filled \in Seq(Entries)
    BY <1>2 DEF Extends, Pad
  <1>4. Len(passages) \in Nat /\ DOMAIN passages = 1 .. Len(passages)
    BY LenProperties
  <1>5. ASSUME NEW k \in 1 .. Len(passages)
        PROVE  HandleOf(passages[k]) \in {"c"} \X Nat
    <2>1. passages[k] \in ToSet(passages)
      BY Members
    <2>2. HandlesFor(filled, "c", passages[k]) # {}
      BY <1>2, <1>3, <2>1, HasAHandle
    <2> DEFINE h == HandleOf(passages[k])
    <2>3. h \in HandlesFor(filled, "c", passages[k])
      BY <2>2
    <2> HIDE DEF h
    <2>4. h \in Keys(filled) /\ h[1] = "c"
      BY <2>3 DEF HandlesFor, HandlesOf
    <2>5. PICK e \in ToSet(filled) : e.key = h
      BY <1>3, <2>4, KeysAre
    <2>6. e \in Entries
      BY <1>3, Members
    <2>7. h \in {"c"} \X Nat
      BY <2>4, <2>5, <2>6, EntryKinds
    <2> QED  BY <2>7 DEF h
  <1> HIDE DEF HandleOf
  <1>6. handles \in [1 .. Len(passages) -> {"c"} \X Nat]
    BY <1>4, <1>5
  <1>7. handles \in Seq({"c"} \X Nat)
    BY <1>4, <1>6
  <1> HIDE DEF handles
  <1>8. reading \in ReadingRecords /\ reading.asked = t
    BY <1>7 DEF ReadingRecords
  <1> HIDE DEF reading
  <1>9. \A k \in {"r"} \X Nat : Entry(k, reading) \in Entries
    BY <1>8 DEF Entry, Entries
  <1> DEFINE new == Entry(NextHandle(filled, "r"), reading)
  <1>10. /\ after \in Pad /\ ToSet(after) = ToSet(filled) \union {new}
         /\ new.key[1] = "r" /\ new.value = reading
    BY <1>3, <1>9, MintKeepsOrder
  <1> HIDE DEF after, new
  <1>11. Gathers(pad, filled, t)
    BY <1>2, ExtendingGathers
  <1>12. CountsHold(after)
    <2>1. Sql[1] # "r"
      BY DEF Sql
    <2> QED  BY <1>10, <1>11, <2>1 DEF CountsHold, Gathers
  <1>13. CasesOf(filled) \subseteq CasesOf(after)
    BY <1>3, <1>10, CasesAre
  <1> QED  BY <1>1, <1>8, <1>10, <1>11, <1>12, <1>13 DEF Gathers

\* The result of a query replaces the one before it.
LEMMA CountingGathers ==
    ASSUME NEW pad \in Pad, CountsHold(pad), NEW t \in Turns, NEW result \in Results,
           ShowsItsQuery(result)
    PROVE  Gathers(pad, Remember(pad, Sql, [asked |-> t, result |-> result]), t)
  <1> DEFINE value == [asked |-> t, result |-> result]
             after == Remember(pad, Sql, value)
             new == Entry(Sql, value)
  <1>1. value \in [asked : Turns, result : Results] /\ value.asked = t /\ value.result = result
    OBVIOUS
  <1> HIDE DEF value
  <1>2. Entry(Sql, value) \in Entries
    BY <1>1 DEF Entry, Entries
  <1>3. Sql[1] = "sql" /\ Cases[1] = "cases"
    BY DEF Sql, Cases
  <1> HIDE DEF Sql, Cases
  <1>4. /\ after \in Pad
        /\ ToSet(after) = {e \in ToSet(pad) : e.key # Sql} \union {new}
        /\ new.key = Sql /\ new.value = value
    BY <1>2, <1>3, ReplaceKeepsOrder
  <1> HIDE DEF after, new
  <1>5. CountsHold(after)
    BY <1>1, <1>4 DEF CountsHold
  <1>6. CasesOf(pad) \subseteq CasesOf(after)
    BY <1>3, <1>4, CasesAre
  <1>7. Gathers(pad, after, t)
    BY <1>1, <1>3, <1>4, <1>5, <1>6 DEF Gathers
  <1> QED  BY <1>7 DEF after, value

\* An answer cites what is on the pad, and its cases join those there are.
LEMMA AnsweringGathers ==
    ASSUME NEW pad \in Pad, CountsHold(pad), NEW t, NEW handles \in HandleLists
    PROVE  LET known == Those(handles, ChunkHandles(pad))
               cited == SubSeq(known, 1, Min({Len(known), MaxCited}))
               passages == {Get(pad, h) : h \in ToSet(cited)}
               cases == {OwnerOf(c) : c \in {c \in passages : CaseOf(pad, c)}}
               after == RecordCases(Remember(pad, Selection, cited), cases)
           IN  Gathers(pad, after, t) /\ CitedIsKnown(after)
  <1> DEFINE known == Those(handles, ChunkHandles(pad))
             most == Min({Len(known), MaxCited})
             cited == SubSeq(known, 1, most)
             passages == {Get(pad, h) : h \in ToSet(cited)}
             cases == {OwnerOf(c) : c \in {c \in passages : CaseOf(pad, c)}}
             chosen == Remember(pad, Selection, cited)
             all == cases \union CasesOf(chosen)
             after == Remember(chosen, Cases, all)
  <1>1. pad \in Seq(Entries) /\ \A e \in ToSet(pad) : e \in Entries
    BY Members DEF Pad
  <1>2. \A h \in ChunkHandles(pad) :
            h \in {"c"} \X Nat /\ \E e \in ToSet(pad) : e.key = h /\ e.key[1] = "c"
    BY <1>1, KeysAre, EntryKinds DEF ChunkHandles, HandlesOf
  <1>3. known \in Seq({"c", "d", "r"} \X Nat) /\ ToSet(known) \subseteq ChunkHandles(pad)
    BY CallsAssumption, ThoseAre
  <1> HIDE DEF known
  <1>4. Len(known) \in Nat /\ \A i \in 1 .. Len(known) : known[i] \in ToSet(known)
    BY <1>3, LenProperties, Members
  <1>5. most \in Nat /\ most <= Len(known)
    BY <1>4, LesserOfTwo, BoundsAssumption
  <1> HIDE DEF most
  <1>6. \A i \in 1 .. most : known[i] \in ChunkHandles(pad)
    BY <1>3, <1>4, <1>5
  <1>7. cited \in Seq(ChunkHandles(pad))
    BY <1>5, <1>6, SubSeqProperties
  <1> HIDE DEF cited
  <1>8. ToSet(cited) \subseteq ChunkHandles(pad)
    BY <1>7, Members
  <1>9. cited \in Seq({"c"} \X Nat)
    BY <1>2, <1>7, SeqMonotonic
  <1>10. cases \subseteq Decisions
    <2>1. ASSUME NEW c, CaseOf(pad, c)
          PROVE  OwnerOf(c) \in Decisions
      <3>1. Has(pad, "d", OwnerOf(c))
        BY <2>1, HasAHandle DEF CaseOf
      <3> QED  BY <1>1, <3>1, EntryKinds DEF Has
    <2> QED  BY <2>1
  <1> HIDE DEF cases
  <1>11. /\ Sql[1] = "sql" /\ Selection[1] = "selection" /\ Cases[1] = "cases"
         /\ Sql # Selection /\ Sql # Cases /\ Selection # Cases
    BY DEF Sql, Selection, Cases
  <1>12. Entry(Selection, cited) \in Entries
    BY <1>9 DEF Entry, Entries
  <1> HIDE DEF Sql, Selection, Cases
  <1>13. /\ chosen \in Pad
         /\ ToSet(chosen) = {e \in ToSet(pad) : e.key # Selection} \union {Entry(Selection, cited)}
         /\ Entry(Selection, cited).key = Selection /\ Entry(Selection, cited).value = cited
    BY <1>11, <1>12, ReplaceKeepsOrder
  <1> HIDE DEF chosen
  <1>14. CasesOf(pad) \subseteq CasesOf(chosen) /\ CasesOf(chosen) \subseteq Decisions
    BY <1>11, <1>13, CasesAre
  <1>15. Entry(Cases, all) \in Entries
    BY <1>10, <1>14 DEF Entry, Entries
  <1> HIDE DEF all
  <1>16. /\ after \in Pad
         /\ ToSet(after) = {e \in ToSet(chosen) : e.key # Cases} \union {Entry(Cases, all)}
         /\ Entry(Cases, all).key = Cases /\ Entry(Cases, all).value = all
    BY <1>11, <1>13, <1>15, ReplaceKeepsOrder
  <1>17. RecordCases(chosen, cases) = after
    BY DEF RecordCases, CasesOf, all
  <1> HIDE DEF after
  <1>18. CountsHold(after)
    BY <1>11, <1>13, <1>16 DEF CountsHold
  <1>19. CasesOf(pad) \subseteq CasesOf(after)
    BY <1>14, <1>16, CasesAre DEF all
  <1>20. \A e \in ToSet(pad) : e.key[1] \in {"c", "d", "r"} => e \in ToSet(after)
    BY <1>11, <1>13, <1>16
  <1>21. \A e \in ToSet(after) \ ToSet(pad) : e.key[1] \notin {"r", "sql"}
    BY <1>11, <1>13, <1>16
  <1>22. Gathers(pad, after, t)
    BY <1>16, <1>18, <1>19, <1>20, <1>21 DEF Gathers
  <1>23. CitedIsKnown(after)
    <2>1. ASSUME NEW e \in ToSet(after), e.key = Selection
          PROVE  e.value = cited
      BY <1>11, <1>13, <1>16, <2>1
    <2>2. ASSUME NEW h \in ToSet(cited)
          PROVE  \E f \in ToSet(after) : f.key = h
      <3>1. PICK f \in ToSet(pad) : f.key = h /\ f.key[1] = "c"
        BY <1>2, <1>8, <2>2
      <3> QED  BY <1>20, <3>1
    <2> QED  BY <2>1, <2>2 DEF CitedIsKnown
  <1> QED  BY <1>17, <1>22, <1>23 DEF chosen, cases, cited, most, known

\* What is carried is of the pad, and the list of cases is carried.
LEMMA CarriedIs ==
    ASSUME NEW pad \in Pad
    PROVE  /\ Carried(pad) \in Pad
           /\ ToSet(Carried(pad)) \subseteq ToSet(pad)
           /\ CasesOf(Carried(pad)) = CasesOf(pad)
  <1> DEFINE all == [i \in DOMAIN pad |-> i]
             places == Those(all, Kept(pad))
             carried == [n \in DOMAIN places |-> pad[places[n]]]
  <1>1. Carried(pad) = carried
    BY DEF Carried
  <1>2. pad \in Seq(Entries) /\ InOrder(pad)
    BY DEF Pad
  <1>3. Len(pad) \in Nat /\ DOMAIN pad = 1 .. Len(pad) /\ \A i \in 1 .. Len(pad) : pad[i] \in Entries
    BY <1>2, LenProperties, ElementOfSeq
  <1>4. all \in Seq(1 .. Len(pad)) /\ DOMAIN all = 1 .. Len(pad) /\ \A i \in 1 .. Len(pad) : all[i] = i
    BY <1>3
  <1>5. ToSet(all) = 1 .. Len(pad)
    BY <1>4 DEF ToSet
  <1> HIDE DEF all
  <1>6. places \in Seq(1 .. Len(pad)) /\ ToSet(places) = (1 .. Len(pad)) \intersect Kept(pad)
    BY <1>4, <1>5, ThoseAre
  <1> HIDE DEF places
  <1>7. /\ Len(places) \in Nat /\ DOMAIN places = 1 .. Len(places)
        /\ \A n \in 1 .. Len(places) : places[n] \in 1 .. Len(pad)
    BY <1>6, LenProperties, ElementOfSeq
  <1>8. carried \in [1 .. Len(places) -> Entries]
    BY <1>3, <1>7
  <1>9. carried \in Seq(Entries) /\ DOMAIN carried = 1 .. Len(places)
    BY <1>7, <1>8
  <1>10. \A n \in 1 .. Len(places) : carried[n] = pad[places[n]]
    BY <1>7
  <1> HIDE DEF carried
  <1>11. \A x : x \in ToSet(pad) <=> \E i \in 1 .. Len(pad) : pad[i] = x
    BY <1>2, Members
  <1>12. ToSet(carried) \subseteq ToSet(pad)
    BY <1>7, <1>9, <1>10, <1>11 DEF ToSet
  <1>13. carried \in Pad
    BY <1>2, <1>9, <1>12 DEF Pad, InOrder
  <1>14. \A e \in ToSet(pad) : e.key = Cases => e \in ToSet(carried)
    <2> SUFFICES ASSUME NEW i \in 1 .. Len(pad), pad[i].key = Cases
                 PROVE  pad[i] \in ToSet(carried)
      BY <1>11
    <2>1. i \in Kept(pad)
      BY <1>3 DEF Kept
    <2>2. PICK n \in 1 .. Len(places) : places[n] = i
      BY <1>6, <2>1, Members
    <2> QED  BY <1>9, <1>10, <2>2 DEF ToSet
  <1>15. CasesOf(carried) = CasesOf(pad)
    BY <1>12, <1>13, <1>14, CasesAre
  <1> QED  BY <1>1, <1>12, <1>13, <1>15

(***************************************************************************)
(* The SQL agent's loop.                                                   *)
(***************************************************************************)
LEMMA NewRunHolds == NewRun \in Runs /\ RowsAreOfTheLast(NewRun)
  <1>1. <<>> \in Seq(Attempts)
    BY EmptySeq
  <1>2. NewRun \in Runs
    BY <1>1 DEF NewRun, Runs
  <1>3. {i \in DOMAIN NewRun.attempts : NewRun.attempts[i].ok} = {} /\ NewRun.rows = NoStatement
    BY DEF NewRun
  <1> QED  BY <1>2, <1>3 DEF RowsAreOfTheLast

LEMMA IterationHolds ==
    ASSUME NEW run \in Runs, RowsAreOfTheLast(run), NEW after \in Iterations(run)
    PROVE  after \in Runs /\ RowsAreOfTheLast(after)
  <1>1. ASSUME NEW r \in Runs, RowsAreOfTheLast(r)
        PROVE  Iterated(r) \in Runs /\ RowsAreOfTheLast(Iterated(r))
    <2> DEFINE i == Iterated(r)
    <2>1. i \in Runs
      BY DEF Iterated, Runs
    <2>2. i.attempts = r.attempts /\ i.rows = r.rows
      BY DEF Iterated, Runs
    <2> HIDE DEF i
    <2>3. RowsAreOfTheLast(i)
      BY <1>1, <2>2 DEF RowsAreOfTheLast
    <2> QED  BY <2>1, <2>3 DEF i
  <1>2. ASSUME NEW tc \in ExposedColumns
        PROVE  /\ ListColumnValues(run, tc) \in Runs
               /\ RowsAreOfTheLast(ListColumnValues(run, tc))
    <2> DEFINE l == ListColumnValues(run, tc)
    <2>1. l \in Runs
      BY DEF ListColumnValues, Runs
    <2>2. l.attempts = run.attempts /\ l.rows = run.rows
      BY DEF ListColumnValues, Runs
    <2> HIDE DEF l
    <2>3. RowsAreOfTheLast(l)
      BY <2>2 DEF RowsAreOfTheLast
    <2> QED  BY <2>1, <2>3 DEF l
  <1>3. ASSUME NEW s \in Statements, NEW executes \in BOOLEAN
        PROVE  RunSql(run, s, executes) \in Runs /\ RowsAreOfTheLast(RunSql(run, s, executes))
    <2> DEFINE r == RunSql(run, s, executes)
               ok == ~Refuses(run, s) /\ executes
               attempt == [sql |-> s, ok |-> ok]
    <2>1. ok \in BOOLEAN
      OBVIOUS
    <2>2. r = [run EXCEPT !.attempts = Append(@, attempt), !.rows = IF ok THEN s ELSE @]
      BY DEF RunSql
    <2> HIDE DEF ok, r
    <2>3. attempt \in Attempts /\ attempt.ok = ok /\ attempt.sql = s
      BY <2>1 DEF Attempts
    <2> HIDE DEF attempt
    <2>4. run.attempts \in Seq(Attempts) /\ run.rows \in Statements \union {NoStatement}
      BY DEF Runs
    <2> DEFINE n == Len(run.attempts)
    <2>5. /\ n \in Nat /\ DOMAIN run.attempts = 1 .. n
          /\ Append(run.attempts, attempt) \in Seq(Attempts)
          /\ DOMAIN Append(run.attempts, attempt) = 1 .. n + 1
          /\ \A i \in 1 .. n : Append(run.attempts, attempt)[i] = run.attempts[i]
          /\ Append(run.attempts, attempt)[n + 1] = attempt
      BY <2>3, <2>4, AppendProperties, LenProperties
    <2>6. r \in Runs
      BY <2>2, <2>4, <2>5 DEF Runs
    <2>7. /\ r.attempts = Append(run.attempts, attempt)
          /\ r.rows = IF ok THEN s ELSE run.rows
      BY <2>2 DEF Runs
    <2> HIDE DEF n
    <2> DEFINE before == {i \in 1 .. n : run.attempts[i].ok}
               now == {i \in 1 .. n + 1 : r.attempts[i].ok}
    <2>8. now = IF ok THEN before \union {n + 1} ELSE before
      BY <2>3, <2>5, <2>7
    <2>9. /\ before = {} => run.rows = NoStatement
          /\ before # {} => \E i \in before :
                (\A j \in before : i >= j) /\ run.attempts[i].sql = run.rows
      BY <2>5 DEF RowsAreOfTheLast
    <2>10. before \subseteq 1 .. n
      OBVIOUS
    <2> HIDE DEF before, now
    <2>11. CASE ok
      <3>1. n + 1 \in now /\ \A j \in now : n + 1 >= j
        BY <2>5, <2>8, <2>10, <2>11
      <3>2. r.attempts[n + 1].sql = r.rows
        BY <2>3, <2>5, <2>7, <2>11
      <3>3. RowsAreOfTheLast(r)
        BY <2>5, <2>7, <3>1, <3>2 DEF RowsAreOfTheLast, now
      <3> QED  BY <2>6, <3>3 DEF r
    <2>12. CASE ~ok
      <3>1. now = before /\ r.rows = run.rows
        BY <2>7, <2>8, <2>12
      <3>2. \A i \in before : r.attempts[i].sql = run.attempts[i].sql
        BY <2>5, <2>7, <2>10
      <3>3. /\ now = {} => r.rows = NoStatement
            /\ now # {} => \E i \in now : (\A j \in now : i >= j) /\ r.attempts[i].sql = r.rows
        BY <2>9, <3>1, <3>2
      <3>4. RowsAreOfTheLast(r)
        BY <2>5, <2>7, <3>3 DEF RowsAreOfTheLast, now
      <3> QED  BY <2>6, <3>4 DEF r
    <2> QED  BY <2>11, <2>12
  <1>4. \/ after = Iterated(run)
        \/ \E tc \in ExposedColumns : after = Iterated(ListColumnValues(run, tc))
        \/ \E s \in Statements, executes \in BOOLEAN : after = Iterated(RunSql(run, s, executes))
    BY DEF Iterations
  <1> QED  BY <1>1, <1>2, <1>3, <1>4

\* The answer is shown with the statement its rows came from.
LEMMA ResultHolds ==
    ASSUME NEW run \in Runs, RowsAreOfTheLast(run)
    PROVE  Result(run) \in Results /\ ShowsItsQuery(Result(run))
  <1> DEFINE ok == {i \in DOMAIN run.attempts : run.attempts[i].ok}
             answered == ok # {} /\ run.rows # NoStatement
             sql == IF answered THEN run.attempts[Max(ok)].sql ELSE NoStatement
             rows == IF answered THEN run.rows ELSE NoStatement
  <1>1. Result(run) = [answered |-> answered, sql |-> sql, rows |-> rows]
    BY DEF Result
  <1>2. run.attempts \in Seq(Attempts) /\ run.rows \in Statements \union {NoStatement}
    BY DEF Runs
  <1>3. ok \subseteq Nat
    BY <1>2, LenProperties
  <1>4. ok # {} => \E i \in ok : (\A j \in ok : i >= j) /\ run.attempts[i].sql = run.rows
    BY DEF RowsAreOfTheLast
  <1>5. answered \in BOOLEAN
    OBVIOUS
  <1> HIDE DEF ok
  <1>6. CASE answered
    <2>1. PICK i \in ok : (\A j \in ok : i >= j) /\ run.attempts[i].sql = run.rows
      BY <1>4, <1>6
    <2>2. Max(ok) \in ok /\ \A j \in ok : Max(ok) >= j
      BY <2>1 DEF Max
    <2>3. Max(ok) = i
      BY <1>3, <2>1, <2>2
    <2>4. sql = run.rows /\ rows = run.rows
      BY <1>6, <2>1, <2>3
    <2> QED  BY <1>1, <1>2, <1>6, <2>4 DEF Results, ShowsItsQuery
  <1>7. CASE ~answered
    BY <1>1, <1>5, <1>7 DEF Results, ShowsItsQuery
  <1> QED  BY <1>6, <1>7

(***************************************************************************)
(* Steps of a turn.                                                        *)
(***************************************************************************)
Working == {"looping", "counting", "writing"}

\* Tool calls leave turn t as r.
Worked(t, r) ==
    /\ r \in TurnRecords
    /\ r.at \in Working
    /\ Gathers(turn[t].pad, r.pad, t)
    /\ OwnersKnown(r.pad, r.found \ turn[t].found)
    /\ r.consulted = r.read
    /\ IsFiniteSet(r.read) /\ Cardinality(r.read) <= MaxDocumentsRead
    /\ RowsAreOfTheLast(r.run)
    /\ r.answered => r.at = "writing" /\ CitedIsKnown(r.pad)

ToolStep(t) ==
    /\ turn[t].at \in {"looping", "counting"}
    /\ \E r : Worked(t, r) /\ turn' = [turn EXCEPT ![t] = r]
    /\ UNCHANGED <<row, history, context, overlapped>>

LEMMA PadGathersItself ==
    ASSUME NEW pad \in Pad, CountsHold(pad), NEW t
    PROVE  Gathers(pad, pad, t)
  BY ExtendingGathers DEF Extends

LEMMA TurnFacts ==
    ASSUME Inductive, NEW t \in Turns
    PROVE  /\ turn[t] \in TurnRecords /\ TurnHolds(turn[t])
           /\ turn[t].pad \in Pad /\ CountsHold(turn[t].pad)
           /\ turn[t].run \in Runs
           /\ turn[t].at # "writing" => ~turn[t].answered
           /\ turn[t].at \in Working => Worked(t, turn[t])
  <1>1. turn[t] \in TurnRecords /\ TurnHolds(turn[t])
    BY DEF Inductive, TypeOK
  <1>2. turn[t].pad \in Seq(Entries) /\ turn[t].run \in Runs
    BY <1>1 DEF TurnRecords
  <1>3. turn[t].pad \in Pad /\ CountsHold(turn[t].pad)
    BY <1>1, <1>2 DEF TurnHolds, WellKept, Pad
  <1>4. Gathers(turn[t].pad, turn[t].pad, t)
    BY <1>3, PadGathersItself
  <1>5. OwnersKnown(turn[t].pad, turn[t].found \ turn[t].found)
    BY DEF OwnersKnown
  <1> QED  BY <1>1, <1>2, <1>3, <1>4, <1>5 DEF TurnHolds, Worked

\* A call is counted, and is what the tool made of the turn.
LEMMA CallIsCounted ==
    ASSUME Inductive, NEW t \in Turns, turn[t].at \in {"looping", "counting"},
           NEW next, Worked(t, next), Called(t, next)
    PROVE  ToolStep(t)
  <1> DEFINE r == [next EXCEPT !.iterations = @ + 1]
  <1>1. next \in TurnRecords
    BY DEF Worked
  <1>2. next.iterations + 1 \in Nat
    BY <1>1 DEF TurnRecords
  <1>3. r \in TurnRecords
    BY <1>1, <1>2 DEF TurnRecords
  <1>4. /\ r.at = next.at /\ r.pad = next.pad /\ r.found = next.found
        /\ r.consulted = next.consulted /\ r.read = next.read
        /\ r.run = next.run /\ r.answered = next.answered
    BY <1>1 DEF TurnRecords
  <1>5. turn' = [turn EXCEPT ![t] = r] /\ UNCHANGED <<row, history, context, overlapped>>
    BY DEF Called, Set
  <1> HIDE DEF r
  <1>6. Worked(t, r)
    BY <1>3, <1>4 DEF Worked
  <1> QED  BY <1>5, <1>6 DEF ToolStep

LEMMA ListVocabularyWorks ==
    ASSUME Inductive, NEW t \in Turns, ListVocabulary(t)
    PROVE  ToolStep(t)
  <1> DEFINE next == [turn[t] EXCEPT !.grounded = TRUE]
  <1>1. turn[t].at = "looping" /\ Called(t, next)
    BY DEF ListVocabulary, MayCall
  <1>2. turn[t] \in TurnRecords /\ Worked(t, turn[t])
    BY <1>1, TurnFacts DEF Working
  <1>3. /\ next \in TurnRecords
        /\ next.at = turn[t].at /\ next.pad = turn[t].pad /\ next.found = turn[t].found
        /\ next.consulted = turn[t].consulted /\ next.read = turn[t].read
        /\ next.run = turn[t].run /\ next.answered = turn[t].answered
    BY <1>2 DEF TurnRecords
  <1> HIDE DEF next
  <1>4. Worked(t, next)
    BY <1>2, <1>3 DEF Worked
  <1> QED  BY <1>1, <1>4, CallIsCounted

LEMMA NothingKeptWorks ==
    ASSUME Inductive, NEW t \in Turns, Refused(t) \/ InspectDecision(t)
    PROVE  ToolStep(t)
  <1>1. turn[t].at = "looping" /\ Called(t, turn[t])
    BY DEF Refused, InspectDecision, MayCall
  <1>2. Worked(t, turn[t])
    BY <1>1, TurnFacts DEF Working
  <1> QED  BY <1>1, <1>2, CallIsCounted

\* A search finds passages with their decisions.
LEMMA SearchWorks ==
    ASSUME Inductive, NEW t \in Turns, SearchDecisions(t)
    PROVE  ToolStep(t)
  <1>1. PICK outcome \in Outcomes :
            Called(t, [turn[t] EXCEPT !.pad = RememberOutcome(@, outcome),
                                      !.found = @ \union ChunksIn(outcome)])
    BY DEF SearchDecisions
  <1> DEFINE pad == RememberOutcome(turn[t].pad, outcome)
             new == ChunksIn(outcome)
             next == [turn[t] EXCEPT !.pad = pad, !.found = @ \union new]
  <1>2. turn[t].at = "looping" /\ Called(t, next)
    BY <1>1 DEF SearchDecisions, MayCall
  <1>3. turn[t] \in TurnRecords /\ Worked(t, turn[t]) /\ turn[t].pad \in Pad /\ CountsHold(turn[t].pad)
    BY <1>2, TurnFacts DEF Working
  <1>4. outcome \in Seq(Hits)
    BY CorpusAssumption DEF Hits
  <1>5. /\ Extends(turn[t].pad, pad)
        /\ \A hit \in ToSet(outcome) : Has(pad, "d", hit.doc)
    BY <1>3, <1>4, OutcomeIsRemembered
  <1> HIDE DEF pad
  <1>6. DOMAIN outcome = 1 .. Len(outcome)
    BY <1>4, LenProperties
  <1>7. ASSUME NEW c \in new
        PROVE  c \in Chunks /\ Has(pad, "d", OwnerOf(c))
    <2>1. PICK i \in DOMAIN outcome : c \in ToSet(outcome[i].chunks)
      BY DEF ChunksIn
    <2>2. outcome[i] \in ToSet(outcome) /\ outcome[i].doc \in Decisions
      <3>1. outcome[i] \in ToSet(outcome)
        BY DEF ToSet
      <3>2. outcome[i] \in Hits
        BY <1>4, <1>6, ElementOfSeq
      <3> QED  BY <3>1, <3>2 DEF Hits
    <2>3. c \in ToSet(ChunksOf[outcome[i].doc])
      BY <2>1, CorpusAssumption
    <2>4. OwnerOf(c) = outcome[i].doc /\ c \in Chunks
      BY <2>2, <2>3, OwnerIs
    <2> QED  BY <1>5, <2>2, <2>4
  <1> HIDE DEF new
  <1>8. pad \in Seq(Entries) /\ turn[t].found \in SUBSET Chunks
    BY <1>3, <1>5 DEF Extends, Pad, TurnRecords
  <1>9. /\ next \in TurnRecords
        /\ next.at = turn[t].at /\ next.pad = pad /\ next.found = turn[t].found \union new
        /\ next.consulted = turn[t].consulted /\ next.read = turn[t].read
        /\ next.run = turn[t].run /\ next.answered = turn[t].answered
    BY <1>3, <1>7, <1>8 DEF TurnRecords
  <1> HIDE DEF next
  <1>10. Gathers(turn[t].pad, pad, t)
    BY <1>3, <1>5, ExtendingGathers
  <1>11. OwnersKnown(pad, next.found \ turn[t].found)
    BY <1>7, <1>9 DEF OwnersKnown, Has
  <1>12. ~turn[t].answered
    BY <1>2, TurnFacts
  <1>13. Worked(t, next)
    BY <1>3, <1>9, <1>10, <1>11, <1>12 DEF Worked
  <1> QED  BY <1>2, <1>13, CallIsCounted

\* A handle of a decision names one.
LEMMA HandleIsOfADecision ==
    ASSUME Inductive, NEW t \in Turns, NEW k \in HandlesOf(turn[t].pad, "d")
    PROVE  /\ Get(turn[t].pad, k) \in Decisions
           /\ Has(turn[t].pad, "d", Get(turn[t].pad, k))
  <1> DEFINE d == Get(turn[t].pad, k)
  <1>1. turn[t].pad \in Seq(Entries)
    BY TurnFacts DEF Pad
  <1>2. k \in Keys(turn[t].pad) /\ k[1] = "d"
    BY DEF HandlesOf
  <1>3. Entry(k, d) \in ToSet(turn[t].pad)
    BY <1>1, <1>2, Lookup
  <1> HIDE DEF d
  <1>4. Entry(k, d).key = k /\ Entry(k, d).value = d
    BY DEF Entry
  <1>5. Entry(k, d) \in Entries
    BY <1>1, <1>3, Members
  <1>6. d \in Decisions /\ Has(turn[t].pad, "d", d)
    BY <1>2, <1>3, <1>4, <1>5, EntryKinds DEF Has
  <1> QED  BY <1>6 DEF d

\* A reader that raises leaves the turn as it was.
LEMMA ReaderRaisesWorks ==
    ASSUME Inductive, NEW t \in Turns, ReaderRaises(t)
    PROVE  ToolStep(t)
  <1>1. turn[t].at = "looping" /\ Called(t, turn[t])
    BY DEF ReaderRaises, MayCall
  <1>2. turn[t] \in TurnRecords /\ Worked(t, turn[t])
    BY <1>1, TurnFacts DEF Working
  <1> QED  BY <1>1, <1>2, CallIsCounted

\* A reading that was answered counts, whatever it found.
LEMMA ReadingWorks ==
    ASSUME Inductive, NEW t \in Turns, ReadDecision(t)
    PROVE  ToolStep(t)
  <1>1. PICK k \in HandlesOf(turn[t].pad, "d"), indices \in IndexLists :
            LET d == Get(turn[t].pad, k)
                passages == PassagesRead(d, indices)
            IN  /\ WithinBudget(t, d)
                /\ Called(t, [turn[t] EXCEPT
                      !.pad = IF passages = <<>> THEN @ ELSE AddReading(@, t, d, passages),
                      !.found = @ \union ToSet(passages),
                      !.consulted = @ \union {d},
                      !.read = IF CountsAsRead(passages) THEN @ \union {d} ELSE @])
    BY DEF ReadDecision
  <1> DEFINE d == Get(turn[t].pad, k)
             passages == PassagesRead(d, indices)
             pad == IF passages = <<>> THEN turn[t].pad ELSE AddReading(turn[t].pad, t, d, passages)
             new == ToSet(passages)
             next == [turn[t] EXCEPT !.pad = pad, !.found = @ \union new,
                                     !.consulted = @ \union {d},
                                     !.read = @ \union {d}]
  <1>2. turn[t].at = "looping" /\ WithinBudget(t, d) /\ Called(t, next)
    BY <1>1 DEF ReadDecision, MayCall, CountsAsRead
  <1>3. /\ turn[t] \in TurnRecords /\ Worked(t, turn[t])
        /\ turn[t].pad \in Pad /\ CountsHold(turn[t].pad)
    BY <1>2, TurnFacts DEF Working
  <1>4. turn[t].pad \in Seq(Entries)
    BY <1>3 DEF Pad
  <1>5. d \in Decisions /\ Has(turn[t].pad, "d", d)
    BY HandleIsOfADecision
  <1> HIDE DEF d
  <1>6. passages \in Seq(Chunks) /\ ToSet(passages) \subseteq ToSet(ChunksOf[d])
    BY <1>5, PassagesAreItsOwn
  <1> HIDE DEF passages
  <1>7. Gathers(turn[t].pad, pad, t)
    <2>1. CASE passages = <<>>
      BY <1>3, <2>1, PadGathersItself
    <2>2. CASE passages # <<>>
      BY <1>3, <1>5, <1>6, <2>2, ReadingGathers
    <2> QED  BY <2>1, <2>2
  <1> HIDE DEF pad
  <1>8. \A c \in new : c \in Chunks /\ OwnerOf(c) = d
    BY <1>5, <1>6, OwnerIs
  <1> HIDE DEF new
  <1>9. /\ pad \in Seq(Entries)
        /\ turn[t].found \in SUBSET Chunks
        /\ turn[t].read \in SUBSET Decisions /\ turn[t].consulted \in SUBSET Decisions
    BY <1>3, <1>7 DEF Gathers, Pad, TurnRecords
  <1>10. /\ next \in TurnRecords
         /\ next.at = turn[t].at /\ next.pad = pad /\ next.found = turn[t].found \union new
         /\ next.consulted = turn[t].consulted \union {d} /\ next.read = turn[t].read \union {d}
         /\ next.run = turn[t].run /\ next.answered = turn[t].answered
    BY <1>3, <1>5, <1>8, <1>9 DEF TurnRecords
  <1> HIDE DEF next
  <1>11. OwnersKnown(pad, next.found \ turn[t].found)
    <2>1. PICK e \in ToSet(turn[t].pad) : e.key[1] = "d" /\ e.value = d
      BY <1>5 DEF Has
    <2>2. e \in ToSet(pad)
      BY <1>7, <2>1 DEF Gathers
    <2> QED  BY <1>8, <1>10, <2>1, <2>2 DEF OwnersKnown
  <1>12. IsFiniteSet(next.read) /\ Cardinality(next.read) <= MaxDocumentsRead
    <2>1. IsFiniteSet(turn[t].read) /\ Cardinality(turn[t].read) <= MaxDocumentsRead
      BY <1>3 DEF Worked
    <2>2. Cardinality(turn[t].read) \in Nat
      BY <2>1, FS_CardinalityType
    <2>3. /\ IsFiniteSet(turn[t].read \union {d})
          /\ Cardinality(turn[t].read \union {d}) =
                 IF d \in turn[t].read THEN Cardinality(turn[t].read)
                 ELSE Cardinality(turn[t].read) + 1
      BY <2>1, FS_AddElement
    <2>4. MaxDocumentsRead \in Nat
      BY BoundsAssumption
    <2>5. d \in turn[t].read \/ Cardinality(turn[t].read) < MaxDocumentsRead
      BY <1>2 DEF WithinBudget
    <2> QED  BY <1>10, <2>1, <2>2, <2>3, <2>4, <2>5
  <1>13. ~turn[t].answered
    BY <1>2, TurnFacts
  <1>14. Worked(t, next)
    BY <1>3, <1>7, <1>10, <1>11, <1>12, <1>13 DEF Worked
  <1> QED  BY <1>2, <1>14, CallIsCounted

LEMMA WorkingTurnsHaveARow ==
    ASSUME Inductive, NEW t \in Turns, Holding(t)
    PROVE  row \in {"stored", "deleted"}
  <1>1. row \in {"none", "flushed", "stored", "deleted"}
    BY DEF Inductive, TypeOK
  <1> QED  BY <1>1 DEF Inductive, RowAgrees, Holding

LEMMA QueryCorpusWorks ==
    ASSUME Inductive, NEW t \in Turns, QueryCorpus(t)
    PROVE  ToolStep(t)
  <1> DEFINE r == [turn[t] EXCEPT !.at = "counting", !.run = NewRun]
  <1>1. /\ turn[t].at = "looping"
        /\ turn' = [turn EXCEPT ![t] = r]
        /\ UNCHANGED <<row, history, context, overlapped>>
    BY DEF QueryCorpus, MayCall, Set
  <1>2. turn[t] \in TurnRecords /\ Worked(t, turn[t]) /\ ~turn[t].answered
    BY <1>1, TurnFacts DEF Working
  <1>3. "counting" \in Stages
    BY DEF Stages
  <1>4. /\ r \in TurnRecords
        /\ r.at = "counting" /\ r.pad = turn[t].pad /\ r.found = turn[t].found
        /\ r.consulted = turn[t].consulted /\ r.read = turn[t].read
        /\ r.run = NewRun /\ r.answered = turn[t].answered
    BY <1>2, <1>3, NewRunHolds DEF TurnRecords
  <1> HIDE DEF r
  <1>5. Worked(t, r)
    BY <1>2, <1>4, NewRunHolds DEF Worked, Working
  <1> QED  BY <1>1, <1>5 DEF ToolStep

\* The sandbox's rollback takes nothing of the turn's: its row was committed.
LEMMA SqlIterationWorks ==
    ASSUME Inductive, NEW t \in Turns, SqlIteration(t)
    PROVE  ToolStep(t)
  <1>1. PICK run \in Iterations(turn[t].run) : Set(t, [turn[t] EXCEPT !.run = run])
    BY DEF SqlIteration
  <1> DEFINE r == [turn[t] EXCEPT !.run = run]
  <1>2. /\ turn[t].at = "counting" /\ Sandboxed
        /\ turn' = [turn EXCEPT ![t] = r]
        /\ UNCHANGED <<history, context, overlapped>>
    BY <1>1 DEF SqlIteration, Set
  <1>3. row # "flushed"
    BY <1>2, WorkingTurnsHaveARow DEF Holding
  <1>4. UNCHANGED <<row, history, context, overlapped>>
    BY <1>2, <1>3 DEF Sandboxed
  <1>5. turn[t] \in TurnRecords /\ Worked(t, turn[t]) /\ turn[t].run \in Runs
    BY <1>2, TurnFacts DEF Working
  <1>6. run \in Runs /\ RowsAreOfTheLast(run)
    BY <1>5, IterationHolds DEF Worked
  <1>7. /\ r \in TurnRecords
        /\ r.at = "counting" /\ r.pad = turn[t].pad /\ r.found = turn[t].found
        /\ r.consulted = turn[t].consulted /\ r.read = turn[t].read
        /\ r.run = run /\ r.answered = turn[t].answered
    BY <1>2, <1>5, <1>6 DEF TurnRecords
  <1> HIDE DEF r
  <1>8. Worked(t, r)
    BY <1>2, <1>5, <1>6, <1>7 DEF Worked
  <1> QED  BY <1>2, <1>4, <1>8 DEF ToolStep

LEMMA SqlEndsWorks ==
    ASSUME Inductive, NEW t \in Turns, SqlEnds(t)
    PROVE  ToolStep(t)
  <1> DEFINE result == Result(turn[t].run)
             pad == Remember(turn[t].pad, Sql, [asked |-> t, result |-> result])
             next == [turn[t] EXCEPT !.at = "looping", !.run = NewRun, !.pad = pad]
  <1>1. turn[t].at = "counting" /\ Called(t, next)
    BY DEF SqlEnds
  <1>2. /\ turn[t] \in TurnRecords /\ Worked(t, turn[t]) /\ ~turn[t].answered
        /\ turn[t].run \in Runs /\ turn[t].pad \in Pad /\ CountsHold(turn[t].pad)
    BY <1>1, TurnFacts DEF Working
  <1>3. result \in Results /\ ShowsItsQuery(result)
    BY <1>2, ResultHolds DEF Worked
  <1> HIDE DEF result
  <1>4. Gathers(turn[t].pad, pad, t)
    BY <1>2, <1>3, CountingGathers
  <1> HIDE DEF pad
  <1>5. pad \in Seq(Entries) /\ "looping" \in Stages
    BY <1>4 DEF Gathers, Pad, Stages
  <1>6. /\ next \in TurnRecords
        /\ next.at = "looping" /\ next.pad = pad /\ next.found = turn[t].found
        /\ next.consulted = turn[t].consulted /\ next.read = turn[t].read
        /\ next.run = NewRun /\ next.answered = turn[t].answered
    BY <1>2, <1>5, NewRunHolds DEF TurnRecords
  <1> HIDE DEF next
  <1>7. OwnersKnown(pad, next.found \ turn[t].found)
    BY <1>6 DEF OwnersKnown
  <1>8. Worked(t, next)
    BY <1>2, <1>4, <1>6, <1>7, NewRunHolds DEF Worked, Working
  <1> QED  BY <1>1, <1>8, CallIsCounted

LEMMA AnswerWorks ==
    ASSUME Inductive, NEW t \in Turns, Answer(t)
    PROVE  ToolStep(t)
  <1> DEFINE Known(hs) == Those(hs, ChunkHandles(turn[t].pad))
             Cited(hs) == SubSeq(Known(hs), 1, Min({Len(Known(hs)), MaxCited}))
             Passages(hs) == {Get(turn[t].pad, h) : h \in ToSet(Cited(hs))}
             CasesCited(hs) == {OwnerOf(c) : c \in {c \in Passages(hs) : CaseOf(turn[t].pad, c)}}
             After(hs) == RecordCases(Remember(turn[t].pad, Selection, Cited(hs)), CasesCited(hs))
  <1>1. PICK handles \in HandleLists :
            Called(t, [turn[t] EXCEPT !.at = "writing", !.answered = TRUE, !.pad = After(handles)])
    BY DEF Answer
  <1> DEFINE pad == After(handles)
             next == [turn[t] EXCEPT !.at = "writing", !.answered = TRUE, !.pad = pad]
  <1>2. turn[t].at = "looping" /\ Called(t, next)
    BY <1>1 DEF Answer, MayCall
  <1>3. /\ turn[t] \in TurnRecords /\ Worked(t, turn[t])
        /\ turn[t].pad \in Pad /\ CountsHold(turn[t].pad)
    BY <1>2, TurnFacts DEF Working
  <1>4. Gathers(turn[t].pad, pad, t) /\ CitedIsKnown(pad)
    BY <1>3, AnsweringGathers
  <1> HIDE DEF pad
  <1>5. pad \in Seq(Entries) /\ "writing" \in Stages
    BY <1>4 DEF Gathers, Pad, Stages
  <1>6. /\ next \in TurnRecords
        /\ next.at = "writing" /\ next.pad = pad /\ next.found = turn[t].found
        /\ next.consulted = turn[t].consulted /\ next.read = turn[t].read
        /\ next.run = turn[t].run /\ next.answered = TRUE
    BY <1>3, <1>5 DEF TurnRecords
  <1> HIDE DEF next
  <1>7. OwnersKnown(pad, next.found \ turn[t].found)
    BY <1>6 DEF OwnersKnown
  <1>8. Worked(t, next)
    BY <1>3, <1>4, <1>6, <1>7 DEF Worked, Working
  <1> QED  BY <1>2, <1>8, CallIsCounted

LEMMA WriteProseWorks ==
    ASSUME Inductive, NEW t \in Turns, WriteProse(t)
    PROVE  ToolStep(t)
  <1> DEFINE next == [turn[t] EXCEPT !.at = "writing"]
  <1>1. turn[t].at = "looping" /\ Called(t, next)
    BY DEF WriteProse, MayCall
  <1>2. turn[t] \in TurnRecords /\ Worked(t, turn[t]) /\ ~turn[t].answered
    BY <1>1, TurnFacts DEF Working
  <1>3. "writing" \in Stages
    BY DEF Stages
  <1>4. /\ next \in TurnRecords
        /\ next.at = "writing" /\ next.pad = turn[t].pad /\ next.found = turn[t].found
        /\ next.consulted = turn[t].consulted /\ next.read = turn[t].read
        /\ next.run = turn[t].run /\ next.answered = turn[t].answered
    BY <1>2, <1>3 DEF TurnRecords
  <1> HIDE DEF next
  <1>5. Worked(t, next)
    BY <1>2, <1>4 DEF Worked, Working
  <1> QED  BY <1>1, <1>5, CallIsCounted

LEMMA ToolsWork ==
    ASSUME Inductive, NEW t \in Turns, Tool(t)
    PROVE  ToolStep(t)
  BY ListVocabularyWorks, NothingKeptWorks, SearchWorks, ReadingWorks, ReaderRaisesWorks,
     QueryCorpusWorks, SqlIterationWorks, SqlEndsWorks, AnswerWorks, WriteProseWorks DEF Tool

(***************************************************************************)
(* The invariant is kept.                                                  *)
(***************************************************************************)
\* A turn that has nothing of its own yet, or nothing any more, but its pad.
Cleared(r) ==
    /\ r.found = {} /\ r.read = {} /\ r.consulted = {}
    /\ r.run = NewRun /\ ~r.answered

LEMMA ClearedHolds ==
    ASSUME NEW r, Cleared(r), WellKept(r.pad)
    PROVE  TurnHolds(r)
  <1>1. OwnersKnown(r.pad, r.found)
    BY DEF OwnersKnown, Cleared
  <1>2. IsFiniteSet(r.read) /\ Cardinality(r.read) <= MaxDocumentsRead
    BY FS_EmptySet, BoundsAssumption DEF Cleared
  <1> QED  BY <1>1, <1>2, NewRunHolds DEF Cleared, TurnHolds

LEMMA EmptyPadHolds ==
    /\ <<>> \in Pad /\ WellKept(<<>>)
    /\ \A who : AskedBy(<<>>, who)
  <1>1. <<>> \in Seq(Entries) /\ Len(<<>>) = 0
    BY EmptySeq
  <1>2. ToSet(<<>>) = {}
    BY DEF ToSet
  <1> QED  BY <1>1, <1>2 DEF Pad, WellKept, InOrder, CountsHold, AskedBy

LEMMA IdleHolds ==
    /\ Idle \in TurnRecords /\ Cleared(Idle)
    /\ Idle.at = "idle" /\ Idle.pad = <<>> /\ ~Idle.done
  <1>1. <<>> \in Seq(Entries) /\ "idle" \in Stages
    BY EmptySeq DEF Stages
  <1>2. NewRun \in Runs
    BY NewRunHolds
  <1>3. Idle \in TurnRecords
    BY <1>1, <1>2 DEF Idle, TurnRecords
  <1> QED  BY <1>3 DEF Idle, Cleared

\* Of a request that is over nothing is left but how it ended.
LEMMA OverLeavesNothing ==
    ASSUME Inductive, NEW t \in Turns, NEW at \in Stages, Over(t, at)
    PROVE  \E r \in TurnRecords :
              /\ turn' = [turn EXCEPT ![t] = r]
              /\ r.at = at /\ r.pad = <<>> /\ r.done = turn[t].done
              /\ TurnHolds(r)
  <1> DEFINE r == [Idle EXCEPT !.at = at, !.done = turn[t].done]
  <1>1. turn' = [turn EXCEPT ![t] = r]
    BY DEF Over, Set
  <1>2. turn[t].done \in BOOLEAN
    BY TurnFacts DEF TurnRecords
  <1>3. /\ r \in TurnRecords /\ r.at = at /\ r.pad = Idle.pad /\ r.done = turn[t].done
        /\ r.found = Idle.found /\ r.read = Idle.read /\ r.consulted = Idle.consulted
        /\ r.run = Idle.run /\ r.answered = Idle.answered
    BY <1>2, IdleHolds DEF TurnRecords
  <1> HIDE DEF r
  <1>4. TurnHolds(r) /\ r.pad = <<>>
    BY <1>3, IdleHolds, EmptyPadHolds, ClearedHolds DEF Cleared
  <1> QED  BY <1>1, <1>3, <1>4

\* Turns do not touch each other.
LEMMA OneTurnChanges ==
    ASSUME Inductive, NEW t \in Turns, NEW r \in TurnRecords, turn' = [turn EXCEPT ![t] = r],
           TurnHolds(r)
    PROVE  /\ turn' \in [Turns -> TurnRecords]
           /\ turn'[t] = r
           /\ \A u \in Turns \ {t} : turn'[u] = turn[u]
           /\ \A u \in Turns : TurnHolds(turn'[u])
  <1>1. turn \in [Turns -> TurnRecords] /\ \A u \in Turns : TurnHolds(turn[u])
    BY DEF Inductive, TypeOK
  <1> QED  BY <1>1

\* While the conversation's row, history and context stay what they are, a turn
\* may go on, with all the cases it had, or end.
LEMMA WorkKeepsInductive ==
    ASSUME Inductive, NEW t \in Turns, Holding(t),
           NEW r \in TurnRecords, turn' = [turn EXCEPT ![t] = r],
           UNCHANGED <<row, history, context, overlapped>>,
           TurnHolds(r), r.at # "ended",
           AskedBy(r.pad, ToSet(history) \union {t}),
           Holding(t)' => CasesOf(turn[t].pad) \subseteq CasesOf(r.pad)
    PROVE  Inductive'
  <1>1. /\ turn' \in [Turns -> TurnRecords]
        /\ turn'[t] = r
        /\ \A u \in Turns \ {t} : turn'[u] = turn[u]
        /\ \A u \in Turns : TurnHolds(turn'[u])
    BY OneTurnChanges
  <1>2. TypeOK'
    BY <1>1 DEF Inductive, TypeOK
  <1>3. WellKept(context)'
    BY DEF Inductive, WellKept, InOrder, CountsHold
  <1>4. (\A u \in Turns : TurnHolds(turn[u]))'
    BY <1>1
  <1>5. row \in {"stored", "deleted"} /\ RowAgrees'
    BY WorkingTurnsHaveARow DEF RowAgrees
  <1>6. EvidenceIsOwned'
    BY <1>1 DEF Inductive, EvidenceIsOwned
  <1>7. CasesAreCarried'
    <2> SUFFICES ASSUME ~overlapped, NEW u \in Turns, Holding(u)'
                 PROVE  CasesOf(context) \subseteq CasesOf(turn'[u].pad)
      BY DEF CasesAreCarried
    <2>1. CASE u = t
      <3>1. CasesOf(context) \subseteq CasesOf(turn[t].pad)
        BY DEF Inductive, CasesAreCarried
      <3> QED  BY <1>1, <2>1, <3>1
    <2>2. CASE u # t
      BY <1>1, <2>2 DEF Inductive, CasesAreCarried, Holding
    <2> QED  BY <2>1, <2>2
  <1>8. TurnsAreRemembered'
    BY <1>1 DEF Inductive, TurnsAreRemembered
  <1> QED  BY <1>2, <1>3, <1>4, <1>5, <1>6, <1>7, <1>8 DEF Inductive

\* What turn t gathers is its own.
LEMMA GatheredIsOwned ==
    ASSUME Inductive, NEW t \in Turns, NEW after, Gathers(turn[t].pad, after, t)
    PROVE  AskedBy(after, ToSet(history) \union {t})
  <1>1. AskedBy(turn[t].pad, ToSet(history) \union {t})
    BY DEF Inductive, EvidenceIsOwned
  <1> QED  BY <1>1 DEF Gathers, AskedBy

LEMMA ToolKeepsInductive ==
    ASSUME Inductive, NEW t \in Turns, ToolStep(t)
    PROVE  Inductive'
  <1>1. PICK r : Worked(t, r) /\ turn' = [turn EXCEPT ![t] = r]
    BY DEF ToolStep
  <1>2. Holding(t) /\ UNCHANGED <<row, history, context, overlapped>>
    BY DEF ToolStep, Holding
  <1>3. r \in TurnRecords /\ r.at # "ended" /\ Gathers(turn[t].pad, r.pad, t)
    BY <1>1 DEF Worked, Working
  <1>4. OwnersKnown(r.pad, r.found)
    <2>1. OwnersKnown(turn[t].pad, turn[t].found)
      BY TurnFacts DEF TurnHolds
    <2>2. OwnersKnown(r.pad, turn[t].found)
      BY <1>3, <2>1 DEF OwnersKnown, Gathers
    <2> QED  BY <1>1, <2>2 DEF Worked, OwnersKnown
  <1>5. WellKept(r.pad)
    BY <1>3 DEF Gathers, Pad, WellKept
  <1>6. TurnHolds(r)
    BY <1>1, <1>4, <1>5 DEF Worked, TurnHolds, Working
  <1>7. AskedBy(r.pad, ToSet(history) \union {t})
    BY <1>3, GatheredIsOwned
  <1>8. CasesOf(turn[t].pad) \subseteq CasesOf(r.pad)
    BY <1>3 DEF Gathers
  <1> QED  BY <1>1, <1>2, <1>3, <1>6, <1>7, <1>8, WorkKeepsInductive

\* The steps outside the loop that leave the conversation's row alone.
LEMMA RequestKeepsInductive ==
    ASSUME Inductive, NEW t \in Turns,
           PlanReply(t) \/ BeginResearch(t) \/ Fail(t) \/ Synthesize(t) \/ SaveContext(t)
              \/ StoreFails(t)
    PROVE  Inductive'
  <1>1. /\ turn[t] \in TurnRecords /\ TurnHolds(turn[t])
        /\ turn[t].pad \in Pad /\ turn[t].pad \in Seq(Entries) /\ CountsHold(turn[t].pad)
    BY TurnFacts DEF Pad
  <1>2. AskedBy(turn[t].pad, ToSet(history) \union {t})
    BY DEF Inductive, EvidenceIsOwned
  <1>3. {"planning", "looping", "saving", "saved", "failed", "unstored"} \subseteq Stages
    BY DEF Stages
  <1>4. ASSUME NEW at \in {"saving", "looping"}, turn[t].at = "planning",
               turn' = [turn EXCEPT ![t] = [turn[t] EXCEPT !.at = at]],
               UNCHANGED <<row, history, context, overlapped>>
        PROVE  Inductive'
    <2> DEFINE r == [turn[t] EXCEPT !.at = at]
    <2>1. /\ r \in TurnRecords /\ r.at = at /\ r.pad = turn[t].pad /\ r.found = turn[t].found
          /\ r.consulted = turn[t].consulted /\ r.read = turn[t].read
          /\ r.run = turn[t].run /\ r.answered = turn[t].answered
      BY <1>1, <1>3 DEF TurnRecords
    <2>2. turn' = [turn EXCEPT ![t] = r]
      BY <1>4
    <2> HIDE DEF r
    <2>3. TurnHolds(r)
      BY <1>1, <1>4, <2>1 DEF TurnHolds
    <2>4. Holding(t) /\ r.at # "ended"
      BY <1>4, <2>1 DEF Holding
    <2> QED  BY <1>2, <1>4, <2>1, <2>2, <2>3, <2>4, WorkKeepsInductive
  <1>5. CASE PlanReply(t)
    BY <1>4, <1>5 DEF PlanReply, Set
  <1>6. CASE BeginResearch(t)
    BY <1>4, <1>6 DEF BeginResearch, Set
  <1>7. CASE Fail(t) \/ StoreFails(t)
    <2>0. \E at \in {"failed", "unstored"} : Over(t, at)
      BY <1>7 DEF Fail, StoreFails
    <2>1. PICK r \in TurnRecords :
                  /\ turn' = [turn EXCEPT ![t] = r]
                  /\ r.at \in {"failed", "unstored"} /\ r.pad = <<>> /\ TurnHolds(r)
      BY <1>3, <2>0, OverLeavesNothing
    <2>2. Holding(t) /\ UNCHANGED <<row, history, context, overlapped>>
      BY <1>7 DEF Fail, StoreFails, Holding
    <2>3. turn'[t] = r
      BY <2>1 DEF Inductive, TypeOK
    <2>4. ~Holding(t)'
      BY <2>1, <2>3 DEF Holding
    <2>5. AskedBy(r.pad, ToSet(history) \union {t})
      BY <2>1, EmptyPadHolds
    <2> QED  BY <2>1, <2>2, <2>4, <2>5, WorkKeepsInductive
  <1>8. CASE Synthesize(t)
    <2> DEFINE r == [Idle EXCEPT !.at = "saving", !.pad = turn[t].pad]
    <2>1. /\ r \in TurnRecords /\ r.at = "saving" /\ r.pad = turn[t].pad
          /\ r.found = Idle.found /\ r.read = Idle.read /\ r.consulted = Idle.consulted
          /\ r.run = Idle.run /\ r.answered = Idle.answered
      BY <1>1, <1>3, IdleHolds DEF TurnRecords
    <2>2. /\ turn' = [turn EXCEPT ![t] = r]
          /\ UNCHANGED <<row, history, context, overlapped>>
      BY <1>8 DEF Synthesize, Set
    <2> HIDE DEF r
    <2>3. TurnHolds(r)
      BY <1>1, <2>1, IdleHolds, ClearedHolds DEF Cleared, TurnHolds
    <2>4. Holding(t) /\ r.at # "ended"
      BY <1>8, <2>1 DEF Synthesize, Holding
    <2> QED  BY <1>2, <2>1, <2>2, <2>3, <2>4, WorkKeepsInductive
  <1>9. CASE SaveContext(t)
    <2> DEFINE carried == Carried(turn[t].pad)
               r == [turn[t] EXCEPT !.at = "saved", !.done = TRUE, !.pad = carried]
    <2>1. /\ turn' = [turn EXCEPT ![t] = r]
          /\ UNCHANGED <<row, history, context, overlapped>>
          /\ turn[t].at = "saving"
      BY <1>9 DEF SaveContext, Set
    <2>2. /\ carried \in Pad /\ ToSet(carried) \subseteq ToSet(turn[t].pad)
          /\ CasesOf(carried) = CasesOf(turn[t].pad)
      BY <1>1, CarriedIs
    <2> HIDE DEF carried
    <2>3. carried \in Seq(Entries)
      BY <2>2 DEF Pad
    <2>4. /\ r \in TurnRecords /\ r.at = "saved" /\ r.pad = carried /\ r.found = turn[t].found
          /\ r.consulted = turn[t].consulted /\ r.read = turn[t].read
          /\ r.run = turn[t].run /\ r.answered = turn[t].answered
      BY <1>1, <1>3, <2>3 DEF TurnRecords
    <2> HIDE DEF r
    <2>5. turn[t].found = {} /\ ~turn[t].answered
      BY <1>1, <2>1 DEF TurnHolds
    <2>6. WellKept(carried) /\ AskedBy(carried, ToSet(history) \union {t})
      BY <1>1, <1>2, <2>2 DEF WellKept, Pad, CountsHold, AskedBy
    <2>7. TurnHolds(r)
      BY <1>1, <2>4, <2>5, <2>6 DEF TurnHolds, OwnersKnown
    <2>8. Holding(t) /\ r.at # "ended"
      BY <2>1, <2>4 DEF Holding
    <2> QED  BY <2>1, <2>2, <2>4, <2>6, <2>7, <2>8, WorkKeepsInductive
  <1> QED  BY <1>5, <1>6, <1>7, <1>8, <1>9

LEMMA FirstIsATurn == 1 \in Turns
  BY BoundsAssumption DEF Turns

LEMMA OpenKeepsInductive ==
    ASSUME Inductive, NEW t \in Turns, Open(t)
    PROVE  Inductive'
  <1> DEFINE r == [turn[t] EXCEPT !.at = "opened"]
  <1>1. turn[t] \in TurnRecords /\ TurnHolds(turn[t])
    BY TurnFacts
  <1>2. /\ turn[t].at = "idle"
        /\ turn' = [turn EXCEPT ![t] = r]
        /\ UNCHANGED <<history, context, overlapped>>
    BY DEF Open, Set
  <1>3. "opened" \in Stages
    BY DEF Stages
  <1>4. /\ r \in TurnRecords /\ r.at = "opened" /\ r.pad = turn[t].pad /\ r.found = turn[t].found
        /\ r.consulted = turn[t].consulted /\ r.read = turn[t].read
        /\ r.run = turn[t].run /\ r.answered = turn[t].answered /\ r.done = turn[t].done
    BY <1>1, <1>3 DEF TurnRecords
  <1> HIDE DEF r
  <1>5. TurnHolds(r)
    BY <1>1, <1>2, <1>4 DEF TurnHolds
  <1>6. /\ turn' \in [Turns -> TurnRecords]
        /\ turn'[t] = r
        /\ \A u \in Turns \ {t} : turn'[u] = turn[u]
        /\ \A u \in Turns : TurnHolds(turn'[u])
    BY <1>2, <1>4, <1>5, OneTurnChanges
  <1>7. \/ t = 1 /\ row = "none" /\ row' = "flushed"
        \/ t # 1 /\ row = "stored" /\ row' = "stored"
    BY DEF Open
  <1>8. TypeOK'
    BY <1>2, <1>6, <1>7 DEF Inductive, TypeOK
  <1>9. WellKept(context)'
    BY <1>2 DEF Inductive, WellKept, InOrder, CountsHold
  <1>10. (\A u \in Turns : TurnHolds(turn[u]))'
    BY <1>6
  <1>11. RowAgrees'
    BY <1>4, <1>6, <1>7, FirstIsATurn DEF Inductive, RowAgrees
  <1>12. EvidenceIsOwned'
    BY <1>2, <1>4, <1>6 DEF Inductive, EvidenceIsOwned
  <1>13. CasesAreCarried'
    BY <1>2, <1>4, <1>6 DEF Inductive, CasesAreCarried, Holding
  <1>14. TurnsAreRemembered'
    BY <1>2, <1>4, <1>6, <1>7 DEF Inductive, TurnsAreRemembered
  <1> QED  BY <1>8, <1>9, <1>10, <1>11, <1>12, <1>13, <1>14 DEF Inductive

LEMMA CommitKeepsInductive ==
    ASSUME Inductive, NEW t \in Turns, CommitSession(t)
    PROVE  Inductive'
  <1> DEFINE r == [turn[t] EXCEPT !.at = "planning", !.pad = context]
  <1>1. turn[t] \in TurnRecords /\ TurnHolds(turn[t])
    BY TurnFacts
  <1>2. /\ turn[t].at = "opened"
        /\ turn' = [turn EXCEPT ![t] = r]
        /\ row' = IF row = "flushed" THEN "stored" ELSE row
        /\ UNCHANGED <<history, context, overlapped>>
    BY DEF CommitSession, Set
  <1>3. "planning" \in Stages /\ context \in Seq(Entries)
    BY DEF Stages, Inductive, TypeOK
  <1>4. /\ r \in TurnRecords /\ r.at = "planning" /\ r.pad = context /\ r.found = turn[t].found
        /\ r.consulted = turn[t].consulted /\ r.read = turn[t].read
        /\ r.run = turn[t].run /\ r.answered = turn[t].answered
    BY <1>1, <1>3 DEF TurnRecords
  <1> HIDE DEF r
  <1>5. TurnHolds(r)
    <2>1. turn[t].found = {} /\ ~turn[t].answered
      BY <1>1, <1>2 DEF TurnHolds
    <2> QED  BY <1>1, <1>4, <2>1 DEF TurnHolds, OwnersKnown, Inductive
  <1>6. /\ turn' \in [Turns -> TurnRecords]
        /\ turn'[t] = r
        /\ \A u \in Turns \ {t} : turn'[u] = turn[u]
        /\ \A u \in Turns : TurnHolds(turn'[u])
    BY <1>2, <1>4, <1>5, OneTurnChanges
  <1>7. row' \in {"stored", "deleted"} /\ (row = "deleted" => row' = "deleted")
    <2>1. row \in {"none", "flushed", "stored", "deleted"}
      BY DEF Inductive, TypeOK
    <2>2. row # "none"
      BY <1>2, FirstIsATurn DEF Inductive, RowAgrees
    <2> QED  BY <1>2, <2>1, <2>2
  <1>8. TypeOK'
    BY <1>2, <1>6, <1>7 DEF Inductive, TypeOK
  <1>9. WellKept(context)'
    BY <1>2 DEF Inductive, WellKept, InOrder, CountsHold
  <1>10. (\A u \in Turns : TurnHolds(turn[u]))'
    BY <1>6
  <1>11. RowAgrees'
    BY <1>7 DEF RowAgrees
  <1>12. EvidenceIsOwned'
    BY <1>2, <1>4, <1>6 DEF Inductive, EvidenceIsOwned, AskedBy
  <1>13. CasesAreCarried'
    BY <1>2, <1>4, <1>6 DEF Inductive, CasesAreCarried, Holding
  <1>14. TurnsAreRemembered'
    BY <1>2, <1>4, <1>6, <1>7 DEF Inductive, TurnsAreRemembered
  <1> QED  BY <1>8, <1>9, <1>10, <1>11, <1>12, <1>13, <1>14 DEF Inductive

\* What a turn leaves to the next is what it has gathered or was left, and its
\* question and answer with it.
LEMMA StoreKeepsInductive ==
    ASSUME Inductive, NEW t \in Turns, StoreTurn(t)
    PROVE  Inductive'
  <1>1. /\ turn[t].at = "saved" /\ Holding(t)
        /\ overlapped' = (overlapped \/ ReadBefore(t))
        /\ Over(t, "ended") /\ "ended" \in Stages
    BY DEF StoreTurn, Holding, Stages
  <1>2. row \in {"stored", "deleted"}
    BY <1>1, WorkingTurnsHaveARow
  <1>3. row' = row
    BY <1>2 DEF StoreTurn
  <1>4. /\ turn[t].pad \in Pad /\ turn[t].pad \in Seq(Entries) /\ WellKept(turn[t].pad)
        /\ AskedBy(turn[t].pad, ToSet(history) \union {t})
    BY TurnFacts DEF Pad, WellKept, Inductive, EvidenceIsOwned
  <1>5. PICK r \in TurnRecords :
                /\ turn' = [turn EXCEPT ![t] = r]
                /\ r.at = "ended" /\ r.pad = <<>> /\ TurnHolds(r)
    BY <1>1, OverLeavesNothing
  <1>6. /\ turn' \in [Turns -> TurnRecords]
        /\ turn'[t] = r
        /\ \A u \in Turns \ {t} : turn'[u] = turn[u]
        /\ \A u \in Turns : TurnHolds(turn'[u])
    BY <1>5, OneTurnChanges
  <1>7. history \in Seq(Turns)
    BY DEF Inductive, TypeOK
  <1>8. /\ Append(history, t) \in Seq(Turns)
        /\ ToSet(Append(history, t)) = ToSet(history) \union {t}
    BY <1>7, AppendMembers
  <1>9. \/ /\ row = "stored"
           /\ history' \in Seq(Turns) /\ ToSet(history') = ToSet(history) \union {t}
           /\ context' = turn[t].pad
        \/ /\ row = "deleted" /\ history' = history /\ context' = context
    BY <1>2, <1>8 DEF StoreTurn
  <1>10. history' \in Seq(Turns) /\ ToSet(history) \subseteq ToSet(history')
    BY <1>7, <1>9
  <1>11. /\ WellKept(context') /\ context' \in Seq(Entries)
         /\ AskedBy(context', ToSet(history'))
    BY <1>4, <1>9 DEF Inductive, TypeOK, EvidenceIsOwned
  <1>12. TypeOK'
    BY <1>1, <1>3, <1>6, <1>10, <1>11 DEF Inductive, TypeOK
  <1>13. WellKept(context)' /\ (\A u \in Turns : TurnHolds(turn[u]))'
    BY <1>6, <1>11 DEF WellKept, InOrder, CountsHold
  <1>14. RowAgrees'
    BY <1>2, <1>3 DEF RowAgrees
  <1>15. EvidenceIsOwned'
    <2>1. ASSUME NEW u \in Turns
          PROVE  AskedBy(turn'[u].pad, ToSet(history') \union {u})
      <3>1. CASE u = t
        BY <1>5, <1>6, <3>1, EmptyPadHolds
      <3>2. CASE u # t
        <4>1. AskedBy(turn[u].pad, ToSet(history) \union {u}) /\ turn'[u] = turn[u]
          BY <1>6, <3>2 DEF Inductive, EvidenceIsOwned
        <4> QED  BY <1>10, <4>1 DEF AskedBy
      <3> QED  BY <3>1, <3>2
    <2> QED  BY <1>11, <2>1 DEF EvidenceIsOwned, AskedBy
  <1>16. CasesAreCarried'
    <2> SUFFICES ASSUME ~overlapped', NEW u \in Turns, Holding(u)'
                 PROVE  CasesOf(context') \subseteq CasesOf(turn'[u].pad)
      BY DEF CasesAreCarried, CasesOf, Keys, Get
    <2>1. u # t /\ turn'[u] = turn[u] /\ Holding(u)
      BY <1>5, <1>6 DEF Holding
    <2>2. Active(u) /\ turn[u].at # "opened"
      BY <2>1 DEF Holding, Active
    <2>3. FALSE
      BY <1>1, <2>1, <2>2 DEF ReadBefore
    <2> QED  BY <2>3
  <1>17. TurnsAreRemembered'
    <2>1. ASSUME NEW u \in Turns, turn'[u].at = "ended"
          PROVE  u \in ToSet(history') \/ row' = "deleted"
      <3>1. CASE u = t
        BY <1>3, <1>9, <3>1
      <3>2. CASE u # t
        BY <1>3, <1>6, <1>10, <2>1, <3>2 DEF Inductive, TurnsAreRemembered
      <3> QED  BY <3>1, <3>2
    <2> QED  BY <2>1 DEF TurnsAreRemembered, ToSet
  <1> QED  BY <1>12, <1>13, <1>14, <1>15, <1>16, <1>17 DEF Inductive

LEMMA DisconnectKeepsInductive ==
    ASSUME Inductive, NEW t \in Turns, Disconnect(t)
    PROVE  Inductive'
  <1>1. /\ Active(t) /\ Over(t, "gone") /\ "gone" \in Stages
        /\ row' = IF row = "flushed" THEN "none" ELSE row
        /\ UNCHANGED <<history, context, overlapped>>
    BY DEF Disconnect, Stages
  <1>2. PICK r \in TurnRecords :
                /\ turn' = [turn EXCEPT ![t] = r]
                /\ r.at = "gone" /\ r.pad = <<>> /\ r.done = turn[t].done /\ TurnHolds(r)
    BY <1>1, OverLeavesNothing
  <1>3. /\ turn' \in [Turns -> TurnRecords]
        /\ turn'[t] = r
        /\ \A u \in Turns \ {t} : turn'[u] = turn[u]
        /\ \A u \in Turns : TurnHolds(turn'[u])
    BY <1>2, OneTurnChanges
  <1>4. row \in {"none", "flushed", "stored", "deleted"}
    BY DEF Inductive, TypeOK
  <1>5. TypeOK'
    BY <1>1, <1>3, <1>4 DEF Inductive, TypeOK
  <1>6. WellKept(context)' /\ (\A u \in Turns : TurnHolds(turn[u]))'
    BY <1>1, <1>3 DEF Inductive, WellKept, InOrder, CountsHold
  <1>7. RowAgrees'
    <2>1. CASE row \in {"stored", "deleted"}
      BY <1>1, <2>1 DEF RowAgrees
    <2>2. CASE row \in {"none", "flushed"}
      <3>1. turn[t].at # "idle"
        BY <1>1 DEF Active
      <3>2. t = 1
        BY <2>2, <3>1 DEF Inductive, RowAgrees
      <3>3. row' = "none"
        BY <1>1, <2>2
      <3>4. \A u \in Turns : ~turn'[u].done /\ (u # 1 => turn'[u].at = "idle")
        BY <1>2, <1>3, <2>2, <3>2 DEF Inductive, RowAgrees
      <3> QED  BY <1>2, <1>3, <3>2, <3>3, <3>4 DEF RowAgrees
    <2> QED  BY <1>4, <2>1, <2>2
  <1>8. EvidenceIsOwned'
    <2>1. ASSUME NEW u \in Turns
          PROVE  AskedBy(turn'[u].pad, ToSet(history) \union {u})
      BY <1>2, <1>3, EmptyPadHolds DEF Inductive, EvidenceIsOwned
    <2>2. AskedBy(context, ToSet(history))
      BY DEF Inductive, EvidenceIsOwned
    <2> QED  BY <1>1, <2>1, <2>2 DEF EvidenceIsOwned
  <1>9. CasesAreCarried'
    BY <1>1, <1>2, <1>3 DEF Inductive, CasesAreCarried, Holding
  <1>10. TurnsAreRemembered'
    BY <1>1, <1>2, <1>3 DEF Inductive, TurnsAreRemembered
  <1> QED  BY <1>5, <1>6, <1>7, <1>8, <1>9, <1>10 DEF Inductive

LEMMA DeleteKeepsInductive ==
    ASSUME Inductive, DeleteSession
    PROVE  Inductive'
  <1>1. row' = "deleted" /\ UNCHANGED <<history, context, turn, overlapped>>
    BY DEF DeleteSession
  <1>2. TypeOK'
    BY <1>1 DEF Inductive, TypeOK
  <1>3. WellKept(context)' /\ (\A u \in Turns : TurnHolds(turn[u]))'
    BY <1>1 DEF Inductive
  <1>4. RowAgrees' /\ TurnsAreRemembered'
    BY <1>1 DEF RowAgrees, TurnsAreRemembered
  <1>5. EvidenceIsOwned' /\ CasesAreCarried'
    BY <1>1 DEF Inductive, EvidenceIsOwned, CasesAreCarried, Holding
  <1> QED  BY <1>2, <1>3, <1>4, <1>5 DEF Inductive

LEMMA StutterKeepsInductive ==
    ASSUME Inductive, UNCHANGED vars
    PROVE  Inductive'
  <1>1. UNCHANGED <<row, history, context, turn, overlapped>>
    BY DEF vars
  <1>2. TypeOK'
    BY <1>1 DEF Inductive, TypeOK
  <1>3. WellKept(context)' /\ (\A u \in Turns : TurnHolds(turn[u]))'
    BY <1>1 DEF Inductive
  <1>4. RowAgrees' /\ TurnsAreRemembered'
    BY <1>1 DEF Inductive, RowAgrees, TurnsAreRemembered
  <1>5. EvidenceIsOwned' /\ CasesAreCarried'
    BY <1>1 DEF Inductive, EvidenceIsOwned, CasesAreCarried, Holding
  <1> QED  BY <1>2, <1>3, <1>4, <1>5 DEF Inductive

LEMMA InductiveInitially == ASSUME Init PROVE Inductive
  <1>1. <<>> \in Seq(Turns) /\ <<>> \in Seq(Entries)
    BY EmptySeq
  <1>2. \A t \in Turns : turn[t] = Idle
    BY DEF Init
  <1>3. TypeOK
    BY <1>1, IdleHolds DEF Init, TypeOK
  <1>4. TurnHolds(Idle)
    BY IdleHolds, EmptyPadHolds, ClearedHolds
  <1>5. RowAgrees
    BY <1>2, IdleHolds, FirstIsATurn DEF Init, RowAgrees
  <1>6. EvidenceIsOwned
    BY <1>2, IdleHolds, EmptyPadHolds DEF Init, EvidenceIsOwned
  <1>7. CasesAreCarried
    BY <1>2, IdleHolds DEF CasesAreCarried, Holding
  <1>8. TurnsAreRemembered
    BY <1>2, IdleHolds DEF TurnsAreRemembered
  <1>9. WellKept(context)
    BY EmptyPadHolds DEF Init
  <1> QED  BY <1>2, <1>3, <1>4, <1>5, <1>6, <1>7, <1>8, <1>9 DEF Inductive

LEMMA StepKeepsInductive == ASSUME Inductive, [Next]_vars PROVE Inductive'
  <1>1. ASSUME NEW t \in Turns, Advance(t)
        PROVE  Inductive'
    BY <1>1, CommitKeepsInductive, RequestKeepsInductive, ToolsWork, ToolKeepsInductive,
       StoreKeepsInductive DEF Advance
  <1> QED  BY <1>1, OpenKeepsInductive, DisconnectKeepsInductive, DeleteKeepsInductive,
              StutterKeepsInductive DEF Next

(***************************************************************************)
(* What follows from the invariant.                                        *)
(***************************************************************************)
LEMMA PadsAreInOrder ==
    ASSUME Inductive, NEW pad \in Pads
    PROVE  pad \in Pad /\ pad \in Seq(Entries) /\ WellKept(pad)
  <1>1. context \in Pad /\ WellKept(context)
    BY DEF Inductive, TypeOK, WellKept, Pad
  <1>2. \A t \in Turns : turn[t].pad \in Pad /\ WellKept(turn[t].pad)
    BY TurnFacts DEF TurnHolds
  <1> QED  BY <1>1, <1>2 DEF Pads, Pad

LEMMA OneHandleFollows == ASSUME Inductive PROVE OneHandleEach
  <1> SUFFICES ASSUME NEW pad \in Pads, NEW prefix \in {"c", "d"},
                      NEW h \in HandlesOf(pad, prefix), NEW k \in HandlesOf(pad, prefix),
                      Get(pad, h) = Get(pad, k)
               PROVE  h = k
    BY DEF OneHandleEach
  <1>1. pad \in Seq(Entries) /\ InOrder(pad)
    BY PadsAreInOrder DEF WellKept
  <1>2. h \in Keys(pad) /\ h[1] = prefix /\ k \in Keys(pad) /\ k[1] = prefix
    BY DEF HandlesOf
  <1> DEFINE e == Entry(h, Get(pad, h))
             f == Entry(k, Get(pad, k))
  <1>3. e \in ToSet(pad) /\ f \in ToSet(pad)
    BY <1>1, <1>2, Lookup
  <1>4. /\ e.key = h /\ e.value = Get(pad, h)
        /\ f.key = k /\ f.value = Get(pad, k)
    BY DEF Entry
  <1> HIDE DEF e, f
  <1>5. e = f
    BY <1>1, <1>2, <1>3, <1>4 DEF InOrder
  <1> QED  BY <1>4, <1>5

LEMMA CitationsFollow == ASSUME Inductive PROVE CitationsResolve
  <1> SUFFICES ASSUME NEW t \in Turns, Writes(t), turn[t].answered
               PROVE  LET pad == turn[t].pad
                          cited == SelectedHandles(pad)
                      IN  /\ ToSet(cited) = ToSet(Sources(pad))
                          /\ \A h \in ToSet(cited) :
                                Get(pad, h) \in turn[t].found => CaseOf(pad, Get(pad, h))
    BY DEF CitationsResolve
  <1> DEFINE pad == turn[t].pad
             cited == SelectedHandles(pad)
  <1>1. /\ pad \in Pad /\ pad \in Seq(Entries)
        /\ CitedIsKnown(pad) /\ OwnersKnown(pad, turn[t].found)
    BY TurnFacts DEF TurnHolds, Pad
  <1>2. cited \in Seq({"c"} \X Nat) /\ ToSet(cited) \subseteq ChunkHandles(pad)
    <2>1. CASE Selection \in Keys(pad)
      <3> DEFINE e == Entry(Selection, cited)
      <3>1. e \in ToSet(pad) /\ e.key = Selection /\ e.value = cited
        BY <1>1, <2>1, Lookup DEF Entry, SelectedHandles
      <3> HIDE DEF e
      <3>2. e \in Entries /\ e.key[1] = "selection"
        BY <1>1, <3>1, Members DEF Selection
      <3>3. cited \in Seq({"c"} \X Nat)
        BY <3>1, <3>2, EntryKinds
      <3>4. ASSUME NEW h \in ToSet(cited)
            PROVE  h \in ChunkHandles(pad)
        <4>1. h[1] = "c"
          BY <3>3, <3>4, Members
        <4>2. \E f \in ToSet(pad) : f.key = h
          BY <1>1, <3>1, <3>4 DEF CitedIsKnown
        <4> QED  BY <1>1, <4>1, <4>2, KeysAre DEF ChunkHandles, HandlesOf
      <3> QED  BY <3>3, <3>4
    <2>2. CASE Selection \notin Keys(pad)
      <3>1. cited = <<>>
        BY <2>2 DEF SelectedHandles
      <3>2. ToSet(<<>>) = {}
        BY DEF ToSet
      <3> QED  BY <3>1, <3>2, EmptySeq
    <2> QED  BY <2>1, <2>2
  <1>3. ToSet(cited) = ToSet(Sources(pad))
    <2>1. ToSet(Those(cited, ChunkHandles(pad))) = ToSet(cited) \intersect ChunkHandles(pad)
      BY <1>2, ThoseAre
    <2> QED  BY <1>2, <2>1 DEF Sources, Selected
  <1>4. ASSUME NEW c \in turn[t].found
        PROVE  CaseOf(pad, c)
    <2>1. Has(pad, "d", OwnerOf(c))
      BY <1>1 DEF OwnersKnown, Has
    <2> QED  BY <1>1, <2>1, HasAHandle DEF CaseOf
  <1> QED  BY <1>3, <1>4

LEMMA CountsFollow == ASSUME Inductive PROVE CountsShowTheirQuery
  <1> SUFFICES ASSUME NEW pad \in Pads, Sql \in Keys(pad)
               PROVE  ShowsItsQuery(Get(pad, Sql).result)
    BY DEF CountsShowTheirQuery, ShowsItsQuery
  <1>1. pad \in Seq(Entries) /\ CountsHold(pad)
    BY PadsAreInOrder DEF WellKept
  <1>2. Entry(Sql, Get(pad, Sql)) \in ToSet(pad)
    BY <1>1, Lookup
  <1> QED  BY <1>1, <1>2 DEF CountsHold, Entry

LEMMA BudgetFollows == ASSUME Inductive PROVE ReadingsAreBudgeted
  BY TurnFacts DEF TurnHolds, ReadingsAreBudgeted

LEMMA StoredWholeFollows == ASSUME Inductive PROVE TurnsAreStoredWhole
  <1>1. context \in Seq(Entries)
    BY DEF Inductive, TypeOK
  <1>2. ASSUME NEW k \in Keys(context), k[1] \in {"r", "sql"}
        PROVE  Get(context, k).asked \in ToSet(history)
    <2>1. Entry(k, Get(context, k)) \in ToSet(context)
      BY <1>1, Lookup
    <2> QED  BY <1>2, <2>1 DEF Inductive, EvidenceIsOwned, AskedBy, Entry
  <1> QED  BY <1>2 DEF Inductive, TurnsAreStoredWhole, CarriedIsOfStoredTurns

\* A step of a turn that was in its loop is a tool call, or its end.
LEMMA LoopingTurnsCallTools ==
    ASSUME Inductive, [Next]_vars, NEW t \in Turns, turn[t].at = "looping",
           turn'[t].at \in {"looping", "writing"}
    PROVE  turn'[t] = turn[t] \/ ToolStep(t)
  <1>1. turn \in [Turns -> TurnRecords]
    BY DEF Inductive, TypeOK
  <1>2. ASSUME NEW u \in Turns, NEW r, turn' = [turn EXCEPT ![u] = r]
        PROVE  turn'[u] = r /\ (u # t => turn'[t] = turn[t])
    BY <1>1, <1>2
  <1>3. ASSUME NEW u \in Turns, NEW at \in {"failed", "unstored", "gone", "ended"}, Over(u, at)
        PROVE  u # t
    <2> DEFINE r == [Idle EXCEPT !.at = at, !.done = turn[u].done]
    <2>1. r.at = at
      BY DEF Idle
    <2>2. turn' = [turn EXCEPT ![u] = r]
      BY <1>3 DEF Over, Set
    <2> HIDE DEF r
    <2> QED  BY <1>2, <1>3, <2>1, <2>2
  <1>4. CASE \E u \in Turns : Tool(u)
    <2>1. PICK u \in Turns : Tool(u)
      BY <1>4
    <2>2. ToolStep(u)
      BY <2>1, ToolsWork
    <2> QED  BY <1>2, <2>2 DEF ToolStep
  <1>5. ASSUME NEW u \in Turns,
               Open(u) \/ CommitSession(u) \/ PlanReply(u) \/ BeginResearch(u) \/ Fail(u)
                  \/ Synthesize(u) \/ SaveContext(u) \/ StoreTurn(u) \/ StoreFails(u)
                  \/ Disconnect(u)
        PROVE  turn'[t] = turn[t]
    <2>1. CASE Open(u) \/ CommitSession(u) \/ PlanReply(u) \/ BeginResearch(u)
      BY <1>1, <2>1 DEF Open, CommitSession, PlanReply, BeginResearch, Set
    <2>2. CASE Synthesize(u) \/ SaveContext(u)
      BY <1>1, <2>2 DEF Synthesize, SaveContext, Set
    <2>3. CASE Fail(u) \/ StoreTurn(u) \/ StoreFails(u) \/ Disconnect(u)
      <3>1. u # t
        BY <1>3, <2>3 DEF Fail, StoreTurn, StoreFails, Disconnect
      <3>2. \E r : turn' = [turn EXCEPT ![u] = r]
        BY <2>3 DEF Fail, StoreTurn, StoreFails, Disconnect, Over, Set
      <3> QED  BY <1>2, <3>1, <3>2
    <2> QED  BY <1>5, <2>1, <2>2, <2>3
  <1>6. CASE DeleteSession
    BY <1>6 DEF DeleteSession
  <1>7. CASE UNCHANGED vars
    BY <1>7 DEF vars
  <1> QED  BY <1>4, <1>5, <1>6, <1>7 DEF Next, Advance

LEMMA HandlesStand ==
    ASSUME Inductive, [Next]_vars, NEW t \in Turns, turn[t].at = "looping",
           turn'[t].at \in {"looping", "writing"},
           NEW h \in Keys(turn[t].pad), h[1] \in {"c", "d", "r"}
    PROVE  h \in Keys(turn'[t].pad) /\ Get(turn'[t].pad, h) = Get(turn[t].pad, h)
  <1>1. turn[t].pad \in Pad /\ turn[t].pad \in Seq(Entries) /\ CountsHold(turn[t].pad)
    BY TurnFacts DEF Pad
  <1>2. Gathers(turn[t].pad, turn'[t].pad, t)
    <2>1. CASE turn'[t] = turn[t]
      BY <1>1, <2>1, PadGathersItself
    <2>2. CASE ToolStep(t)
      BY <2>2 DEF ToolStep, Worked, Inductive, TypeOK
    <2> QED  BY <2>1, <2>2, LoopingTurnsCallTools
  <1> DEFINE e == Entry(h, Get(turn[t].pad, h))
  <1>3. e \in ToSet(turn[t].pad) /\ e.key = h /\ e.value = Get(turn[t].pad, h)
    BY <1>1, Lookup DEF Entry
  <1> HIDE DEF e
  <1>4. e \in ToSet(turn'[t].pad)
    BY <1>2, <1>3 DEF Gathers
  <1>5. turn'[t].pad \in Seq(Entries) /\ InOrder(turn'[t].pad)
    BY <1>2 DEF Gathers, Pad
  <1> QED  BY <1>3, <1>4, <1>5, Lookup

LEMMA CasesGrow ==
    ASSUME Inductive, [Next]_vars
    PROVE  CasesOf(context) \subseteq CasesOf(context') \/ overlapped
  <1>1. CASE context' = context
    BY <1>1
  <1>2. ASSUME NEW t \in Turns, StoreTurn(t)
        PROVE  CasesOf(context) \subseteq CasesOf(context') \/ overlapped
    <2>1. Holding(t) /\ (context' = context \/ context' = turn[t].pad)
      BY <1>2 DEF StoreTurn, Holding
    <2>2. ~overlapped => CasesOf(context) \subseteq CasesOf(turn[t].pad)
      BY <2>1 DEF Inductive, CasesAreCarried
    <2> QED  BY <2>1, <2>2
  <1>3. \A t \in Turns : Tool(t) => context' = context
    BY ToolsWork DEF ToolStep
  <1>4. \A t \in Turns :
            Open(t) \/ CommitSession(t) \/ PlanReply(t) \/ BeginResearch(t) \/ Fail(t)
               \/ Synthesize(t) \/ SaveContext(t) \/ StoreFails(t) \/ Disconnect(t)
                  => context' = context
    BY DEF Open, CommitSession, PlanReply, BeginResearch, Fail, Synthesize, SaveContext,
           StoreFails, Disconnect
  <1>5. DeleteSession \/ UNCHANGED vars => context' = context
    BY DEF DeleteSession, vars
  <1> QED  BY <1>1, <1>2, <1>3, <1>4, <1>5 DEF Next, Advance

(***************************************************************************)
(* The theorems.                                                           *)
(***************************************************************************)
\* Whatever turns there are at once, each pad has one entry for a handle and one
\* handle for a passage, and agrees with the place of its turn.
THEOREM InductiveHolds == Spec => []Inductive
  BY InductiveInitially, StepKeepsInductive, PTL DEF Spec

\* The session's row, its history, its pad and the turns' records keep their types.
THEOREM TypeCorrect == Spec => []TypeOK
  <1>1. Inductive => TypeOK
    BY DEF Inductive
  <1> QED  BY <1>1, InductiveHolds, PTL

\* remember_chunk and remember_decision give a passage and a decision one handle,
\* in whatever order searches, readings and earlier turns bring them up.
THEOREM HandlesAreUnique == Spec => []OneHandleEach
  BY InductiveHolds, OneHandleFollows, PTL

\* What an answer cites can be resolved when it is written, names its case where
\* this turn found it, and a count is shown with the query that gave it.
THEOREM Sourced == Spec => []AnswersAreSourced
  <1>1. Inductive => AnswersAreSourced
    BY CitationsFollow, CountsFollow DEF AnswersAreSourced
  <1> QED  BY <1>1, InductiveHolds, PTL

\* Whatever the readers answer, and in whatever order decisions are read again, a
\* turn gets answers about no more of them than the limit.  Readings that raise
\* are outside of it: they are paid for and not counted.
THEOREM Budgeted == Spec => []ReadingsAreBudgeted
  BY InductiveHolds, BudgetFollows, PTL

\* Failing, disconnecting, deleting and overlapping, and with an append that raises
\* after done, a turn leaves the next both
\* its words and its evidence, or neither.
THEOREM StoredWhole == Spec => []TurnsAreStoredWhole
  BY InductiveHolds, StoredWholeFollows, PTL

\* No tool call takes a handle the model was shown from the pad, or gives it to
\* something else.
THEOREM HandlesKeepMeaning == Spec => HandlesKeepTheirMeaning
  <1> DEFINE Keep == \A t \in Turns :
                turn[t].at = "looping" /\ turn'[t].at \in {"looping", "writing"} =>
                    \A h \in Keys(turn[t].pad) : h[1] \in {"c", "d", "r"} =>
                        h \in Keys(turn'[t].pad) /\ Get(turn'[t].pad, h) = Get(turn[t].pad, h)
  <1>1. Inductive /\ [Next]_vars => [Keep]_vars
    BY HandlesStand
  <1> QED  BY <1>1, InductiveHolds, PTL DEF Spec, HandlesKeepTheirMeaning

\* The list of cited cases only grows from turn to turn, however small the pad
\* that is carried, unless turns were open at once.
THEOREM CasesAreKept == Spec => CasesAccumulate
  <1>1. Inductive /\ [Next]_vars => [CasesOf(context) \subseteq CasesOf(context') \/ overlapped]_vars
    BY CasesGrow
  <1> QED  BY <1>1, InductiveHolds, PTL DEF Spec, CasesAccumulate
=============================================================================
