---------------------------- MODULE CrawlProofs ----------------------------
(***************************************************************************)
(* Theorems about Crawl: for every listing, however it changes, every page *)
(* size and number of pages, and every number of crawls and of failures.   *)
(***************************************************************************)
EXTENDS Crawl, NaturalsInduction, WellFoundedInduction, FiniteSetTheorems,
        SequenceTheorems, TLAPS

(***************************************************************************)
(* The inductive invariant.                                                *)
(***************************************************************************)
\* A crawl looks at no entry before it has paged through the listing, and only
\* a crawl about to commit has a row inserted: the entry it is at.
PlacesAgree ==
    \A c \in Crawlers :
        /\ run[c].pc \in {"idle", "paging"} => run[c].at = 1
        /\ run[c].pc \in {"number", "insert", "commit", "publish"} =>
              run[c].at <= Len(run[c].found)
        /\ pending[c] = IF run[c].pc = "commit" THEN Entry(c) ELSE None
        /\ run[c].pc = "publish" => Entry(c) \in docs

\* The unique keys hold over the committed rows and the inserted ones.
KeysHold ==
    /\ \A d, e \in docs : Clashes(d, e) => d = e
    /\ \A c \in Crawlers : pending[c] # None =>
          /\ \A d \in docs : ~Clashes(pending[c], d)
          /\ \A o \in Crawlers \ {c} : pending[o] # None => ~Clashes(pending[c], pending[o])

\* Document and task rows are committed together.
RowsTogether == \A d \in docs : RowsFor(d) \subseteq rows

\* An entry a crawl is past is in the corpus, or was warned of.
PastIsStored ==
    \A c \in Crawlers : \A k \in 1..(run[c].at - 1) :
        run[c].found[k] \in run[c].warned \/ \E d \in docs : Clashes(run[c].found[k], d)

Inductive ==
    /\ TypeOK
    /\ PlacesAgree
    /\ KeysHold
    /\ RowsTogether
    /\ PastIsStored

(***************************************************************************)
(* What the listing's loop collects.                                       *)
(***************************************************************************)
\* Induction over the natural numbers, of membership in a set.
LEMMA SetInduction ==
    ASSUME NEW S, 0 \in S, \A n \in Nat : n \in S => n + 1 \in S
    PROVE  Nat \subseteq S
  <1> DEFINE T == Nat \ S
             R == OpToRel(<, Nat)
  <1>1. SUFFICES ASSUME T # {}
                 PROVE  FALSE
    OBVIOUS
  <1>2. \E x \in T : \A y \in T : <<y, x>> \notin R
    <2>1. IsWellFoundedOn(R, Nat)
      BY NatLessThanWellFounded
    <2> HIDE DEF R
    <2> QED  BY <1>1, <2>1, WFMin
  <1>3. PICK x \in T : \A y \in T : ~(y < x)
    BY <1>2 DEF OpToRel
  <1>4. x # 0 /\ x - 1 \in Nat /\ x - 1 < x
    BY <1>3
  <1>5. x - 1 \in S /\ (x - 1) + 1 = x
    BY <1>3, <1>4
  <1> QED  BY <1>3, <1>4, <1>5

\* One turn of the loop over a page's rows.
Turn(seen, i) == IF i \in ToSet(seen) THEN seen ELSE Append(seen, i)

\* f collects the first n rows of the page.
Collects(f, found, page, n) ==
    /\ f = [k \in 0 .. n |-> f[k]]
    /\ f[0] = found
    /\ \A k \in 1 .. n : f[k] = Turn(f[k - 1], page[k])

LEMMA CollectionExists ==
    ASSUME NEW found, NEW page
    PROVE  \A n \in Nat : \E f : Collects(f, found, page, n)
  <1> DEFINE S == {n \in Nat : \E f : Collects(f, found, page, n)}
  <1>1. 0 \in S
    <2>1. Collects([k \in 0 .. 0 |-> found], found, page, 0)
      BY DEF Collects
    <2> QED  BY <2>1
  <1>2. ASSUME NEW n \in Nat, n \in S
        PROVE  n + 1 \in S
    <2>1. PICK f : Collects(f, found, page, n)
      BY <1>2
    <2> DEFINE g == [k \in 0 .. n + 1 |-> IF k <= n THEN f[k] ELSE Turn(f[n], page[n + 1])]
    <2>2. g = [k \in 0 .. n + 1 |-> g[k]] /\ g[0] = found
      BY <2>1 DEF Collects
    <2>3. ASSUME NEW k \in 1 .. n + 1
          PROVE  g[k] = Turn(g[k - 1], page[k])
      <3>1. CASE k <= n
        <4>1. k \in 1 .. n /\ k \in 0 .. n + 1 /\ k - 1 \in 0 .. n + 1 /\ k - 1 <= n
          BY <3>1
        <4>2. g[k] = f[k] /\ g[k - 1] = f[k - 1]
          BY <3>1, <4>1
        <4> QED  BY <2>1, <4>1, <4>2 DEF Collects
      <3>2. CASE ~(k <= n)
        <4>1. k = n + 1 /\ k - 1 = n /\ k \in 0 .. n + 1 /\ k - 1 \in 0 .. n + 1
          BY <3>2
        <4>2. g[k] = Turn(f[n], page[n + 1]) /\ g[k - 1] = f[n]
          BY <3>2, <4>1
        <4> QED  BY <4>1, <4>2
      <3> QED  BY <3>1, <3>2
    <2>4. Collects(g, found, page, n + 1)
      BY <2>2, <2>3 DEF Collects
    <2> QED  BY <2>4
  <1>3. Nat \subseteq S
    <2> HIDE DEF S
    <2> QED  BY <1>1, <1>2, SetInduction
  <1> QED  BY <1>3

\* Collect runs the loop to the end of the page.
LEMMA CollectIsTheLoop ==
    ASSUME NEW S, NEW found, NEW page \in Seq(S)
    PROVE  \E f : Collects(f, found, page, Len(page)) /\ Collect(found, page) = f[Len(page)]
  <1> DEFINE Loop(f) == f = [n \in 0 .. Len(page) |->
                                IF n = 0 THEN found
                                ELSE IF page[n] \in ToSet(f[n - 1]) THEN f[n - 1]
                                ELSE Append(f[n - 1], page[n])]
             upTo == CHOOSE f : Loop(f)
  <1>1. PICK g : Collects(g, found, page, Len(page))
    BY CollectionExists, LenProperties
  <1>2. Loop(g)
    BY <1>1, LenProperties DEF Collects, Turn
  <1>3. Loop(upTo)
    BY <1>2
  <1>4. Collect(found, page) = upTo[Len(page)]
    BY DEF Collect
  <1>5. Collects(upTo, found, page, Len(page))
    <2> HIDE DEF upTo
    <2>1. Len(page) \in Nat
      BY LenProperties
    <2>2. /\ upTo = [k \in 0 .. Len(page) |-> upTo[k]]
          /\ upTo[0] = found
      BY <1>3, <2>1
    <2>3. ASSUME NEW k \in 1 .. Len(page)
          PROVE  upTo[k] = Turn(upTo[k - 1], page[k])
      <3>1. k \in 0 .. Len(page) /\ k # 0
        BY <2>1
      <3>2. upTo[k] = IF page[k] \in ToSet(upTo[k - 1]) THEN upTo[k - 1]
                      ELSE Append(upTo[k - 1], page[k])
        BY <1>3, <3>1
      <3> QED  BY <3>2 DEF Turn
    <2> QED  BY <2>2, <2>3 DEF Collects
  <1> QED  BY <1>4, <1>5

\* What a page adds keeps every entry at its place, adds those that are not there
\* yet, and collects none twice.
NoneTwice(s) == \A j, k \in 1 .. Len(s) : s[j] = s[k] => j = k

LEMMA TurnCollects ==
    ASSUME NEW S, NEW s \in Seq(S), NEW i \in S
    PROVE  /\ Turn(s, i) \in Seq(S)
           /\ NoneTwice(s) => NoneTwice(Turn(s, i))
           /\ ToSet(Turn(s, i)) = ToSet(s) \cup {i}
  <1>1. /\ Append(s, i) \in Seq(S)
        /\ Len(s) \in Nat /\ Len(Append(s, i)) = Len(s) + 1
        /\ DOMAIN s = 1 .. Len(s) /\ DOMAIN Append(s, i) = 1 .. Len(s) + 1
        /\ \A k \in 1 .. Len(s) : Append(s, i)[k] = s[k]
        /\ Append(s, i)[Len(s) + 1] = i
    BY AppendProperties, LenProperties
  <1>2. ToSet(s) = {s[k] : k \in 1 .. Len(s)}
    BY <1>1 DEF ToSet
  <1>3. ToSet(Append(s, i)) = {Append(s, i)[k] : k \in 1 .. Len(s) + 1}
    BY <1>1 DEF ToSet
  <1>4. ToSet(Append(s, i)) = ToSet(s) \cup {i}
    <2> DEFINE a == Append(s, i)
    <2>1. \A x : x \in ToSet(a) <=> \E k \in 1 .. Len(s) + 1 : a[k] = x
      BY <1>3
    <2>2. \A x : x \in ToSet(s) <=> \E k \in 1 .. Len(s) : s[k] = x
      BY <1>2
    <2> HIDE DEF a
    <2>3. \A x : x \in ToSet(a) <=> x \in ToSet(s) \cup {i}
      BY <1>1, <2>1, <2>2 DEF a
    <2> QED  BY <2>3 DEF a
  <1>5. i \notin ToSet(s) /\ NoneTwice(s) => NoneTwice(Append(s, i))
    <2>1. i \notin ToSet(s) => \A k \in 1 .. Len(s) : s[k] # i
      BY <1>2
    <2> QED  BY <1>1, <2>1 DEF NoneTwice
  <1> QED  BY <1>1, <1>4, <1>5 DEF Turn

LEMMA CollectCollects ==
    ASSUME NEW S, NEW found \in Seq(S), NEW page \in Seq(S)
    PROVE  /\ Collect(found, page) \in Seq(S)
           /\ NoneTwice(found) => NoneTwice(Collect(found, page))
           /\ ToSet(found) \subseteq ToSet(Collect(found, page))
           /\ ToSet(page) \subseteq ToSet(Collect(found, page))
           /\ ToSet(Collect(found, page)) \subseteq ToSet(found) \cup ToSet(page)
  <1>1. Len(page) \in Nat /\ \A k \in 1 .. Len(page) : page[k] \in S
    BY LenProperties, ElementOfSeq
  <1>2. PICK f : Collects(f, found, page, Len(page)) /\ Collect(found, page) = f[Len(page)]
    BY CollectIsTheLoop
  <1> DEFINE Good(n) == /\ f[n] \in Seq(S)
                        /\ NoneTwice(found) => NoneTwice(f[n])
                        /\ ToSet(found) \subseteq ToSet(f[n])
                        /\ \A k \in 1 .. n : page[k] \in ToSet(f[n])
                        /\ ToSet(f[n]) \subseteq ToSet(found) \cup {page[k] : k \in 1 .. n}
             T == {n \in Nat : n <= Len(page) => Good(n)}
  <1>3. 0 \in T
    BY <1>2 DEF Collects
  <1>4. ASSUME NEW n \in Nat, n \in T
        PROVE  n + 1 \in T
    <2> SUFFICES ASSUME n + 1 <= Len(page)
                 PROVE  Good(n + 1)
      OBVIOUS
    <2>1. Good(n) /\ page[n + 1] \in S
      BY <1>1, <1>4
    <2>2. f[n + 1] = Turn(f[n], page[n + 1])
      <3>1. n + 1 \in 1 .. Len(page) /\ (n + 1) - 1 = n
        BY <1>1
      <3> QED  BY <1>2, <3>1 DEF Collects
    <2>3. /\ f[n + 1] \in Seq(S)
          /\ NoneTwice(f[n]) => NoneTwice(f[n + 1])
          /\ ToSet(f[n + 1]) = ToSet(f[n]) \cup {page[n + 1]}
      <3>1. f[n] \in Seq(S)
        BY <2>1
      <3> HIDE DEF Good, T
      <3> QED  BY <2>1, <2>2, <3>1, TurnCollects
    <2> HIDE DEF T
    <2> QED  BY <2>1, <2>3
  <1>5. Nat \subseteq T
    <2> HIDE DEF T
    <2> QED  BY <1>3, <1>4, SetInduction
  <1>6. Good(Len(page))
    BY <1>1, <1>5
  <1>7. ToSet(page) = {page[k] : k \in 1 .. Len(page)}
    BY LenProperties DEF ToSet
  <1> QED  BY <1>2, <1>6, <1>7

\* What is collected once is as many entries as the sequence is long.
LEMMA NoneTwiceCounts ==
    ASSUME NEW S, NEW s \in Seq(S), NoneTwice(s)
    PROVE  IsFiniteSet(ToSet(s)) /\ Cardinality(ToSet(s)) = Len(s)
  <1>1. /\ Len(s) \in Nat /\ DOMAIN s = 1 .. Len(s)
        /\ s = [k \in 1 .. Len(s) |-> s[k]] /\ ToSet(s) = {s[k] : k \in 1 .. Len(s)}
    BY LenProperties DEF ToSet
  <1>2. IsFiniteSet(1 .. Len(s)) /\ Cardinality(1 .. Len(s)) = Len(s)
    <2>1. Len(s) \in Int /\ (1 > Len(s) => Len(s) = 0)
      BY <1>1
    <2>2. /\ IsFiniteSet(1 .. Len(s))
          /\ Cardinality(1 .. Len(s)) = IF 1 > Len(s) THEN 0 ELSE Len(s) - 1 + 1
      BY <2>1, FS_Interval
    <2> QED  BY <1>1, <2>1, <2>2
  <1>3. s \in Surjection(1 .. Len(s), ToSet(s)) /\ s \in Injection(1 .. Len(s), ToSet(s))
    <2>1. s \in [1 .. Len(s) -> ToSet(s)]
      BY <1>1
    <2>2. \A x \in ToSet(s) : \E k \in 1 .. Len(s) : s[k] = x
      BY <1>1
    <2>3. IsInjective(s)
      BY <1>1 DEF IsInjective, NoneTwice
    <2> QED  BY <2>1, <2>2, <2>3 DEF Surjection, Injection
  <1> QED  BY <1>2, <1>3, FS_Surjection

(***************************************************************************)
(* Types.                                                                  *)
(***************************************************************************)
\* A page of the listing is a sequence of its entries.
LEMMA ServedIsPage ==
    ASSUME NEW tags, NEW skip, NEW page \in Served(tags, skip)
    PROVE  page \in Seq(Ids)
  <1>1. \A P \in SUBSET Ids : \A s \in SetToSeqs(P) : s \in Seq(Ids)
    <2> SUFFICES ASSUME NEW P \in SUBSET Ids, NEW s \in SetToSeqs(P)
                 PROVE  s \in Seq(Ids)
      OBVIOUS
    <2>1. s \in [1 .. Cardinality(P) -> P]
      BY DEF SetToSeqs
    <2>2. Cardinality(P) \in Nat
      BY CrawlAssumption, FS_Subset, FS_CardinalityType
    <2>3. s \in Seq(P)
      BY <2>1, <2>2
    <2> QED  BY <2>3, SeqMonotonic
  <1>2. <<>> \in Seq(Ids)
    OBVIOUS
  <1>3. Listed(tags) \subseteq Ids
    BY DEF Listed
  <1>4. page = <<>> \/ \E P \in SUBSET Listed(tags) : page \in SetToSeqs(P)
    BY Zenon DEF Served
  <1> QED  BY <1>1, <1>2, <1>3, <1>4

\* The entries of a page that is not empty are listed, and as many others as were
\* skipped are no older than any of them.
LEMMA PageFollowsSkipped ==
    ASSUME NEW tags, NEW skip, NEW page \in Served(tags, skip), page # <<>>
    PROVE  /\ ToSet(page) \subseteq Listed(tags)
           /\ \E before \in SUBSET Listed(tags) :
                 /\ Cardinality(before) = skip
                 /\ before \cap ToSet(page) = {}
                 /\ NotOlder(before, ToSet(page))
  <1>1. PICK P \in SUBSET Listed(tags) :
           /\ page \in SetToSeqs(P)
           /\ \E before \in SUBSET (Listed(tags) \ P) :
                 Cardinality(before) = skip /\ NotOlder(before, P)
    BY Zenon DEF Served
  <1>2. ToSet(page) \subseteq P
    <2>1. page \in [1 .. Cardinality(P) -> P]
      BY <1>1 DEF SetToSeqs
    <2>2. Cardinality(P) \in Nat
      <3>1. P \in SUBSET Ids
        BY DEF Listed
      <3> QED  BY <3>1, CrawlAssumption, FS_Subset, FS_CardinalityType
    <2>3. page \in Seq(P)
      BY <2>1, <2>2
    <2> QED  BY <2>3, ElementOfSeq, LenProperties DEF ToSet
  <1>3. PICK before \in SUBSET (Listed(tags) \ P) :
           Cardinality(before) = skip /\ NotOlder(before, P)
    BY <1>1
  <1>4. before \cap ToSet(page) = {} /\ NotOlder(before, ToSet(page))
    BY <1>2, <1>3 DEF NotOlder
  <1> QED  BY <1>1, <1>2, <1>3, <1>4

\* There is a newest entry, and its date is one the model gives.
LEMMA NewestIsADate ==
    ASSUME TypeOK, NEW i \in Ids
    PROVE  /\ Newest \in 0 .. (Cardinality(Ids) + events)
           /\ \A j \in Ids : site[j] <= Newest
  <1> DEFINE n == Cardinality(Ids)
             Top(d) == (\E j \in Ids : site[j] = d) /\ (\A j \in Ids : site[j] <= d)
             T == {d \in Nat : \A j \in Ids : site[j] <= d}
             R == OpToRel(<, Nat)
  <1>1. n \in Nat /\ events \in Nat /\ events <= MaxEvents /\ MaxEvents \in Nat
    BY CrawlAssumption, FS_CardinalityType DEF TypeOK
  <1>2. \A j \in Ids : site[j] \in 0 .. n + events
    BY DEF TypeOK
  <1> HIDE DEF n
  <1>3. n + events \in T
    BY <1>1, <1>2
  <1>4. \E x \in T : \A y \in T : <<y, x>> \notin R
    <2>1. IsWellFoundedOn(R, Nat)
      BY NatLessThanWellFounded
    <2> HIDE DEF R
    <2>2. T \subseteq Nat /\ T # {}
      BY <1>3
    <2> QED  BY <2>1, <2>2, WFMin
  <1>5. PICK x \in T : \A y \in T : ~(y < x)
    BY <1>4 DEF OpToRel
  <1>6. x \in Nat /\ x <= n + events
    <2>1. ~(n + events < x)
      BY <1>3, <1>5
    <2> QED  BY <1>1, <2>1
  <1>7. Top(x)
    <2> SUFFICES ASSUME \A j \in Ids : site[j] # x
                 PROVE  FALSE
      OBVIOUS
    <2>1. \A j \in Ids : site[j] \in Nat /\ site[j] <= x
      BY <1>1, <1>2
    <2>2. x - 1 \in Nat /\ \A j \in Ids : site[j] <= x - 1
      BY <2>1, <1>6
    <2> QED  BY <1>5, <2>2
  <1>8. Newest = CHOOSE d \in 0 .. (n + MaxEvents) : Top(d)
    BY DEF Newest, n
  <1>9. x \in 0 .. (n + MaxEvents)
    BY <1>1, <1>6
  <1>10. Newest \in 0 .. (n + MaxEvents) /\ Top(Newest)
    <2> HIDE DEF Top
    <2> QED  BY <1>7, <1>8, <1>9
  <1>11. \E j \in Ids : site[j] = Newest
    BY <1>10
  <1> QED  BY <1>2, <1>10, <1>11 DEF n

\* What holds of every run, and of all but c's where only c moved.
RunsTyped ==
    /\ run \in [Crawlers -> Runs]
    /\ \A d \in Crawlers : run[d].at <= Len(run[d].found) + 1

Moved(c) == RunsTyped' /\ \A d \in Crawlers \ {c} : run'[d] = run[d]

\* What a run counts the listing by, and the entries it collected.
SameCount(r, s) ==
    /\ s.tags = r.tags /\ s.page = r.page /\ s.total = r.total
    /\ s.found = r.found /\ s.short = r.short

SameListing(r, s) == SameCount(r, s) /\ s.stayed = r.stayed /\ s.new = r.new

\* A run that takes another's place.
LEMMA RunUpdate ==
    ASSUME run \in [Crawlers -> Runs], \A d \in Crawlers : run[d].at <= Len(run[d].found) + 1,
           NEW c \in Crawlers, NEW r \in Runs, r.at <= Len(r.found) + 1,
           run' = [run EXCEPT ![c] = r]
    PROVE  /\ run' \in [Crawlers -> Runs]
           /\ \A d \in Crawlers : run'[d].at <= Len(run'[d].found) + 1
           /\ run'[c] = r
           /\ \A d \in Crawlers \ {c} : run'[d] = run[d]
  <1> HIDE DEF Runs
  <1> QED  OBVIOUS

LEMMA IdleIsRun ==
    /\ Idle \in Runs /\ Idle.pc = "idle" /\ Idle.at = 1
    /\ Idle.at <= Len(Idle.found) + 1
  <1>1. <<>> \in Seq(Ids) /\ Len(<<>>) = 0
    OBVIOUS
  <1> QED  BY <1>1 DEF Idle, Runs

LEMMA GoToEffect ==
    ASSUME RunsTyped, NEW c \in Crawlers, NEW pc, GoTo(c, pc),
           pc \in {"number", "insert", "commit", "publish"}
    PROVE  /\ Moved(c) /\ run'[c].pc = pc /\ run'[c].at = run[c].at
           /\ run'[c].found = run[c].found /\ run'[c].warned = run[c].warned
           /\ SameListing(run[c], run'[c])
  <1> DEFINE r == [run[c] EXCEPT !.pc = pc]
  <1>1. /\ r \in Runs /\ r.pc = pc /\ r.at = run[c].at /\ r.found = run[c].found
        /\ r.warned = run[c].warned /\ SameListing(run[c], r)
    BY DEF RunsTyped, Runs, SameListing, SameCount
  <1>2. run' = [run EXCEPT ![c] = r]
    BY DEF GoTo
  <1>3. r.at <= Len(r.found) + 1
    BY <1>1 DEF RunsTyped
  <1> HIDE DEF r
  <1> QED  BY <1>1, <1>2, <1>3, RunUpdate DEF Moved, RunsTyped

LEMMA NextEntryEffect ==
    ASSUME RunsTyped, NEW c \in Crawlers, NextEntry(c), run[c].at <= Len(run[c].found)
    PROVE  /\ Moved(c) /\ run'[c].pc = "look" /\ run'[c].at = run[c].at + 1
           /\ run'[c].found = run[c].found /\ run'[c].warned = run[c].warned
           /\ SameListing(run[c], run'[c])
  <1> DEFINE r == [run[c] EXCEPT !.pc = "look", !.at = @ + 1]
  <1>1. /\ r \in Runs /\ r.pc = "look" /\ r.at = run[c].at + 1 /\ r.found = run[c].found
        /\ r.warned = run[c].warned /\ SameListing(run[c], r)
    <2>1. run[c] \in Runs /\ run[c].at + 1 \in Nat \ {0}
      BY DEF RunsTyped, Runs
    <2> QED  BY <2>1 DEF Runs, SameListing, SameCount
  <1>2. run' = [run EXCEPT ![c] = r]
    BY DEF NextEntry
  <1>3. r.at <= Len(r.found) + 1
    <2>1. run[c].at \in Nat /\ Len(run[c].found) \in Nat
      BY LenProperties DEF RunsTyped, Runs
    <2> QED  BY <1>1, <2>1
  <1> HIDE DEF r
  <1> QED  BY <1>1, <1>2, <1>3, RunUpdate DEF Moved, RunsTyped

LEMMA FailEntryEffect ==
    ASSUME RunsTyped, NEW c \in Crawlers, FailEntry(c)
    PROVE  /\ Moved(c) /\ run'[c].pc = "look" /\ run'[c].at = run[c].at + 1
           /\ run'[c].found = run[c].found
           /\ run'[c].warned = run[c].warned \cup {Entry(c)}
           /\ SameListing(run[c], run'[c])
  <1> DEFINE r == [run[c] EXCEPT !.pc = "look", !.at = @ + 1, !.warned = @ \cup {Entry(c)}]
  <1>1. /\ run[c] \in Runs /\ run[c].at \in Nat \ {0} /\ run[c].found \in Seq(Ids)
        /\ run[c].at <= Len(run[c].found) /\ Len(run[c].found) \in Nat
    BY LenProperties DEF RunsTyped, Runs, FailEntry
  <1>2. Entry(c) \in Ids /\ run[c].at + 1 \in Nat \ {0}
    BY <1>1, ElementOfSeq DEF Entry
  <1>3. /\ r \in Runs /\ r.pc = "look" /\ r.at = run[c].at + 1 /\ r.found = run[c].found
        /\ r.warned = run[c].warned \cup {Entry(c)} /\ SameListing(run[c], r)
    <2> HIDE DEF Entry
    <2> QED  BY <1>1, <1>2 DEF Runs, SameListing, SameCount
  <1>4. run' = [run EXCEPT ![c] = r]
    BY DEF FailEntry
  <1>5. r.at <= Len(r.found) + 1
    BY <1>1, <1>3
  <1> HIDE DEF r
  <1> QED  BY <1>3, <1>4, <1>5, RunUpdate DEF Moved, RunsTyped

\* A crawl that has not come to its entries, before and after.
LEMMA PagingEffect ==
    ASSUME RunsTyped, NEW c \in Crawlers, NEW r \in Runs, r.at = 1,
           run' = [run EXCEPT ![c] = r]
    PROVE  Moved(c) /\ run'[c] = r
  <1>1. Len(r.found) \in Nat
    BY LenProperties DEF Runs
  <1> QED  BY <1>1, RunUpdate DEF Moved, RunsTyped

LEMMA EndFetchEffect ==
    ASSUME NEW r \in Runs
    PROVE  /\ EndFetch(r) \in Runs
           /\ EndFetch(r).pc = "look" /\ EndFetch(r).at = r.at /\ EndFetch(r).found = r.found
           /\ EndFetch(r).tags = r.tags /\ EndFetch(r).page = r.page
           /\ EndFetch(r).total = r.total /\ EndFetch(r).stayed = r.stayed
           /\ EndFetch(r).new = r.new
           /\ ~EndFetch(r).short => ~(r.total # None /\ Len(r.found) < r.total)
  <1>1. (r.page = MaxPages \/ (r.total # None /\ Len(r.found) < r.total)) \in BOOLEAN
    OBVIOUS
  <1> QED  BY <1>1 DEF EndFetch, Runs

\* Whatever the selector, a crawl asks only for tags there are.
LEMMA TagsAreTags ==
    ASSUME NEW selection
    PROVE  SelectTagIds(selection) \subseteq {row[1] : row \in TagRows}
  <1>1. \A year : TagsOfYear(year) \subseteq {row[1] : row \in TagRows}
    BY DEF TagsOfYear
  <1> QED  BY <1>1 DEF SelectTagIds

\* Paging ends with the crawl at the first of its entries, or ends the process.
LEMMA CrawlPages ==
    ASSUME RunsTyped, NEW c \in Crawlers, run[c].at = 1,
           \/ \E spec \in Specs : Start(c, spec)
           \/ FetchPage(c) \/ FinishPaging(c)
           \/ \E refused \in BOOLEAN : FailRequest(c, refused)
    PROVE  /\ Moved(c) /\ run'[c].pc \in {"idle", "paging", "look"} /\ run'[c].at = 1
  <1> SUFFICES \E r \in Runs :
                  /\ r.pc \in {"idle", "paging", "look"} /\ r.at = 1
                  /\ run' = [run EXCEPT ![c] = r]
    BY PagingEffect
  <1>0. run[c] \in Runs
    BY DEF RunsTyped
  <1>1. ASSUME NEW spec \in Specs, Start(c, spec)
        PROVE  \E r \in Runs :
                  /\ r.pc \in {"idle", "paging", "look"} /\ r.at = 1
                  /\ run' = [run EXCEPT ![c] = r]
    <2> DEFINE tags == SelectTagIds(ResolveYears(spec))
               begun == [Idle EXCEPT !.pc = "paging", !.tags = tags]
    <2>1. begun \in Runs /\ begun.pc = "paging" /\ begun.at = 1
      <3>1. tags \subseteq {row[1] : row \in TagRows}
        BY TagsAreTags
      <3>2. Idle \in Runs /\ Idle.at = 1
        BY IdleIsRun
      <3> HIDE DEF tags
      <3> QED  BY <3>1, <3>2 DEF Runs
    <2>2. \/ run' = [run EXCEPT ![c] = begun]
          \/ run' = [run EXCEPT ![c] = Idle]
      BY <1>1 DEF Start
    <2> HIDE DEF begun
    <2> QED  BY <2>1, <2>2, IdleIsRun
  <1>2. ASSUME FetchPage(c)
        PROVE  \E r \in Runs :
                  /\ r.pc \in {"idle", "paging", "look"} /\ r.at = 1
                  /\ run' = [run EXCEPT ![c] = r]
    <2> DEFINE tags == run[c].tags
               total == IF run[c].total = None /\ counting
                        THEN Cardinality(Listed(tags)) ELSE run[c].total
               stayed == IF run[c].page = 0 THEN Listed(tags) ELSE run[c].stayed
               new == IF run[c].page = 0 THEN {} ELSE run[c].new
               asked == [run[c] EXCEPT !.tries = 0, !.total = total, !.stayed = stayed,
                                       !.new = new]
    <2>1. PICK page \in Served(tags, run[c].page * PageSize) :
             run' = [run EXCEPT ![c] =
                IF page = <<>> THEN EndFetch(asked)
                ELSE [asked EXCEPT !.found = Collect(@, page), !.page = @ + 1]]
      BY <1>2 DEF FetchPage
    <2>2. asked \in Runs /\ asked.pc = run[c].pc /\ asked.at = 1
      <3>1. Listed(tags) \subseteq Ids
        BY DEF Listed
      <3>2. Cardinality(Listed(tags)) \in Nat
        BY <3>1, CrawlAssumption, FS_Subset, FS_CardinalityType
      <3>3. total \in Nat \cup {None} /\ stayed \in SUBSET Ids /\ new \in SUBSET Ids
        BY <1>0, <3>1, <3>2 DEF Runs
      <3> HIDE DEF total, stayed, new
      <3> QED  BY <1>0, <3>3 DEF Runs
    <2> HIDE DEF asked
    <2>3. CASE page = <<>>
      BY <2>1, <2>2, <2>3, EndFetchEffect
    <2>4. CASE page # <<>>
      <3> DEFINE r == [asked EXCEPT !.found = Collect(@, page), !.page = @ + 1]
      <3>1. asked.found \in Seq(Ids) /\ asked.page + 1 \in Nat
        BY <2>2 DEF Runs
      <3>2. Collect(asked.found, page) \in Seq(Ids)
        BY <3>1, ServedIsPage, CollectCollects
      <3>3. r \in Runs /\ r.pc = asked.pc /\ r.at = 1
        BY <2>2, <3>1, <3>2 DEF Runs
      <3>4. asked.pc = "paging"
        BY <1>2, <2>2 DEF FetchPage
      <3> HIDE DEF r
      <3> QED  BY <2>1, <2>4, <3>3, <3>4 DEF r
    <2> QED  BY <2>3, <2>4
  <1>3. ASSUME FinishPaging(c)
        PROVE  \E r \in Runs :
                  /\ r.pc \in {"idle", "paging", "look"} /\ r.at = 1
                  /\ run' = [run EXCEPT ![c] = r]
    BY <1>0, <1>3, EndFetchEffect DEF FinishPaging, RunsTyped
  <1>4. ASSUME NEW refused \in BOOLEAN, FailRequest(c, refused)
        PROVE  \E r \in Runs :
                  /\ r.pc \in {"idle", "paging", "look"} /\ r.at = 1
                  /\ run' = [run EXCEPT ![c] = r]
    <2> DEFINE again == [run[c] EXCEPT !.tries = @ + 1]
    <2>1. again \in Runs /\ again.pc = "paging" /\ again.at = 1
      <3>1. run[c].pc = "paging" /\ run[c].tries + 1 \in Nat
        BY <1>0, <1>4 DEF FailRequest, Runs
      <3> QED  BY <1>0, <3>1 DEF Runs
    <2>2. \/ run' = [run EXCEPT ![c] = again]
          \/ run' = [run EXCEPT ![c] = Idle]
      BY <1>4 DEF FailRequest
    <2> HIDE DEF again
    <2> QED  BY <2>1, <2>2, IdleIsRun
  <1> QED  BY <1>1, <1>2, <1>3, <1>4

LEMMA ClosedRunEffect ==
    ASSUME RunsTyped, NEW c \in Crawlers, End(c) \/ Die(c)
    PROVE  Moved(c) /\ run'[c] = Idle
  BY IdleIsRun, PagingEffect DEF End, Die

\* A change of the listing moves no crawl: it is noted which entries stayed, and
\* which were published.
LEMMA SiteChanges ==
    ASSUME RunsTyped, NEW i \in Ids, Publish(i) \/ Withdraw(i)
    PROVE  /\ RunsTyped'
           /\ \A c \in Crawlers :
                 /\ run'[c].pc = run[c].pc /\ run'[c].at = run[c].at
                 /\ run'[c].found = run[c].found /\ run'[c].warned = run[c].warned
                 /\ SameCount(run[c], run'[c])
                 /\ run'[c].stayed \subseteq run[c].stayed
                 /\ run'[c].new = IF Publish(i) THEN run[c].new \cup {i} ELSE run[c].new
  <1> DEFINE new(c) == IF Publish(i) THEN run[c].new \cup {i} ELSE run[c].new
             r(c) == [run[c] EXCEPT !.stayed = @ \ {i}, !.new = new(c)]
  <1>1. \A c \in Crawlers : run[c] \in Runs
    BY DEF RunsTyped
  <1>2. run' = [c \in Crawlers |-> r(c)]
    <2>1. CASE Publish(i)
      <3>1. \A c \in Crawlers : new(c) = run[c].new \cup {i}
        BY <2>1
      <3>2. run' = [c \in Crawlers |-> [run[c] EXCEPT !.stayed = @ \ {i}, !.new = @ \cup {i}]]
        BY <2>1 DEF Publish
      <3> HIDE DEF new
      <3> QED  BY <3>1, <3>2
    <2>2. CASE ~Publish(i)
      <3>1. \A c \in Crawlers : new(c) = run[c].new
        BY <2>2
      <3>2. run' = [c \in Crawlers |-> [run[c] EXCEPT !.stayed = @ \ {i}]]
        BY <2>2 DEF Withdraw
      <3>3. \A c \in Crawlers : r(c) = [run[c] EXCEPT !.stayed = @ \ {i}]
        <4> HIDE DEF new
        <4> QED  BY <1>1, <3>1 DEF Runs
      <3> HIDE DEF r
      <3> QED  BY <3>2, <3>3
    <2> QED  BY <2>1, <2>2
  <1>3. \A c \in Crawlers :
           /\ r(c) \in Runs /\ r(c).pc = run[c].pc /\ r(c).at = run[c].at
           /\ r(c).found = run[c].found /\ r(c).warned = run[c].warned
           /\ SameCount(run[c], r(c)) /\ r(c).stayed \subseteq run[c].stayed
           /\ r(c).new = new(c)
    <2>1. \A c \in Crawlers : new(c) \in SUBSET Ids
      BY <1>1 DEF Runs
    <2> HIDE DEF new
    <2> QED  BY <1>1, <2>1 DEF Runs, SameCount
  <1>4. \A c \in Crawlers : run'[c] = r(c)
    BY <1>2
  <1>5. run' \in [Crawlers -> Runs]
    <2> HIDE DEF Runs, r
    <2> QED  BY <1>2, <1>3
  <1> HIDE DEF r
  <1>6. \A c \in Crawlers : run'[c].at <= Len(run'[c].found) + 1
    BY <1>3, <1>4 DEF RunsTyped
  <1> QED  BY <1>3, <1>4, <1>5, <1>6 DEF RunsTyped

(***************************************************************************)
(* The invariant is inductive.                                             *)
(***************************************************************************)
\* A crawl that commits nothing, and has nothing inserted afterwards, keeps the
\* invariant if its own place is in order.
LEMMA NoCommitKeeps ==
    ASSUME Inductive, NEW c \in Crawlers, Moved(c),
           UNCHANGED <<site, counting, docs, rows>>,
           sent' \subseteq docs,
           events' \in events .. MaxEvents,
           pending' = [pending EXCEPT ![c] = None],
           run'[c].pc \in {"idle", "paging", "look", "number", "insert"},
           run'[c].pc \in {"idle", "paging"} => run'[c].at = 1,
           run'[c].pc \in {"number", "insert"} => run'[c].at <= Len(run'[c].found),
           \A k \in 1 .. (run'[c].at - 1) :
              \/ run'[c].found[k] \in run'[c].warned
              \/ \E d \in docs : Clashes(run'[c].found[k], d)
    PROVE  Inductive'
  <1> USE DEF Inductive
  <1>1. \A o \in Crawlers \ {c} : run'[o] = run[o]
    BY DEF Moved
  <1>2. /\ pending' \in [Crawlers -> Ids \cup {None}] /\ pending'[c] = None
        /\ \A o \in Crawlers \ {c} : pending'[o] = pending[o]
    BY DEF TypeOK
  <1>3. TypeOK'
    <2>1. site' \in [Ids -> 0 .. (Cardinality(Ids) + events')]
      <3>1. Cardinality(Ids) \in Nat /\ events \in Nat
        BY CrawlAssumption, FS_CardinalityType DEF TypeOK
      <3> QED  BY <3>1 DEF TypeOK
    <2>2. events' \in 0 .. MaxEvents
      BY DEF TypeOK
    <2> QED  BY <1>2, <2>1, <2>2 DEF TypeOK, Moved, RunsTyped
  <1>4. PlacesAgree'
    <2>1. ASSUME NEW o \in Crawlers \ {c}
          PROVE  /\ run'[o] = run[o] /\ pending'[o] = pending[o]
                 /\ pending[o] = IF run[o].pc = "commit" THEN Entry(o) ELSE None
      BY <1>1, <1>2 DEF PlacesAgree
    <2> QED  BY <1>2, <2>1 DEF PlacesAgree, Entry
  <1>5. KeysHold' /\ RowsTogether'
    BY <1>2 DEF KeysHold, RowsTogether, Clashes, SameNumber, RowsFor
  <1>6. PastIsStored'
    BY <1>1 DEF PastIsStored
  <1> QED  BY <1>3, <1>4, <1>5, <1>6

\* What holds of a crawl that stands at an entry.
LEMMA AtAnEntry ==
    ASSUME Inductive, NEW c \in Crawlers, run[c].at <= Len(run[c].found)
    PROVE  /\ RunsTyped /\ Entry(c) \in Ids /\ run[c].at \in Nat \ {0}
           /\ run[c].warned \subseteq Ids /\ Entry(c) = run[c].found[run[c].at]
  <1>1. RunsTyped /\ run[c] \in Runs
    BY DEF Inductive, TypeOK, RunsTyped
  <1>2. run[c].at \in Nat \ {0} /\ run[c].found \in Seq(Ids) /\ run[c].warned \subseteq Ids
    BY <1>1 DEF Runs
  <1>3. run[c].at \in 1 .. Len(run[c].found)
    BY <1>2, LenProperties
  <1> QED  BY <1>1, <1>2, <1>3, ElementOfSeq DEF Entry

\* The entry a crawl leaves joins those it is past.
LEMMA LeavingAnEntry ==
    ASSUME Inductive, NEW c \in Crawlers, run[c].at <= Len(run[c].found),
           run'[c].at = run[c].at + 1, run'[c].found = run[c].found,
           run[c].warned \subseteq run'[c].warned,
           Entry(c) \in run'[c].warned \/ \E d \in docs : Clashes(Entry(c), d)
    PROVE  \A k \in 1 .. (run'[c].at - 1) :
              \/ run'[c].found[k] \in run'[c].warned
              \/ \E d \in docs : Clashes(run'[c].found[k], d)
  <1> SUFFICES ASSUME NEW k \in 1 .. (run'[c].at - 1)
               PROVE  \/ run[c].found[k] \in run'[c].warned
                      \/ \E d \in docs : Clashes(run[c].found[k], d)
    OBVIOUS
  <1>1. run[c].at \in Nat \ {0} /\ Entry(c) = run[c].found[run[c].at]
    BY AtAnEntry
  <1>2. k \in 1 .. (run[c].at - 1) \/ k = run[c].at
    BY <1>1
  <1>3. CASE k \in 1 .. (run[c].at - 1)
    BY <1>3 DEF Inductive, PastIsStored
  <1>4. CASE k = run[c].at
    BY <1>1, <1>4
  <1> QED  BY <1>2, <1>3, <1>4

\* An event is counted within its bound.
LEMMA TickEffect ==
    ASSUME TypeOK, Tick
    PROVE  events' = events + 1 /\ events' \in events .. MaxEvents
  BY CrawlAssumption DEF TypeOK, Tick

\* A crawl has inserted the entry it is at, or nothing.
LEMMA NothingInserted ==
    ASSUME Inductive, NEW c \in Crawlers, run[c].pc # "commit"
    PROVE  pending = [pending EXCEPT ![c] = None]
  <1>1. pending \in [Crawlers -> Ids \cup {None}] /\ pending[c] = None
    BY DEF Inductive, TypeOK, PlacesAgree
  <1> QED  BY <1>1

LEMMA ListingChangeKeeps ==
    ASSUME Inductive, NEW i \in Ids, Publish(i) \/ Withdraw(i)
    PROVE  Inductive'
  <1>1. RunsTyped
    BY DEF Inductive, TypeOK, RunsTyped
  <1>2. /\ RunsTyped'
        /\ \A c \in Crawlers :
              /\ run'[c].pc = run[c].pc /\ run'[c].at = run[c].at
              /\ run'[c].found = run[c].found /\ run'[c].warned = run[c].warned
    BY <1>1, SiteChanges
  <1>3. UNCHANGED <<counting, docs, rows, sent, pending>> /\ Tick
    BY DEF Publish, Withdraw
  <1>4. events' = events + 1 /\ events' \in 0 .. MaxEvents
    <2>1. events \in Nat
      BY DEF Inductive, TypeOK
    <2> QED  BY <1>3, <2>1, TickEffect DEF Inductive
  <1>5. site' \in [Ids -> 0 .. (Cardinality(Ids) + events')]
    <2>1. Cardinality(Ids) \in Nat /\ events \in Nat
      BY CrawlAssumption, FS_CardinalityType DEF Inductive, TypeOK
    <2>2. Newest \in 0 .. (Cardinality(Ids) + events)
      BY NewestIsADate DEF Inductive
    <2>3. site \in [Ids -> 0 .. (Cardinality(Ids) + events)]
      BY DEF Inductive, TypeOK
    <2>4. site' = [site EXCEPT ![i] = Newest + 1] \/ site' = [site EXCEPT ![i] = 0]
      BY DEF Publish, Withdraw
    <2> HIDE DEF Newest
    <2>5. /\ Newest + 1 \in 0 .. (Cardinality(Ids) + events')
          /\ 0 \in 0 .. (Cardinality(Ids) + events')
          /\ 0 .. (Cardinality(Ids) + events) \subseteq 0 .. (Cardinality(Ids) + events')
      BY <1>4, <2>1, <2>2
    <2> QED  BY <2>3, <2>4, <2>5
  <1>6. TypeOK'
    BY <1>2, <1>3, <1>4, <1>5 DEF Inductive, TypeOK, RunsTyped
  <1>7. PlacesAgree'
    BY <1>2, <1>3 DEF Inductive, PlacesAgree, Entry
  <1>8. KeysHold' /\ RowsTogether'
    BY <1>3 DEF Inductive, KeysHold, RowsTogether, Clashes, SameNumber, RowsFor
  <1>9. PastIsStored'
    BY <1>2, <1>3 DEF Inductive, PastIsStored, Clashes, SameNumber
  <1> QED  BY <1>6, <1>7, <1>8, <1>9 DEF Inductive

LEMMA PagingKeeps ==
    ASSUME Inductive, NEW c \in Crawlers,
           \/ \E spec \in Specs : Start(c, spec)
           \/ FetchPage(c) \/ FinishPaging(c)
           \/ \E refused \in BOOLEAN : FailRequest(c, refused)
    PROVE  Inductive'
  <1>1. run[c].pc = "idle" \/ run[c].pc = "paging"
    BY Zenon DEF Start, FetchPage, FinishPaging, FailRequest
  <1>2. run[c].at = 1
    BY <1>1 DEF Inductive, PlacesAgree
  <1>3. RunsTyped
    BY DEF Inductive, TypeOK, RunsTyped
  <1>4. Moved(c) /\ run'[c].pc \in {"idle", "paging", "look"} /\ run'[c].at = 1
    BY <1>2, <1>3, CrawlPages
  <1>5. UNCHANGED <<site, counting, docs, rows, sent, pending>> /\ (Tick \/ events' = events)
    BY Zenon DEF Start, FetchPage, FinishPaging, FailRequest
  <1>6. events' \in events .. MaxEvents
    <2>1. TypeOK /\ events \in 0 .. MaxEvents
      BY DEF Inductive, TypeOK
    <2> QED  BY <1>5, <2>1, TickEffect, CrawlAssumption
  <1>7. pending' = [pending EXCEPT ![c] = None]
    BY <1>1, <1>5, NothingInserted
  <1>8. sent' \subseteq docs
    BY <1>5 DEF Inductive, TypeOK
  <1>9. 1 .. (run'[c].at - 1) = {}
    BY <1>4
  <1> QED  BY <1>4, <1>5, <1>6, <1>7, <1>8, <1>9, NoCommitKeeps

LEMMA LookUpKeeps ==
    ASSUME Inductive, NEW c \in Crawlers, LookUpUrl(c) \/ LookUpNumber(c)
    PROVE  Inductive'
  <1>1. /\ run[c].at <= Len(run[c].found) /\ run[c].pc \in {"look", "number"}
        /\ UNCHANGED <<site, counting, docs, rows, sent, pending, events>>
    BY DEF LookUpUrl, LookUpNumber, At
  <1>2. RunsTyped /\ TypeOK
    BY DEF Inductive, TypeOK, RunsTyped
  <1>3. /\ pending' = [pending EXCEPT ![c] = None]
        /\ sent' \subseteq docs /\ events' \in events .. MaxEvents
    <2>1. events \in 0 .. MaxEvents /\ sent \subseteq docs
      BY <1>2 DEF TypeOK
    <2>2. pending = [pending EXCEPT ![c] = None]
      BY <1>1, NothingInserted
    <2>3. events \in events .. MaxEvents
      BY <2>1, CrawlAssumption
    <2> QED  BY <1>1, <2>1, <2>2, <2>3
  <1>4. CASE NextEntry(c) /\ \E d \in docs : Clashes(Entry(c), d)
    <2>1. /\ Moved(c) /\ run'[c].pc = "look" /\ run'[c].at = run[c].at + 1
          /\ run'[c].found = run[c].found /\ run'[c].warned = run[c].warned
      BY <1>1, <1>2, <1>4, NextEntryEffect
    <2>2. \A k \in 1 .. (run'[c].at - 1) :
             \/ run'[c].found[k] \in run'[c].warned
             \/ \E d \in docs : Clashes(run'[c].found[k], d)
      BY <1>1, <1>4, <2>1, LeavingAnEntry
    <2> QED  BY <1>1, <1>3, <2>1, <2>2, NoCommitKeeps
  <1>5. CASE \E pc \in {"number", "insert"} : GoTo(c, pc)
    <2>1. /\ Moved(c) /\ run'[c].pc \in {"number", "insert"} /\ run'[c].at = run[c].at
          /\ run'[c].found = run[c].found /\ run'[c].warned = run[c].warned
      BY <1>2, <1>5, GoToEffect
    <2>2. \A k \in 1 .. (run'[c].at - 1) :
             \/ run'[c].found[k] \in run'[c].warned
             \/ \E d \in docs : Clashes(run'[c].found[k], d)
      BY <2>1 DEF Inductive, PastIsStored
    <2> QED  BY <1>1, <1>3, <2>1, <2>2, NoCommitKeeps
  <1> QED  BY <1>4, <1>5 DEF LookUpUrl, LookUpNumber, Clashes

LEMMA InsertKeeps ==
    ASSUME Inductive, NEW c \in Crawlers, Insert(c)
    PROVE  Inductive'
  <1>1. /\ run[c].at <= Len(run[c].found) /\ run[c].pc = "insert"
        /\ UNCHANGED <<site, counting, docs, rows, sent, events>>
    BY DEF Insert, At
  <1>2. RunsTyped /\ TypeOK /\ events \in 0 .. MaxEvents /\ sent \subseteq docs
    BY DEF Inductive, TypeOK, RunsTyped
  <1>3. CASE \E d \in docs : Clashes(Entry(c), d)
    <2>1. pending' = [pending EXCEPT ![c] = None] /\ NextEntry(c)
      BY <1>3 DEF Insert
    <2>2. /\ Moved(c) /\ run'[c].pc = "look" /\ run'[c].at = run[c].at + 1
          /\ run'[c].found = run[c].found /\ run'[c].warned = run[c].warned
      BY <1>1, <1>2, <2>1, NextEntryEffect
    <2>3. \A k \in 1 .. (run'[c].at - 1) :
             \/ run'[c].found[k] \in run'[c].warned
             \/ \E d \in docs : Clashes(run'[c].found[k], d)
      BY <1>1, <1>3, <2>2, LeavingAnEntry
    <2>4. events' \in events .. MaxEvents
      BY <1>1, <1>2, CrawlAssumption
    <2> QED  BY <1>1, <1>2, <2>1, <2>2, <2>3, <2>4, NoCommitKeeps
  <1>4. CASE ~\E d \in docs : Clashes(Entry(c), d)
    <2>1. /\ pending' = [pending EXCEPT ![c] = Entry(c)] /\ GoTo(c, "commit")
          /\ \A o \in Crawlers \ {c} : pending[o] # None => ~Clashes(Entry(c), pending[o])
      BY <1>4 DEF Insert
    <2>2. /\ Moved(c) /\ run'[c].pc = "commit" /\ run'[c].at = run[c].at
          /\ run'[c].found = run[c].found /\ run'[c].warned = run[c].warned
      BY <1>2, <2>1, GoToEffect
    <2>3. Entry(c) \in Ids /\ Entry(c) # None
      BY <1>1, AtAnEntry, CrawlAssumption
    <2>4. /\ pending' \in [Crawlers -> Ids \cup {None}] /\ pending'[c] = Entry(c)
          /\ \A o \in Crawlers \ {c} : pending'[o] = pending[o] /\ run'[o] = run[o]
      BY <1>2, <2>1, <2>2, <2>3 DEF TypeOK, Moved
    <2>5. TypeOK'
      BY <1>1, <1>2, <2>2, <2>4 DEF TypeOK, Moved, RunsTyped
    <2>6. PlacesAgree'
      <3>1. run'[c].found[run'[c].at] = Entry(c) /\ run'[c].at <= Len(run'[c].found)
        BY <1>1, <2>2 DEF Entry
      <3>2. \A o \in Crawlers \ {c} :
               /\ run[o].pc \in {"idle", "paging"} => run[o].at = 1
               /\ run[o].pc \in {"number", "insert", "commit", "publish"} =>
                     run[o].at <= Len(run[o].found)
               /\ pending[o] = IF run[o].pc = "commit" THEN run[o].found[run[o].at] ELSE None
               /\ run[o].pc = "publish" => run[o].found[run[o].at] \in docs
        BY DEF Inductive, PlacesAgree, Entry
      <3> QED  BY <1>1, <2>2, <2>4, <3>1, <3>2 DEF PlacesAgree, Entry
    <2>7. KeysHold' /\ RowsTogether'
      <3>1. \A i, j : Clashes(i, j) <=> Clashes(j, i)
        BY DEF Clashes, SameNumber
      <3>2. /\ \A d \in docs : ~Clashes(Entry(c), d)
            /\ \A o \in Crawlers \ {c} : pending[o] # None => ~Clashes(pending[o], Entry(c))
        BY <1>4, <2>1, <3>1
      <3>3. KeysHold'
        <4>1. \A o \in Crawlers \ {c} : pending[o] # None =>
                 /\ \A d \in docs : ~Clashes(pending[o], d)
                 /\ \A p \in Crawlers \ {o} : pending[p] # None => ~Clashes(pending[o], pending[p])
          BY DEF Inductive, KeysHold
        <4>2. \A d, e \in docs : Clashes(d, e) => d = e
          BY DEF Inductive, KeysHold
        <4> HIDE DEF Entry, Clashes
        <4>3. \A o \in Crawlers : pending'[o] # None =>
                 /\ \A d \in docs : ~Clashes(pending'[o], d)
                 /\ \A p \in Crawlers \ {o} :
                       pending'[p] # None => ~Clashes(pending'[o], pending'[p])
          BY <2>1, <2>3, <2>4, <3>2, <4>1
        <4> QED  BY <1>1, <4>2, <4>3 DEF KeysHold, Clashes, SameNumber
      <3> QED  BY <1>1, <3>3 DEF Inductive, RowsTogether, RowsFor
    <2>8. PastIsStored'
      BY <1>1, <2>2, <2>4 DEF Inductive, PastIsStored, Clashes, SameNumber
    <2> QED  BY <2>5, <2>6, <2>7, <2>8 DEF Inductive
  <1> QED  BY <1>3, <1>4

LEMMA CommitKeeps ==
    ASSUME Inductive, NEW c \in Crawlers, Commit(c)
    PROVE  Inductive'
  <1>1. /\ run[c].at <= Len(run[c].found) /\ run[c].pc = "commit"
        /\ UNCHANGED <<site, counting, sent, events>>
        /\ docs' = docs \cup {pending[c]} /\ rows' = rows \cup RowsFor(pending[c])
        /\ pending' = [pending EXCEPT ![c] = None] /\ GoTo(c, "publish")
    BY DEF Commit, At
  <1>2. RunsTyped /\ TypeOK
    BY DEF Inductive, TypeOK, RunsTyped
  <1>3. pending[c] = Entry(c) /\ Entry(c) \in Ids /\ Entry(c) # None
    BY <1>1, AtAnEntry, CrawlAssumption DEF Inductive, PlacesAgree
  <1>4. /\ Moved(c) /\ run'[c].pc = "publish" /\ run'[c].at = run[c].at
        /\ run'[c].found = run[c].found /\ run'[c].warned = run[c].warned
    BY <1>1, <1>2, GoToEffect
  <1>5. /\ pending' \in [Crawlers -> Ids \cup {None}] /\ pending'[c] = None
        /\ \A o \in Crawlers \ {c} : pending'[o] = pending[o] /\ run'[o] = run[o]
    BY <1>1, <1>2, <1>4 DEF TypeOK, Moved
  <1>6. TypeOK'
    <2>1. rows' \subseteq Ids \X {"crawl", "download"} \X {"completed", "pending"}
      BY <1>1, <1>2, <1>3 DEF TypeOK, RowsFor
    <2>2. docs' \subseteq Ids /\ sent' \subseteq docs'
      BY <1>1, <1>2, <1>3 DEF TypeOK
    <2> QED  BY <1>1, <1>2, <1>4, <1>5, <2>1, <2>2 DEF TypeOK, Moved, RunsTyped
  <1>7. PlacesAgree'
    <2>1. run'[c].found[run'[c].at] \in docs' /\ run'[c].at <= Len(run'[c].found)
      BY <1>1, <1>3, <1>4 DEF Entry
    <2>2. \A o \in Crawlers \ {c} :
             /\ run[o].pc \in {"idle", "paging"} => run[o].at = 1
             /\ run[o].pc \in {"number", "insert", "commit", "publish"} =>
                   run[o].at <= Len(run[o].found)
             /\ pending[o] = IF run[o].pc = "commit" THEN run[o].found[run[o].at] ELSE None
             /\ run[o].pc = "publish" => run[o].found[run[o].at] \in docs'
      BY <1>1 DEF Inductive, PlacesAgree, Entry
    <2> QED  BY <1>4, <1>5, <2>1, <2>2 DEF PlacesAgree, Entry
  <1>8. KeysHold'
    <2>1. \A i, j : Clashes(i, j) <=> Clashes(j, i)
      BY DEF Clashes, SameNumber
    <2>2. /\ \A d \in docs : ~Clashes(pending[c], d) /\ ~Clashes(d, pending[c])
          /\ \A o \in Crawlers \ {c} : pending[o] # None =>
                ~Clashes(pending[c], pending[o]) /\ ~Clashes(pending[o], pending[c])
      BY <1>3, <2>1 DEF Inductive, KeysHold
    <2>3. \A d, e \in docs : Clashes(d, e) => d = e
      BY DEF Inductive, KeysHold
    <2>4. \A o \in Crawlers \ {c} : pending[o] # None =>
             /\ \A d \in docs : ~Clashes(pending[o], d)
             /\ \A p \in Crawlers \ {o} : pending[p] # None => ~Clashes(pending[o], pending[p])
      BY DEF Inductive, KeysHold
    <2> HIDE DEF Clashes
    <2>5. \A d, e \in docs' : Clashes(d, e) => d = e
      BY <1>1, <2>2, <2>3
    <2>6. \A o \in Crawlers : pending'[o] # None =>
             /\ \A d \in docs' : ~Clashes(pending'[o], d)
             /\ \A p \in Crawlers \ {o} : pending'[p] # None => ~Clashes(pending'[o], pending'[p])
      BY <1>1, <1>5, <2>2, <2>4
    <2> QED  BY <2>5, <2>6 DEF KeysHold, Clashes, SameNumber
  <1>9. RowsTogether'
    <2>1. \A d \in docs : RowsFor(d) \subseteq rows
      BY DEF Inductive, RowsTogether
    <2> HIDE DEF RowsFor
    <2>2. \A d \in docs' : RowsFor(d) \subseteq rows'
      BY <1>1, <2>1
    <2> QED  BY Zenon, <2>2 DEF RowsTogether, RowsFor
  <1>10. PastIsStored'
    <2>1. \A o \in Crawlers :
             /\ run'[o].at = run[o].at /\ run'[o].found = run[o].found
             /\ run'[o].warned = run[o].warned
      BY <1>4, <1>5
    <2>2. docs \subseteq docs'
      BY <1>1
    <2> QED  BY <2>1, <2>2 DEF Inductive, PastIsStored, Clashes, SameNumber
  <1> QED  BY <1>6, <1>7, <1>8, <1>9, <1>10 DEF Inductive

LEMMA PublishTaskKeeps ==
    ASSUME Inductive, NEW c \in Crawlers, PublishTask(c)
    PROVE  Inductive'
  <1>1. /\ run[c].at <= Len(run[c].found) /\ run[c].pc = "publish"
        /\ UNCHANGED <<site, counting, docs, rows, pending, events>>
        /\ sent' = sent \cup {Entry(c)} /\ NextEntry(c)
    BY DEF PublishTask, At
  <1>2. RunsTyped /\ TypeOK /\ events \in 0 .. MaxEvents /\ sent \subseteq docs
    BY DEF Inductive, TypeOK, RunsTyped
  <1>3. Entry(c) \in docs
    BY <1>1 DEF Inductive, PlacesAgree
  <1>4. /\ Moved(c) /\ run'[c].pc = "look" /\ run'[c].at = run[c].at + 1
        /\ run'[c].found = run[c].found /\ run'[c].warned = run[c].warned
    BY <1>1, <1>2, NextEntryEffect
  <1>5. \A k \in 1 .. (run'[c].at - 1) :
           \/ run'[c].found[k] \in run'[c].warned
           \/ \E d \in docs : Clashes(run'[c].found[k], d)
    <2>1. \E d \in docs : Clashes(Entry(c), d)
      BY <1>3 DEF Clashes
    <2> QED  BY <1>1, <1>4, <2>1, LeavingAnEntry
  <1>6. sent' \subseteq docs /\ events' \in events .. MaxEvents
    BY <1>1, <1>2, <1>3, CrawlAssumption
  <1>7. pending' = [pending EXCEPT ![c] = None]
    BY <1>1, NothingInserted
  <1> QED  BY <1>1, <1>4, <1>5, <1>6, <1>7, NoCommitKeeps

LEMMA FailEntryKeeps ==
    ASSUME Inductive, NEW c \in Crawlers, FailEntry(c)
    PROVE  Inductive'
  <1>1. /\ run[c].at <= Len(run[c].found) /\ Tick
        /\ UNCHANGED <<site, counting, docs, rows, sent>>
        /\ pending' = [pending EXCEPT ![c] = None]
    BY DEF FailEntry
  <1>2. RunsTyped /\ TypeOK /\ sent \subseteq docs
    BY DEF Inductive, TypeOK, RunsTyped
  <1>3. /\ Moved(c) /\ run'[c].pc = "look" /\ run'[c].at = run[c].at + 1
        /\ run'[c].found = run[c].found
        /\ run'[c].warned = run[c].warned \cup {Entry(c)}
    BY <1>2, FailEntryEffect
  <1>4. \A k \in 1 .. (run'[c].at - 1) :
           \/ run'[c].found[k] \in run'[c].warned
           \/ \E d \in docs : Clashes(run'[c].found[k], d)
    <2>1. run[c].warned \subseteq run'[c].warned /\ Entry(c) \in run'[c].warned
      BY <1>3
    <2> QED  BY <1>1, <1>3, <2>1, LeavingAnEntry
  <1>5. events' \in events .. MaxEvents
    BY <1>1, <1>2, TickEffect
  <1> QED  BY <1>1, <1>2, <1>3, <1>4, <1>5, NoCommitKeeps

LEMMA ClosingKeeps ==
    ASSUME Inductive, NEW c \in Crawlers, End(c) \/ Die(c)
    PROVE  Inductive'
  <1>1. RunsTyped /\ TypeOK /\ sent \subseteq docs /\ events \in 0 .. MaxEvents
    BY DEF Inductive, TypeOK, RunsTyped
  <1>2. Moved(c) /\ run'[c].pc = "idle" /\ run'[c].at = 1
    BY <1>1, ClosedRunEffect, IdleIsRun
  <1>3. UNCHANGED <<site, counting, docs, rows, sent>>
    BY DEF End, Die
  <1>4. pending' = [pending EXCEPT ![c] = None]
    <2>1. CASE End(c)
      <3>1. run[c].pc = "look" /\ pending' = pending
        BY <2>1 DEF End
      <3> QED  BY <3>1, NothingInserted
    <2>2. CASE Die(c)
      BY <2>2 DEF Die
    <2> QED  BY <2>1, <2>2
  <1>5. events' \in events .. MaxEvents
    <2>1. Tick \/ events' = events
      BY DEF End, Die
    <2> QED  BY <1>1, <2>1, TickEffect, CrawlAssumption
  <1>6. 1 .. (run'[c].at - 1) = {}
    BY <1>2
  <1> QED  BY <1>1, <1>2, <1>3, <1>4, <1>5, <1>6, NoCommitKeeps

LEMMA InitInductive ==
    Init => Inductive
  <1> SUFFICES ASSUME Init
               PROVE  Inductive
    OBVIOUS
  <1>1. \A c \in Crawlers :
           /\ run[c] \in Runs /\ run[c].pc = "idle" /\ run[c].at = 1
           /\ run[c].at <= Len(run[c].found) + 1 /\ pending[c] = None
    BY IdleIsRun DEF Init
  <1>2. TypeOK
    <2>1. site \in [Ids -> 0 .. (Cardinality(Ids) + events)]
      <3>1. Cardinality(Ids) + events = Cardinality(Ids)
        BY CrawlAssumption, FS_CardinalityType DEF Init
      <3>2. site \in [Ids -> 0 .. Cardinality(Ids)]
        BY CrawlAssumption DEF Init
      <3> QED  BY <3>1, <3>2
    <2>2. run \in [Crawlers -> Runs]
      <3> HIDE DEF Runs
      <3> QED  BY <1>1 DEF Init
    <2>3. pending \in [Crawlers -> Ids \cup {None}]
      BY DEF Init
    <2>4. events \in 0 .. MaxEvents
      BY CrawlAssumption DEF Init
    <2> QED  BY <1>1, <2>1, <2>2, <2>3, <2>4 DEF Init, TypeOK
  <1>3. PlacesAgree /\ KeysHold /\ RowsTogether
    BY <1>1 DEF Init, PlacesAgree, KeysHold, RowsTogether
  <1>4. PastIsStored
    <2>1. \A c \in Crawlers : 1 .. (run[c].at - 1) = {}
      BY <1>1
    <2> QED  BY <2>1 DEF PastIsStored
  <1> QED  BY <1>2, <1>3, <1>4 DEF Inductive

LEMMA StepInductive ==
    Inductive /\ [Next]_vars => Inductive'
  <1> SUFFICES ASSUME Inductive, [Next]_vars
               PROVE  Inductive'
    OBVIOUS
  <1>1. ASSUME NEW i \in Ids, Publish(i) \/ Withdraw(i)
        PROVE  Inductive'
    BY <1>1, ListingChangeKeeps
  <1>2. ASSUME NEW c \in Crawlers, Crawling(c)
        PROVE  Inductive'
    <2>1. CASE \/ \E spec \in Specs : Start(c, spec)
               \/ FetchPage(c) \/ FinishPaging(c)
               \/ \E refused \in BOOLEAN : FailRequest(c, refused)
      BY <2>1, PagingKeeps
    <2>2. CASE LookUpUrl(c) \/ LookUpNumber(c)
      BY <2>2, LookUpKeeps
    <2>3. CASE Insert(c)
      BY <2>3, InsertKeeps
    <2>4. CASE Commit(c)
      BY <2>4, CommitKeeps
    <2>5. CASE PublishTask(c)
      BY <2>5, PublishTaskKeeps
    <2>6. CASE FailEntry(c)
      BY <2>6, FailEntryKeeps
    <2>7. CASE End(c) \/ Die(c)
      BY <2>7, ClosingKeeps
    <2> QED  BY Zenon, <1>2, <2>1, <2>2, <2>3, <2>4, <2>5, <2>6, <2>7 DEF Crawling
  <1>3. CASE UNCHANGED vars
    BY <1>3 DEF vars, Inductive, TypeOK, PlacesAgree, KeysHold, RowsTogether, PastIsStored,
                Entry, Clashes, SameNumber, RowsFor
  <1> QED  BY <1>1, <1>2, <1>3 DEF Next

(***************************************************************************)
(* What a crawl counts.  The entries the first page's count is about can   *)
(* only become fewer; any other entry listed since is newer than all of    *)
(* them, and so comes after them in no order the server can page in.       *)
(***************************************************************************)
Counted(r, first) ==
    /\ r.total = Cardinality(first)
    /\ r.stayed \subseteq first
    /\ Listed(r.tags) \subseteq first \cup r.new
    /\ Cardinality(r.new) <= PageSize => ToSet(r.found) \subseteq first
    /\ r.pc # "paging" /\ ~r.short => r.total <= Len(r.found)

NewerThanOthers(new) ==
    \A i \in new, j \in Ids \ new : site[i] > 0 => site[i] > site[j]

Counts(r) ==
    /\ NoneTwice(r.found)
    /\ r.pc = "paging" /\ r.page = 0 => r.total = None /\ r.found = <<>>
    /\ r.pc # "paging" \/ r.page # 0 =>
          /\ NewerThanOthers(r.new)
          /\ \E first \in SUBSET Ids : Counted(r, first)

CountsHold == counting => \A c \in Crawlers : run[c].pc # "idle" => Counts(run[c])

\* A crawl that neither collects nor ends its paging keeps what it counted.
LEMMA KeepsCounting ==
    ASSUME NEW c \in Crawlers, Counts(run[c]), SameListing(run[c], run'[c]),
           run[c].pc = "paging" <=> run'[c].pc = "paging", UNCHANGED site
    PROVE  Counts(run[c])'
  BY DEF Counts, SameListing, SameCount, Counted, NewerThanOthers, Listed

\* Where only one crawl moves, the others keep what they counted.
LEMMA OthersKeepCounting ==
    ASSUME CountsHold, NEW c \in Crawlers, Moved(c), UNCHANGED <<site, counting>>,
           counting /\ run'[c].pc # "idle" => Counts(run[c])'
    PROVE  CountsHold'
  <1>1. ASSUME counting, NEW d \in Crawlers \ {c}, run'[d].pc # "idle"
        PROVE  Counts(run[d])'
    <2>1. run'[d] = run[d] /\ Counts(run[d])
      BY <1>1 DEF Moved, CountsHold
    <2> QED  BY <2>1 DEF Counts, Counted, NewerThanOthers, Listed
  <1> QED  BY <1>1 DEF CountsHold

\* What is published is newer than everything else, and new to every crawl.
LEMMA ListingChangeCounts ==
    ASSUME Inductive, CountsHold, NEW i \in Ids, Publish(i) \/ Withdraw(i)
    PROVE  CountsHold'
  <1> SUFFICES ASSUME counting, NEW c \in Crawlers, run'[c].pc # "idle"
               PROVE  Counts(run[c])'
    <2>1. counting' = counting
      BY DEF Publish, Withdraw
    <2> QED  BY <2>1 DEF CountsHold
  <1> DEFINE r == run[c]
             s == run'[c]
  <1>1. /\ s.pc = r.pc /\ SameCount(r, s) /\ s.stayed \subseteq r.stayed
        /\ s.new = IF Publish(i) THEN r.new \cup {i} ELSE r.new
    BY SiteChanges DEF Inductive, TypeOK, RunsTyped
  <1>2. r.new \in SUBSET Ids /\ IsFiniteSet(r.new) /\ IsFiniteSet(s.new)
    <2>1. r.new \in SUBSET Ids
      BY DEF Inductive, TypeOK, Runs
    <2>2. s.new \in SUBSET Ids
      BY <1>1, <2>1
    <2> QED  BY <2>1, <2>2, CrawlAssumption, FS_Subset
  <1>3. Counts(r)
    BY <1>1 DEF CountsHold
  <1>4. \A j \in Ids : site[j] \in Nat
    <2>1. Cardinality(Ids) \in Nat /\ events \in Nat
      BY CrawlAssumption, FS_CardinalityType DEF Inductive, TypeOK
    <2> QED  BY <2>1 DEF Inductive, TypeOK
  <1>5. site' = [site EXCEPT ![i] = IF Publish(i) THEN Newest + 1 ELSE 0]
    <2>1. Publish(i) => site' = [site EXCEPT ![i] = Newest + 1]
      BY DEF Publish
    <2>2. ~Publish(i) => site' = [site EXCEPT ![i] = 0]
      BY DEF Withdraw
    <2> HIDE DEF Newest
    <2> QED  BY <2>1, <2>2
  <1>6. \A j \in Ids : site'[j] = IF j = i THEN (IF Publish(i) THEN Newest + 1 ELSE 0)
                                          ELSE site[j]
    <2> HIDE DEF Newest
    <2> QED  BY <1>5 DEF Inductive, TypeOK
  <1>7. Newest \in Nat /\ \A j \in Ids : site[j] <= Newest
    <2>1. Newest \in 0 .. (Cardinality(Ids) + events) /\ \A j \in Ids : site[j] <= Newest
      BY NewestIsADate DEF Inductive
    <2> QED  BY <2>1
  <1> HIDE DEF Newest
  <1>8. r.pc # "paging" \/ r.page # 0 => NewerThanOthers(run[c].new)'
    <2> SUFFICES ASSUME NewerThanOthers(r.new), NEW a \in s.new, NEW b \in Ids \ s.new,
                        site'[a] > 0
                 PROVE  site'[a] > site'[b]
      BY <1>3 DEF Counts, NewerThanOthers
    <2>1. a \in Ids /\ b \notin r.new
      BY <1>1, <1>2
    <2>2. CASE Publish(i)
      <3>1. b # i /\ site'[b] = site[b]
        BY <1>1, <1>6, <2>2
      <3>2. CASE a = i
        <4>1. site'[a] = Newest + 1 /\ site[b] \in Nat /\ site[b] <= Newest
          BY <1>4, <1>6, <1>7, <2>1, <2>2, <3>2
        <4> QED  BY <1>7, <3>1, <4>1
      <3>3. CASE a # i
        <4>1. a \in r.new /\ site'[a] = site[a]
          BY <1>1, <1>6, <2>1, <2>2, <3>3
        <4> QED  BY <2>1, <3>1, <4>1 DEF NewerThanOthers
      <3> QED  BY <3>2, <3>3
    <2>3. CASE ~Publish(i)
      <3>1. a # i /\ a \in r.new /\ site'[a] = site[a]
        BY <1>1, <1>6, <2>1, <2>3
      <3>2. site[a] > site[b] /\ site[a] > 0
        BY <2>1, <3>1 DEF NewerThanOthers
      <3>3. site'[b] = site[b] \/ site'[b] = 0
        BY <1>6, <2>3
      <3> QED  BY <3>1, <3>2, <3>3
    <2> QED  BY <2>2, <2>3
  <1>9. r.pc # "paging" \/ r.page # 0 => \E first \in SUBSET Ids : Counted(run[c], first)'
    <2> SUFFICES ASSUME NEW first \in SUBSET Ids, Counted(r, first)
                 PROVE  Counted(run[c], first)'
      BY <1>3 DEF Counts
    <2>1. Listed(run[c].tags)' \subseteq first \cup s.new
      <3> SUFFICES ASSUME NEW j \in Ids, site'[j] > 0, TagOf[j] \in s.tags
                   PROVE  j \in first \cup s.new
        BY DEF Listed
      <3>1. CASE j = i
        BY <1>1, <1>6, <3>1
      <3>2. CASE j # i
        <4>1. j \in Listed(r.tags)
          BY <1>1, <1>6, <3>2 DEF Listed, SameCount
        <4> QED  BY <1>1, <4>1 DEF Counted
      <3> QED  BY <3>1, <3>2
    <2>2. Cardinality(r.new) <= Cardinality(s.new) /\ Cardinality(r.new) \in Nat
          /\ Cardinality(s.new) \in Nat
      <3>1. r.new \in SUBSET s.new
        BY <1>1
      <3> QED  BY <1>2, <3>1, FS_Subset, FS_CardinalityType
    <2>3. Cardinality(s.new) <= PageSize => ToSet(s.found) \subseteq first
      BY <1>1, <2>2, CrawlAssumption DEF Counted, SameCount
    <2> QED  BY <1>1, <2>1, <2>3 DEF Counted, SameCount
  <1> QED  BY <1>1, <1>3, <1>8, <1>9 DEF Counts, SameCount

\* A page reaches an entry that is newer than the first page's only when a page
\* of still newer ones came before it.
LEMMA NewEntryComesLate ==
    ASSUME Inductive, NEW tags, NEW n \in Nat, NEW page \in Served(tags, n * PageSize),
           page # <<>>, NEW first, NEW new \in SUBSET Ids,
           Listed(tags) \subseteq first \cup new, NewerThanOthers(new),
           n = 0 => new = {}, Cardinality(new) <= PageSize
    PROVE  ToSet(page) \subseteq first
  <1> SUFFICES ASSUME NEW y \in ToSet(page), y \notin first
               PROVE  FALSE
    OBVIOUS
  <1>1. PICK before \in SUBSET Listed(tags) :
           /\ Cardinality(before) = n * PageSize
           /\ before \cap ToSet(page) = {}
           /\ NotOlder(before, ToSet(page))
    BY PageFollowsSkipped
  <1>2. y \in Listed(tags) /\ y \in new /\ y \notin before
    BY <1>1, PageFollowsSkipped
  <1>3. y \in Ids /\ site[y] > 0 /\ before \subseteq Ids
    BY <1>2 DEF Listed
  <1>4. \A j \in Ids : site[j] \in Nat
    <2>1. Cardinality(Ids) \in Nat /\ events \in Nat
      BY CrawlAssumption, FS_CardinalityType DEF Inductive, TypeOK
    <2> QED  BY <2>1 DEF Inductive, TypeOK
  <1>5. before \subseteq new
    <2> SUFFICES ASSUME NEW b \in before, b \notin new
                 PROVE  FALSE
      OBVIOUS
    <2>1. site[b] >= site[y] /\ b \in Ids
      BY <1>1, <1>3 DEF NotOlder
    <2>2. site[y] > site[b]
      BY <1>2, <1>3, <2>1 DEF NewerThanOthers
    <2> QED  BY <1>3, <1>4, <2>1, <2>2
  <1>6. /\ IsFiniteSet(new) /\ Cardinality(new) \in Nat
        /\ IsFiniteSet(before) /\ Cardinality(before) \in Nat
    <2>1. before \in SUBSET Ids
      BY <1>3
    <2> QED  BY <2>1, CrawlAssumption, FS_Subset, FS_CardinalityType
  <1>7. Cardinality(before \cup {y}) = Cardinality(before) + 1
    BY <1>2, <1>6, FS_AddElement
  <1>8. Cardinality(before \cup {y}) <= Cardinality(new)
    <2>1. before \cup {y} \in SUBSET new
      BY <1>2, <1>5
    <2> QED  BY <1>6, <2>1, FS_Subset
  <1>9. n # 0 /\ PageSize \in Nat
    BY <1>2, CrawlAssumption
  <1>10. n * PageSize >= PageSize
    <2>1. n - 1 \in Nat /\ n * PageSize = (n - 1) * PageSize + PageSize
      BY <1>9
    <2>2. (n - 1) * PageSize \in Nat
      BY <1>9, <2>1
    <2> QED  BY <1>9, <2>1, <2>2
  <1> QED  BY <1>1, <1>6, <1>7, <1>8, <1>9, <1>10

LEMMA FetchPageCounts ==
    ASSUME Inductive, CountsHold, counting, NEW c \in Crawlers, FetchPage(c)
    PROVE  Counts(run[c])'
  <1> DEFINE r == run[c]
             tags == run[c].tags
             total == IF run[c].total = None /\ counting
                      THEN Cardinality(Listed(tags)) ELSE run[c].total
             stayed == IF run[c].page = 0 THEN Listed(tags) ELSE run[c].stayed
             new == IF run[c].page = 0 THEN {} ELSE run[c].new
             asked == [run[c] EXCEPT !.tries = 0, !.total = total, !.stayed = stayed,
                                     !.new = new]
  <1>1. PICK page \in Served(tags, run[c].page * PageSize) :
           run' = [run EXCEPT ![c] =
              IF page = <<>> THEN EndFetch(asked)
              ELSE [asked EXCEPT !.found = Collect(@, page), !.page = @ + 1]]
    BY DEF FetchPage
  <1>2. /\ r \in Runs /\ r.pc = "paging" /\ r.page \in Nat /\ r.found \in Seq(Ids)
        /\ Counts(r) /\ site' = site
    BY DEF FetchPage, CountsHold, Inductive, TypeOK, Runs
  <1>3. Listed(tags) \in SUBSET Ids /\ Cardinality(Listed(tags)) \in Nat
    <2>1. Listed(tags) \in SUBSET Ids
      BY DEF Listed
    <2> QED  BY <2>1, CrawlAssumption, FS_Subset, FS_CardinalityType
  <1>4. \A first \in SUBSET Ids : Cardinality(first) \in Nat /\ Cardinality(first) # None
    BY CrawlAssumption, FS_Subset, FS_CardinalityType
  <1>5. PICK first \in SUBSET Ids :
           /\ total = Cardinality(first) /\ stayed \subseteq first
           /\ Listed(tags) \subseteq first \cup new
           /\ Cardinality(new) <= PageSize => ToSet(r.found) \subseteq first
           /\ NewerThanOthers(new)
    <2>1. CASE r.page = 0
      <3>1. r.total = None /\ r.found = <<>>
        BY <1>2, <2>1 DEF Counts
      <3>2. ToSet(<<>>) = {}
        BY DEF ToSet
      <3>3. NewerThanOthers({})
        BY DEF NewerThanOthers
      <3> QED  BY <1>3, <2>1, <3>1, <3>2, <3>3
    <2>2. CASE r.page # 0
      <3>1. NewerThanOthers(r.new) /\ \E first \in SUBSET Ids : Counted(r, first)
        BY <1>2, <2>2 DEF Counts
      <3>2. new = r.new /\ stayed = r.stayed
        BY <2>2
      <3>3. PICK first \in SUBSET Ids : Counted(r, first)
        BY <3>1
      <3>4. total = r.total
        BY <1>4, <3>3 DEF Counted
      <3> HIDE DEF total, stayed, new
      <3> QED  BY <3>1, <3>2, <3>3, <3>4 DEF Counted
    <2> QED  BY <2>1, <2>2
  <1>6. total \in Nat /\ total # None /\ new \in SUBSET Ids /\ stayed \in SUBSET Ids
    <2>1. r.new \in SUBSET Ids /\ r.stayed \in SUBSET Ids
      BY <1>2 DEF Runs
    <2>2. new \in SUBSET Ids /\ stayed \in SUBSET Ids
      BY <1>3, <2>1
    <2> HIDE DEF total, new, stayed
    <2> QED  BY <1>4, <1>5, <2>2
  <1>7. r.page = 0 => new = {}
    OBVIOUS
  <1> HIDE DEF total, stayed, new
  <1>8. /\ asked \in Runs /\ asked.pc = "paging" /\ asked.page = r.page
        /\ asked.found = r.found /\ asked.tags = tags /\ asked.total = total
        /\ asked.stayed = stayed /\ asked.new = new
    BY <1>2, <1>6 DEF Runs
  <1> HIDE DEF asked
  <1>9. NoneTwice(r.found)
    BY <1>2 DEF Counts
  <1>10. run \in [Crawlers -> Runs]
    BY DEF Inductive, TypeOK
  <1>11. CASE page = <<>>
    <2>1. run'[c] = EndFetch(asked)
      <3> HIDE DEF Runs
      <3> QED  BY <1>1, <1>10, <1>11
    <2>2. /\ run'[c].pc = "look" /\ run'[c].found = r.found /\ run'[c].tags = tags
          /\ run'[c].total = total /\ run'[c].stayed = stayed /\ run'[c].new = new
          /\ ~run'[c].short => total <= Len(r.found)
      <3>1. Len(r.found) \in Nat
        BY <1>2, LenProperties
      <3> QED  BY <1>6, <1>8, <2>1, <3>1, EndFetchEffect
    <2>3. Counted(run[c], first)'
      BY <1>2, <1>5, <2>2 DEF Counted, Listed
    <2> QED  BY <1>2, <1>5, <1>9, <2>2, <2>3 DEF Counts, NewerThanOthers
  <1>12. CASE page # <<>>
    <2>1. run'[c] = [asked EXCEPT !.found = Collect(@, page), !.page = @ + 1]
      <3> HIDE DEF Runs
      <3> QED  BY <1>1, <1>10, <1>12
    <2>2. /\ run'[c].pc = "paging" /\ run'[c].found = Collect(r.found, page)
          /\ run'[c].tags = tags /\ run'[c].page = r.page + 1
          /\ run'[c].total = total /\ run'[c].stayed = stayed /\ run'[c].new = new
      BY <1>8, <2>1 DEF Runs
    <2>3. /\ NoneTwice(Collect(r.found, page))
          /\ ToSet(Collect(r.found, page)) \subseteq ToSet(r.found) \cup ToSet(page)
      BY <1>2, <1>9, ServedIsPage, CollectCollects
    <2>4. Cardinality(new) <= PageSize => ToSet(Collect(r.found, page)) \subseteq first
      <3> SUFFICES ASSUME Cardinality(new) <= PageSize
                   PROVE  ToSet(page) \subseteq first
        BY <1>5, <2>3
      <3> QED  BY <1>2, <1>5, <1>6, <1>7, <1>12, NewEntryComesLate
    <2>5. Counted(run[c], first)'
      BY <1>2, <1>5, <2>2, <2>4 DEF Counted, Listed
    <2>6. r.page + 1 # 0
      BY <1>2
    <2> QED  BY <1>2, <1>5, <2>2, <2>3, <2>5, <2>6 DEF Counts, NewerThanOthers
  <1> QED  BY <1>11, <1>12

\* Paging ends by the count, or by the cap, only after a first page.
LEMMA FinishPagingCounts ==
    ASSUME Inductive, CountsHold, counting, NEW c \in Crawlers, FinishPaging(c)
    PROVE  Counts(run[c])'
  <1> DEFINE r == run[c]
  <1>1. /\ r \in Runs /\ r.pc = "paging" /\ Counts(r) /\ ~MorePages(r)
        /\ site' = site /\ run' = [run EXCEPT ![c] = EndFetch(r)]
    BY DEF FinishPaging, CountsHold, Inductive, TypeOK
  <1>2. r.page # 0
    BY <1>1, CrawlAssumption DEF MorePages, Counts
  <1>3. PICK first \in SUBSET Ids : Counted(r, first)
    BY <1>1, <1>2 DEF Counts
  <1>4. run'[c] = EndFetch(r)
    <2>1. run \in [Crawlers -> Runs]
      BY DEF Inductive, TypeOK
    <2> HIDE DEF Runs
    <2> QED  BY <1>1, <2>1
  <1>5. /\ run'[c].pc = "look" /\ run'[c].found = r.found /\ run'[c].tags = r.tags
        /\ run'[c].total = r.total /\ run'[c].stayed = r.stayed /\ run'[c].new = r.new
        /\ ~run'[c].short => r.total <= Len(r.found)
    <2>1. r.total \in Nat /\ r.total # None
      <3>1. Cardinality(first) \in Nat
        BY CrawlAssumption, FS_Subset, FS_CardinalityType
      <3> QED  BY <1>3, <3>1, CrawlAssumption DEF Counted
    <2>2. Len(r.found) \in Nat
      BY <1>1, LenProperties DEF Runs
    <2> QED  BY <1>1, <1>4, <2>1, <2>2, EndFetchEffect
  <1>6. Counted(run[c], first)'
    BY <1>1, <1>3, <1>5 DEF Counted, Listed
  <1> QED  BY <1>1, <1>2, <1>5, <1>6 DEF Counts, NewerThanOthers

LEMMA InitCounts ==
    Init => CountsHold
  BY IdleIsRun DEF Init, CountsHold

LEMMA StepCounts ==
    Inductive /\ CountsHold /\ [Next]_vars => CountsHold'
  <1> SUFFICES ASSUME Inductive, CountsHold, [Next]_vars
               PROVE  CountsHold'
    OBVIOUS
  <1>0. RunsTyped /\ TypeOK /\ run \in [Crawlers -> Runs]
    BY DEF Inductive, TypeOK, RunsTyped
  <1>1. ASSUME NEW i \in Ids, Publish(i) \/ Withdraw(i)
        PROVE  CountsHold'
    BY <1>1, ListingChangeCounts
  <1>2. ASSUME NEW c \in Crawlers, Crawling(c)
        PROVE  CountsHold'
    <2>1. UNCHANGED <<site, counting>>
      BY Zenon, <1>2 DEF Crawling, Start, FetchPage, FinishPaging, FailRequest, LookUpUrl,
            LookUpNumber, Insert, Commit, PublishTask, FailEntry, End, Die
    <2>2. ASSUME NEW spec \in Specs, Start(c, spec)
          PROVE  CountsHold'
      <3>1. Moved(c)
        BY <1>0, <2>2, CrawlPages DEF Inductive, PlacesAgree, Start
      <3> DEFINE tags == SelectTagIds(ResolveYears(spec))
      <3>2. \/ run' = [run EXCEPT ![c] = Idle]
            \/ run' = [run EXCEPT ![c] = [Idle EXCEPT !.pc = "paging", !.tags = tags]]
        BY <2>2 DEF Start
      <3> HIDE DEF tags
      <3>3. \/ run'[c].pc = "idle"
            \/ /\ run'[c].pc = "paging" /\ run'[c].page = 0
               /\ run'[c].total = None /\ run'[c].found = <<>>
        <4>1. run'[c] = Idle \/ run'[c] = [Idle EXCEPT !.pc = "paging", !.tags = tags]
          <5> HIDE DEF Runs, Idle
          <5> QED  BY <1>0, <3>2
        <4> DEFINE begun == [Idle EXCEPT !.pc = "paging", !.tags = tags]
        <4>2. begun.pc = "paging" /\ begun.page = 0 /\ begun.total = None /\ begun.found = <<>>
          BY DEF Idle
        <4> HIDE DEF begun
        <4> QED  BY <4>1, <4>2, IdleIsRun DEF begun
      <3>4. run'[c].pc # "idle" => Counts(run[c])'
        BY <3>3 DEF Counts, NoneTwice
      <3> QED  BY <2>1, <3>1, <3>4, OthersKeepCounting
    <2>3. CASE FetchPage(c) \/ FinishPaging(c)
      <3>1. run[c].at = 1
        BY <2>3 DEF FetchPage, FinishPaging, Inductive, PlacesAgree
      <3>2. Moved(c)
        BY <1>0, <2>3, <3>1, CrawlPages
      <3>3. counting => Counts(run[c])'
        BY <2>3, FetchPageCounts, FinishPagingCounts
      <3> QED  BY <2>1, <3>2, <3>3, OthersKeepCounting
    <2>4. ASSUME NEW refused \in BOOLEAN, FailRequest(c, refused)
          PROVE  CountsHold'
      <3>1. run[c].at = 1 /\ run[c].pc = "paging"
        BY <2>4 DEF FailRequest, Inductive, PlacesAgree
      <3>2. Moved(c)
        BY <1>0, <2>4, <3>1, CrawlPages
      <3>3. \/ run' = [run EXCEPT ![c] = Idle]
            \/ run' = [run EXCEPT ![c] = [run[c] EXCEPT !.tries = @ + 1]]
        BY <2>4 DEF FailRequest
      <3>4. \/ run'[c].pc = "idle"
            \/ run'[c].pc = "paging" /\ SameListing(run[c], run'[c])
        BY <1>0, <3>1, <3>3, IdleIsRun DEF Runs, SameListing, SameCount
      <3>5. counting /\ run'[c].pc # "idle" => Counts(run[c])'
        BY <2>1, <3>1, <3>4, KeepsCounting DEF CountsHold
      <3> QED  BY <2>1, <3>2, <3>5, OthersKeepCounting
    <2>5. CASE LookUpUrl(c) \/ LookUpNumber(c) \/ Insert(c) \/ Commit(c) \/ PublishTask(c)
               \/ FailEntry(c)
      <3>1. run[c].pc \notin {"idle", "paging"} /\ run[c].at <= Len(run[c].found)
        BY <2>5 DEF LookUpUrl, LookUpNumber, Insert, Commit, PublishTask, FailEntry, At
      <3>2. \/ NextEntry(c) \/ FailEntry(c)
            \/ \E pc \in {"number", "insert", "commit", "publish"} : GoTo(c, pc)
        BY <2>5 DEF LookUpUrl, LookUpNumber, Insert, Commit, PublishTask
      <3>3. Moved(c) /\ SameListing(run[c], run'[c]) /\ run'[c].pc # "paging"
        BY <1>0, <3>1, <3>2, NextEntryEffect, FailEntryEffect, GoToEffect
      <3>4. counting => Counts(run[c])'
        BY <2>1, <3>1, <3>3, KeepsCounting DEF CountsHold
      <3> QED  BY <2>1, <3>3, <3>4, OthersKeepCounting
    <2>6. CASE End(c) \/ Die(c)
      <3>1. Moved(c) /\ run'[c].pc = "idle"
        BY <1>0, <2>6, ClosedRunEffect, IdleIsRun
      <3> QED  BY <2>1, <3>1, OthersKeepCounting
    <2> QED  BY Zenon, <1>2, <2>2, <2>3, <2>4, <2>5, <2>6 DEF Crawling
  <1>3. CASE UNCHANGED vars
    BY <1>3 DEF vars, CountsHold, Counts, Counted, NewerThanOthers, Listed
  <1> QED  BY <1>1, <1>2, <1>3 DEF Next

\* The inductive invariant holds of every state of every crawl.
THEOREM InductiveHolds == Spec => []Inductive
  BY InitInductive, StepInductive, PTL DEF Spec

\* The types of the listing, the tables and the runs, whatever the listing does
\* and wherever a crawl fails.
THEOREM TypeCorrect == Spec => []TypeOK
  <1>1. Inductive => TypeOK
    BY DEF Inductive
  <1> QED  BY <1>1, InductiveHolds, PTL

\* Two crawls at once, a failing entry or a dying process leave what a crawl
\* counts as new or known stored once, with its task rows.
THEOREM CountedIsStored == Spec => []CountedMeansStored
  <1>1. Inductive => CountedMeansStored
    <2> SUFFICES ASSUME Inductive, NEW c \in Crawlers, NEW k \in 1 .. (run[c].at - 1),
                        run[c].found[k] \notin run[c].warned
                 PROVE  LET i    == run[c].found[k]
                            same == {d \in docs : d = i \/ SameNumber(i, d)}
                        IN  /\ Cardinality(same) = 1
                            /\ \A d \in same : RowsFor(d) \subseteq rows
      BY DEF CountedMeansStored
    <2> DEFINE i    == run[c].found[k]
               same == {d \in docs : d = i \/ SameNumber(i, d)}
    <2>1. PICK e \in docs : Clashes(i, e)
      BY DEF Inductive, PastIsStored
    <2>2. \A d \in same : d = e
      <3>1. \A d \in same : Clashes(e, d)
        BY <2>1 DEF Clashes, SameNumber
      <3> QED  BY <3>1 DEF Inductive, KeysHold
    <2>3. same = {e}
      BY <2>1, <2>2 DEF Clashes
    <2>4. Cardinality(same) = 1
      BY <2>3, FS_Singleton
    <2>5. \A d \in same : RowsFor(d) \subseteq rows
      BY DEF Inductive, RowsTogether
    <2> QED  BY <2>4, <2>5
  <1> QED  BY <1>1, InductiveHolds, PTL

\* A crawl that collects as many entries as the first page counted has every one
\* that was listed all the while: whatever shifts the pages, however often, what
\* it passed over is missing from the number it compares with the count, unless
\* more entries were published meanwhile than a page holds.
THEOREM QuietIsWhole == Spec => []QuietListingIsWhole
  <1>1. Inductive /\ CountsHold => QuietListingIsWhole
    <2> SUFFICES ASSUME Inductive, CountsHold, NEW c \in Crawlers,
                        run[c].pc = "look", counting, ~run[c].short,
                        Cardinality(run[c].new) <= PageSize
                 PROVE  run[c].stayed \subseteq ToSet(run[c].found)
      BY DEF QuietListingIsWhole
    <2>1. NoneTwice(run[c].found) /\ \E first \in SUBSET Ids : Counted(run[c], first)
      BY DEF CountsHold, Counts
    <2>2. PICK first \in SUBSET Ids : Counted(run[c], first)
      BY <2>1
    <2> DEFINE collected == ToSet(run[c].found)
    <2>3. IsFiniteSet(collected) /\ Cardinality(collected) = Len(run[c].found)
      <3>1. run[c].found \in Seq(Ids)
        BY DEF Inductive, TypeOK, Runs
      <3> QED  BY <2>1, <3>1, NoneTwiceCounts
    <2>4. IsFiniteSet(first) /\ Cardinality(first) \in Nat /\ Cardinality(collected) \in Nat
      BY <2>3, CrawlAssumption, FS_Subset, FS_CardinalityType
    <2>5. collected \in SUBSET first /\ Cardinality(first) <= Cardinality(collected)
      BY <2>2, <2>3 DEF Counted
    <2>6. Cardinality(collected) <= Cardinality(first)
      BY <2>4, <2>5, FS_Subset
    <2>7. Cardinality(first) = Cardinality(collected)
      BY <2>4, <2>5, <2>6
    <2>8. first = collected
      <3> HIDE DEF collected
      <3> QED  BY <2>4, <2>5, <2>7, FS_Subset
    <2> QED  BY <2>2, <2>8 DEF Counted
  <1>2. Spec => []CountsHold
    BY InitCounts, StepCounts, InductiveHolds, PTL DEF Spec
  <1> QED  BY <1>1, <1>2, InductiveHolds, PTL
=============================================================================
