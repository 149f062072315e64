-------------------------- MODULE ReferencesProofs --------------------------
(***************************************************************************)
(* Theorems about References: for every corpus, every set of identifiers   *)
(* its documents cite and answer to, and every number of extract handlers  *)
(* and of failures.                                                        *)
(***************************************************************************)
EXTENDS References, NaturalsInduction, WellFoundedInduction, TLAPS

(***************************************************************************)
(* The inductive invariant.                                                *)
(***************************************************************************)
Open(w) == tx[w].phase # "idle"

\* The identifiers a document has, and those it has had.
Borne(d) == idents[d] \union former[d]

\* A transaction read identifiers its document has or has had.
OwnIsKnown ==
    \A w \in Workers : Open(w) => tx[w].own \subseteq Borne(tx[w].doc)

\* Two transactions are open at once only where extractions overlap.
OneUnlessOverlapped ==
    overlapped \/ \A v, w \in Workers : Open(v) /\ Open(w) => v = w

\* What is still to be reconciled are the document's own identifiers.
TodoIsOwn ==
    \A w \in Workers : tx[w].phase = "reconciling" => tx[w].todo \subseteq tx[w].own

\* The citations of t's document that its loop has dealt with.
Visited(t) == (Cites[t.doc] \ t.own) \ (IF t.phase = "citing" THEN t.todo ELSE {})

\* Citation i of document d is on record, in the table or with what t adds to it.
OnRecord(t, d, i) ==
    \/ <<d, i>> \in SeenParked(t)
    \/ \E e \in Docs : <<d, e>> \in edges \union t.addEdges /\ i \in Borne(e)
    \/ overlapped /\ i \in skipped[d]

\* A transaction loses sight of none of the citations it has visited, whatever
\* others commit meanwhile.
VisitedAreRecorded ==
    \A w \in Workers : Open(w) =>
        \A i \in Visited(tx[w]) : OnRecord(tx[w], tx[w].doc, i)

\* A parked row a transaction deletes becomes an edge, unless it is the
\* document's own.
DeletedArePromoted ==
    \A w \in Workers : \A s \in Docs, i \in Idents :
        <<s, i>> \in tx[w].delParked =>
            /\ Open(w)
            /\ i \in tx[w].own
            /\ s # tx[w].doc => <<s, tx[w].doc>> \in edges \union tx[w].addEdges

Inductive ==
    /\ TypeOK
    /\ OwnIsKnown
    /\ OneUnlessOverlapped
    /\ TodoIsOwn
    /\ VisitedAreRecorded
    /\ DeletedArePromoted
    /\ NoCitationLost

\* Where nothing else happens while t is open: what it read still holds, it
\* has no citation of its own document, and has promoted what it visited.
InOrder(t) ==
    /\ t.own = idents[t.doc]
    /\ t.phase = "citing" => t.todo \subseteq Cites[t.doc] \ t.own
    /\ \A d \in Docs : <<d, d>> \notin t.addEdges
    /\ \A s, d \in Docs, i \in Idents : <<s, i>> \in t.addParked => i \notin idents[d]
    /\ t.phase = "reconciling" =>
          \A i \in t.own \ t.todo, s \in Docs : <<s, i>> \notin SeenParked(t)

Alone ==
    \A w \in Workers : Open(w) =>
        /\ \A v \in Workers : Open(v) => v = w
        /\ InOrder(tx[w])

\* What a document has answered to since its last extraction it still answers to.
AnsweredIsKnown == \A d \in Docs : answered[d] \subseteq idents[d]

Sequential ==
    overlapped \/ (Alone /\ AnsweredIsKnown /\ NoSelfEdge /\ ParkedMeansNotIngested)

(***************************************************************************)
(* Transactions.                                                           *)
(***************************************************************************)
\* A lookup with something to find returns something it found: the order it
\* sorts by is total.
LEMMA FirstIsMember ==
    ASSUME NEW S \in SUBSET Docs, S # {}
    PROVE  First(S) \in S
  <1> DEFINE T == {Rank[d] : d \in S}
             R == OpToRel(<, Nat)
  <1>1. T \subseteq Nat /\ T # {}
    BY GraphAssumption
  <1>2. \E x \in T : \A y \in T : <<y, x>> \notin R
    <2> HIDE DEF T, R
    <2>1. IsWellFoundedOn(R, Nat)
      BY NatLessThanWellFounded DEF R
    <2> QED  BY <1>1, <2>1, WFMin
  <1>3. PICK x \in T : \A y \in T : ~(y < x)
    BY <1>1, <1>2 DEF OpToRel
  <1>4. \E d \in S : \A e \in S : Rank[d] <= Rank[e]
    <2>1. PICK d \in S : x = Rank[d]
      OBVIOUS
    <2>2. \A e \in S : Rank[e] \in Nat /\ ~(Rank[e] < Rank[d])
      BY <1>3, <2>1, GraphAssumption
    <2> QED  BY <2>1, <2>2
  <1> QED  BY <1>4 DEF First

LEMMA ClosedIsTransaction == Closed \in Transactions
  BY DEF Transactions, Closed, Phases

(***************************************************************************)
(* Types.                                                                  *)
(***************************************************************************)
\* Putting a well-formed transaction in the place of another.
LEMMA UpdateKeepsTypes ==
    ASSUME tx \in [Workers -> Transactions],
           \A v \in Workers : tx[v].doc = NoDoc <=> tx[v].phase = "idle",
           NEW w \in Workers, NEW t \in Transactions,
           t.doc = NoDoc <=> t.phase = "idle",
           tx' = [tx EXCEPT ![w] = t]
    PROVE  /\ tx' \in [Workers -> Transactions]
           /\ \A v \in Workers : tx'[v].doc = NoDoc <=> tx'[v].phase = "idle"
           /\ tx'[w] = t
           /\ \A v \in Workers \ {w} : tx'[v] = tx[v]
  <1> HIDE DEF Transactions
  <1> QED  OBVIOUS

\* What each step of a handler makes of its transaction, and leaves of the rest.
Replaced(w) ==
    /\ tx' \in [Workers -> Transactions]
    /\ \A v \in Workers : tx'[v].doc = NoDoc <=> tx'[v].phase = "idle"
    /\ \A v \in Workers \ {w} : tx'[v] = tx[v]

LEMMA BeginEffect ==
    ASSUME TypeOK, NEW w \in Workers, NEW d \in Docs, Begin(w, d)
    PROVE  /\ Replaced(w)
           /\ tx'[w].phase = "citing" /\ tx'[w].doc = d /\ tx'[w].own = idents[d]
           /\ tx'[w].todo = Cites[d] \ idents[d]
           /\ tx'[w].addEdges = {} /\ tx'[w].addParked = {} /\ tx'[w].delParked = {}
  <1> DEFINE t == [Closed EXCEPT !.phase = "citing", !.doc = d, !.own = idents[d],
                                 !.todo = Cites[d] \ idents[d]]
  <1>1. /\ t.phase = "citing" /\ t.doc = d /\ t.own = idents[d]
        /\ t.todo = Cites[d] \ idents[d]
        /\ t.addEdges = {} /\ t.addParked = {} /\ t.delParked = {}
    BY DEF Closed
  <1>2. t \in Transactions
    BY GraphAssumption DEF Closed, Transactions, Phases, TypeOK
  <1>3. tx' = [tx EXCEPT ![w] = t]
    BY DEF Begin
  <1> HIDE DEF t
  <1> QED  BY <1>1, <1>2, <1>3, UpdateKeepsTypes, GraphAssumption DEF TypeOK, Replaced

LEMMA CiteEffect ==
    ASSUME TypeOK, NEW w \in Workers, NEW i \in Idents, Cite(w, i)
    PROVE  /\ Replaced(w)
           /\ tx'[w].phase = "citing" /\ tx'[w].doc = tx[w].doc /\ tx'[w].own = tx[w].own
           /\ tx'[w].todo = tx[w].todo \ {i}
           /\ tx'[w].delParked = tx[w].delParked
           /\ Matching(i) = {} =>
                 /\ tx'[w].addEdges = tx[w].addEdges
                 /\ SeenParked(tx[w]) \subseteq SeenParked(tx'[w])
                 /\ tx'[w].addParked \ tx[w].addParked \subseteq {<<tx[w].doc, i>>}
                 /\ \/ <<tx[w].doc, i>> \in SeenParked(tx'[w])
                    \/ <<tx[w].doc, i>> \in tx[w].delParked
           /\ Matching(i) # {} =>
                 /\ tx'[w].addParked = tx[w].addParked
                 /\ tx[w].addEdges \subseteq tx'[w].addEdges
                 /\ \E e \in Matching(i) :
                       /\ <<tx[w].doc, e>> \in edges \union tx'[w].addEdges
                       /\ tx'[w].addEdges \ tx[w].addEdges \subseteq {<<tx[w].doc, e>>}
  <1> DEFINE edge == <<tx[w].doc, First(Matching(i))>>
             row == <<tx[w].doc, i>>
             add == IF Matching(i) # {} /\ edge \notin edges
                    THEN tx[w].addEdges \union {edge} ELSE tx[w].addEdges
             park == IF Matching(i) = {} /\ row \notin SeenParked(tx[w])
                     THEN tx[w].addParked \union {row} ELSE tx[w].addParked
             t == [tx[w] EXCEPT !.todo = @ \ {i}, !.addEdges = add, !.addParked = park]
  <1>1. /\ tx[w] \in Transactions /\ tx[w].phase = "citing"
        /\ tx[w].doc \in Docs /\ i \in tx[w].todo
        /\ tx' = [tx EXCEPT ![w] = t]
    BY DEF Cite, Transactions, TypeOK
  <1>2. Matching(i) # {} => First(Matching(i)) \in Matching(i) /\ Matching(i) \subseteq Docs
    BY FirstIsMember DEF Matching
  <1>3. add \in SUBSET (Docs \X Docs) /\ park \in SUBSET (Docs \X Idents)
    BY <1>1, <1>2 DEF Transactions
  <1>4. /\ t \in Transactions
        /\ t.phase = "citing" /\ t.doc = tx[w].doc /\ t.own = tx[w].own
        /\ t.todo = tx[w].todo \ {i} /\ t.addEdges = add /\ t.addParked = park
        /\ t.delParked = tx[w].delParked
    <2> HIDE DEF add, park
    <2> QED  BY <1>1, <1>3 DEF Transactions
  <1>5. Replaced(w) /\ tx'[w] = t
    <2> HIDE DEF t
    <2> QED  BY <1>1, <1>4, UpdateKeepsTypes, GraphAssumption DEF TypeOK, Replaced
  <1>6. ASSUME Matching(i) = {}
        PROVE  /\ add = tx[w].addEdges /\ SeenParked(tx[w]) \subseteq SeenParked(t)
               /\ park \ tx[w].addParked \subseteq {row}
               /\ row \in SeenParked(t) \/ row \in tx[w].delParked
    <2>1. SeenParked(t) = (parked \union park) \ tx[w].delParked
      BY <1>4 DEF SeenParked
    <2> HIDE DEF t
    <2> QED  BY <1>6, <2>1 DEF SeenParked
  <1>7. ASSUME Matching(i) # {}
        PROVE  /\ park = tx[w].addParked
               /\ tx[w].addEdges \subseteq add
               /\ edge \in edges \union add /\ add \ tx[w].addEdges \subseteq {edge}
    BY <1>7
  <1> HIDE DEF add, park, t
  <1> QED  BY <1>2, <1>4, <1>5, <1>6, <1>7

LEMMA StartReconcilingEffect ==
    ASSUME TypeOK, NEW w \in Workers, StartReconciling(w)
    PROVE  /\ Replaced(w)
           /\ tx'[w].phase = "reconciling"
           /\ tx'[w].doc = tx[w].doc /\ tx'[w].own = tx[w].own
           /\ tx'[w].todo = tx[w].own
           /\ tx'[w].addEdges = tx[w].addEdges
           /\ tx'[w].addParked = tx[w].addParked
           /\ tx'[w].delParked = tx[w].delParked
  <1> DEFINE t == [tx[w] EXCEPT !.phase = "reconciling", !.todo = tx[w].own]
  <1>1. tx[w] \in Transactions /\ tx[w].doc # NoDoc
    BY DEF StartReconciling, TypeOK
  <1>2. /\ t \in Transactions
        /\ t.phase = "reconciling" /\ t.doc = tx[w].doc /\ t.own = tx[w].own
        /\ t.todo = tx[w].own /\ t.addEdges = tx[w].addEdges
        /\ t.addParked = tx[w].addParked /\ t.delParked = tx[w].delParked
    BY <1>1 DEF Transactions, Phases
  <1>3. tx' = [tx EXCEPT ![w] = t]
    BY DEF StartReconciling, ToReconcile, TypeOK
  <1> HIDE DEF t
  <1> QED  BY <1>1, <1>2, <1>3, UpdateKeepsTypes DEF TypeOK, Replaced

LEMMA ReconcileEffect ==
    ASSUME TypeOK, NEW w \in Workers, NEW i \in Idents, Reconcile(w, i)
    PROVE  /\ Replaced(w)
           /\ tx'[w].phase = "reconciling"
           /\ tx'[w].doc = tx[w].doc /\ tx'[w].own = tx[w].own
           /\ tx'[w].todo = tx[w].todo \ {i}
           /\ tx'[w].addEdges = tx[w].addEdges \union (Promoted(tx[w], i) \ edges)
           /\ tx'[w].addParked = tx[w].addParked
           /\ SeenParked(tx'[w]) = SeenParked(tx[w]) \ (Docs \X {i})
           /\ \A s \in Docs, j \in Idents :
                 <<s, j>> \in tx'[w].delParked <=>
                    \/ <<s, j>> \in tx[w].delParked
                    \/ j = i /\ <<s, i>> \in SeenParked(tx[w])
  <1> DEFINE gone == {<<s, i>> : s \in {s \in Docs : <<s, i>> \in SeenParked(tx[w])}}
             add == tx[w].addEdges \union (Promoted(tx[w], i) \ edges)
             t == [tx[w] EXCEPT !.todo = @ \ {i}, !.addEdges = add,
                                !.delParked = @ \union gone]
  <1>1. /\ tx[w] \in Transactions /\ tx[w].phase = "reconciling"
        /\ tx[w].doc \in Docs /\ i \in tx[w].todo
        /\ tx' = [tx EXCEPT ![w] = t]
    BY DEF Reconcile, Transactions, TypeOK
  <1>2. gone \in SUBSET (Docs \X Idents) /\ add \in SUBSET (Docs \X Docs)
    <2>1. Promoted(tx[w], i) \in SUBSET (Docs \X Docs)
      <3>1. \A p \in Promoted(tx[w], i) : \E s \in Docs : p = <<s, tx[w].doc>>
        BY Zenon DEF Promoted
      <3> QED  BY <1>1, <3>1
    <2>2. tx[w].addEdges \in SUBSET (Docs \X Docs)
      BY <1>1 DEF Transactions
    <2>3. gone \in SUBSET (Docs \X Idents)
      <3>1. \A p \in gone : \E s \in Docs : p = <<s, i>>
        BY Zenon
      <3> HIDE DEF gone
      <3> QED  BY <3>1
    <2> QED  BY <2>1, <2>2, <2>3
  <1>3. /\ t \in Transactions
        /\ t.phase = "reconciling" /\ t.doc = tx[w].doc /\ t.own = tx[w].own
        /\ t.todo = tx[w].todo \ {i} /\ t.addEdges = add
        /\ t.addParked = tx[w].addParked
        /\ t.delParked = tx[w].delParked \union gone
    <2> HIDE DEF gone, add
    <2> QED  BY <1>1, <1>2 DEF Transactions
  <1>4. Replaced(w) /\ tx'[w] = t
    <2> HIDE DEF t
    <2> QED  BY <1>1, <1>3, UpdateKeepsTypes, GraphAssumption DEF TypeOK, Replaced
  <1>5. \A s \in Docs, j \in Idents :
           <<s, j>> \in gone <=> j = i /\ <<s, i>> \in SeenParked(tx[w])
    OBVIOUS
  <1>6. SeenParked(t) = SeenParked(tx[w]) \ (Docs \X {i})
    <2>1. /\ SeenParked(t) = (parked \union tx[w].addParked) \ (tx[w].delParked \union gone)
          /\ SeenParked(tx[w]) = (parked \union tx[w].addParked) \ tx[w].delParked
          /\ SeenParked(tx[w]) \subseteq Docs \X Idents
      BY <1>1, <1>3 DEF SeenParked, TypeOK, Transactions
    <2>2. \A s \in Docs, j \in Idents :
             <<s, j>> \in SeenParked(t) <=> <<s, j>> \in SeenParked(tx[w]) \ (Docs \X {i})
      <3> HIDE DEF gone, t
      <3> QED  BY <1>5, <2>1
    <2> HIDE DEF gone, t
    <2> QED  BY <2>1, <2>2
  <1>7. SeenParked(tx'[w]) = SeenParked(t)
    BY <1>4
  <1> HIDE DEF gone, add, t
  <1> QED  BY <1>3, <1>4, <1>5, <1>6, <1>7 DEF add

\* However it ends, a transaction leaves its handler idle.
LEMMA CloseEffect ==
    ASSUME TypeOK, NEW w \in Workers, Close(w)
    PROVE  /\ Replaced(w)
           /\ ~Open(w)' /\ tx'[w].delParked = {}
  <1>1. Closed.phase = "idle" /\ Closed.doc = NoDoc /\ Closed.delParked = {}
    BY DEF Closed
  <1> QED
    BY <1>1, ClosedIsTransaction, UpdateKeepsTypes DEF Close, TypeOK, Replaced, Open

(***************************************************************************)
(* Types.                                                                  *)
(***************************************************************************)
LEMMA TypeInvariant == TypeOK /\ [Next]_vars => TypeOK'
  <1> SUFFICES ASSUME TypeOK, [Next]_vars
               PROVE  TypeOK'
    OBVIOUS
  <1> USE DEF TypeOK, Replaced
  <1>1. ASSUME NEW d \in Docs, NEW found \in SUBSET Idents, Metadata(d, found)
        PROVE  TypeOK'
    <2>1. /\ idents' \in [Docs -> SUBSET Idents] /\ former' \in [Docs -> SUBSET Idents]
          /\ answered' \in [Docs -> SUBSET Idents]
      <3>1. Superseded(d, found) \subseteq Idents
        BY DEF Superseded
      <3> QED  BY <1>1, <3>1 DEF Metadata
    <2>2. runs' \in [Docs -> Nat] /\ \A e \in Docs : runs'[e] <= MaxRuns[e]
      <3>1. runs[d] + 1 \in Nat /\ runs[d] + 1 <= MaxRuns[d]
        <4>1. runs[d] < MaxRuns[d]
          BY <1>1 DEF Metadata
        <4>2. runs[d] \in Nat /\ MaxRuns[d] \in Nat
          BY GraphAssumption
        <4> QED  BY <4>1, <4>2
      <3>2. runs' = [runs EXCEPT ![d] = runs[d] + 1]
        BY <1>1 DEF Metadata
      <3> QED  BY <3>1, <3>2
    <2> QED  BY <1>1, <2>1, <2>2 DEF Metadata, Starting
  <1>2. ASSUME NEW w \in Workers, NEW d \in Docs, Begin(w, d)
        PROVE  TypeOK'
    BY <1>2, BeginEffect DEF Begin, Starting
  <1>3. ASSUME NEW w \in Workers, NEW i \in Idents, Cite(w, i)
        PROVE  TypeOK'
    BY <1>3, CiteEffect DEF Cite
  <1>4. ASSUME NEW w \in Workers, StartReconciling(w)
        PROVE  TypeOK'
    BY <1>4, StartReconcilingEffect DEF StartReconciling
  <1>5. ASSUME NEW w \in Workers, NEW i \in Idents, Reconcile(w, i)
        PROVE  TypeOK'
    BY <1>5, ReconcileEffect DEF Reconcile
  <1>6. ASSUME NEW w \in Workers, Commit(w)
        PROVE  TypeOK'
    <2>1. /\ tx[w].doc \in Docs /\ tx[w].own \subseteq Idents
          /\ tx[w].addEdges \subseteq Docs \X Docs
          /\ SeenParked(tx[w]) \subseteq Docs \X Idents
      BY <1>6 DEF Commit, SeenParked, Transactions
    <2>2. Replaced(w)
      BY <1>6, CloseEffect DEF Commit
    <2> QED  BY <1>6, <2>1, <2>2 DEF Commit
  <1>7. ASSUME NEW w \in Workers, RollBack(w) \/ Fail(w)
        PROVE  TypeOK'
    <2>1. Replaced(w)
      BY <1>7, CloseEffect DEF RollBack, Fail
    <2>2. failures' \in 0 .. MaxFailures
      BY <1>7, GraphAssumption DEF RollBack, Fail
    <2> QED  BY <1>7, <2>1, <2>2 DEF RollBack, Fail
  <1>8. CASE UNCHANGED vars
    BY <1>8 DEF vars
  <1> QED
    BY <1>1, <1>2, <1>3, <1>4, <1>5, <1>6, <1>7, <1>8 DEF Next, Extract

(***************************************************************************)
(* No citation is lost.                                                    *)
(***************************************************************************)
\* What every step leaves true: a document has had the identifiers it had, edges
\* are only added, and what was overlapped remains so.
Grows ==
    /\ \A d \in Docs : Borne(d) \subseteq Borne(d)'
    /\ edges \subseteq edges'
    /\ overlapped => overlapped'

\* What is on record stays on record while the parked rows are left alone.
LEMMA CitationsSurvive ==
    ASSUME TypeOK, Grows, parked' = parked, done' = done, skipped' = skipped,
           NoCitationLost
    PROVE  NoCitationLost'
  <1> SUFFICES ASSUME NEW d \in done, NEW i \in Cites[d] \ skipped[d]
               PROVE  \/ <<d, i>> \in parked
                      \/ \E e \in Docs : <<d, e>> \in edges' /\ i \in Borne(e)'
    BY DEF NoCitationLost, Borne
  <1>1. \/ <<d, i>> \in parked
        \/ \E e \in Docs : <<d, e>> \in edges /\ i \in Borne(e)
    BY DEF NoCitationLost, Borne
  <1> QED  BY <1>1 DEF Grows

\* A handler that goes on, or stops, leaves no more transactions open.
LEMMA OneStaysOne ==
    ASSUME OneUnlessOverlapped, NEW w \in Workers, Replaced(w), overlapped => overlapped',
           Open(w)' => Open(w) \/ overlapped' \/ \A v \in Workers : ~Open(v)
    PROVE  OneUnlessOverlapped'
  <1>1. \A v \in Workers \ {w} : Open(v)' <=> Open(v)
    BY DEF Replaced, Open
  <1> QED  BY <1>1 DEF OneUnlessOverlapped

\* A handler's step that keeps the parked rows keeps the invariant, if the
\* handler's own transaction does.
LEMMA OthersUnaffected ==
    ASSUME Inductive, TypeOK', NEW w \in Workers, Replaced(w), Grows,
           UNCHANGED <<parked, done, skipped>>,
           Open(w)' => Open(w) \/ overlapped' \/ \A v \in Workers : ~Open(v),
           Open(w)' => tx'[w].own \subseteq Borne(tx[w].doc)',
           tx'[w].phase = "reconciling" => tx'[w].todo \subseteq tx'[w].own,
           Open(w)' => \A i \in Visited(tx'[w]) : OnRecord(tx[w], tx[w].doc, i)',
           \A s \in Docs, i \in Idents :
              <<s, i>> \in tx'[w].delParked =>
                 /\ Open(w)'
                 /\ i \in tx'[w].own
                 /\ s # tx'[w].doc => <<s, tx'[w].doc>> \in edges' \union tx'[w].addEdges
    PROVE  Inductive'
  <1> USE DEF Inductive
  <1>1. \A v \in Workers \ {w} : tx'[v] = tx[v] /\ (Open(v)' <=> Open(v))
    BY DEF Replaced, Open
  <1>2. OwnIsKnown'
    <2>1. \A v \in Workers : Open(v) => tx[v].doc \in Docs
      BY DEF Open, TypeOK, Transactions
    <2> QED  BY <1>1, <2>1 DEF OwnIsKnown, Grows, Borne
  <1>3. TodoIsOwn' /\ OneUnlessOverlapped'
    BY <1>1, OneStaysOne DEF TodoIsOwn, Grows
  <1>4. VisitedAreRecorded'
    <2> SUFFICES ASSUME NEW v \in Workers \ {w}, Open(v), NEW i \in Visited(tx[v])
                 PROVE  OnRecord(tx[v], tx[v].doc, i)'
      BY <1>1 DEF VisitedAreRecorded, Visited
    <2>1. OnRecord(tx[v], tx[v].doc, i) /\ tx[v].doc \in Docs
      BY DEF VisitedAreRecorded, Open, TypeOK, Transactions
    <2> QED  BY <1>1, <2>1 DEF Grows, OnRecord, SeenParked
  <1>5. DeletedArePromoted'
    BY <1>1 DEF DeletedArePromoted, Grows
  <1> QED  BY <1>2, <1>3, <1>4, <1>5, CitationsSurvive

\* A commit deletes parked rows that others count on, and puts on record what
\* they still need: an edge to its document, unless the row was its own.
LEMMA CommitKeepsRecords ==
    ASSUME Inductive, NEW w \in Workers, Commit(w)
    PROVE  /\ Grows
           /\ \A d \in Docs, i \in Idents :
                 <<d, i>> \in parked \union tx[w].addParked =>
                    \/ <<d, i>> \in parked'
                    \/ \E e \in Docs : <<d, e>> \in edges' /\ i \in Borne(e)'
                    \/ d = tx[w].doc /\ i \in tx[w].own
           /\ \A d \in Docs, i \in Idents : <<d, i>> \in parked' =>
                 <<d, i>> \in parked \union tx[w].addParked
           /\ OwnIsKnown' /\ OneUnlessOverlapped'
  <1> USE DEF Inductive
  <1>1. /\ Open(w) /\ tx[w].doc \in Docs /\ tx[w].own \subseteq Borne(tx[w].doc)
        /\ idents' = idents /\ former' = former /\ overlapped' = overlapped
        /\ edges' = edges \union tx[w].addEdges
        /\ parked' = (parked \union tx[w].addParked) \ tx[w].delParked
    BY DEF Commit, SeenParked, Open, OwnIsKnown, TypeOK, Transactions
  <1>2. \A d \in Docs : Borne(d)' = Borne(d)
    BY <1>1 DEF Borne
  <1>3. Grows
    BY <1>1, <1>2 DEF Grows
  <1>4. OwnIsKnown' /\ OneUnlessOverlapped'
    <2>1. \A v \in Workers : Open(v)' => Open(v) /\ tx'[v] = tx[v]
      BY CloseEffect DEF Commit, Replaced, Open
    <2>2. \A v \in Workers : Open(v) => tx[v].doc \in Docs
      BY DEF Open, TypeOK, Transactions
    <2> QED  BY <1>1, <1>2, <2>1, <2>2 DEF OwnIsKnown, OneUnlessOverlapped
  <1>5. ASSUME NEW d \in Docs, NEW i \in Idents, <<d, i>> \in tx[w].delParked
        PROVE  \/ \E e \in Docs : <<d, e>> \in edges' /\ i \in Borne(e)'
               \/ d = tx[w].doc /\ i \in tx[w].own
    <2>1. i \in tx[w].own /\ (d # tx[w].doc => <<d, tx[w].doc>> \in edges')
      BY <1>1, <1>5 DEF DeletedArePromoted
    <2> QED  BY <1>1, <1>2, <2>1
  <1> QED  BY <1>1, <1>3, <1>4, <1>5

LEMMA CommitKeepsInductive ==
    ASSUME Inductive, TypeOK', NEW w \in Workers, Commit(w)
    PROVE  Inductive'
  <1> USE DEF Inductive
  <1>1. /\ Replaced(w) /\ ~Open(w)' /\ tx'[w].delParked = {}
    BY CloseEffect DEF Commit
  <1>2. \A v \in Workers \ {w} : tx'[v] = tx[v] /\ (Open(v)' <=> Open(v))
    BY <1>1 DEF Replaced, Open
  <1>3. \A v \in Workers : Open(v) => tx[v].doc \in Docs /\ Cites[tx[v].doc] \subseteq Idents
    BY GraphAssumption DEF Open, TypeOK, Transactions
  <1>4. Grows /\ OwnIsKnown' /\ OneUnlessOverlapped'
    BY CommitKeepsRecords
  <1>0. /\ tx[w].doc \in Docs /\ Open(w)
        /\ skipped'[tx[w].doc] = IF overlapped THEN skipped[tx[w].doc] \union tx[w].own
                                 ELSE tx[w].own
        /\ \A d \in Docs \ {tx[w].doc} : skipped'[d] = skipped[d]
        /\ overlapped' = overlapped
    BY DEF Commit, Open, TypeOK, Transactions
  <1>5. TodoIsOwn'
    BY <1>1, <1>2 DEF TodoIsOwn, Open
  <1>6. VisitedAreRecorded'
    <2> SUFFICES ASSUME NEW v \in Workers \ {w}, Open(v), NEW i \in Visited(tx[v])
                 PROVE  OnRecord(tx[v], tx[v].doc, i)'
      BY <1>1, <1>2 DEF VisitedAreRecorded, Visited
    <2> DEFINE d == tx[v].doc
    <2>1. d \in Docs /\ i \in Idents /\ tx'[v] = tx[v]
      BY <1>2, <1>3 DEF Visited
    <2>2. OnRecord(tx[v], d, i) /\ overlapped
      BY <1>0 DEF VisitedAreRecorded, OneUnlessOverlapped
    <2>5. skipped[d] \subseteq skipped'[d] /\ (d = tx[w].doc => tx[w].own \subseteq skipped'[d])
      BY <1>0, <2>1, <2>2
    <2>3. CASE <<d, i>> \in SeenParked(tx[v])
      <3>1. \/ <<d, i>> \in parked' \union tx[v].addParked
            \/ \E e \in Docs : <<d, e>> \in edges' /\ i \in Borne(e)'
            \/ d = tx[w].doc /\ i \in tx[w].own
        BY <2>1, <2>3, CommitKeepsRecords DEF SeenParked
      <3>2. <<d, i>> \notin tx[v].delParked
        BY <2>3 DEF SeenParked
      <3> QED
        BY <1>0, <2>1, <2>2, <2>5, <3>1, <3>2 DEF SeenParked, OnRecord, Borne
    <2>4. CASE <<d, i>> \notin SeenParked(tx[v])
      BY <1>0, <1>4, <2>1, <2>2, <2>4, <2>5 DEF OnRecord, Grows
    <2> QED  BY <2>3, <2>4
  <1>7. DeletedArePromoted'
    BY <1>1, <1>2, <1>4 DEF DeletedArePromoted, Grows
  <1>8. NoCitationLost'
    <2> SUFFICES ASSUME NEW d \in done', NEW i \in Cites[d] \ skipped'[d]
                 PROVE  \/ <<d, i>> \in parked'
                        \/ \E e \in Docs : <<d, e>> \in edges' /\ i \in Borne(e)'
      BY DEF NoCitationLost, Borne
    <2>1. /\ d \in Docs /\ i \in Idents
          /\ d = tx[w].doc \/ d \in done
          /\ parked' = SeenParked(tx[w]) /\ edges' = edges \union tx[w].addEdges
          /\ tx[w].phase = "reconciling"
      BY <1>0, GraphAssumption DEF Commit, TypeOK
    <2>2. CASE d = tx[w].doc
      <3>1. i \in Visited(tx[w]) /\ ~(overlapped /\ i \in skipped[d])
        BY <1>0, <2>1, <2>2 DEF Visited
      <3>2. OnRecord(tx[w], d, i)
        BY <1>0, <2>2, <3>1 DEF VisitedAreRecorded
      <3> QED  BY <1>4, <2>1, <3>1, <3>2 DEF OnRecord, Grows
    <2>3. CASE d # tx[w].doc
      <3>1. \/ <<d, i>> \in parked
            \/ \E e \in Docs : <<d, e>> \in edges /\ i \in Borne(e)
        BY <1>0, <2>1, <2>3 DEF NoCitationLost, Borne
      <3> QED  BY <1>4, <2>1, <2>3, <3>1, CommitKeepsRecords DEF Grows, Borne
    <2> QED  BY <2>2, <2>3
  <1> QED  BY <1>4, <1>5, <1>6, <1>7, <1>8

LEMMA InductiveStep == Inductive /\ [Next]_vars => Inductive'
  <1> SUFFICES ASSUME Inductive, [Next]_vars
               PROVE  Inductive'
    OBVIOUS
  <1>0. TypeOK /\ TypeOK'
    BY TypeInvariant DEF Inductive
  <1>1. ASSUME NEW d \in Docs, NEW found \in SUBSET Idents, Metadata(d, found)
        PROVE  Inductive'
    <2>1. /\ UNCHANGED <<edges, parked, done, skipped, tx>>
          /\ overlapped => overlapped'
          /\ idents'[d] = (idents[d] \ Superseded(d, found)) \union found
          /\ former'[d] = former[d] \union Superseded(d, found)
          /\ \A e \in Docs \ {d} : idents'[e] = idents[e] /\ former'[e] = former[e]
      BY <1>0, <1>1 DEF Metadata, Starting, TypeOK
    <2>2. Grows
      BY <2>1 DEF Grows, Borne
    <2>3. OwnIsKnown'
      <3>1. \A v \in Workers : Open(v) => tx[v].doc \in Docs
        BY <1>0 DEF Open, TypeOK, Transactions
      <3> QED  BY <2>1, <2>2, <3>1 DEF Inductive, OwnIsKnown, Grows, Open, Borne
    <2>6. OneUnlessOverlapped'
      BY <2>1 DEF Inductive, OneUnlessOverlapped, Open
    <2>4. TodoIsOwn' /\ DeletedArePromoted'
      BY <2>1 DEF Inductive, TodoIsOwn, DeletedArePromoted, Open
    <2>5. VisitedAreRecorded'
      <3> SUFFICES ASSUME NEW v \in Workers, Open(v), NEW i \in Visited(tx[v])
                   PROVE  OnRecord(tx[v], tx[v].doc, i)'
        BY <2>1 DEF VisitedAreRecorded, Visited, Open
      <3>1. OnRecord(tx[v], tx[v].doc, i) /\ tx[v].doc \in Docs
        BY <1>0 DEF Inductive, VisitedAreRecorded, Open, TypeOK, Transactions
      <3> QED  BY <2>1, <2>2, <3>1 DEF Grows, OnRecord, SeenParked, Borne
    <2> QED  BY <1>0, <2>1, <2>2, <2>3, <2>4, <2>5, <2>6, CitationsSurvive DEF Inductive
  <1>2. ASSUME NEW w \in Workers, NEW d \in Docs, Begin(w, d)
        PROVE  Inductive'
    <2>1. /\ Grows /\ UNCHANGED <<parked, done, skipped, idents, former>>
          /\ overlapped' \/ \A v \in Workers : ~Open(v)
      BY <1>2 DEF Begin, Starting, Open, Grows, Borne
    <2>2. Visited(tx'[w]) = {}
      BY <1>0, <1>2, BeginEffect DEF Visited
    <2> QED
      BY <1>0, <1>2, <2>1, <2>2, BeginEffect, OthersUnaffected DEF Open, Borne
  <1>3. ASSUME NEW w \in Workers, NEW i \in Idents, Cite(w, i)
        PROVE  Inductive'
    <2>1. /\ Grows /\ UNCHANGED <<parked, done, skipped, idents, former, edges>>
          /\ tx[w].phase = "citing" /\ i \in tx[w].todo
      BY <1>3 DEF Cite, Grows, Borne
    <2>0. /\ tx'[w].phase = "citing" /\ tx'[w].doc = tx[w].doc /\ tx'[w].own = tx[w].own
          /\ tx'[w].todo = tx[w].todo \ {i} /\ tx'[w].delParked = tx[w].delParked
      BY <1>0, <1>3, CiteEffect
    <2>2. /\ Open(w) /\ Open(w)' /\ tx[w].doc \in Docs
          /\ tx[w].own \subseteq Borne(tx[w].doc)
      BY <1>0, <2>0, <2>1 DEF Open, Inductive, OwnIsKnown, TypeOK, Transactions
    <2>3. \A j \in Visited(tx'[w]) : OnRecord(tx[w], tx[w].doc, j)'
      <3> SUFFICES ASSUME NEW j \in Visited(tx'[w])
                   PROVE  OnRecord(tx[w], tx[w].doc, j)'
        OBVIOUS
      <3>1. j \notin tx[w].own /\ (j = i \/ j \in Visited(tx[w]))
        BY <2>0, <2>1 DEF Visited
      <3>2. <<tx[w].doc, i>> \in tx[w].delParked => i \in tx[w].own
        BY <2>2 DEF Inductive, DeletedArePromoted
      <3>3. j # i => OnRecord(tx[w], tx[w].doc, j)
        BY <2>2, <3>1 DEF Inductive, VisitedAreRecorded
      <3>4. CASE Matching(i) = {}
        BY <1>0, <1>3, <2>1, <3>1, <3>2, <3>3, <3>4, CiteEffect DEF OnRecord, SeenParked, Borne, Grows
      <3>5. CASE Matching(i) # {}
        <4>1. PICK e \in Matching(i) : <<tx[w].doc, e>> \in edges \union tx'[w].addEdges
          BY <1>0, <1>3, <3>5, CiteEffect
        <4>2. /\ tx'[w].addParked = tx[w].addParked
              /\ tx[w].addEdges \subseteq tx'[w].addEdges
          BY <1>0, <1>3, <3>5, CiteEffect
        <4> QED  BY <2>0, <2>1, <3>1, <3>3, <4>1, <4>2 DEF OnRecord, SeenParked, Matching, Borne, Grows
      <3> QED  BY <3>4, <3>5
    <2>4. tx[w].addEdges \subseteq tx'[w].addEdges
      BY <1>0, <1>3, CiteEffect
    <2>5. \A s \in Docs, j \in Idents :
             <<s, j>> \in tx'[w].delParked =>
                /\ j \in tx'[w].own
                /\ s # tx'[w].doc => <<s, tx'[w].doc>> \in edges' \union tx'[w].addEdges
      BY <1>0, <1>3, <2>1, <2>4, CiteEffect DEF Inductive, DeletedArePromoted
    <2> QED
      BY <1>0, <1>3, <2>0, <2>1, <2>2, <2>3, <2>5, CiteEffect, OthersUnaffected DEF Borne
  <1>4. ASSUME NEW w \in Workers, StartReconciling(w)
        PROVE  Inductive'
    <2>1. /\ Grows /\ UNCHANGED <<parked, done, skipped, idents, former, edges>>
          /\ tx[w].phase = "citing" /\ tx[w].todo = {}
      BY <1>4 DEF StartReconciling, Grows, Borne
    <2>2. /\ Replaced(w)
          /\ tx'[w].phase = "reconciling" /\ tx'[w].todo = tx[w].own
          /\ tx'[w].doc = tx[w].doc /\ tx'[w].own = tx[w].own
          /\ tx'[w].addEdges = tx[w].addEdges /\ tx'[w].addParked = tx[w].addParked
          /\ tx'[w].delParked = tx[w].delParked
      BY <1>0, <1>4, StartReconcilingEffect
    <2>3. Open(w) /\ Open(w)' /\ Visited(tx'[w]) = Visited(tx[w])
      BY <2>1, <2>2 DEF Open, Visited
    <2>4. \A i \in Visited(tx'[w]) : OnRecord(tx[w], tx[w].doc, i)'
      BY <2>1, <2>2, <2>3 DEF Inductive, VisitedAreRecorded, OnRecord, SeenParked, Borne, Grows
    <2>5. tx'[w].own \subseteq Borne(tx[w].doc)'
      BY <2>1, <2>2, <2>3 DEF Inductive, OwnIsKnown, Borne
    <2>6. \A s \in Docs, j \in Idents :
             <<s, j>> \in tx'[w].delParked =>
                /\ j \in tx'[w].own
                /\ s # tx'[w].doc => <<s, tx'[w].doc>> \in edges' \union tx'[w].addEdges
      BY <2>1, <2>2 DEF Inductive, DeletedArePromoted
    <2> QED
      BY <1>0, <2>1, <2>2, <2>3, <2>4, <2>5, <2>6, OthersUnaffected
  <1>5. ASSUME NEW w \in Workers, NEW i \in Idents, Reconcile(w, i)
        PROVE  Inductive'
    <2>1. /\ Grows /\ UNCHANGED <<parked, done, skipped, idents, former, edges>>
          /\ tx[w].phase = "reconciling" /\ i \in tx[w].todo
      BY <1>5 DEF Reconcile, Grows, Borne
    <2>2. /\ Replaced(w)
          /\ tx'[w].phase = "reconciling" /\ tx'[w].todo = tx[w].todo \ {i}
          /\ tx'[w].doc = tx[w].doc /\ tx'[w].own = tx[w].own
          /\ tx'[w].addEdges = tx[w].addEdges \union (Promoted(tx[w], i) \ edges)
          /\ SeenParked(tx'[w]) = SeenParked(tx[w]) \ (Docs \X {i})
      BY <1>0, <1>5, ReconcileEffect
    <2>3. /\ Open(w) /\ Open(w)' /\ Visited(tx'[w]) = Visited(tx[w])
          /\ i \in tx[w].own
      BY <2>1, <2>2 DEF Open, Visited, Inductive, TodoIsOwn
    <2>4. \A j \in Visited(tx'[w]) : OnRecord(tx[w], tx[w].doc, j)'
      <3> SUFFICES ASSUME NEW j \in Visited(tx[w])
                   PROVE  OnRecord(tx[w], tx[w].doc, j)'
        BY <2>3
      <3>1. OnRecord(tx[w], tx[w].doc, j) /\ j # i
        BY <2>3 DEF Inductive, VisitedAreRecorded, Visited
      <3>2. SeenParked(tx[w])' = SeenParked(tx'[w])
        BY <2>1 DEF SeenParked
      <3> QED  BY <2>1, <2>2, <3>1, <3>2 DEF OnRecord, Borne, Grows
    <2>5. tx'[w].own \subseteq Borne(tx[w].doc)'
      BY <2>1, <2>2, <2>3 DEF Inductive, OwnIsKnown, Borne
    <2>6. ASSUME NEW s \in Docs, NEW j \in Idents, <<s, j>> \in tx'[w].delParked
          PROVE  /\ j \in tx'[w].own
                 /\ s # tx'[w].doc => <<s, tx'[w].doc>> \in edges' \union tx'[w].addEdges
      <3>1. \/ <<s, j>> \in tx[w].delParked
            \/ j = i /\ <<s, i>> \in SeenParked(tx[w])
        BY <1>0, <1>5, <2>6, ReconcileEffect
      <3>2. CASE <<s, j>> \in tx[w].delParked
        BY <2>1, <2>2, <3>2 DEF Inductive, DeletedArePromoted
      <3>3. CASE j = i /\ <<s, i>> \in SeenParked(tx[w])
        <4>1. s # tx[w].doc => <<s, tx[w].doc>> \in Promoted(tx[w], i)
          BY <3>3 DEF Promoted
        <4> QED  BY <2>1, <2>2, <2>3, <3>3, <4>1
      <3> QED  BY <3>1, <3>2, <3>3
    <2>7. tx'[w].todo \subseteq tx'[w].own
      BY <2>1, <2>2 DEF Inductive, TodoIsOwn
    <2> QED
      BY <1>0, <2>1, <2>2, <2>3, <2>4, <2>5, <2>6, <2>7, OthersUnaffected
  <1>6. ASSUME NEW w \in Workers, RollBack(w) \/ Fail(w)
        PROVE  Inductive'
    <2>1. Grows /\ UNCHANGED <<parked, done, skipped, idents, former, edges>> /\ Close(w)
      BY <1>6 DEF RollBack, Fail, Grows, Borne
    <2>2. Replaced(w) /\ ~Open(w)' /\ tx'[w].delParked = {}
      BY <1>0, <2>1, CloseEffect
    <2>3. tx'[w].phase # "reconciling"
      BY <2>2 DEF Open
    <2> QED  BY <1>0, <2>1, <2>2, <2>3, OthersUnaffected
  <1>8. CASE UNCHANGED vars
    BY <1>8 DEF vars, Inductive, TypeOK, OwnIsKnown, TodoIsOwn, VisitedAreRecorded, Visited,
            OnRecord, SeenParked, DeletedArePromoted, NoCitationLost, Open, Borne,
            OneUnlessOverlapped
  <1> QED
    BY <1>0, <1>1, <1>2, <1>3, <1>4, <1>5, <1>6, <1>8, CommitKeepsInductive
    DEF Next, Extract

\* Before anything is extracted no transaction is open and nothing is on record.
LEMMA InitIsInductive == Init => Inductive
  <1> SUFFICES ASSUME Init
               PROVE  Inductive
    OBVIOUS
  <1>1. /\ \A w \in Workers : tx[w] = Closed
        /\ tx \in [Workers -> Transactions]
    BY ClosedIsTransaction DEF Init
  <1>2. /\ Closed.phase = "idle" /\ Closed.doc = NoDoc /\ Closed.delParked = {}
    BY DEF Closed
  <1>3. TypeOK
    <2>1. /\ failures \in 0 .. MaxFailures
          /\ runs \in [Docs -> Nat] /\ \A d \in Docs : runs[d] <= MaxRuns[d]
      <3>1. MaxFailures \in Nat /\ \A d \in Docs : MaxRuns[d] \in Nat
        BY GraphAssumption
      <3> QED  BY <3>1 DEF Init
    <2>2. \A f \in {idents, former, answered, skipped} : f \in [Docs -> SUBSET Idents]
      BY DEF Init
    <2> QED  BY <1>1, <1>2, <2>1, <2>2, GraphAssumption DEF Init, TypeOK
  <1> QED
    BY <1>1, <1>2, <1>3
    DEF Init, Inductive, OwnIsKnown, OneUnlessOverlapped, TodoIsOwn, VisitedAreRecorded, DeletedArePromoted,
        NoCitationLost, Open

\* Every record, table and counter keeps its type: a document is handed on at
\* most MaxRuns times, and a handler is idle exactly where it has no document.
THEOREM TypeCorrect == Spec => []TypeOK
  <1>1. Init => TypeOK
    BY InitIsInductive DEF Inductive
  <1> QED  BY <1>1, TypeInvariant, PTL DEF Spec

\* The inductive invariant of the citation graph.
THEOREM InductiveHolds == Spec => []Inductive
  BY InitIsInductive, InductiveStep, PTL DEF Spec

\* However extractions interleave, fail, roll back and are repeated, each
\* citation of an extracted document stays on record, as a parked row or as an
\* edge to a document that answers to it or did before metadata renumbered it.
THEOREM CitationsAreKept == Spec => []NoCitationLost
  <1>1. Inductive => NoCitationLost
    BY DEF Inductive
  <1> QED  BY <1>1, InductiveHolds, PTL

(***************************************************************************)
(* Extractions one at a time.                                              *)
(***************************************************************************)
\* A handler's step keeps it alone, if its transaction stays in order.
LEMMA StaysAlone ==
    ASSUME Alone, NEW w \in Workers, Open(w), Replaced(w),
           Open(w)' => InOrder(tx[w])'
    PROVE  Alone'
  <1>1. \A v \in Workers \ {w} : ~Open(v)'
    BY DEF Alone, Replaced, Open
  <1> QED  BY <1>1 DEF Alone

\* Edges, parked rows and identifiers as they are keep the three properties.
LEMMA TablesStand ==
    ASSUME AnsweredIsKnown, NoSelfEdge, ParkedMeansNotIngested, ~overlapped,
           UNCHANGED <<edges, parked, idents, answered>>
    PROVE  AnsweredIsKnown' /\ NoSelfEdge' /\ ParkedMeansNotIngested'
  BY DEF AnsweredIsKnown, NoSelfEdge, ParkedMeansNotIngested, Promotable

LEMMA SequentialStep == Inductive /\ Sequential /\ [Next]_vars => Sequential'
  <1> SUFFICES ASSUME Inductive, Sequential, [Next]_vars, ~overlapped'
               PROVE  Alone' /\ AnsweredIsKnown' /\ NoSelfEdge' /\ ParkedMeansNotIngested'
    BY DEF Sequential
  <1>0. TypeOK /\ ~overlapped /\ Alone /\ AnsweredIsKnown /\ NoSelfEdge /\ ParkedMeansNotIngested
    BY DEF Sequential, Inductive, TypeOK, Next, Extract, Metadata, Begin, Starting, Cite,
           StartReconciling, Reconcile, Commit, RollBack, Fail, vars
  <1>1. ASSUME NEW d \in Docs, NEW found \in SUBSET Idents, Metadata(d, found)
        PROVE  Alone' /\ AnsweredIsKnown' /\ NoSelfEdge' /\ ParkedMeansNotIngested'
    <2>1. /\ UNCHANGED <<edges, parked, tx>> /\ \A v \in Workers : ~Open(v)
          /\ idents'[d] = (idents[d] \ Superseded(d, found)) \union found
          /\ answered'[d] = answered[d] \ Superseded(d, found)
          /\ \A e \in Docs \ {d} : idents'[e] = idents[e] /\ answered'[e] = answered[e]
      BY <1>0, <1>1 DEF Metadata, Starting, Open, TypeOK
    <2>2. AnsweredIsKnown'
      BY <1>0, <2>1 DEF AnsweredIsKnown
    <2>3. \A e \in Docs : answered'[e] \subseteq answered[e]
      BY <2>1
    <2> QED
      BY <1>0, <2>1, <2>2, <2>3
      DEF Alone, Open, NoSelfEdge, ParkedMeansNotIngested, Promotable
  <1>2. ASSUME NEW w \in Workers, NEW d \in Docs, Begin(w, d)
        PROVE  Alone' /\ AnsweredIsKnown' /\ NoSelfEdge' /\ ParkedMeansNotIngested'
    <2>1. /\ UNCHANGED <<edges, parked, answered, idents>>
          /\ \A v \in Workers : ~Open(v)
      BY <1>2 DEF Begin, Starting, Open
    <2>2. InOrder(tx[w])'
      BY <1>0, <1>2, <2>1, BeginEffect DEF InOrder
    <2>3. \A v \in Workers \ {w} : ~Open(v)'
      BY <1>0, <1>2, <2>1, BeginEffect DEF Replaced, Open
    <2> QED  BY <1>0, <2>1, <2>2, <2>3, TablesStand DEF Alone
  <1>3. ASSUME NEW w \in Workers, NEW i \in Idents, Cite(w, i)
        PROVE  Alone' /\ AnsweredIsKnown' /\ NoSelfEdge' /\ ParkedMeansNotIngested'
    <2>1. /\ UNCHANGED <<edges, parked, answered, idents>>
          /\ tx[w].phase = "citing" /\ i \in tx[w].todo /\ Open(w)
      BY <1>3 DEF Cite, Open
    <2>2. /\ Replaced(w)
          /\ tx'[w].phase = "citing" /\ tx'[w].doc = tx[w].doc /\ tx'[w].own = tx[w].own
          /\ tx'[w].todo = tx[w].todo \ {i}
      BY <1>0, <1>3, CiteEffect
    <2>3. InOrder(tx[w]) /\ i \notin idents[tx[w].doc]
      BY <1>0, <2>1 DEF Alone, InOrder
    <2>4. \A d \in Docs : <<d, d>> \notin tx'[w].addEdges
      <3>1. CASE Matching(i) = {}
        BY <1>0, <1>3, <2>3, <3>1, CiteEffect DEF InOrder
      <3>2. CASE Matching(i) # {}
        <4>1. PICK e \in Matching(i) :
                 tx'[w].addEdges \ tx[w].addEdges \subseteq {<<tx[w].doc, e>>}
          BY <1>0, <1>3, <3>2, CiteEffect
        <4>2. e # tx[w].doc
          BY <2>3 DEF Matching
        <4>3. \A d \in Docs : <<d, d>> \notin tx[w].addEdges
          BY <2>3 DEF InOrder
        <4>4. \A d \in Docs : <<d, d>> # <<tx[w].doc, e>>
          BY <4>2
        <4>5. \A p \in tx'[w].addEdges : p \in tx[w].addEdges \/ p = <<tx[w].doc, e>>
          BY <4>1
        <4> QED  BY <4>3, <4>4, <4>5, Zenon
      <3> QED  BY <3>1, <3>2
    <2>5. \A s, d \in Docs, j \in Idents : <<s, j>> \in tx'[w].addParked => j \notin idents[d]
      <3>1. CASE Matching(i) = {}
        <4>1. tx'[w].addParked \ tx[w].addParked \subseteq {<<tx[w].doc, i>>}
          BY <1>0, <1>3, <3>1, CiteEffect
        <4> QED  BY <2>3, <3>1, <4>1 DEF InOrder, Matching
      <3>2. CASE Matching(i) # {}
        BY <1>0, <1>3, <2>3, <3>2, CiteEffect DEF InOrder
      <3> QED  BY <3>1, <3>2
    <2>6. InOrder(tx[w])'
      BY <2>1, <2>2, <2>3, <2>4, <2>5 DEF InOrder
    <2> QED  BY <1>0, <2>1, <2>2, <2>6, StaysAlone, TablesStand
  <1>4. ASSUME NEW w \in Workers, StartReconciling(w)
        PROVE  Alone' /\ AnsweredIsKnown' /\ NoSelfEdge' /\ ParkedMeansNotIngested'
    <2>1. UNCHANGED <<edges, parked, answered, idents>> /\ Open(w)
      BY <1>4 DEF StartReconciling, Open
    <2>2. InOrder(tx[w])
      BY <1>0, <2>1 DEF Alone
    <2>3. InOrder(tx[w])' /\ Replaced(w)
      BY <1>0, <1>4, <2>1, <2>2, StartReconcilingEffect DEF InOrder
    <2> QED  BY <1>0, <2>1, <2>3, StaysAlone, TablesStand
  <1>5. ASSUME NEW w \in Workers, NEW i \in Idents, Reconcile(w, i)
        PROVE  Alone' /\ AnsweredIsKnown' /\ NoSelfEdge' /\ ParkedMeansNotIngested'
    <2>1. /\ UNCHANGED <<edges, parked, answered, idents>>
          /\ Open(w) /\ tx[w].phase = "reconciling"
      BY <1>5 DEF Reconcile, Open
    <2>2. InOrder(tx[w])
      BY <1>0, <2>1 DEF Alone
    <2>3. /\ Replaced(w)
          /\ tx'[w].phase = "reconciling" /\ tx'[w].todo = tx[w].todo \ {i}
          /\ tx'[w].doc = tx[w].doc /\ tx'[w].own = tx[w].own
          /\ tx'[w].addEdges = tx[w].addEdges \union (Promoted(tx[w], i) \ edges)
          /\ tx'[w].addParked = tx[w].addParked
          /\ SeenParked(tx'[w]) = SeenParked(tx[w]) \ (Docs \X {i})
      BY <1>0, <1>5, ReconcileEffect
    <2>4. SeenParked(tx[w])' = SeenParked(tx'[w])
      BY <2>1 DEF SeenParked
    <2>5. \A d \in Docs : <<d, d>> \notin tx'[w].addEdges
      <3>1. \A d \in Docs : <<d, d>> \notin Promoted(tx[w], i)
        BY DEF Promoted
      <3> QED  BY <2>2, <2>3, <3>1 DEF InOrder
    <2>6. InOrder(tx[w])'
      BY <2>1, <2>2, <2>3, <2>4, <2>5 DEF InOrder
    <2> QED  BY <1>0, <2>1, <2>3, <2>6, StaysAlone, TablesStand
  <1>6. ASSUME NEW w \in Workers, Commit(w)
        PROVE  Alone' /\ AnsweredIsKnown' /\ NoSelfEdge' /\ ParkedMeansNotIngested'
    <2>1. /\ Open(w) /\ tx[w].phase = "reconciling" /\ tx[w].todo = {}
          /\ edges' = edges \union tx[w].addEdges /\ parked' = SeenParked(tx[w])
          /\ answered' = [answered EXCEPT ![tx[w].doc] = tx[w].own]
          /\ idents' = idents
      BY <1>6 DEF Commit, Open
    <2>2. InOrder(tx[w])
      BY <1>0, <2>1 DEF Alone
    <2>3. Alone'
      BY <1>0, <1>6, <2>1, CloseEffect, StaysAlone DEF Commit
    <2>4. NoSelfEdge'
      BY <1>0, <2>1, <2>2 DEF NoSelfEdge, InOrder
    <2>5. /\ tx[w].doc \in Docs /\ answered'[tx[w].doc] = tx[w].own
          /\ \A d \in Docs \ {tx[w].doc} : answered'[d] = answered[d]
      BY <1>0, <2>1 DEF Open, TypeOK, Transactions
    <2>6. AnsweredIsKnown'
      BY <1>0, <2>1, <2>2, <2>5 DEF AnsweredIsKnown, InOrder
    <2>7. ASSUME NEW d \in Docs, NEW s \in Docs, NEW i \in answered'[d]
          PROVE  <<s, i>> \notin parked'
      <3>1. CASE d # tx[w].doc
        <4>1. <<s, i>> \notin parked
          BY <1>0, <2>5, <2>7, <3>1 DEF ParkedMeansNotIngested, Promotable
        <4>2. i \in idents[d] /\ i \in Idents
          BY <1>0, <2>5, <2>7, <3>1 DEF AnsweredIsKnown, TypeOK
        <4> QED  BY <2>1, <2>2, <4>1, <4>2 DEF InOrder, SeenParked
      <3>2. CASE d = tx[w].doc
        BY <2>1, <2>2, <2>5, <2>7, <3>2 DEF InOrder
      <3> QED  BY <3>1, <3>2
    <2> QED  BY <2>3, <2>4, <2>6, <2>7 DEF ParkedMeansNotIngested, Promotable
  <1>7. ASSUME NEW w \in Workers, RollBack(w) \/ Fail(w)
        PROVE  Alone' /\ AnsweredIsKnown' /\ NoSelfEdge' /\ ParkedMeansNotIngested'
    <2>1. UNCHANGED <<edges, parked, idents, answered>> /\ Close(w) /\ Open(w)
      BY <1>7 DEF RollBack, Fail, Open
    <2> QED  BY <1>0, <2>1, CloseEffect, StaysAlone, TablesStand
  <1>8. CASE UNCHANGED vars
    BY <1>0, <1>8, TablesStand DEF vars, Alone, InOrder, SeenParked, Open
  <1> QED
    BY <1>1, <1>2, <1>3, <1>4, <1>5, <1>6, <1>7, <1>8 DEF Next, Extract

\* One extraction at a time: the invariant of the sync backend and of a single
\* extract handler.
THEOREM SequentialHolds == Spec => []Sequential
  <1>1. Init => Sequential
    <2>1. Init => \A w \in Workers : ~Open(w)
      BY DEF Init, Open, Closed
    <2> QED
      BY <2>1 DEF Init, Sequential, Alone, AnsweredIsKnown, NoSelfEdge, ParkedMeansNotIngested, Promotable
  <1> QED  BY <1>1, SequentialStep, InductiveHolds, PTL DEF Spec

\* Unless extractions overlapped, no document is recorded as citing itself,
\* though its identifiers may reach it after a first extraction parked them.
THEOREM NothingCitesItself == Spec => []NoSelfEdge
  <1>1. Sequential => NoSelfEdge
    BY DEF Sequential, NoSelfEdge
  <1> QED  BY <1>1, SequentialHolds, PTL

\* Unless extractions overlapped, a citation is parked only while no extracted
\* document has answered to it since, in whatever order the corpus arrives and
\* whatever numbers metadata replaces.
THEOREM ParkedIsUnanswered == Spec => []ParkedMeansNotIngested
  <1>1. Sequential => ParkedMeansNotIngested
    BY DEF Sequential, ParkedMeansNotIngested
  <1> QED  BY <1>1, SequentialHolds, PTL
=============================================================================
