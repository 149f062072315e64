----------------------------- MODULE References -----------------------------
(***************************************************************************)
(* The citation graph the extract step builds (worker_extract, services/   *)
(* reference_service.py).  A citation names an identifier.  It becomes an  *)
(* edge to the document that answers to it, or is parked until a document  *)
(* that does is extracted and promotes it.                                 *)
(*                                                                         *)
(* Each extraction is one READ COMMITTED transaction: a statement sees     *)
(* what is committed when it runs and the transaction's own writes, and    *)
(* its own writes become visible at the commit the hand-over makes.        *)
(***************************************************************************)
EXTENDS Naturals, FiniteSets

CONSTANTS
    Docs,
    Idents,      \* arendenummer and beslutsnummer
    Workers,     \* extract handlers
    NoDoc,       \* what an idle handler works on
    Cites,       \* the identifiers each document's text cites
    Column,      \* the column an identifier belongs in: the formats are disjoint
    Answers,     \* the identifiers metadata may find a document to carry
    Rank,        \* (decision_date, id): the order lookups return matches in
    MaxRuns,     \* times the metadata step hands each document to extract
    MaxFailures  \* extractions that fail on their own account

ASSUME GraphAssumption ==
    /\ Cites \in [Docs -> SUBSET Idents]
    /\ Answers \in [Docs -> SUBSET Idents]
    /\ \A i \in Idents : Column[i] \in {"case_number", "decision_number"}
    /\ Rank \in [Docs -> Nat]
    /\ \A d, e \in Docs : Rank[d] = Rank[e] => d = e
    /\ MaxRuns \in [Docs -> Nat]
    /\ MaxFailures \in Nat
    /\ NoDoc \notin Docs

VARIABLES
    idents,    \* committed identifier columns of each document
    due,       \* documents with a pending extract row
    runs,      \* times each document was handed to extract
    edges,     \* document_references
    parked,    \* unresolved_references
    done,      \* documents with a committed extraction
    former,    \* identifiers metadata has replaced by another
    answered,  \* identifiers a document has answered to ever since its last
               \* extraction reconciled them
    skipped,   \* identifiers that extraction took to be the document's own
    tx,        \* the extraction each handler has open
    failures,
    overlapped \* something began, or was committed by metadata, while an
               \* extraction was open: never so where one handler runs at a time

vars == <<idents, former, due, runs, edges, parked, done, answered, skipped, tx,
          failures, overlapped>>

Phases == {"idle", "citing", "reconciling"}

Transactions ==
    [phase : Phases, doc : Docs \union {NoDoc},
     own : SUBSET Idents,              \* the document's identifiers, read once
     todo : SUBSET Idents,             \* what the loop still has to visit
     addEdges : SUBSET (Docs \X Docs),
     addParked : SUBSET (Docs \X Idents),
     delParked : SUBSET (Docs \X Idents)]

Closed == [phase |-> "idle", doc |-> NoDoc, own |-> {}, todo |-> {},
           addEdges |-> {}, addParked |-> {}, delParked |-> {}]

TypeOK ==
    /\ idents \in [Docs -> SUBSET Idents]
    /\ due \in SUBSET Docs
    /\ runs \in [Docs -> Nat] /\ \A d \in Docs : runs[d] <= MaxRuns[d]
    /\ edges \in SUBSET (Docs \X Docs)
    /\ parked \in SUBSET (Docs \X Idents)
    /\ done \in SUBSET Docs
    /\ former \in [Docs -> SUBSET Idents]
    /\ answered \in [Docs -> SUBSET Idents]
    /\ skipped \in [Docs -> SUBSET Idents]
    /\ tx \in [Workers -> Transactions]
    /\ \A w \in Workers : tx[w].doc = NoDoc <=> tx[w].phase = "idle"
    /\ failures \in 0 .. MaxFailures
    /\ overlapped \in BOOLEAN

Init ==
    /\ idents = [d \in Docs |-> {}]
    /\ due = {}
    /\ runs = [d \in Docs |-> 0]
    /\ edges = {}
    /\ parked = {}
    /\ done = {}
    /\ former = [d \in Docs |-> {}]
    /\ answered = [d \in Docs |-> {}]
    /\ skipped = [d \in Docs |-> {}]
    /\ tx = [w \in Workers |-> Closed]
    /\ failures = 0
    /\ overlapped = FALSE

\* On the sync backend this leaves overlapped as it is.
Starting == overlapped' = (overlapped \/ \E w \in Workers : tx[w].phase # "idle")

\* The identifiers of d that another number in the same column takes the place of.
Superseded(d, found) ==
    {i \in idents[d] : \E j \in found : j # i /\ Column[j] = Column[i]}

\* The metadata step stores the identifiers it found, at most one a column, and
\* hands the document on in one commit.  A column it found nothing for is left
\* as it was; one it did is overwritten.
Metadata(d, found) ==
    /\ Starting
    /\ runs[d] < MaxRuns[d]
    /\ found \subseteq Answers[d]
    /\ \A i, j \in found : Column[i] = Column[j] => i = j
    /\ idents' = [idents EXCEPT ![d] = (@ \ Superseded(d, found)) \union found]
    /\ former' = [former EXCEPT ![d] = @ \union Superseded(d, found)]
    /\ answered' = [answered EXCEPT ![d] = @ \ Superseded(d, found)]
    /\ due' = due \union {d}
    /\ runs' = [runs EXCEPT ![d] = @ + 1]
    /\ UNCHANGED <<edges, parked, done, skipped, tx, failures>>

\* The document is read once, at the top of the body.  The loop over its
\* citations passes over those that name the document itself.
Begin(w, d) ==
    /\ Starting
    /\ tx[w].phase = "idle"
    /\ d \in due
    /\ due' = due \ {d}
    /\ tx' = [tx EXCEPT ![w] = [Closed EXCEPT
                !.phase = "citing", !.doc = d, !.own = idents[d],
                !.todo = Cites[d] \ idents[d]]]
    /\ UNCHANGED <<idents, former, runs, edges, parked, done, answered, skipped, failures>>

\* Documents that answer to i; a lookup returns the first of them.
Matching(i) == {d \in Docs : i \in idents[d]}

First(S) == CHOOSE d \in S : \A e \in S : Rank[d] <= Rank[e]

SeenParked(t) == (parked \union t.addParked) \ t.delParked

\* One turn of process_references: upsert an edge or a parked row.
Cite(w, i) ==
    LET t == tx[w]
        edge == <<t.doc, First(Matching(i))>>
        row == <<t.doc, i>>
    IN  /\ t.phase = "citing"
        /\ i \in t.todo
        /\ tx' = [tx EXCEPT ![w] = [t EXCEPT
                    !.todo = @ \ {i},
                    !.addEdges = IF Matching(i) # {} /\ edge \notin edges
                                 THEN @ \union {edge} ELSE @,
                    !.addParked = IF Matching(i) = {} /\ row \notin SeenParked(t)
                                  THEN @ \union {row} ELSE @]]
        /\ UNCHANGED <<idents, former, due, runs, edges, parked, done, answered, skipped, failures, overlapped>>

\* Variant: only one of the document's identifiers is reconciled.
ToReconcileFirst(own) == IF own = {} THEN {} ELSE {CHOOSE i \in own : TRUE}

\* The identifiers under which parked citations are looked for.
ToReconcile(own) == own

StartReconciling(w) ==
    /\ tx[w].phase = "citing"
    /\ tx[w].todo = {}
    /\ tx' = [tx EXCEPT ![w].phase = "reconciling",
                        ![w].todo = ToReconcile(tx[w].own)]
    /\ UNCHANGED <<idents, former, due, runs, edges, parked, done, answered, skipped, failures, overlapped>>

\* Variant: a document's own parked row becomes an edge like any other.
PromotedWithSelf(t, i) ==
    {<<s, t.doc>> : s \in {s \in Docs : <<s, i>> \in SeenParked(t)}}

\* The edges a reconciled identifier's parked rows become.  A document that
\* parked its own identifier, before it was known to be its own, gets none.
Promoted(t, i) ==
    {<<s, t.doc>> : s \in {s \in Docs \ {t.doc} : <<s, i>> \in SeenParked(t)}}

\* Variant: the parked rows are deleted before they are read for promotion.
ReconcileDeletesFirst(w, i) ==
    LET t == tx[w]
        cleared == [t EXCEPT !.delParked = @ \union (Docs \X {i})]
    IN  /\ t.phase = "reconciling"
        /\ i \in t.todo
        /\ tx' = [tx EXCEPT ![w] = [cleared EXCEPT
                    !.todo = @ \ {i},
                    !.addEdges = @ \union (Promoted(cleared, i) \ edges)]]
        /\ UNCHANGED <<idents, former, due, runs, edges, parked, done, answered, skipped, failures, overlapped>>

\* One turn of reconcile_references: promote and delete what is parked under i.
Reconcile(w, i) ==
    LET t == tx[w]
    IN  /\ t.phase = "reconciling"
        /\ i \in t.todo
        /\ tx' = [tx EXCEPT ![w] = [t EXCEPT
                    !.todo = @ \ {i},
                    !.addEdges = @ \union (Promoted(t, i) \ edges),
                    !.delParked = @ \union
                        {<<s, i>> : s \in {s \in Docs : <<s, i>> \in SeenParked(t)}}]]
        /\ UNCHANGED <<idents, former, due, runs, edges, parked, done, answered, skipped, failures, overlapped>>

Close(w) == tx' = [tx EXCEPT ![w] = Closed]

\* A row another extraction inserted meanwhile violates the key of its table:
\* the transaction is rolled back and the extract row is failed, not retried.
Clashes(t) == t.addEdges \intersect edges # {} \/ t.addParked \intersect parked # {}

Commit(w) ==
    LET t == tx[w]
    IN  /\ t.phase = "reconciling"
        /\ t.todo = {}
        /\ ~Clashes(t)
        /\ edges' = edges \union t.addEdges
        /\ parked' = SeenParked(t)
        /\ done' = done \union {t.doc}
        /\ answered' = [answered EXCEPT ![t.doc] = t.own]
        /\ skipped' = [skipped EXCEPT ![t.doc] =
                          IF overlapped THEN @ \union t.own ELSE t.own]
        /\ Close(w)
        /\ UNCHANGED <<idents, former, due, runs, failures, overlapped>>

RollBack(w) ==
    /\ tx[w].phase = "reconciling"
    /\ tx[w].todo = {}
    /\ Clashes(tx[w])
    /\ Close(w)
    /\ UNCHANGED <<idents, former, due, runs, edges, parked, done, answered, skipped, failures, overlapped>>

\* The strategy or the database raises at any point of the body.
Fail(w) ==
    /\ tx[w].phase # "idle"
    /\ failures < MaxFailures
    /\ failures' = failures + 1
    /\ Close(w)
    /\ UNCHANGED <<idents, former, due, runs, edges, parked, done, answered, skipped, overlapped>>

Extract(w) ==
    \/ \E d \in Docs : Begin(w, d)
    \/ \E i \in Idents : Cite(w, i) \/ Reconcile(w, i)
    \/ StartReconciling(w)
    \/ Commit(w)
    \/ RollBack(w)
    \/ Fail(w)

Next ==
    \/ \E d \in Docs, found \in SUBSET Idents : Metadata(d, found)
    \/ \E w \in Workers : Extract(w)

Spec == Init /\ [][Next]_vars

(***************************************************************************)
(* Properties.                                                             *)
(***************************************************************************)
\* An extracted document's citations are all on record, as a parked row or as an
\* edge to a document that answers to them or did until metadata gave it another
\* number: parking, promotion and re-extraction between them lose none.  What its
\* last extraction took to be its own number, or one that overlapped it, is not
\* a citation; one that it took so before, and no longer does, is.
NoCitationLost ==
    \A d \in done : \A i \in Cites[d] \ skipped[d] :
        \/ <<d, i>> \in parked
        \/ \E e \in Docs : <<d, e>> \in edges /\ i \in idents[e] \union former[e]

\* Unless extractions overlapped, no document cites itself, though it may have
\* parked one of its identifiers before metadata recognised it as its own.
NoSelfEdge == overlapped \/ \A d \in Docs : <<d, d>> \notin edges

Promotable == \E d, s \in Docs : \E i \in answered[d] : <<s, i>> \in parked

\* Unless extractions overlapped, nothing stays parked under an identifier that
\* an extracted document has answered to since, in whatever order the documents
\* came and however often metadata changed its mind about a number.
ParkedMeansNotIngested == overlapped \/ ~Promotable
=============================================================================
