------------------------------- MODULE Search -------------------------------
(***************************************************************************)
(* What a client reads of the corpus while the pipeline goes on changing   *)
(* it: the hybrid search, the listing by metadata, and the listing of the  *)
(* entities that decisions name.                                           *)
(*                                                                         *)
(* A request holds one session and runs one statement at a time, each on   *)
(* the rows committed by then.  Similarity and text rank are given; what   *)
(* is modelled is which rows a statement may return and what is made of    *)
(* the rankings.  A decision is never deleted.                             *)
(***************************************************************************)
EXTENDS Integers, FiniteSets, Sequences, SequencesExt, FiniteSetsExt

CONSTANTS
    Docs,             \* identifiers, ordered as the database orders them
    Labels,           \* entities, as <<type, name>>, names ordered as numbers
    Categories, Dates, None,
    Queries,
    Normal,           \* query -> its stripped, case-folded form
    Variants,         \* lists of phrasings a caller or the expansion may bring
    MaxVariants,      \* search_max_query_variants
    Similarity,       \* query -> passage -> 0 .. : cosine similarity
    TextRank,         \* query -> passage -> 0 .. : ts_rank, 0 for no match
    Floor,            \* search_min_vector_similarity
    ArmLimit,         \* search_arm_limit
    CandidateLimit,   \* search_candidate_limit
    SearchLimit, PageLimit,  \* what a client asks for a page of each
    RrfK,             \* DEFAULT_RRF_K
    MaxChanges, MaxRequests

Sections == {"body", "appendix"}

\* What may be asked: a client's questions, and phrasings from it or a model.
Phrasings == DOMAIN Normal

ASSUME CorpusAssumption ==
    /\ Docs \subseteq Nat /\ IsFiniteSet(Docs)
    /\ Dates \subseteq Int /\ None \notin Dates
    /\ \A l \in Labels : l = <<l[1], l[2]>> /\ l[2] \in Nat
    /\ IsFiniteSet(Labels)

ASSUME QueriesAssumption ==
    /\ Queries \subseteq Phrasings
    /\ Variants \subseteq Seq(Phrasings)
    /\ {Similarity, TextRank} \subseteq [Phrasings -> [Docs \X Sections -> Nat]]

ASSUME LimitsAssumption ==
    /\ {ArmLimit, CandidateLimit, SearchLimit, RrfK, Floor} \subseteq Nat
    /\ PageLimit \in Nat \ {0}

VARIABLES
    docs,      \* the decisions, with what the pipeline has made of them
    entities,  \* the rows of the entities table
    changes,   \* how often the pipeline has committed
    request,   \* the request under way, or the last one
    requests

vars == <<docs, entities, changes, request, requests>>

(***************************************************************************)
(* The corpus.  A chunk is <<document, section, chunk set>>.               *)
(***************************************************************************)
Fresh ==
    [parsed |-> FALSE, category |-> None, date |-> None, labels |-> {},
     sets |-> {}, embedded |-> {}, last |-> 0, raced |-> FALSE]

Ready(category, date, labels) ==
    [parsed |-> TRUE, category |-> category, date |-> date, labels |-> labels,
     sets |-> {1}, embedded |-> {1}, last |-> 1, raced |-> FALSE]

Chunks == UNION {{<<d, s, v>> : s \in Sections, v \in docs[d].sets} : d \in Docs}

NoFilter == <<"none", None>>

\* One criterion each; the code conjoins them.
Filters ==
    {NoFilter}
    \union {<<"category", c>> : c \in Categories}
    \union {<<"keyword", l[2]>> : l \in {l \in Labels : l[1] = "keyword"}}
    \union {<<"type", l[1]>> : l \in Labels}

\* The types that may be asked for, or none.
EntityTypes == {NoFilter} \union {<<"type", l[1]>> : l \in Labels}

\* The gate on raw_text is part of every filter, also of the empty one.
Matching(f) ==
    {d \in Docs :
        /\ docs[d].parsed
        /\ CASE f = NoFilter -> TRUE
             [] f[1] = "category" -> docs[d].category = f[2]
             [] f[1] = "keyword" -> <<"keyword", f[2]>> \in docs[d].labels
             [] f[1] = "type" -> \E l \in docs[d].labels : l[1] = f[2]}

\* The decisions that name an entity.
DocumentsFor(e) == {d \in Docs : e \in docs[d].labels}

\* The entities of a type, or of all types.  The join drops an entity that no
\* decision links to any more.
ListEntities(f) ==
    {e \in entities : (f = NoFilter \/ e[1] = f[2]) /\ DocumentsFor(e) # {}}

(***************************************************************************)
(* The order a statement returns its rows in, where ORDER BY leaves some   *)
(* free.                                                                   *)
(***************************************************************************)
Ordered(S, Before(_, _)) ==
    {s \in SetToSeqs(S) : \A i, j \in DOMAIN s : i < j => ~Before(s[j], s[i])}

\* S in the order of a set of pairs, which leaves nothing free.
Arranged(S, before) ==
    [n \in 1 .. Cardinality(S) |->
        CHOOSE a \in S : Cardinality({b \in S : <<b, a>> \in before}) = n - 1]

FirstOf(s, n) == SubSeq(s, 1, Min({n, Len(s)}))

\* Variant: decisions of one date in no order.
NewerByDate(d, e) ==
    docs[d].date # None /\ (docs[e].date = None \/ docs[d].date > docs[e].date)

\* The newest first, those without a date last, and then by identifier.
Newer(d, e) ==
    \/ docs[d].date # None /\ (docs[e].date = None \/ docs[d].date > docs[e].date)
    \/ docs[d].date = docs[e].date /\ d < e

\* Variant: entities of as many decisions in no order.
MoreCitedByCount(e, f) == Cardinality(DocumentsFor(e)) > Cardinality(DocumentsFor(f))

\* The most cited first, and then by name, which two types may share.
MoreCited(e, f) ==
    \/ Cardinality(DocumentsFor(e)) > Cardinality(DocumentsFor(f))
    \/ Cardinality(DocumentsFor(e)) = Cardinality(DocumentsFor(f)) /\ e[2] < f[2]

(***************************************************************************)
(* The phrasings of a search.                                              *)
(***************************************************************************)
\* A phrasing that is neither blank, nor one there is, nor one too many.  The
\* limit is looked at when one was added: a limit of none is no limit.
TakeVariant(kept, q) ==
    IF \/ Normal[q] = None
       \/ Normal[q] \in {Normal[k] : k \in ToSet(kept)}
       \/ Len(kept) > 1 /\ Len(kept) = MaxVariants + 1
    THEN kept ELSE Append(kept, q)

\* The question first, then the phrasings that differ from it and each other.
DedupeQueries(question, extra) ==
    LET upTo[n \in 0 .. Len(extra)] ==
            IF n = 0 THEN <<question>> ELSE TakeVariant(upTo[n - 1], extra[n])
    IN  upTo[Len(extra)]

(***************************************************************************)
(* Fusion.                                                                 *)
(***************************************************************************)
\* 1 / (RrfK + rank) over a common denominator.
Denominator ==
    LET product[n \in 0 .. ArmLimit] == IF n = 0 THEN 1 ELSE product[n - 1] * (RrfK + n)
    IN  product[ArmLimit]

Weight(rank) == Denominator \div (RrfK + rank)

Seen(rankings) == UNION {ToSet(rankings[i]) : i \in DOMAIN rankings}

RankIn(ranking, c) == CHOOSE r \in DOMAIN ranking : ranking[r] = c

\* Variant: the last ranking that holds a chunk decides its score.
ScoreLast(rankings, c) ==
    LET holding == {i \in DOMAIN rankings : c \in ToSet(rankings[i])}
    IN  Weight(RankIn(rankings[Max(holding)], c))

\* What a ranking adds to the score of a chunk it holds.
Adds(ranking, c) == IF c \in ToSet(ranking) THEN Weight(RankIn(ranking, c)) ELSE 0

Score(rankings, c) ==
    LET upTo[n \in 0 .. Len(rankings)] ==
            IF n = 0 THEN 0 ELSE upTo[n - 1] + Adds(rankings[n], c)
    IN  upTo[Len(rankings)]

\* The first ranking that holds a chunk.
FirstSeen(rankings, c) == Min({i \in DOMAIN rankings : c \in ToSet(rankings[i])})

\* The best first; chunks of one score in the order they were first seen.
Ahead(rankings) ==
    {p \in Seen(rankings) \X Seen(rankings) :
        LET a == p[1]
            b == p[2]
            i == FirstSeen(rankings, a)
            j == FirstSeen(rankings, b)
        IN  \/ Score(rankings, a) > Score(rankings, b)
            \/ Score(rankings, a) = Score(rankings, b) /\ i < j
            \/ Score(rankings, a) = Score(rankings, b) /\ i = j
               /\ RankIn(rankings[i], a) < RankIn(rankings[i], b)}

\* What was found of one decision, in the order of the fused list.
FoundOf(rankings, d) == {c \in Seen(rankings) : c[1] = d}

PassagesOf(rankings, d) == Arranged(FoundOf(rankings, d), Ahead(rankings))

\* The decisions of what was found.
DocsOf(rankings) == {c[1] : c \in Seen(rankings)}

\* The best passage wins, more passages break a tie, and then the identifier.
AheadOf(rankings) ==
    {p \in DocsOf(rankings) \X DocsOf(rankings) :
        LET Best(d) == Score(rankings, PassagesOf(rankings, d)[1])
            Count(d) == Cardinality(FoundOf(rankings, d))
            d == p[1]
            e == p[2]
        IN  \/ Best(d) > Best(e)
            \/ Best(d) = Best(e) /\ Count(d) > Count(e)
            \/ Best(d) = Best(e) /\ Count(d) = Count(e) /\ d < e}

RankedDocuments(rankings) == Arranged(DocsOf(rankings), AheadOf(rankings))

\* A page of the best decisions, each with its passages.
Hits(rankings) ==
    LET ranked == FirstOf(RankedDocuments(rankings), SearchLimit)
    IN  [i \in DOMAIN ranked |-> [doc |-> ranked[i], chunks |-> PassagesOf(rankings, ranked[i])]]

(***************************************************************************)
(* Requests.                                                               *)
(***************************************************************************)
NoRequest ==
    [kind |-> "none", done |-> TRUE, queries |-> <<>>, vectors |-> 1, filter |-> NoFilter,
     appendices |-> FALSE, matched |-> {}, candidates |-> {}, widened |-> FALSE,
     rankings |-> <<>>, silent |-> FALSE, hits |-> <<>>, pages |-> <<>>,
     moved |-> FALSE, rechunked |-> {}]

Init ==
    /\ docs \in [Docs -> {Fresh} \union {Ready(c, t, Labels) : c \in Categories, t \in Dates}]
    /\ entities = UNION {docs[d].labels : d \in Docs}
    /\ changes = 0
    /\ request = NoRequest
    /\ requests = 0

MayAsk == request.done /\ requests < MaxRequests

\* The lists of a failed expansion, and of a client that has none, are empty.  A
\* setting (search_expand_vector_arm) has each phrasing embedded, or the question.
StartSearch(question, extra, filter, appendices) ==
    /\ MayAsk
    /\ \E vectors \in {1, Len(DedupeQueries(question, extra))} :
          request' = [NoRequest EXCEPT !.kind = "search", !.done = FALSE,
                                       !.queries = DedupeQueries(question, extra),
                                       !.vectors = vectors,
                                       !.filter = filter, !.appendices = appendices]
    /\ requests' = requests + 1
    /\ UNCHANGED <<docs, entities, changes>>

\* Variant: a filter that matches nothing is dropped.
NarrowedOrAll(f) ==
    IF f = NoFilter \/ Matching(f) = {} THEN {Docs}
    ELSE kSubset(Min({CandidateLimit, Cardinality(Matching(f))}), Matching(f))

\* The decisions the arms are restricted to: all without a filter, else as many
\* of those it matches as the limit allows, whichever the database comes upon.
Narrowed(f) ==
    IF f = NoFilter THEN {Docs}
    ELSE kSubset(Min({CandidateLimit, Cardinality(Matching(f))}), Matching(f))

\* Where a filter matches nothing the answer is empty, and the question alone
\* is echoed.
FindCandidates ==
    /\ request.kind = "search" /\ ~request.done
    /\ request.candidates = {} /\ request.rankings = <<>>
    /\ \E found \in Narrowed(request.filter) :
          request' = [request EXCEPT
            !.matched = IF request.filter = NoFilter THEN Docs ELSE Matching(request.filter),
            !.candidates = found,
            !.queries = IF found = {} THEN FirstOf(@, 1) ELSE @,
            !.done = found = {}]
    /\ UNCHANGED <<docs, entities, changes, requests>>

\* Variant: no section is left out.
InScopeAny == {c \in Chunks : c[1] \in request.candidates}

\* The chunks an arm may return: of a candidate, and of a section in question.
InScope ==
    {c \in Chunks :
        c[1] \in request.candidates /\ (request.appendices \/ request.widened \/ c[2] = "body")}

\* The best of S by their score: what is better than a row precedes it.
Ranking(S, score) ==
    LET Better(a, b) == score[<<a[1], a[2]>>] > score[<<b[1], b[2]>>]
        rows == 1 .. Min({ArmLimit, Cardinality(S)})
    IN  {r \in [rows -> S] :
            /\ IsInjective(r)
            /\ \A i \in rows : \A c \in S : Better(c, r[i]) => \E j \in 1 .. i - 1 : r[j] = c}

\* Of the embedded chunks, those at or above the floor.
VectorHits(q) ==
    {c \in InScope : c[3] \in docs[c[1]].embedded /\ Similarity[q][<<c[1], c[2]>>] >= Floor}

TextHits(q) == {c \in InScope : TextRank[q][<<c[1], c[2]>>] > 0}

Arms == request.vectors + Len(request.queries)

\* The n-th arm: the vector arms first, and then a text arm for each phrasing.
ArmReturns(n) ==
    IF n <= request.vectors
    THEN LET q == request.queries[n] IN Ranking(VectorHits(q), Similarity[q])
    ELSE LET q == request.queries[n - request.vectors] IN Ranking(TextHits(q), TextRank[q])

RunArm ==
    /\ request.kind = "search" /\ ~request.done /\ request.candidates # {}
    /\ LET n == Len(request.rankings) + 1
       IN  /\ n <= Arms
           /\ \E ranking \in ArmReturns(n) :
                 request' = [request EXCEPT !.rankings = Append(@, ranking)]
    /\ UNCHANGED <<docs, entities, changes, requests>>

ArmsRan == request.kind = "search" /\ ~request.done /\ Len(request.rankings) = Arms

Widens == Seen(request.rankings) = {} /\ ~request.appendices /\ ~request.widened

\* The nämnd's own text is silent: once more, with what is appended to it.
Widen ==
    /\ ArmsRan /\ Widens
    /\ request' = [request EXCEPT !.rankings = <<>>, !.widened = TRUE, !.silent = TRUE]
    /\ UNCHANGED <<docs, entities, changes, requests>>

Respond ==
    /\ ArmsRan /\ ~Widens
    /\ request' = [request EXCEPT !.done = TRUE, !.hits = Hits(request.rankings)]
    /\ UNCHANGED <<docs, entities, changes, requests>>

StartListing ==
    /\ MayAsk
    /\ request' = [NoRequest EXCEPT !.kind = "listing", !.done = FALSE]
    /\ requests' = requests + 1
    /\ UNCHANGED <<docs, entities, changes>>

\* The keywords are listed as the entities of that type.
StartVocabulary(filter) ==
    /\ MayAsk
    /\ request' = [NoRequest EXCEPT !.kind = "vocabulary", !.done = FALSE, !.filter = filter]
    /\ requests' = requests + 1
    /\ UNCHANGED <<docs, entities, changes>>

\* A client pages until it has as many as the total that came with the last page.
NextPage(all) ==
    LET at == Len(request.pages) * PageLimit
    IN  [request EXCEPT !.pages = Append(@, FirstOf(SubSeq(all, at + 1, Len(all)), PageLimit)),
                        !.done = at + PageLimit >= Len(all)]

ReadPage ==
    /\ request.kind = "listing" /\ ~request.done
    /\ \E all \in Ordered(Matching(NoFilter), Newer) : request' = NextPage(all)
    /\ UNCHANGED <<docs, entities, changes, requests>>

ReadEntities ==
    /\ request.kind = "vocabulary" /\ ~request.done
    /\ \E all \in Ordered(ListEntities(request.filter), MoreCited) : request' = NextPage(all)
    /\ UNCHANGED <<docs, entities, changes, requests>>

(***************************************************************************)
(* The pipeline, as far as a reader sees it: what each step commits.       *)
(***************************************************************************)
\* What the pages a client reads are filtered and ordered by.
Moves(d, next) ==
    IF request.kind = "vocabulary" THEN next.labels # docs[d].labels
    ELSE next.parsed # docs[d].parsed \/ next.date # docs[d].date

Commits(d, next) ==
    /\ changes < MaxChanges
    /\ docs' = [docs EXCEPT ![d] = next]
    /\ changes' = changes + 1
    /\ request' = [request EXCEPT
            !.moved = @ \/ Moves(d, next),
            !.rechunked = IF next.sets # docs[d].sets THEN @ \union {d} ELSE @]
    /\ UNCHANGED requests

Parse(d) ==
    /\ ~docs[d].parsed
    /\ Commits(d, [docs[d] EXCEPT !.parsed = TRUE])
    /\ UNCHANGED entities

\* What metadata does not find, it leaves as it was.
Describe(d) ==
    /\ docs[d].parsed
    /\ \E c \in Categories \union {None}, t \in Dates \union {None} :
          Commits(d, [docs[d] EXCEPT !.category = IF c = None THEN @ ELSE c,
                                     !.date = IF t = None THEN @ ELSE t])
    /\ UNCHANGED entities

\* Every link a run found is upserted and every other one deleted.
Relinked(row, labels) == [row EXCEPT !.labels = labels]

\* Links to what the rules no longer find are dropped; the entities stay.
Extract(d) ==
    /\ docs[d].parsed
    /\ \E labels \in SUBSET Labels :
          /\ Commits(d, Relinked(docs[d], labels))
          /\ entities' = entities \union labels

\* Variant: the new chunks are added to those there are.
ChunkBeside(d) ==
    /\ docs[d].parsed
    /\ Commits(d, [docs[d] EXCEPT !.sets = @ \union {docs[d].last + 1}, !.last = @ + 1])
    /\ UNCHANGED entities

\* A run that has the decision's chunks to itself replaces all there are.
Chunk(d) ==
    /\ docs[d].parsed
    /\ Commits(d, [docs[d] EXCEPT !.sets = {docs[d].last + 1}, !.embedded = {},
                                  !.last = @ + 1, !.raced = FALSE])
    /\ UNCHANGED entities

\* The DELETE of a run does not see what another commits after it (ChunkEmbed):
\* the sets from the n-th on stay beside the new one.
ChunkRaced(d) ==
    /\ docs[d].parsed
    /\ \E n \in docs[d].sets :
          LET kept == {s \in docs[d].sets : s >= n}
          IN  Commits(d, [docs[d] EXCEPT !.sets = kept \union {docs[d].last + 1},
                                        !.embedded = @ \intersect kept,
                                        !.last = @ + 1, !.raced = TRUE])
    /\ UNCHANGED entities

\* A run embeds the sets it read that are still there.
Embed(d) ==
    /\ \E read \in SUBSET docs[d].sets \ {{}} :
          Commits(d, [docs[d] EXCEPT !.embedded = @ \union read])
    /\ UNCHANGED entities

Advance == FindCandidates \/ RunArm \/ Widen \/ Respond \/ ReadPage \/ ReadEntities

Pipeline ==
    \E d \in Docs :
        Parse(d) \/ Describe(d) \/ Extract(d) \/ Chunk(d) \/ ChunkRaced(d) \/ Embed(d)

Next ==
    \/ \E q \in Queries, extra \in Variants, f \in Filters, appendices \in BOOLEAN :
          StartSearch(q, extra, f, appendices)
    \/ StartListing
    \/ \E f \in EntityTypes : StartVocabulary(f)
    \/ Advance
    \/ Pipeline

Spec == Init /\ [][Next]_vars

(***************************************************************************)
(* Properties.                                                             *)
(***************************************************************************)
Passages == Docs \X Sections \X Nat

Documents ==
    [parsed : BOOLEAN, category : Categories \union {None}, date : Dates \union {None},
     labels : SUBSET Labels, sets : SUBSET Nat, embedded : SUBSET Nat, last : Nat,
     raced : BOOLEAN]

RequestRecords ==
    [kind : {"none", "search", "listing", "vocabulary"}, done : BOOLEAN,
     queries : Seq(Phrasings), vectors : Nat, filter : Filters, appendices : BOOLEAN,
     matched : SUBSET Docs, candidates : SUBSET Docs, widened : BOOLEAN, rankings : Seq(Seq(Passages)), silent : BOOLEAN,
     hits : Seq([doc : Docs, chunks : Seq(Passages)]), pages : Seq(Seq(Docs \union Labels)),
     moved : BOOLEAN, rechunked : SUBSET Docs]

TypeOK ==
    /\ docs \in [Docs -> Documents]
    /\ entities \subseteq Labels
    /\ changes \in Nat
    /\ request \in RequestRecords
    /\ requests \in Nat

Answered == request.kind = "search" /\ request.done

\* A decision in the answer met the filter when the filter was applied, whatever
\* the pipeline did since and however little the filter left.
FilterIsKept == \A i \in DOMAIN request.hits : request.hits[i].doc \in request.matched

\* Words of the appealed decision answer only a caller who asked for them, or one
\* to whom no arm had anything in the nämnd's own.
AppendixWhenBodyIsSilent ==
    \A i \in DOMAIN request.hits : \A j \in DOMAIN request.hits[i].chunks :
        request.hits[i].chunks[j][2] = "appendix" => request.appendices \/ request.silent

\* An answer is of the decisions, and of the parts of them, that were asked for.
AnswersAreInScope == Answered => FilterIsKept /\ AppendixWhenBodyIsSilent

\* Whichever arm found b found a, and found it first.
Beats(a, b) ==
    LET rankings == request.rankings
        holding == {i \in DOMAIN rankings : b \in ToSet(rankings[i])}
    IN  /\ holding # {}
        /\ \A i \in holding : a \in ToSet(rankings[i])
                              /\ RankIn(rankings[i], a) < RankIn(rankings[i], b)

\* What reciprocal rank fusion (rrf.py) and grouping by decision promise: no passage
\* is listed after one it beats, and no decision after one each of whose passages a
\* single passage of its own beats.
FusionIsFair ==
    Answered => \A i, j \in DOMAIN request.hits :
        /\ \A m, n \in DOMAIN request.hits[i].chunks :
              m < n => ~Beats(request.hits[i].chunks[n], request.hits[i].chunks[m])
        /\ j < i => ~\E a \in ToSet(request.hits[i].chunks) :
                          \A b \in ToSet(request.hits[j].chunks) : Beats(a, b)

\* The arms of a search (search_service.py:208) are statements of their own: the
\* passages of one decision are of one chunking, unless it was chunked again between
\* the statements of this search, or its last two chunk runs were at it together.
OneChunkingEach ==
    Answered => \A i \in DOMAIN request.hits :
        \/ Cardinality({c[3] : c \in ToSet(request.hits[i].chunks)}) = 1
        \/ request.hits[i].doc \in request.rechunked
        \/ docs[request.hits[i].doc].raced

\* Read one after another, the pages hold each of S once.
Partition(S) ==
    LET all == FlattenSeq(request.pages)
    IN  IsInjective(all) /\ ToSet(all) = S

\* The pages of a listing (repositories/search.py:118), asked for one after another,
\* hold every decision once, while none is parsed or redated meanwhile.
PagesPartition ==
    request.kind = "listing" /\ request.done /\ ~request.moved => Partition(Matching(NoFilter))

\* No two entities have one name and as many decisions.
Untied(S) == \A e, f \in S : e = f \/ MoreCited(e, f) \/ MoreCited(f, e)

\* The pages of the vocabulary (repositories/entity.py:73) hold every entity of a
\* type once, and those of all types where no two tie, while no decision is tagged
\* anew: the counts they are ordered by are those of the decisions' tags.
VocabularyPagesPartition ==
    /\ request.kind = "vocabulary" /\ request.done /\ ~request.moved
    /\ request.filter # NoFilter \/ Untied(ListEntities(NoFilter))
    => Partition(ListEntities(request.filter))
=============================================================================
