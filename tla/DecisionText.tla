---------------------------- MODULE DecisionText ----------------------------
(***************************************************************************)
(* One decision from the page to the tables: the namnd writes it, a line   *)
(* at a time, with the decision it reviews appended, and the pipeline      *)
(* parses, describes, extracts and chunks what was published.              *)
(*                                                                         *)
(* Each line remembers the part it was written as and the decisions its    *)
(* author meant to cite by it; the pipeline sees neither, and the          *)
(* properties compare what it stores with them.                            *)
(***************************************************************************)
EXTENDS Chunking

CONSTANT Templates    \* ways of writing a decision and what the pipeline meets on it

(***************************************************************************)
(* A template has the opening lines (head), the other lines for each part  *)
(* (lines), how many of them at most (most), the lines a page may end      *)
(* after (pages); what the listing said, None among it (headlines), what a *)
(* model reads off the body, None for a failure (answers), what it finds   *)
(* there (findings), the strategies, the windows the tokenizer reports and *)
(* the summaries a model writes.                                           *)
(***************************************************************************)
Parts == <<"head", "reasons", "holding", "trailer", "appendix">>

LineKinds == {"header", "date", "heading", "label", "rule", "blank", "prose"} \union TrailerFields
ProseKinds == {"header", "date", "prose"}

\* Pages are joined by a rule between empty lines.
PageBreak ==
    LET line(kind) == [kind |-> kind, words |-> <<>>, part |-> "page", cites |-> {}]
    IN  <<line("blank"), line("rule"), line("blank")>>

Pieces == {"reasons", "holding", "trailer", "appendix"}

LinesGiven(t) ==
    Range(Templates[t].head) \union UNION {Templates[t].lines[p] : p \in Pieces}

\* A line, whose lengths and sections are numbers and which is empty if it
\* should be.
IsLine(l, where, kinds) ==
    /\ l = [kind |-> l.kind, words |-> l.words, part |-> where, cites |-> l.cites]
    /\ l.kind \in kinds
    /\ l.words \in Seq(Range(l.words))
    /\ l.kind \in {"blank", "rule"} => l.words = <<>>
    /\ \A w \in Range(l.words) :
          /\ w[1] = "run" => w[2] \in Nat
          /\ w[1] = "provision" => /\ w[3] \in Nat /\ w[4] \in Nat
                                   /\ w[3] = 0 => w[4] = 0

\* No list of numbers goes on from one line to the next.
StandsAlone(words) ==
    words # <<>> =>
        /\ words[1] \notin ListSeparators
        /\ words[Len(words)] \notin ListSeparators \union {<<"ON">>, <<"beslut">>}

CitesNothing(words) == CitedCases(words) \union CitedDecisions(words) = {}
NamesNoProvision(l) == \A w \in Range(l.words) : w[1] # "provision"

\* What is written: a trailer's labelled lines have a number each, and one line
\* alone cites what its author means by it.
ASSUME LinesAssumption ==
    \A t \in DOMAIN Templates :
        LET head == Templates[t].head
            lines == Templates[t].lines
        IN  /\ head \in Seq(Range(head)) \ {<<>>}
            /\ \A l \in Range(head) : IsLine(l, "head", ProseKinds)
            /\ \A l \in lines["reasons"] : IsLine(l, "reasons", ProseKinds)
            /\ \A l \in lines["holding"] : IsLine(l, "holding", ProseKinds \union {"heading"})
            /\ \A l \in lines["trailer"] : IsLine(l, "trailer", TrailerFields \union {"prose", "rule"})
            /\ \A l \in lines["appendix"] : IsLine(l, "appendix", LineKinds)
            /\ \A l \in Range(head) \union lines["reasons"] \union lines["holding"] :
                  /\ StandsAlone(l.words)
                  /\ l.cites = CitedCases(l.words) \union CitedDecisions(l.words)
            /\ \A l \in lines["trailer"] :
                  /\ NamesNoProvision(l)
                  /\ l.kind = "matter" => NormalizeCase(l.words) # None
                  /\ l.kind = "number" => /\ NormalizeDecision(l.words) # None
                                          /\ StandsAlone(l.words) /\ CitesNothing(l.words)
            /\ \A l \in lines["appendix"] : l.kind = "label" => NamesNoProvision(l)

\* None is no number and no text.
ASSUME NoneAssumption ==
    \A t \in DOMAIN Templates :
        LET lines == LinesGiven(t) \union Range(PageBreak)
        IN  /\ None \notin Seq(UNION {Range(l.words) : l \in lines})
            /\ None \notin Seq(lines \union {[l EXCEPT !.kind = "prose"] : l \in lines})

\* The listing may say anything, and so may the model, field by field.
ASSUME MeetingAssumption ==
    \A t \in DOMAIN Templates :
        /\ \A a \in Templates[t].answers \ {None} :
              /\ DOMAIN a = AskedFields \union {"decision"}
              /\ a.case # None => a.case \in Seq(Range(a.case))
        /\ Templates[t].strategies \subseteq {"rules", "model", "fallback"}
        /\ Templates[t].windows \subseteq Nat
        /\ \A s \in Templates[t].summaries :
              /\ s \in Seq(Range(s))
              /\ \A w \in Range(s) : w[1] = "run" => w[2] \in Nat

ASSUME BoundsAssumption ==
    /\ {MaxExpandedSections, SummaryTail, SpecialTokens, PrefixTokens, SeparatorTokens, SummaryReserve,
        SafetyMargin} \subseteq Nat
    /\ OverlapShare \in Nat \ {0}

VARIABLES
    template,   \* how the decision is being written
    text,       \* its lines
    part,       \* the part the last line belongs to
    step,       \* the pipeline step that ran last, or "draft"
    heard,      \* what the listing and the model said when it was described
    columns,    \* the metadata columns
    links,      \* the entities and references of the decision
    passages    \* its summary and chunks, and the budget they were made by

vars == <<template, text, part, step, heard, columns, links, passages>>

Given == Templates[template]

NoColumns == [f \in AskedFields \union {"decision"} |-> None]
NoLinks == [entities |-> {}, references |-> {}, strategy |-> None]
NoPassages == [summary |-> <<>>, chunks |-> <<>>, budget |-> None, window |-> 0]

Init ==
    /\ template \in DOMAIN Templates
    /\ text = Templates[template].head
    /\ part = 1
    /\ step = "draft"
    /\ heard = [headline |-> None, answer |-> None]
    /\ columns = NoColumns
    /\ links = NoLinks
    /\ passages = NoPassages

(***************************************************************************)
(* Writing.  Parts come in order, a holding opens with its heading and an  *)
(* appendix with its label; a trailer has each field once.                 *)
(***************************************************************************)
WrittenIn(p) == {i \in DOMAIN text : text[i].part = p}

Fits(p, line) ==
    LET here == WrittenIn(Parts[p])
        last == text[Len(text)]
    IN  /\ Cardinality(here) < Given.most[Parts[p]]
        /\ Parts[p] = "holding" => (here = {} <=> line.kind = "heading")
        /\ Parts[p] = "appendix" /\ here = {} => line.kind = "label"
        /\ Parts[p] = "trailer" =>
              /\ here = {} => line.kind \in TrailerFields
              /\ line.kind = "prose" => last.kind = "subject"
              /\ line.kind # "prose" => ~\E i \in here : text[i].kind = line.kind

Write ==
    /\ step = "draft"
    /\ \E p \in 2 .. Len(Parts) :
          \E line \in Given.lines[Parts[p]] :
             /\ p >= part
             /\ Fits(p, line)
             /\ text' = Append(text, line)
             /\ part' = p
    /\ UNCHANGED <<template, step, heard, columns, links, passages>>

(***************************************************************************)
(* The pipeline.                                                           *)
(***************************************************************************)
JoinPages(lines, at) ==
    IF at = Len(lines) THEN lines
    ELSE SubSeq(lines, 1, at) \o PageBreak \o SubSeq(lines, at + 1, Len(lines))

Parse ==
    /\ step = "draft"
    /\ \E at \in Len(Given.head) .. Len(text) :
          /\ at < Len(text) => at \in Given.pages
          /\ text' = JoinPages(text, at)
    /\ step' = "parsed"
    /\ UNCHANGED <<template, part, heard, columns, links, passages>>

\* A date the model made up is no date.
ReadAnswer(answer) == [answer EXCEPT !.date = IF @ = <<<<"bad">>>> THEN None ELSE @]

\* A model is asked when the rules left a field open, and fills open fields.
Completed(result, answer) ==
    IF IsComplete(result) \/ answer = None THEN result
    ELSE [f \in DOMAIN result |->
            IF f \in AskedFields /\ result[f] = None THEN CanonicalizeAnswer(ReadAnswer(answer))[f]
            ELSE result[f]]

Describe ==
    /\ step = "parsed"
    /\ \E headline \in Given.headlines, answer \in Given.answers :
          /\ columns' = Completed(ExtractMetadata(text, headline), answer)
          /\ heard' = [headline |-> headline, answer |-> answer]
    /\ step' = "described"
    /\ UNCHANGED <<template, text, part, links, passages>>

OwnIdentifiers == {columns.case, columns.decision} \ {None}

\* The rules alone; the model where the rules find too little, which is the
\* rules alone where no model is configured; the model alone, which refuses to
\* start without one.
Extracted(strategy, segments, finding) ==
    LET rules == ExtractRuleBased(segments)
    IN  CASE strategy = "rules" -> rules
          [] strategy = "model" -> finding
          [] strategy = "fallback" ->
                IF IsResultComplete(rules.entities, segments) THEN rules
                ELSE MergeResults(rules, finding)

Extract ==
    /\ step = "described"
    /\ \E strategy \in Given.strategies, finding \in Given.findings :
          LET segments == SplitDocument(text)
              found == Extracted(strategy, segments, finding)
          IN  links' = [entities |-> DeduplicateEntities(Inferred(found.entities)
                                        \union DeclaredKeywords(segments.trailer)),
                        references |-> found.references \ OwnIdentifiers,
                        strategy |-> strategy]
    /\ step' = "extracted"
    /\ UNCHANGED <<template, text, part, heard, columns, passages>>

Chunk ==
    /\ step = "extracted"
    /\ \E window \in Given.windows, summary \in Given.summaries :
          /\ VerifyWindow(window)
          /\ LET budget == ComputeBudget(window)
             IN  passages' = [summary |-> TruncateSummary(summary, budget.summary),
                              chunks |-> SplitDocumentIntoChunks(SplitDocument(text), budget),
                              budget |-> budget, window |-> window]
    /\ step' = "chunked"
    /\ UNCHANGED <<template, text, part, heard, columns, links>>

Next == Write \/ Parse \/ Describe \/ Extract \/ Chunk

Spec == Init /\ [][Next]_vars

(***************************************************************************)
(* Correctness.                                                            *)
(***************************************************************************)
LinesIn(parts) == {text[i] : i \in {i \in DOMAIN text : text[i].part \in parts}}
WordsIn(parts) == UNION {Range(l.words) : l \in LinesIn(parts)}

NamndsOwn == {"head", "reasons", "holding", "trailer"}
Foreign == WordsIn({"appendix"}) \ WordsIn(NamndsOwn)

Described == step \in {"described", "extracted", "chunked"}

\* A decision is filed under what its trailer states, in whatever order the
\* trailer has its fields, wherever a page ends, whatever fields the appended
\* decision has and whatever the listing and the model say.  Where the trailer
\* states no number, the case number is one the model answered, with no mark of
\* another registry beside it ("a plausible wrong identifier is worse than a
\* missing one", patterns.canonicalize_identifiers), and the decision number is
\* the listing's.  No word that only the appended decision has gets into a
\* column, unless the listing or the model said it.
IdentityIsAsStated ==
    LET stated(kind) == {l \in LinesIn({"trailer"}) : l.kind = kind}
        answer == heard.answer
        listed == ParseHeadline(heard.headline)
    IN  Described =>
        /\ \A l \in stated("matter") : columns.case = NormalizeCase(l.words)
        /\ \A l \in stated("number") : columns.decision = NormalizeDecision(l.words)
        /\ stated("matter") = {} /\ columns.case # None =>
              /\ answer # None
              /\ \A w \in Range(answer.case) : IsId(w) \/ w = <<"ON">>
              /\ \E w \in Range(answer.case) : IsId(w) /\ columns.case = CaseNumber(w)
        /\ stated("number") = {} => columns.decision = listed.decision
        /\ \A f \in {"date", "outcome", "category"} :
              \/ columns[f] = None
              \/ Range(columns[f]) \intersect Foreign = {}
              \/ f = "category" /\ columns[f] = listed.title
              \/ answer # None /\ columns[f] = answer[f]

\* The rules find every citation the namnd makes, in lists, in either registry
\* and in either spelling, and no other: not its own numbers, not what the
\* appended decision cites, no fraction and no date (rule_based.py:6-9,
\* segmentation._find_trailer_start).
CitationsAreTheNamnds ==
    LET cited == UNION {l.cites : l \in LinesIn({"head", "reasons", "holding"})}
    IN  step \in {"extracted", "chunked"} =>
            /\ links.strategy = "rules" => links.references = cited \ OwnIdentifiers
            /\ links.strategy = "fallback" => cited \ OwnIdentifiers \subseteq links.references

Provisions(words) == {w \in words : w[1] = "provision"}

\* The subject line, with what was wrapped under it on the same page.
DeclaredWords ==
    LET at == {i \in DOMAIN text : text[i].part = "trailer" /\ text[i].kind = "subject"}
        wrapped == {i \in DOMAIN text : /\ text[i].part = "trailer"
                                        /\ text[i].kind = "prose"
                                        /\ text[i - 1].kind = "subject"}
    IN  (UNION {Range(text[i].words) : i \in at \union wrapped}) \ {<<".">>}

\* Joining ranges, sections and chapters loses no section that was cited, only
\* the holding makes an entity primary, every section it names is, and the
\* keywords are the subject line's whatever the model found (rule_based.py:6-12
\* and 386-400, extraction_service.py:72-76).
EntitiesAreGrounded ==
    LET name(type) == {e.name : e \in {e \in links.entities : e.name[1] = type}}
        covers(e, chapter, s) == e[2] = chapter /\ e[3] <= s /\ s <= e[4]
        held == Provisions(WordsIn({"holding"}))
    IN  step \in {"extracted", "chunked"} =>
        /\ UNION {Range(k[2]) : k \in name("keyword")} = DeclaredWords
        /\ links.strategy # "model" =>
              /\ \A w \in Provisions(WordsIn(NamndsOwn \union {"appendix"})) :
                    IF w[3] = 0 THEN \E e \in name("regulation") : e[2] = w[2]
                    ELSE \A s \in w[3] .. w[4] :
                            \E e \in name("regulation") :
                                /\ covers(e, w[2], s)
                                /\ w[4] - w[3] < MaxExpandedSections => e[3] = e[4]
              /\ \A w \in held : w[3] > 0 /\ w[4] - w[3] < MaxExpandedSections =>
                    \A s \in w[3] .. w[4] :
                        [name |-> Regulation(w[2], s, s), relevance |-> "PRIMARY"]
                            \in links.entities
        /\ links.strategy = "rules" =>
              \A e \in links.entities :
                  e.name[1] = "regulation" /\ e.relevance = "PRIMARY" =>
                      \E w \in held : w[2] = e.name[2] /\ w[3] <= e.name[3]
                                     /\ e.name[4] <= w[4]

\* The sentences a chunk adds to the chunk before it.
Added(chunks, i) ==
    LET before == chunks[i - 1].sentences
        now == chunks[i].sentences
        repeats == {k \in 0 .. Min({Len(before), Len(now)}) :
                      /\ SubSeq(now, 1, k) = SubSeq(before, Len(before) - k + 1, Len(before))
                      /\ Tokens(SubSeq(now, 1, k)) <= passages.budget.overlap}
    IN  IF i = 1 THEN now ELSE SubSeq(now, Max(repeats) + 1, Len(now))

\* What lies between the first and the last of the places.
Stretch(s, places) == IF places = {} THEN <<>> ELSE SubSeq(s, Min(places), Max(places))

\* The lines of a section: the namnd's text, or what follows its k-th label.
SectionLines(k) ==
    LET opens(i) == \/ text[i].part = "trailer" /\ text[i].kind \in {"subject", "matter"}
                    \/ text[i].part = "appendix"
        labels(i) == Cardinality({j \in 1 .. i : text[j].kind = "label"})
        own == {i \in DOMAIN text : IF k = 0 THEN \A j \in 1 .. i : ~opens(j)
                                    ELSE labels(i) = k /\ text[i].kind # "label"}
    IN  Stretch(text, own)

\* The chunks of the namnd's text and of each appendix hold all its sentences,
\* in order, none of another section.  What a chunk adds fits the budget unless
\* it is one sentence longer than that; so with the summary, cut to its reserve,
\* a passage stays within the model's window, less the margin, but for the
\* overlap, and that only where it adds one sentence
\* (chunker.split_document_into_chunks, truncate_summary, budget.py).
ChunksCoverTheText ==
    step = "chunked" =>
        /\ Size(passages.summary) <= SummaryReserve
        /\ \A k \in 0 .. Cardinality({i \in DOMAIN text : text[i].kind = "label"}) :
              LET at == {i \in DOMAIN passages.chunks : passages.chunks[i].section = k}
                  chunks == Stretch(passages.chunks, at)
              IN  /\ FlattenSeq([i \in DOMAIN chunks |-> Added(chunks, i)])
                        = SplitSentences(Words(SectionLines(k)))
                  /\ \A i \in DOMAIN chunks :
                        LET new == Added(chunks, i)
                        IN  \/ Len(new) = 1 /\ Tokens(new) > passages.budget.max
                            \/ /\ Tokens(new) <= passages.budget.max
                               /\ PassageTokens(passages.summary, chunks[i]) + SafetyMargin
                                     <= passages.window
                                        + IF Len(new) = 1 THEN passages.budget.overlap ELSE 0

\* "Split text into overlapping chunks of at most `max_tokens`" (chunker.py:74),
\* where only "a sentence longer than the whole budget" is let through
\* (service.py:102).
ChunksFit ==
    step = "chunked" =>
        \A i \in DOMAIN passages.chunks :
            LET sentences == passages.chunks[i].sentences
            IN  \/ Tokens(sentences) <= passages.budget.max
                \/ \E s \in Range(sentences) : Size(s) > passages.budget.max
=============================================================================
