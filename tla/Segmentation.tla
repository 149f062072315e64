---------------------------- MODULE Segmentation ----------------------------
(***************************************************************************)
(* How the text of one published PDF is cut into the namnd's own decision  *)
(* and the decision it reviews (shared.segmentation), and what is read off *)
(* the pieces without a model (worker_metadata.patterns).                  *)
(*                                                                         *)
(* A text is a sequence of lines.  A line has a kind, which says which     *)
(* anchor its first words match, and the words after it:                   *)
(*   header, date      the two lines every decision opens with             *)
(*   heading           "Overklagandenamndens beslut:"                      *)
(*   subject, matter, number   "Sokord:", "Arendenummer:", "Beslut:"       *)
(*   label             a line that is only "Bilaga X"                      *)
(*   rule, blank       a run of dots or dashes; nothing                    *)
(*   prose             any other line                                      *)
(* A word is a tuple that stands for what the patterns read as one thing:  *)
(* <<"id", form, year, n>> is a number as it is spelled, "year/n" with a   *)
(* short n (YN), padded to four digits (YNNN), or "n/year" (NY); <<".">>   *)
(* is a full stop, <<"run", n>> n words no pattern knows.                  *)
(***************************************************************************)
EXTENDS Naturals, FiniteSets, Sequences, SequencesExt, FiniteSetsExt

CONSTANTS None, SummaryTail   \* how many lines of the end may tell the outcome

IsId(w) == w[1] = "id"

\* The two registries: canonical forms are disjoint.
CaseNumber(id) == <<"case", id[3], id[4]>>
DecisionNumber(id) == <<"decision", id[3], id[4]>>

\* The first number among the words that has one of the forms.
FirstId(words, forms) ==
    LET at == {i \in DOMAIN words : IsId(words[i]) /\ words[i][2] \in forms}
    IN  IF at = {} THEN None ELSE words[Min(at)]

CaseForms == {"YN", "YNNN"}

NormalizeCase(words) ==
    LET id == FirstId(words, CaseForms)
    IN  IF id = None THEN None ELSE CaseNumber(id)

NormalizeDecision(words) ==
    LET id == FirstId(words, {"NY"})
    IN  IF id = None THEN None ELSE DecisionNumber(id)

\* After the word "beslut" the year may come first.
NormalizeCited(id) == IF id[2] \in {"NY", "YN"} THEN DecisionNumber(id) ELSE None

(***************************************************************************)
(* Cutting the document.                                                   *)
(***************************************************************************)
TrailerFields == {"subject", "matter", "number"}

LinesOf(text, kinds) == {i \in DOMAIN text : text[i].kind \in kinds}

AppendixStart(text) == Min(LinesOf(text, {"label"}) \union {Len(text) + 1})

\* The n-th smallest of a set of places, and what a sequence has at the set.
Nth(places, n) == CHOOSE i \in places : Cardinality({j \in places : j <= i}) = n

Picked(seq, places) == [n \in 1 .. Cardinality(places) |-> seq[Nth(places, n)]]

\* Each appendix runs from its label to the next one, or to the end.
SplitAppendices(text) ==
    LET labels == LinesOf(text, {"label"})
        count == Cardinality(labels)
    IN  [k \in 1 .. count |->
            SubSeq(text, Nth(labels, k) + 1,
                   IF k = count THEN Len(text) ELSE Nth(labels, k + 1) - 1)]

\* Variant: the trailer opens with its subject line where it has one.
FindTrailerStartBySubject(text) ==
    LET own(kinds) == {i \in LinesOf(text, kinds) : i < AppendixStart(text)}
    IN  IF own({"subject"}) # {} THEN Min(own({"subject"}))
        ELSE Min(own({"matter"}) \union {AppendixStart(text)})

\* The earliest of the two labels before the first appendix.
FindTrailerStart(text) ==
    Min({i \in LinesOf(text, {"subject", "matter"}) : i < AppendixStart(text)}
        \union {AppendixStart(text)})

Stripped(lines) ==
    LET kept == DOMAIN lines \ LinesOf(lines, {"blank"})
    IN  IF kept = {} THEN <<>> ELSE SubSeq(lines, Min(kept), Max(kept))

FindHolding(body) ==
    LET headings == LinesOf(body, {"heading"})
        rest == IF headings = {} THEN <<>>
                ELSE [SubSeq(body, Min(headings), Len(body)) EXCEPT ![1].kind = "prose"]
    IN  IF headings = {} \/ \A i \in DOMAIN rest : rest[i].words = <<>> THEN None
        ELSE rest

StripRuleLines(lines) == Stripped(Picked(lines, DOMAIN lines \ LinesOf(lines, {"rule"})))

SplitDocument(text) ==
    LET start == FindTrailerStart(text)
        body == Stripped(SubSeq(text, 1, start - 1))
    IN  [body |-> body,
         holding |-> FindHolding(body),
         trailer |-> StripRuleLines(SubSeq(text, start, AppendixStart(text) - 1)),
         appendices |-> SplitAppendices(text)]

(***************************************************************************)
(* Reading the trailer.  A value that was wrapped is folded back into its  *)
(* field; a label that comes twice keeps its last value.                   *)
(***************************************************************************)
IsContinuation(line) == line.kind \notin {"blank", "rule"} \union TrailerFields

FieldValue(trailer, field) ==
    LET at == LinesOf(trailer, {field})
        first == Max(at)
        last == Max({j \in first .. Len(trailer) :
                        \A k \in first + 1 .. j : IsContinuation(trailer[k])})
    IN  IF at = {} THEN None
        ELSE FlattenSeq([k \in 1 .. last - first + 1 |-> trailer[first + k - 1].words])

\* The pieces of the subject line between its stops.
ParseKeywords(trailer) ==
    LET value == FieldValue(trailer, "subject")
        stops == {i \in DOMAIN value : value[i] = <<".">>} \union {0, Len(value) + 1}
        next(i) == Min({j \in stops : j > i})
    IN  IF value = None THEN {}
        ELSE {SubSeq(value, i + 1, next(i) - 1) : i \in stops \ {Len(value) + 1}} \ {<<>>}

(***************************************************************************)
(* What metadata reads off the pieces.                                     *)
(***************************************************************************)
\* The trailer first, the labelled line of the body next, never an appendix.
FromTrailerOrBody(segments, field) ==
    LET normalize(words) == IF field = "matter" THEN NormalizeCase(words)
                            ELSE NormalizeDecision(words)
        value == FieldValue(segments.trailer, field)
        inTrailer == IF value = None THEN None ELSE normalize(value)
        inBody == LinesOf(segments.body, {field})
    IN  IF inTrailer # None THEN inTrailer
        ELSE IF inBody # {} THEN normalize(segments.body[Min(inBody)].words)
        ELSE None

ExtractCaseNumber(segments) == FromTrailerOrBody(segments, "matter")

\* The listing writes "Beslut 2026-23  Avskrivning": the number, then a title.
ParseHeadline(headline) ==
    LET shaped == /\ headline # None
                  /\ Len(headline) > 2
                  /\ headline[1] = <<"beslut">>
                  /\ IsId(headline[2]) /\ headline[2][2] = "YN"
    IN  IF shaped THEN [decision |-> DecisionNumber(headline[2]),
                        title |-> SubSeq(headline, 3, Len(headline))]
        ELSE [decision |-> None, title |-> None]

\* The document itself is believed first.
ExtractDecisionNumber(segments, headline) ==
    LET inDocument == FromTrailerOrBody(segments, "number")
    IN  IF inDocument # None THEN inDocument ELSE ParseHeadline(headline).decision

\* A date that is none is no date.
ExtractDate(segments) ==
    LET dates == LinesOf(segments.body, {"date"})
    IN  IF dates = {} \/ segments.body[Min(dates)].words = <<<<"bad">>>> THEN None
        ELSE segments.body[Min(dates)].words

\* The words that rule on an appeal, in the order they are looked for.
OutcomeKeywords == <<<<"grants">>, <<"rejects">>, <<"dismisses">>>>

\* The holding; or the first line near the end with the first of the words
\* that stands there at all.
ExtractOutcome(segments) ==
    LET body == segments.body
        rulings(k) == {i \in DOMAIN body : /\ i + SummaryTail > Len(body)
                                           /\ OutcomeKeywords[k] \in Range(body[i].words)}
        said == {k \in DOMAIN OutcomeKeywords : rulings(k) # {}}
    IN  IF segments.holding # None
        THEN FlattenSeq([i \in DOMAIN segments.holding |-> segments.holding[i].words])
        ELSE IF said # {} THEN body[Min(rulings(Min(said)))].words
        ELSE None

CategoryOffset == 2
HeaderSearchLines == 10

ExtractCategory(segments, headline) ==
    LET body == segments.body
        lines == IF Len(body) < HeaderSearchLines THEN Len(body) ELSE HeaderSearchLines
        named == {i \in LinesOf(body, {"header"}) :
                    /\ i + CategoryOffset <= lines
                    /\ body[i + CategoryOffset].words # <<>>}
    IN  IF named # {} THEN body[Min(named) + CategoryOffset].words
        ELSE ParseHeadline(headline).title

ExtractMetadata(text, headline) ==
    LET segments == SplitDocument(text)
    IN  [case |-> ExtractCaseNumber(segments),
         decision |-> ExtractDecisionNumber(segments, headline),
         date |-> ExtractDate(segments),
         outcome |-> ExtractOutcome(segments),
         category |-> ExtractCategory(segments, headline)]

\* The fields worth asking a model for.
AskedFields == {"case", "date", "outcome", "category"}

IsComplete(result) == \A f \in AskedFields : result[f] # None

\* Variant: an answer is scanned for a number, as a trailer line is.
IsBareIdentifierScan(words) == TRUE

\* What is in an answer besides the namnd's own markers and a number came
\* from another registry.
IsBareIdentifier(words) == \A i \in DOMAIN words : IsId(words[i]) \/ words[i] = <<"ON">>

CanonicalizeAnswer(answer) ==
    [answer EXCEPT !.case = IF @ = None \/ ~IsBareIdentifier(@) THEN None
                            ELSE NormalizeCase(@)]
=============================================================================
