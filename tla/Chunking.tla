------------------------------ MODULE Chunking ------------------------------
(***************************************************************************)
(* Cutting a decision's segments into passages for the embedding model     *)
(* (worker_chunk) by the budget the model's window leaves (ai.tokenization,*)
(* worker_chunk.budget).  A sentence is a sequence of words; its tokens    *)
(* are its words, and count_tokens of a text is the sum over its words:    *)
(* what a tokenizer merges across a boundary is the safety margin's.       *)
(***************************************************************************)
EXTENDS Extraction

CONSTANTS
    SpecialTokens,   \* SPECIAL_TOKEN_COUNT
    PrefixTokens, SeparatorTokens,
    SummaryReserve,  \* SUMMARY_RESERVE_TOKENS
    SafetyMargin,    \* SAFETY_MARGIN_TOKENS
    OverlapShare,    \* 1 / OVERLAP_FRACTION
    SentinelFloor    \* MODEL_MAX_LENGTH_SENTINEL_FLOOR

(***************************************************************************)
(* The budget.                                                             *)
(***************************************************************************)
FixedOverhead ==
    SpecialTokens + PrefixTokens + SeparatorTokens + SummaryReserve + SafetyMargin

\* The worker starts only on a window that leaves room for text.
VerifyWindow(window) == FixedOverhead < window /\ window < SentinelFloor

\* Variant: the summary that stands before every passage costs nothing.
ComputeBudgetUnreserved(window) ==
    LET max == window - (FixedOverhead - SummaryReserve)
    IN  [max |-> max, overlap |-> max \div OverlapShare, summary |-> SummaryReserve]

ComputeBudget(window) ==
    LET max == window - FixedOverhead
    IN  [max |-> max, overlap |-> max \div OverlapShare, summary |-> SummaryReserve]

(***************************************************************************)
(* Sentences end at a stop or at an empty line.                            *)
(***************************************************************************)
CloseSentence(scan) ==
    IF scan.open = <<>> THEN scan
    ELSE [done |-> Append(scan.done, scan.open), open |-> <<>>]

TakeWord(scan, w) ==
    LET longer == [scan EXCEPT !.open = Append(@, w)]
    IN  IF w = <<"gap">> THEN CloseSentence(scan)
        ELSE IF w = <<".">> THEN CloseSentence(longer)
        ELSE longer

TakeWords(words) ==
    LET scan[n \in 0 .. Len(words)] ==
            IF n = 0 THEN [done |-> <<>>, open |-> <<>>] ELSE TakeWord(scan[n - 1], words[n])
    IN  scan[Len(words)]

SplitSentences(words) == CloseSentence(TakeWords(words)).done

Tokens(sentences) == Size(FlattenSeq(sentences))

\* The longest tail of the sentences that the overlap has room for.
ComputeOverlap(sentences, overlap) ==
    LET fits == {i \in 1 .. Len(sentences) + 1 :
                    Tokens(SubSeq(sentences, i, Len(sentences))) <= overlap}
    IN  SubSeq(sentences, Min(fits), Len(sentences))

\* One turn of the loop: a sentence that does not fit closes the chunk.
TakeSentence(loop, sentence, budget) ==
    LET full == /\ Tokens(loop.current) + Size(sentence) > budget.max
                /\ loop.current # <<>>
        chunks == IF full THEN Append(loop.chunks, loop.current) ELSE loop.chunks
        current == IF full THEN ComputeOverlap(loop.current, budget.overlap)
                   ELSE loop.current
    IN  IF Size(sentence) > budget.max /\ current = <<>>
        THEN [chunks |-> Append(chunks, <<sentence>>), current |-> <<>>]
        ELSE [chunks |-> chunks, current |-> Append(current, sentence)]

TakeSentences(sentences, budget) ==
    LET loop[n \in 0 .. Len(sentences)] ==
            IF n = 0 THEN [chunks |-> <<>>, current |-> <<>>]
            ELSE TakeSentence(loop[n - 1], sentences[n], budget)
    IN  loop[Len(sentences)]

\* A chunk is the sequence of its sentences.
SplitIntoChunks(words, budget) ==
    LET end == TakeSentences(SplitSentences(words), budget)
    IN  IF end.current = <<>> THEN end.chunks ELSE Append(end.chunks, end.current)

\* Each segment on its own, the trailer not at all.
SplitDocumentIntoChunks(segments, budget) ==
    LET of(lines, section) ==
            LET made == SplitIntoChunks(Words(lines), budget)
            IN  [i \in DOMAIN made |-> [sentences |-> made[i], section |-> section]]
        appended == [k \in DOMAIN segments.appendices |->
                        of(segments.appendices[k], k)]
    IN  of(segments.body, 0) \o FlattenSeq(appended)

(***************************************************************************)
(* The summary, cut at a sentence, or at a word of its first one.          *)
(***************************************************************************)
LongestPrefix(words, max) ==
    SubSeq(words, 1, Max({i \in 0 .. Len(words) : Size(SubSeq(words, 1, i)) <= max}))

TruncateSummary(words, max) ==
    LET sentences == SplitSentences(words)
        kept == Max({i \in 0 .. Len(sentences) : Tokens(SubSeq(sentences, 1, i)) <= max})
    IN  IF Size(words) <= max THEN words
        ELSE IF kept > 0 THEN FlattenSeq(SubSeq(sentences, 1, kept))
        ELSE LongestPrefix(words, max)

\* What is embedded: prefix, summary, separator and chunk in the model's own
\* wrapping.
PassageTokens(summary, chunk) ==
    SpecialTokens + PrefixTokens + Size(summary) + SeparatorTokens + Tokens(chunk.sentences)
=============================================================================
